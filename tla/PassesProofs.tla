---------------------------- MODULE PassesProofs ----------------------------
(***************************************************************************)
(* For every control-flow graph, every statement and every width of an     *)
(* int: the passes keep what a body does (SameBehaviour) and what the      *)
(* validator accepts (ValidStaysValid), and leave no useless store when    *)
(* they end by themselves (UselessStoresGo).                               *)
(*                                                                         *)
(* A pass optimises a body: the blocks keep their ids and terminators and  *)
(* read and mention no local that they did not, and what is run from a     *)
(* block of one body is what is run from the block of the other, as long   *)
(* as both agree on the locals that are live there (Simulation).  Dead     *)
(* blocks are never entered, a folded operation has the value it computes, *)
(* and a store is left out where nothing that is live reads it.            *)
(***************************************************************************)
EXTENDS Passes, SequenceFacts

-----------------------------------------------------------------------------
(* Ints.                                                                   *)

Ints == Min_..Max_

\* A constant that fits is not changed when it is cut down to an int.
LEMMA Wraps ==
  ASSUME NEW n \in Int
  PROVE  /\ Wrap(n) \in Ints /\ (n \in Ints => Wrap(n) = n)
<1> DEFINE m == 2 * IntMax + 2  d == n - Min_
<1>1. IntMax \in Nat \ {0}
  BY PassesAssumption
<1>2. m \in Nat \ {0} /\ d \in Int /\ Min_ \in Int /\ Max_ = Min_ + m - 1
  BY <1>1 DEF Min_, Max_
<1> HIDE DEF m, d
<1>3. d % m \in 0..m - 1
  BY <1>2
<1>4. d \in 0..m - 1 => d % m = d
  BY <1>2
<1>5. Wrap(n) = (d % m) + Min_
  BY DEF Wrap, m, d
<1>6. Wrap(n) \in Ints
  BY <1>2, <1>3, <1>5 DEF Ints
<1>7. ASSUME n \in Ints PROVE Wrap(n) = n
  <2>1. d \in 0..m - 1 /\ d + Min_ = n
    BY <1>2, <1>7 DEF Ints, d
  <2> QED BY <1>4, <1>5, <2>1
<1> QED BY <1>6, <1>7

\* Quotients of ints are integers.
LEMMA QuotientInt ==
  ASSUME NEW a \in Int, NEW b \in Int, b # 0
  PROVE  Quotient(a, b) \in Int
<1> DEFINE p == IF a < 0 THEN -a ELSE a  q == IF b < 0 THEN -b ELSE b
<1>1. p \in Nat /\ q \in Nat \ {0}
  OBVIOUS
<1> HIDE DEF p, q
<1>2. p \div q \in Int
  BY <1>1
<1>3. Quotient(a, b) = IF (a < 0) = (b < 0) THEN p \div q ELSE -(p \div q)
  BY DEF Quotient, p, q
<1> HIDE DEF Quotient
<1> QED BY <1>2, <1>3

\* What an operation computes without bounds is an integer.
LEMMA WholeInt ==
  ASSUME NEW op \in {"Add", "Sub", "Mul", "Div", "Rem"}, NEW a \in Int, NEW b \in Int,
         op \in {"Div", "Rem"} => b # 0
  PROVE  Whole(op, a, b) \in Int
<1>1. op \in {"Div", "Rem"} => Quotient(a, b) \in Int
  BY QuotientInt
<1>2. CASE op = "Add"
  BY <1>2 DEF Whole
<1>3. CASE op = "Sub"
  BY <1>3 DEF Whole
<1>4. CASE op = "Mul"
  BY <1>4 DEF Whole
<1>5. CASE op = "Div"
  BY <1>1, <1>5 DEF Whole
<1>6. CASE op = "Rem"
  <2> DEFINE q == Quotient(a, b)
  <2>1. Whole(op, a, b) = a - b * q /\ q \in Int
    BY <1>1, <1>6 DEF Whole
  <2> HIDE DEF q
  <2> QED BY <2>1
<1> QED BY <1>2, <1>3, <1>4, <1>5, <1>6

Divides(op, args) == op \in Divisions => args[2] # 0

\* The kinds of operations.
LEMMA OpsDiffer ==
  /\ \A op \in UnaryOps \cup OtherOps : op \notin BinaryOps /\ op \notin Comparisons
  /\ \A op \in Comparisons : op \in BinaryOps /\ op \notin Logics /\ op \notin Divisions
  /\ \A op \in UnaryOps : op \notin OtherOps /\ op \in {"Neg", "Not", "BitNot"}
BY DEF BinaryOps, UnaryOps, OtherOps, Comparisons, Divisions, Logics

\* What is computed of integers is an integer.
LEMMA ComputedInt ==
  ASSUME NEW op, NEW args,
         \/ op \in BinaryOps \ Logics /\ args[1] \in Int /\ args[2] \in Int
         \/ op \in UnaryOps \cup OtherOps /\ args[1] \in Int,
         Divides(op, args)
  PROVE  Computed(op, args) \in Int
<1>1. CASE op \in Comparisons
  <2>1. op \notin BinaryOps \ Comparisons /\ op \notin {"Neg", "Not", "BitNot", "Discriminant"}
    BY <1>1 DEF Comparisons
  <2>2. Computed(op, args) = Truth(Compare(op, args[1], args[2]))
    BY <1>1, <2>1 DEF Computed
  <2> QED BY <2>2 DEF Truth
<1>2. CASE op \in BinaryOps \ Comparisons
  <2>1. op \notin UnaryOps \cup OtherOps
    BY <1>2, OpsDiffer
  <2>2. args[1] \in Int /\ args[2] \in Int /\ op \in {"Add", "Sub", "Mul", "Div", "Rem"}
    BY <2>1, <1>2 DEF BinaryOps, Divisions
  <2>3. Whole(op, args[1], args[2]) \in Int
    <3>1. op \in {"Div", "Rem"} => args[2] # 0
      BY DEF Divides, Divisions
    <3> QED BY <2>2, <3>1, WholeInt
  <2>4. Computed(op, args) = Wrap(Whole(op, args[1], args[2]))
    BY <1>2, <2>1 DEF Computed, UnaryOps, OtherOps
  <2>5. \A n \in Ints : n \in Int
    BY PassesAssumption DEF Ints, Min_, Max_
  <2> QED BY <2>3, <2>4, <2>5, Wraps
<1>3. CASE op \in UnaryOps \cup OtherOps
  <2>1. op \notin BinaryOps /\ op \notin Comparisons
    BY <1>3, OpsDiffer
  <2>2. args[1] \in Int
    BY <2>1
  <2>3. \A n \in Ints : n \in Int
    BY PassesAssumption DEF Ints, Min_, Max_
  <2>4. CASE op = "Neg"
    <3>1. Computed(op, args) = Wrap(-args[1])
      BY <2>1, <2>4 DEF Computed
    <3>2. -args[1] \in Int
      BY <2>2
    <3> QED BY <2>3, <3>1, <3>2, Wraps
  <2>5. CASE op \in {"Not", "BitNot"}
    <3>1. Computed(op, args) = -args[1] - 1
      BY <2>1, <2>5 DEF Computed
    <3> QED BY <2>2, <3>1
  <2>6. CASE op = "Discriminant"
    <3>1. Computed(op, args) = Truth(args[1] # 0)
      BY <2>1, <2>6 DEF Computed
    <3> QED BY <3>1 DEF Truth
  <2>7. CASE op \notin {"Neg", "Not", "BitNot", "Discriminant"}
    <3>1. Computed(op, args) = args[1]
      BY <2>1, <2>7 DEF Computed
    <3> QED BY <2>2, <3>1
  <2> QED BY <2>4, <2>5, <2>6, <2>7
<1> QED BY <1>1, <1>2, <1>3

-----------------------------------------------------------------------------
(* Statements.                                                             *)

Env == [Cells -> Int]
Event == {"call", "drop", "return", "lost"} \X Int \X Int \X Int
Execution == [at : Int, env : Env, own : SUBSET Locals, seen : Seq(Event), undefined : BOOLEAN]

\* The parts of an execution.
LEMMA ExecutionType ==
  ASSUME NEW run \in Execution
  PROVE  /\ run.at \in Int /\ run.env \in Env /\ run.own \in SUBSET Locals
         /\ run.seen \in Seq(Event) /\ run.undefined \in BOOLEAN
         /\ run = [at |-> run.at, env |-> run.env, own |-> run.own, seen |-> run.seen,
                   undefined |-> run.undefined]
BY DEF Execution

\* Locals are cells, and so is where a value leads to.
LEMMA CellsType ==
  ASSUME NEW run \in Execution
  PROVE  /\ Cells = Locals \cup {0} /\ 0 \notin Locals
         /\ \A c \in Cells : run.env[c] \in Int
         /\ \A v : At(run, v) \in run.own \cup {0} /\ At(run, v) \in Cells
<1>1. Cells = Locals \cup {0} /\ 0 \notin Locals
  BY PassesAssumption DEF Locals, Cells
<1>2. run.own \subseteq Locals /\ run.env \in Env
  BY ExecutionType
<1>3. \A v : At(run, v) \in run.own \cup {0}
  BY DEF At
<1> QED BY <1>1, <1>2, <1>3 DEF Env

\* What an operand may be, and what reads it.
LEMMA OperandType ==
  ASSUME NEW o \in Operand
  PROVE  /\ o[1] = "const" => o[2] \in Int /\ Roots(o) = {} /\ Uses(o) = {}
         /\ o[1] # "const" => o[2] \in Locals /\ Roots(o) = {o[2]}
         /\ Uses(o) \subseteq Roots(o) /\ Roots(o) \subseteq Locals /\ o[2] \in Int
         /\ Bases(o) \subseteq Roots(o)
<1>1. o[1] = "const" => o[2] \in Int
  BY DEF Operand, Place
<1>2. o[1] # "const" => o[2] \in Locals
  BY DEF Operand, Place
<1>3. \A l \in Locals : l \in Int
  BY DEF Locals
<1> QED BY <1>1, <1>2, <1>3 DEF Roots, Uses, Bases

\* What an operand and an argument are worth.
LEMMA ValueType ==
  ASSUME NEW run \in Execution, NEW o \in Operand
  PROVE  /\ o[1] # "const" => Cell(run, o) \in Cells
         /\ Value(run, o) \in Int
         /\ \A op : Argument(run, op, o) \in Int
<1>1. o[1] # "const" => o[2] \in Locals /\ Cell(run, o) \in Cells
  BY OperandType, CellsType DEF Cell
<1>2. Value(run, o) \in Int
  <2>1. CASE o[1] = "const"
    <3>1. Value(run, o) = Wrap(o[2])
      BY <2>1 DEF Value
    <3>2. \A n \in Ints : n \in Int
      BY PassesAssumption DEF Ints, Min_, Max_
    <3> QED BY <2>1, <3>1, <3>2, Wraps, OperandType
  <2>2. CASE o[1] # "const"
    BY <1>1, <2>2, CellsType DEF Value
  <2> QED BY <2>1, <2>2
<1>3. \A op : Argument(run, op, o) \in Int
  <2> TAKE op
  <2>1. CASE op = "Ref"
    <3>1. Argument(run, op, o) = IF o[1] = "deref" THEN run.env[o[2]] ELSE Address(o[2])
      BY <2>1 DEF Argument
    <3>2. Address(o[2]) \in Int
      BY OperandType, PassesAssumption DEF Address, Max_
    <3>3. o[1] = "deref" => run.env[o[2]] \in Int
      BY <1>1, CellsType
    <3> QED BY <3>1, <3>2, <3>3
  <2>2. CASE op = "Deref"
    <3>1. Argument(run, op, o) = run.env[At(run, Value(run, o))]
      BY <2>2 DEF Argument
    <3> QED BY <3>1, CellsType
  <2>3. CASE op \notin {"Ref", "Deref"}
    BY <1>2, <2>3 DEF Argument
  <2> QED BY <2>1, <2>2, <2>3
<1> QED BY <1>1, <1>2, <1>3

\* The parts of a statement.
LEMMA StatementType ==
  ASSUME NEW s \in Statement
  PROVE  /\ s.kind \in {"assign", "call", "drop"} /\ s.lhs \in Operand
         /\ s = [kind |-> s.kind, lhs |-> s.lhs, op |-> s.op, args |-> s.args]
         /\ s.kind # "assign" => s.op = "Use"
         /\ s.kind = "assign" => s.lhs \in Place
         /\ \/ s.op \in BinaryOps /\ DOMAIN s.args = {1, 2}
            \/ s.op \in UnaryOps \cup OtherOps /\ DOMAIN s.args = {1}
         /\ \A i \in DOMAIN s.args : s.args[i] \in Operand
<1>1. Place \cup {Const(0)} \subseteq Operand
  BY DEF Operand, Place, Const
<1>2. CASE s \in [kind : {"assign"}, lhs : Place, op : BinaryOps, args : [1..2 -> Operand]]
  <2>1. 1..2 = {1, 2}
    OBVIOUS
  <2> QED BY <1>1, <1>2, <2>1
<1>3. CASE s \in [kind : {"assign"}, lhs : Place, op : UnaryOps \cup OtherOps, args : [1..1 -> Operand]]
  <2>1. 1..1 = {1}
    OBVIOUS
  <2> QED BY <1>1, <1>3, <2>1
<1>4. CASE s \in [kind : {"call", "drop"}, lhs : Place \cup {Const(0)}, op : {"Use"},
                  args : [1..1 -> Operand]]
  <2>1. 1..1 = {1} /\ "Use" \in OtherOps
    BY DEF OtherOps
  <2> QED BY <1>1, <1>4, <2>1
<1> QED BY <1>2, <1>3, <1>4 DEF Statement

\* A statement reads what its operands read.
LEMMA ReadsType ==
  ASSUME NEW s \in Statement
  PROVE  /\ RvalueUses(s) \subseteq Reads(s) /\ Reads(s) \subseteq Needs(s) /\ Needs(s) \subseteq Locals
         /\ \A i \in DOMAIN s.args : Roots(s.args[i]) \subseteq Reads(s)
         /\ Bases(s.lhs) \subseteq Needs(s)
<1>1. \A i \in DOMAIN s.args : /\ Uses(s.args[i]) \subseteq Roots(s.args[i])
                               /\ Roots(s.args[i]) \subseteq Locals
  BY StatementType, OperandType
<1>2. Bases(s.lhs) \subseteq Locals
  BY StatementType, OperandType
<1> QED BY <1>1, <1>2 DEF RvalueUses, Reads, Needs

\* What is told of a value.
LEMMA ToldType ==
  ASSUME NEW run \in Execution, NEW what \in {"call", "drop", "return", "lost"}, NEW v \in Int
  PROVE  Told(run, what, v) \in Seq(Event)
<1> DEFINE e == <<what, v, run.env[0], run.env[At(run, v)]>>
<1>1. e \in Event
  BY CellsType DEF Event
<1>2. run.seen \in Seq(Event) /\ Told(run, what, v) = Append(run.seen, e)
  BY ExecutionType DEF Told
<1> HIDE DEF e
<1> QED BY <1>1, <1>2

\* A statement takes an execution to an execution, and cannot mend one that is
\* undefined.
LEMMA StepType ==
  ASSUME NEW run \in Execution, NEW s \in Statement
  PROVE  /\ Step(run, s) \in Execution /\ Step(run, s).at = run.at /\ Step(run, s).own = run.own
         /\ run.undefined => Step(run, s).undefined
<1> DEFINE args == Arguments(run, s)
           seen == IF s.kind = "assign" THEN run.seen ELSE Told(run, s.kind, args[1])
           env == Stored(run, s, args)
<1>1. /\ run.at \in Int /\ run.env \in Env /\ run.seen \in Seq(Event) /\ run.undefined \in BOOLEAN
      /\ run.own \in SUBSET Locals
      /\ run = [at |-> run.at, env |-> run.env, own |-> run.own, seen |-> run.seen,
                undefined |-> run.undefined]
  BY ExecutionType
<1>2. /\ DOMAIN args = DOMAIN s.args /\ \A i \in DOMAIN s.args : args[i] \in Int
  BY StatementType, ValueType DEF Arguments
<1>3. 1 \in DOMAIN s.args
  BY StatementType
<1> HIDE DEF args
<1>4. seen \in Seq(Event)
  <2>1. CASE s.kind = "assign"
    BY <1>1, <2>1
  <2>2. CASE s.kind # "assign"
    <3>1. s.kind \in {"call", "drop", "return", "lost"} /\ args[1] \in Int
      BY <1>2, <1>3, <2>2, StatementType
    <3> QED BY <2>2, <3>1, ToldType
  <2> QED BY <2>1, <2>2
<1> HIDE DEF seen
<1>5. ~Undefined(s.op, args) => env \in Env
  <2> SUFFICES ASSUME ~Undefined(s.op, args), s.lhs[1] # "const" PROVE env \in Env
    BY <1>1 DEF Stored
  <2> DEFINE c == Cell(run, s.lhs)  x == IF s.kind = "call" THEN 1 ELSE Computed(s.op, args)
  <2>1. c \in Cells
    BY StatementType, ValueType
  <2>2. x \in Int
    <3>1. Divides(s.op, args) /\ s.op \notin Logics
      BY DEF Undefined, Divides
    <3>2. \/ s.op \in BinaryOps \ Logics /\ args[1] \in Int /\ args[2] \in Int
          \/ s.op \in UnaryOps \cup OtherOps /\ args[1] \in Int
      BY <1>2, <3>1, StatementType
    <3>3. Computed(s.op, args) \in Int
      BY <3>1, <3>2, ComputedInt
    <3> QED BY <3>3
  <2>3. env = [run.env EXCEPT ![c] = x]
    BY DEF Stored
  <2> HIDE DEF c, x, env
  <2> QED BY <1>1, <2>1, <2>2, <2>3 DEF Env
<1> HIDE DEF env
<1>6. Step(run, s) = IF run.undefined \/ Undefined(s.op, args) THEN [run EXCEPT !.undefined = TRUE]
                     ELSE [run EXCEPT !.seen = seen, !.env = env]
  BY DEF Step, args, seen, env
<1>7. CASE run.undefined \/ Undefined(s.op, args)
  <2>1. Step(run, s) = [run EXCEPT !.undefined = TRUE]
    BY <1>6, <1>7
  <2> QED BY <1>1, <2>1 DEF Execution
<1>8. CASE ~(run.undefined \/ Undefined(s.op, args))
  <2>1. Step(run, s) = [run EXCEPT !.seen = seen, !.env = env]
    BY <1>6, <1>8
  <2>2. env \in Env
    BY <1>5, <1>8
  <2>3. [run EXCEPT !.seen = seen, !.env = env] \in Execution
    BY <1>1, <1>4, <2>2 DEF Execution
  <2>4. /\ [run EXCEPT !.seen = seen, !.env = env].at = run.at
        /\ [run EXCEPT !.seen = seen, !.env = env].own = run.own
    BY <1>1
  <2> QED BY <1>8, <2>1, <2>3, <2>4
<1> QED BY <1>7, <1>8

-----------------------------------------------------------------------------
(* Runs of statements.                                                     *)

\* H goes through the statements one by one.
Walks(H, run, stmts) ==
  /\ H \in [0..Len(stmts) -> Execution] /\ H[0] = run
  /\ \A i \in 1..Len(stmts) : H[i] = Step(H[i - 1], stmts[i])

\* What After computes.
LEMMA AfterWalks ==
  ASSUME NEW run \in Execution, NEW stmts \in Seq(Statement)
  PROVE  \E H : Walks(H, run, stmts) /\ After(run, stmts) = H[Len(stmts)]
<1> DEFINE n == Len(stmts)
           G == [i \in 1..n |-> [r \in Execution |-> Step(r, stmts[i])]]
           R(f) == f = [i \in 0..n |-> IF i = 0 THEN run ELSE Step(f[i - 1], stmts[i])]
           f0 == CHOOSE f : R(f)
<1>1. n \in Nat /\ \A i \in 1..n : stmts[i] \in Statement
  OBVIOUS
<1>2. \A i \in 1..n : \A r \in Execution : Step(r, stmts[i]) \in Execution
  BY <1>1, StepType
<1>3. G \in [1..n -> [Execution -> Execution]]
  BY <1>2
<1>4. After(run, stmts) = f0[n]
  BY DEF After
<1> HIDE DEF n, G
<1> DEFINE V == Execution
<1>5. PICK H : H \in [0..n -> V] /\ H[0] = run /\ \A i \in 1..n : H[i] = G[i][H[i - 1]]
  <2>1. G \in [1..n -> [V -> V]] /\ run \in V
    BY <1>3
  <2> HIDE DEF V
  <2>2. \E F : Recurses(F, n, V, run, G)
    BY <1>1, <2>1, Recursion
  <2> QED BY <2>2 DEF Recurses
<1>6. \A i \in 1..n : i \in 0..n /\ i - 1 \in 0..n /\ i # 0 /\ H[i - 1] \in Execution
  BY <1>1, <1>5
<1>7. \A i \in 1..n : H[i] = Step(H[i - 1], stmts[i])
  <2> TAKE i \in 1..n
  <2>1. H[i] = G[i][H[i - 1]]
    BY <1>5, <1>6
  <2> QED BY <1>6, <2>1 DEF G
<1>8. H[0] = run
  BY <1>1, <1>5
<1>9. R(H)
  <2>1. \A i \in 0..n : i = 0 \/ i \in 1..n
    BY <1>1
  <2>2. \A i \in 0..n : H[i] = IF i = 0 THEN run ELSE Step(H[i - 1], stmts[i])
    BY <1>7, <1>8, <2>1
  <2> QED BY <1>5, <2>2
<1>10. R(f0)
  BY <1>9
<1>11. f0 = H
  <2> DEFINE B == {i \in 0..n : f0[i] = H[i]}
  <2>1. /\ f0 = [i \in 0..n |-> IF i = 0 THEN run ELSE Step(f0[i - 1], stmts[i])]
    BY <1>10
  <2> HIDE DEF f0, R
  <2>2. 0 \in B /\ B \in SUBSET (0..n)
    BY <1>1, <1>8, <2>1
  <2>3. \A i \in 0..n - 1 : i \in B => i + 1 \in B
    <3> SUFFICES ASSUME NEW i \in 0..n - 1, i \in B PROVE i + 1 \in B
      OBVIOUS
    <3>1. i + 1 \in 1..n /\ i + 1 \in 0..n /\ i + 1 # 0 /\ i + 1 - 1 = i
      BY <1>1
    <3>2. H[i + 1] = Step(H[i], stmts[i + 1]) /\ f0[i + 1] = Step(f0[i], stmts[i + 1])
      BY <1>7, <2>1, <3>1
    <3> QED BY <3>1, <3>2
  <2> HIDE DEF B
  <2>4. B = 0..n
    BY <1>1, <2>2, <2>3, UpTo
  <2> QED BY <1>5, <2>1, <2>4 DEF B
<1>12. Walks(H, run, stmts)
  BY <1>5, <1>7, <1>8 DEF Walks, n
<1> QED BY <1>4, <1>11, <1>12 DEF n

\* There is one such walk.
LEMMA WalksOnce ==
  ASSUME NEW run \in Execution, NEW stmts \in Seq(Statement), NEW H, Walks(H, run, stmts)
  PROVE  After(run, stmts) = H[Len(stmts)]
<1> DEFINE n == Len(stmts)
<1>1. PICK K : Walks(K, run, stmts) /\ After(run, stmts) = K[n]
  BY AfterWalks
<1>2. n \in Nat
  OBVIOUS
<1> DEFINE B == {i \in 0..n : H[i] = K[i]}
<1>3. /\ H[0] = run /\ K[0] = run
      /\ \A i \in 1..n : H[i] = Step(H[i - 1], stmts[i]) /\ K[i] = Step(K[i - 1], stmts[i])
  BY <1>1 DEF Walks
<1>4. 0 \in B /\ B \in SUBSET (0..n)
  BY <1>2, <1>3
<1>5. \A i \in 0..n - 1 : i \in B => i + 1 \in B
  <2> SUFFICES ASSUME NEW i \in 0..n - 1, i \in B PROVE i + 1 \in B
    OBVIOUS
  <2>1. i + 1 \in 1..n /\ i + 1 \in 0..n /\ i + 1 - 1 = i
    BY <1>2
  <2> QED BY <1>3, <2>1
<1> HIDE DEF B, n
<1>6. B = 0..n
  BY <1>2, <1>4, <1>5, UpTo
<1> QED BY <1>1, <1>2, <1>6 DEF B, n

\* Statements take an execution to an execution in the same block, and cannot
\* mend one that is undefined.
LEMMA AfterType ==
  ASSUME NEW run \in Execution, NEW stmts \in Seq(Statement)
  PROVE  /\ After(run, stmts) \in Execution
         /\ After(run, stmts).at = run.at /\ After(run, stmts).own = run.own
         /\ run.undefined => After(run, stmts).undefined
<1> DEFINE n == Len(stmts)
<1>1. PICK H : Walks(H, run, stmts) /\ After(run, stmts) = H[n]
  BY AfterWalks
<1>2. n \in Nat /\ \A i \in 1..n : stmts[i] \in Statement
  OBVIOUS
<1>3. /\ H \in [0..n -> Execution] /\ H[0] = run
      /\ \A i \in 1..n : H[i] = Step(H[i - 1], stmts[i])
  BY <1>1 DEF Walks
<1> DEFINE B == {i \in 0..n : H[i].at = run.at /\ H[i].own = run.own /\ (run.undefined => H[i].undefined)}
<1>4. 0 \in B /\ B \in SUBSET (0..n)
  BY <1>2, <1>3
<1>5. \A i \in 0..n - 1 : i \in B => i + 1 \in B
  <2> SUFFICES ASSUME NEW i \in 0..n - 1, i \in B PROVE i + 1 \in B
    OBVIOUS
  <2>1. i + 1 \in 1..n /\ i + 1 \in 0..n /\ i + 1 - 1 = i /\ i \in 0..n
    BY <1>2
  <2>2. H[i + 1] = Step(H[i], stmts[i + 1]) /\ H[i] \in Execution /\ stmts[i + 1] \in Statement
    BY <1>2, <1>3, <2>1
  <2>3. /\ H[i + 1].at = H[i].at /\ H[i + 1].own = H[i].own
        /\ H[i].undefined => H[i + 1].undefined
    BY <2>2, StepType
  <2> QED BY <2>1, <2>3
<1> HIDE DEF B, n
<1>6. B = 0..n
  BY <1>2, <1>4, <1>5, UpTo
<1>7. n \in 0..n
  BY <1>2
<1> QED BY <1>1, <1>3, <1>6, <1>7 DEF B

\* One statement more is one step more.
LEMMA AfterAppend ==
  ASSUME NEW run \in Execution, NEW stmts \in Seq(Statement), NEW s \in Statement
  PROVE  After(run, Append(stmts, s)) = Step(After(run, stmts), s)
<1> DEFINE n == Len(stmts)  t == Append(stmts, s)
<1>1. PICK H : Walks(H, run, stmts) /\ After(run, stmts) = H[n]
  BY AfterWalks
<1>2. n \in Nat /\ t \in Seq(Statement) /\ Len(t) = n + 1 /\ t[n + 1] = s
      /\ \A i \in 1..n : t[i] = stmts[i]
  OBVIOUS
<1> HIDE DEF t
<1>3. /\ H \in [0..n -> Execution] /\ H[0] = run
      /\ \A i \in 1..n : H[i] = Step(H[i - 1], stmts[i])
  BY <1>1 DEF Walks
<1> DEFINE x == Step(H[n], s)  K == [i \in 0..n + 1 |-> IF i = n + 1 THEN x ELSE H[i]]
<1>4. x \in Execution
  <2>1. H[n] \in Execution
    BY <1>2, <1>3
  <2> QED BY <2>1, StepType
<1> HIDE DEF x, n
<1>5. \A i \in 0..n + 1 : i = n + 1 \/ (i \in 0..n /\ i # n + 1)
  BY <1>2
<1>6. K \in [0..n + 1 -> Execution]
  BY <1>3, <1>4, <1>5
<1>7. K[0] = run
  BY <1>2, <1>3
<1>8. \A i \in 1..n + 1 : K[i] = Step(K[i - 1], t[i])
  <2> TAKE i \in 1..n + 1
  <2>1. CASE i = n + 1
    <3>1. i \in 0..n + 1 /\ i - 1 \in 0..n + 1 /\ i - 1 = n /\ i - 1 # n + 1
      BY <1>2, <2>1
    <3> QED BY <1>2, <2>1, <3>1 DEF x
  <2>2. CASE i # n + 1
    <3>1. i \in 1..n /\ i \in 0..n + 1 /\ i - 1 \in 0..n + 1 /\ i - 1 # n + 1
      BY <1>2, <2>2
    <3> QED BY <1>2, <1>3, <2>2, <3>1
  <2> QED BY <2>1, <2>2
<1>9. K[n + 1] = x
  BY <1>2
<1> HIDE DEF K
<1>10. Walks(K, run, t)
  BY <1>2, <1>6, <1>7, <1>8 DEF Walks
<1>11. After(run, t) = K[n + 1]
  BY <1>2, <1>10, WalksOnce
<1> QED BY <1>1, <1>9, <1>11 DEF x, t, n

\* No statements, no steps.
LEMMA AfterNothing ==
  ASSUME NEW run \in Execution
  PROVE  After(run, <<>>) = run
<1> DEFINE none == <<>>
<1>1. none \in Seq(Statement) /\ Len(none) = 0
  OBVIOUS
<1> HIDE DEF none
<1>2. PICK H : Walks(H, run, none) /\ After(run, none) = H[Len(none)]
  BY <1>1, AfterWalks
<1> QED BY <1>1, <1>2 DEF Walks, none

-----------------------------------------------------------------------------
(* Vec::retain.                                                            *)

\* K holds what is kept of the first elements.
Keeps(K, s, keep, T) ==
  /\ K \in [0..Len(s) -> Seq(T)] /\ K[0] = <<>>
  /\ \A i \in 1..Len(s) : K[i] = IF i \in keep THEN Append(K[i - 1], s[i]) ELSE K[i - 1]

\* What Retain computes, element by element.
LEMMA RetainSteps ==
  ASSUME NEW T, NEW s \in Seq(T), NEW keep
  PROVE  \E K : Keeps(K, s, keep, T) /\ Retain(s, keep) = K[Len(s)]
<1> DEFINE n == Len(s)
           G == [i \in 1..n |-> [k \in Seq(T) |-> IF i \in keep THEN Append(k, s[i]) ELSE k]]
           R(f) == f = [i \in 0..n |->
                          IF i = 0 THEN <<>> ELSE IF i \in keep THEN Append(f[i - 1], s[i]) ELSE f[i - 1]]
           f0 == CHOOSE f : R(f)
           V == Seq(T)
           v == <<>>
<1>1. n \in Nat /\ v \in V /\ \A i \in 1..n : s[i] \in T
  OBVIOUS
<1>2. \A i \in 1..n : \A k \in Seq(T) : (IF i \in keep THEN Append(k, s[i]) ELSE k) \in Seq(T)
  BY <1>1
<1>3. G \in [1..n -> [V -> V]]
  BY <1>2
<1>4. Retain(s, keep) = f0[n]
  BY DEF Retain
<1> HIDE DEF n, G, V, v
<1>5. PICK H : H \in [0..n -> V] /\ H[0] = v /\ \A i \in 1..n : H[i] = G[i][H[i - 1]]
  <2>1. \E F : Recurses(F, n, V, v, G)
    BY <1>1, <1>3, Recursion
  <2> QED BY <2>1 DEF Recurses
<1>6. \A i \in 1..n : i \in 0..n /\ i - 1 \in 0..n /\ i # 0 /\ H[i - 1] \in V
  BY <1>1, <1>5
<1>7. \A i \in 1..n : H[i] = IF i \in keep THEN Append(H[i - 1], s[i]) ELSE H[i - 1]
  <2> TAKE i \in 1..n
  <2>1. H[i] = G[i][H[i - 1]]
    BY <1>5, <1>6
  <2> QED BY <1>6, <2>1 DEF G, V
<1>8. H[0] = v
  BY <1>1, <1>5
<1>9. R(H)
  <2>1. \A i \in 0..n : i = 0 \/ i \in 1..n
    BY <1>1
  <2>2. \A i \in 0..n : H[i] = IF i = 0 THEN <<>>
                               ELSE IF i \in keep THEN Append(H[i - 1], s[i]) ELSE H[i - 1]
    BY <1>7, <1>8, <2>1 DEF v
  <2> QED BY <1>5, <2>2
<1>10. R(f0)
  BY <1>9
<1>11. f0 = [i \in 0..n |-> f0[i]] /\ f0[0] = v
  <2>1. f0 = [i \in 0..n |->
               IF i = 0 THEN <<>> ELSE IF i \in keep THEN Append(f0[i - 1], s[i]) ELSE f0[i - 1]]
    BY <1>10
  <2> HIDE DEF f0
  <2> QED BY <1>1, <2>1 DEF v
<1>12. \A i \in 1..n : f0[i] = IF i \in keep THEN Append(f0[i - 1], s[i]) ELSE f0[i - 1]
  <2>1. f0 = [i \in 0..n |->
               IF i = 0 THEN <<>> ELSE IF i \in keep THEN Append(f0[i - 1], s[i]) ELSE f0[i - 1]]
    BY <1>10
  <2> HIDE DEF f0
  <2> QED BY <1>6, <2>1
<1> HIDE DEF f0, R
<1>13. \A i \in 1..n : f0[i - 1] \in V => f0[i] \in V
  <2> SUFFICES ASSUME NEW i \in 1..n, f0[i - 1] \in V PROVE f0[i] \in V
    OBVIOUS
  <2>1. Append(f0[i - 1], s[i]) \in V
    BY <1>1 DEF V
  <2> QED BY <1>12, <2>1
<1>14. f0 \in [0..n -> V]
  <2>1. \A i \in 0..n : f0[i] \in V
    BY <1>1, <1>11, <1>13, RecursionStays
  <2> QED BY <1>11, <2>1
<1>15. Keeps(f0, s, keep, T)
  BY <1>11, <1>12, <1>14 DEF Keeps, v, V, n
<1> QED BY <1>4, <1>15 DEF n

\* What is retained is what was to be kept, each once and in its order.
LEMMA RetainPlaces ==
  ASSUME NEW T, NEW s \in Seq(T), NEW keep
  PROVE  /\ Retain(s, keep) \in Seq(T)
         /\ \E at \in [DOMAIN Retain(s, keep) -> DOMAIN s \cap keep] :
              /\ \A j \in DOMAIN Retain(s, keep) : Retain(s, keep)[j] = s[at[j]]
              /\ \A j, k \in DOMAIN Retain(s, keep) : at[j] = at[k] => j = k
              /\ \A i \in DOMAIN s \cap keep : \E j \in DOMAIN Retain(s, keep) : at[j] = i
<1> DEFINE n == Len(s)
           Places(at, k, i) == /\ at \in [1..Len(k) -> (1..i) \cap keep]
                               /\ \A j \in 1..Len(k) : k[j] = s[at[j]]
                               /\ \A j, l \in 1..Len(k) : at[j] = at[l] => j = l
                               /\ \A m \in (1..i) \cap keep : \E j \in 1..Len(k) : at[j] = m
           Fits(k, i) == \E at : Places(at, k, i)
<1>1. n \in Nat /\ DOMAIN s = 1..n /\ \A i \in 1..n : s[i] \in T
  OBVIOUS
<1>2. PICK K : /\ K \in [0..n -> Seq(T)] /\ K[0] = <<>> /\ Retain(s, keep) = K[n]
               /\ \A i \in 1..n : K[i] = IF i \in keep THEN Append(K[i - 1], s[i]) ELSE K[i - 1]
  <2>1. PICK K : Keeps(K, s, keep, T) /\ Retain(s, keep) = K[Len(s)]
    BY RetainSteps
  <2> QED BY <2>1 DEF Keeps
<1> DEFINE B == {i \in 0..n : Fits(K[i], i)}
<1>3. 0 \in B
  <2> DEFINE at == [j \in 1..0 |-> 0]
  <2>1. Len(K[0]) = 0
    BY <1>2
  <2>2. at \in [1..Len(K[0]) -> (1..0) \cap keep]
    BY <2>1
  <2>3. Places(at, K[0], 0)
    BY <2>1, <2>2
  <2> HIDE DEF Places, at
  <2>4. Fits(K[0], 0)
    BY <2>3
  <2> HIDE DEF Fits
  <2> QED BY <1>1, <2>4
<1>4. ASSUME NEW i \in 0..n - 1, i \in B PROVE i + 1 \in B
  <2> DEFINE k == K[i]  m == Len(k)  x == s[i + 1]
  <2>1. i \in Nat /\ i + 1 \in 1..n /\ i + 1 \in 0..n /\ i + 1 - 1 = i /\ i \in 0..n /\ i + 1 \notin 1..i
        /\ 1..i + 1 = (1..i) \cup {i + 1}
    BY <1>1
  <2>2. k \in Seq(T) /\ m \in Nat /\ x \in T
    <3>1. K[i] \in Seq(T) /\ s[i + 1] \in T
      BY <1>1, <1>2, <2>1
    <3> HIDE DEF k, x
    <3>2. k \in Seq(T) /\ x \in T
      BY <3>1 DEF k, x
    <3> QED BY <3>2
  <2>3. PICK at : /\ at \in [1..m -> (1..i) \cap keep]
                  /\ \A j \in 1..m : k[j] = s[at[j]]
                  /\ \A j, l \in 1..m : at[j] = at[l] => j = l
                  /\ \A p \in (1..i) \cap keep : \E j \in 1..m : at[j] = p
    <3> HIDE DEF Places
    <3>1. PICK at : Places(at, k, i)
      BY <1>4
    <3> QED BY <3>1 DEF Places
  <2>4. K[i + 1] = IF i + 1 \in keep THEN Append(k, x) ELSE k
    BY <1>2, <2>1
  <2> HIDE DEF k, x
  <2>5. CASE i + 1 \notin keep
    <3>1. K[i + 1] = k /\ (1..i + 1) \cap keep = (1..i) \cap keep
      BY <2>1, <2>4, <2>5
    <3>2. Places(at, k, i + 1)
      <4>1. at \in [1..Len(k) -> (1..i + 1) \cap keep]
        BY <2>3, <3>1
      <4> QED BY <2>3, <3>1, <4>1
    <3> HIDE DEF Places
    <3>3. Fits(k, i + 1)
      BY <3>2
    <3> HIDE DEF Fits
    <3> QED BY <2>1, <3>1, <3>3
  <2>6. CASE i + 1 \in keep
    <3> DEFINE c == Append(k, x)
               to == [j \in 1..m + 1 |-> IF j = m + 1 THEN i + 1 ELSE at[j]]
    <3>1. K[i + 1] = c /\ i + 1 \in (1..i + 1) \cap keep /\ (1..i) \cap keep \subseteq (1..i + 1) \cap keep
      BY <2>1, <2>4, <2>6
    <3>2. Len(c) = m + 1 /\ c[m + 1] = x /\ \A j \in 1..m : c[j] = k[j]
      BY <2>2
    <3> HIDE DEF c, m
    <3>3. \A j \in 1..m + 1 : j = m + 1 \/ (j \in 1..m /\ j # m + 1)
      BY <2>2
    <3>4. to \in [1..m + 1 -> (1..i + 1) \cap keep]
      <4>1. \A j \in 1..m : at[j] \in (1..i + 1) \cap keep
        BY <2>3, <3>1
      <4> QED BY <3>1, <3>3, <4>1
    <3>5. /\ to[m + 1] = i + 1 /\ \A j \in 1..m : to[j] = at[j]
          /\ m + 1 \in 1..m + 1 /\ 1..m \subseteq 1..m + 1
      BY <2>2, <3>3
    <3>6. \A j \in 1..m : to[j] # i + 1
      <4>1. \A j \in 1..m : at[j] \in 1..i
        BY <2>3
      <4> QED BY <2>1, <3>5, <4>1
    <3> HIDE DEF to
    <3>7. \A j \in 1..m + 1 : c[j] = s[to[j]]
      BY <2>3, <3>2, <3>3, <3>5 DEF x
    <3>8. \A j, l \in 1..m + 1 : to[j] = to[l] => j = l
      BY <2>3, <3>3, <3>5, <3>6
    <3>9. \A p \in (1..i + 1) \cap keep : \E j \in 1..m + 1 : to[j] = p
      <4> TAKE p \in (1..i + 1) \cap keep
      <4>1. CASE p = i + 1
        BY <3>5, <4>1
      <4>2. CASE p # i + 1
        <5>1. p \in (1..i) \cap keep
          BY <2>1, <4>2
        <5>2. PICK j \in 1..m : at[j] = p
          BY <2>3, <5>1
        <5> QED BY <3>5, <5>2
      <4> QED BY <4>1, <4>2
    <3>10. Places(to, c, i + 1)
      BY <3>2, <3>4, <3>7, <3>8, <3>9
    <3> HIDE DEF Places
    <3>11. Fits(c, i + 1)
      BY <3>10
    <3> HIDE DEF Fits
    <3> QED BY <2>1, <3>1, <3>11
  <2> QED BY <2>5, <2>6
<1>5. B \in SUBSET (0..n)
  OBVIOUS
<1> DEFINE r == Retain(s, keep)
<1>6. Fits(r, n)
  <2> HIDE DEF B, Fits
  <2>1. B = 0..n
    BY <1>1, <1>3, <1>4, <1>5, UpTo
  <2>2. n \in B
    BY <1>1, <2>1
  <2>3. Fits(K[n], n)
    BY <2>2 DEF B
  <2> QED BY <1>2, <2>3
<1>7. r \in Seq(T) /\ DOMAIN r = 1..Len(r)
  BY <1>1, <1>2
<1> HIDE DEF r, n
<1>8. \E at \in [DOMAIN r -> DOMAIN s \cap keep] :
        /\ \A j \in DOMAIN r : r[j] = s[at[j]]
        /\ \A j, k \in DOMAIN r : at[j] = at[k] => j = k
        /\ \A i \in DOMAIN s \cap keep : \E j \in DOMAIN r : at[j] = i
  <2>1. PICK at : Places(at, r, n)
    BY <1>6
  <2>2. /\ at \in [DOMAIN r -> DOMAIN s \cap keep]
        /\ \A j \in DOMAIN r : r[j] = s[at[j]]
        /\ \A j, k \in DOMAIN r : at[j] = at[k] => j = k
        /\ \A i \in DOMAIN s \cap keep : \E j \in DOMAIN r : at[j] = i
    BY <1>1, <1>7, <2>1
  <2> QED BY <2>2
<1> QED BY <1>7, <1>8 DEF r

\* What is retained whole was all to be kept.
LEMMA RetainAll ==
  ASSUME NEW T, NEW s \in Seq(T), NEW keep, Retain(s, keep) = s
  PROVE  DOMAIN s \subseteq keep
<1> DEFINE n == Len(s)
<1>1. n \in Nat /\ DOMAIN s = 1..n /\ \A i \in 1..n : s[i] \in T
  OBVIOUS
<1>2. PICK K : /\ K \in [0..n -> Seq(T)] /\ K[0] = <<>> /\ Retain(s, keep) = K[n]
               /\ \A i \in 1..n : K[i] = IF i \in keep THEN Append(K[i - 1], s[i]) ELSE K[i - 1]
  <2>1. PICK K : Keeps(K, s, keep, T) /\ Retain(s, keep) = K[Len(s)]
    BY RetainSteps
  <2> QED BY <2>1 DEF Keeps
<1> SUFFICES ASSUME NEW m \in 1..n, m \notin keep PROVE FALSE
  BY <1>1
<1> DEFINE B == {i \in 0..n : Len(K[i]) <= i /\ (m <= i => Len(K[i]) < i)}
<1>3. 0 \in B /\ B \in SUBSET (0..n)
  <2>1. Len(K[0]) = 0
    BY <1>2
  <2> QED BY <1>1, <2>1
<1>4. ASSUME NEW i \in 0..n - 1, i \in B PROVE i + 1 \in B
  <2>1. i \in Nat /\ i + 1 \in 1..n /\ i + 1 \in 0..n /\ i + 1 - 1 = i /\ i \in 0..n
    BY <1>1
  <2> DEFINE k == K[i]  x == s[i + 1]
  <2>2. k \in Seq(T) /\ x \in T /\ K[i + 1] = IF i + 1 \in keep THEN Append(k, x) ELSE k
    <3>1. K[i] \in Seq(T) /\ s[i + 1] \in T
      BY <1>1, <1>2, <2>1
    <3>2. K[i + 1] = IF i + 1 \in keep THEN Append(k, x) ELSE k
      <4> DEFINE e == i + 1
      <4>1. e \in 1..n /\ K[e] = (IF e \in keep THEN Append(K[e - 1], s[e]) ELSE K[e - 1])
        BY <1>2, <2>1
      <4> QED BY <2>1, <4>1
    <3> HIDE DEF k, x
    <3>3. k \in Seq(T) /\ x \in T
      BY <3>1 DEF k, x
    <3> QED BY <3>2, <3>3
  <2>3. Len(k) <= i /\ (m <= i => Len(k) < i)
    BY <1>4
  <2> HIDE DEF k, x
  <2>4. Len(k) \in Nat /\ Len(Append(k, x)) = Len(k) + 1
    BY <2>2
  <2>5. Len(K[i + 1]) <= i + 1 /\ (m <= i + 1 => Len(K[i + 1]) < i + 1)
    <3>1. CASE i + 1 \in keep
      <4>1. m # i + 1 /\ Len(K[i + 1]) = Len(k) + 1
        BY <2>2, <2>4, <3>1
      <4> QED BY <2>1, <2>3, <2>4, <4>1
    <3>2. CASE i + 1 \notin keep
      <4>1. Len(K[i + 1]) = Len(k)
        BY <2>2, <3>2
      <4> QED BY <2>1, <2>3, <2>4, <4>1
    <3> QED BY <3>1, <3>2
  <2> QED BY <2>1, <2>5
<1>5. n \in B
  <2> HIDE DEF B
  <2>1. B = 0..n
    BY <1>1, <1>3, <1>4, UpTo
  <2> QED BY <1>1, <2>1
<1>6. Len(K[n]) < n
  BY <1>5
<1> QED BY <1>1, <1>2, <1>6

-----------------------------------------------------------------------------
(* Bodies.                                                                 *)

Terms == UNION {Range(g.terms) : g \in Graphs}
BodyBlock == [id : Nat, stmts : Seq(Statement), term : Terms]

\* A body whose blocks have their own ids and lead to blocks of the body.
WellFormed(bs) ==
  /\ bs \in Seq(BodyBlock) /\ UniqueIds(bs) /\ 0 \in Ids(bs)
  /\ \A i \in DOMAIN bs : bs[i].term.targets \subseteq Ids(bs)

\* Where a terminator leads.
LEMMA TermType ==
  ASSUME NEW t \in Terms
  PROVE  /\ t.on \in Operand /\ Successors(t) = t.targets /\ t.targets \subseteq Nat
         /\ t.kind \in {"Goto", "Switch", "Return", "Unreachable"}
         /\ t.kind = "Goto" => t.arms = <<>> /\ t.other \in t.targets
         /\ t.kind = "Switch" => t.other \in t.targets /\ \A n \in DOMAIN t.arms : t.arms[n] \in t.targets
<1>1. PICK g \in Graphs : t \in Range(g.terms)
  BY DEF Terms
<1>2. IsTerminator(t) /\ t.targets \subseteq 0..Len(g.terms) - 1
  BY <1>1, PassesAssumption
<1>3. t.targets \subseteq Nat
  <2> DEFINE n == Len(g.terms) - 1
  <2>1. \A i \in 0..n : i \in Nat
    OBVIOUS
  <2> HIDE DEF n
  <2> QED BY <1>2, <2>1 DEF n
<1>4. t.kind = "Switch" => \A n \in DOMAIN t.arms : t.arms[n] \in Range(t.arms)
  BY DEF Range
<1> QED BY <1>2, <1>3, <1>4 DEF IsTerminator, Successors

\* The block that an id finds.
LEMMA BlockAtType ==
  ASSUME NEW bs, WellFormed(bs)
  PROVE  /\ \A i \in DOMAIN bs : /\ bs[i] \in BodyBlock /\ bs[i].id \in Ids(bs)
                                 /\ BlockAt(bs, bs[i].id) = bs[i]
         /\ \A id \in Ids(bs) : /\ id \in Nat /\ BlockAt(bs, id) \in BodyBlock
                                /\ \E i \in DOMAIN bs : bs[i].id = id /\ BlockAt(bs, id) = bs[i]
<1>1. bs \in Seq(BodyBlock) /\ UniqueIds(bs)
  BY DEF WellFormed
<1>2. \A i \in DOMAIN bs : bs[i] \in BodyBlock /\ bs[i].id \in Nat
  <2>1. \A i \in DOMAIN bs : bs[i] \in BodyBlock
    BY <1>1
  <2> QED BY <2>1 DEF BodyBlock
<1>3. \A i \in DOMAIN bs : BlockAt(bs, bs[i].id) = bs[i]
  <2> TAKE i \in DOMAIN bs
  <2> DEFINE k == CHOOSE k \in DOMAIN bs : bs[k].id = bs[i].id
  <2>1. k \in DOMAIN bs /\ bs[k].id = bs[i].id
    OBVIOUS
  <2>2. k = i
    BY <1>1, <2>1 DEF UniqueIds
  <2> QED BY <2>2 DEF BlockAt
<1> QED BY <1>2, <1>3 DEF Ids

-----------------------------------------------------------------------------
(* Executions.                                                             *)

\* How a block is left: for one of its targets or for good, unless the
\* execution is undefined.
LEMMA LeaveType ==
  ASSUME NEW end \in Execution, NEW t \in Terms
  PROVE  /\ Leave(end, t) \in Execution
         /\ end.undefined => Leave(end, t).undefined
         /\ Leave(end, t).undefined \/ Leave(end, t).at \in t.targets \cup {-1}
         /\ Leave(end, t).env = end.env /\ Leave(end, t).own = end.own
<1> DEFINE on == Value(end, t.on)
           to == IF on \in DOMAIN t.arms THEN t.arms[on] ELSE t.other
           seen == Told(end, "return", on)
<1>1. /\ end.at \in Int /\ end.env \in Env /\ end.seen \in Seq(Event) /\ end.undefined \in BOOLEAN
      /\ end.own \in SUBSET Locals
      /\ end = [at |-> end.at, env |-> end.env, own |-> end.own, seen |-> end.seen,
                undefined |-> end.undefined]
  BY ExecutionType
<1>2. on \in Int
  BY TermType, ValueType
<1>3. seen \in Seq(Event)
  BY <1>2, ToldType
<1>4. t.kind \in {"Goto", "Switch"} => to \in t.targets
  <2>1. CASE t.kind = "Goto"
    <3>1. t.arms = <<>> /\ t.other \in t.targets
      BY <2>1, TermType
    <3>2. DOMAIN t.arms = {}
      BY <3>1
    <3> QED BY <3>1, <3>2
  <2>2. CASE t.kind = "Switch"
    BY <2>2, TermType
  <2> QED BY <2>1, <2>2
<1>5. to \in t.targets => to \in Int
  BY TermType
<1>6. Leave(end, t) = CASE t.kind = "Return" -> [end EXCEPT !.at = -1, !.seen = seen]
                        [] t.kind = "Unreachable" -> [end EXCEPT !.undefined = TRUE]
                        [] OTHER -> [end EXCEPT !.at = to]
  BY DEF Leave
<1> HIDE DEF on, to, seen
<1>7. CASE t.kind = "Return"
  <2>1. Leave(end, t) = [end EXCEPT !.at = -1, !.seen = seen]
    BY <1>6, <1>7
  <2> DEFINE x == [at |-> -1, env |-> end.env, own |-> end.own, seen |-> seen, undefined |-> end.undefined]
  <2>2. Leave(end, t) = x
    BY <1>1, <2>1
  <2>3. -1 \in Int
    OBVIOUS
  <2>4. x \in Execution /\ x.at = -1 /\ x.env = end.env /\ x.own = end.own /\ x.undefined = end.undefined
    BY <1>1, <1>3, <2>3 DEF Execution
  <2> HIDE DEF x
  <2> QED BY <2>2, <2>4
<1>8. CASE t.kind = "Unreachable"
  <2>1. Leave(end, t) = [end EXCEPT !.undefined = TRUE]
    BY <1>6, <1>8
  <2> QED BY <1>1, <2>1 DEF Execution
<1>9. CASE t.kind \in {"Goto", "Switch"}
  <2>1. Leave(end, t) = [end EXCEPT !.at = to]
    BY <1>6, <1>9
  <2>2. to \in t.targets /\ to \in Int
    BY <1>4, <1>5, <1>9
  <2>3. /\ [end EXCEPT !.at = to] \in Execution /\ [end EXCEPT !.at = to].at = to
        /\ [end EXCEPT !.at = to].env = end.env /\ [end EXCEPT !.at = to].own = end.own
        /\ [end EXCEPT !.at = to].undefined = end.undefined
    BY <1>1, <2>2 DEF Execution
  <2> QED BY <2>1, <2>2, <2>3
<1> QED BY <1>7, <1>8, <1>9, TermType

\* What two executions share that agree on some cells.
Agree(r, q, ls) ==
  /\ r.at = q.at /\ r.own = q.own /\ r.seen = q.seen /\ ~r.undefined /\ ~q.undefined
  /\ \A l \in ls : r.env[l] = q.env[l]

\* Executions that agree on everything are one.
LEMMA SameExecution ==
  ASSUME NEW r \in Execution, NEW q \in Execution, NEW ls, Agree(r, q, ls), Locals \cup {0} \subseteq ls
  PROVE  r = q
<1>1. Cells = Locals \cup {0}
  BY CellsType
<1>2. \A l \in Cells : r.env[l] = q.env[l]
  BY <1>1 DEF Agree
<1>3. r.env = q.env
  BY <1>2, ExecutionType DEF Env
<1>4. r.at = q.at /\ r.own = q.own /\ r.seen = q.seen /\ r.undefined = q.undefined
  BY ExecutionType DEF Agree
<1> QED BY <1>3, <1>4, ExecutionType

\* The cells that an address may lead to.
Open(run) == run.own \cup {0}

\* Operands have the same value where what they read has, and what addresses
\* lead to.
LEMMA SameValue ==
  ASSUME NEW o \in Operand, NEW r \in Execution, NEW q \in Execution, NEW ls, Agree(r, q, ls),
         Open(r) \subseteq ls, Roots(o) \subseteq ls
  PROVE  /\ o[1] # "const" => Cell(r, o) = Cell(q, o)
         /\ Value(r, o) = Value(q, o)
         /\ \A v : At(r, v) = At(q, v) /\ r.env[At(r, v)] = q.env[At(q, v)]
         /\ \A op : Argument(r, op, o) = Argument(q, op, o)
<1>1. r.own = q.own /\ \A l \in ls : r.env[l] = q.env[l]
  BY DEF Agree
<1>2. \A v : At(r, v) = At(q, v) /\ At(r, v) \in ls
  BY <1>1, CellsType DEF At, Open
<1>3. o[1] # "const" => o[2] \in ls /\ Cell(r, o) = Cell(q, o) /\ Cell(r, o) \in ls
  <2> SUFFICES ASSUME o[1] # "const" PROVE o[2] \in ls /\ Cell(r, o) = Cell(q, o) /\ Cell(r, o) \in ls
    OBVIOUS
  <2>1. o[2] \in ls
    BY OperandType
  <2> QED BY <1>1, <1>2, <2>1 DEF Cell
<1>4. Value(r, o) = Value(q, o)
  BY <1>1, <1>3 DEF Value
<1>5. \A op : Argument(r, op, o) = Argument(q, op, o)
  BY <1>1, <1>2, <1>3, <1>4 DEF Argument
<1> QED BY <1>1, <1>2, <1>3, <1>4, <1>5

\* What is told is the same.
LEMMA SameTold ==
  ASSUME NEW r \in Execution, NEW q \in Execution, NEW ls, Agree(r, q, ls), Open(r) \subseteq ls,
         NEW what, NEW v
  PROVE  Told(r, what, v) = Told(q, what, v)
<1>1. r.own = q.own /\ r.seen = q.seen /\ \A l \in ls : r.env[l] = q.env[l]
  BY DEF Agree
<1>2. At(r, v) = At(q, v) /\ At(r, v) \in ls /\ 0 \in ls
  BY <1>1, CellsType DEF At, Open
<1> QED BY <1>1, <1>2 DEF Told

\* Executions that agree on what the terminator uses leave a block in the same
\* way.
LEMMA LeaveAgrees ==
  ASSUME NEW r \in Execution, NEW q \in Execution, NEW t \in Terms,
         NEW ls, Agree(r, q, ls), Open(r) \subseteq ls,
         t.kind \in {"Return", "Switch"} => Roots(t.on) \subseteq ls
  PROVE  Leave(r, t).undefined \/ Agree(Leave(r, t), Leave(q, t), ls)
<1> DEFINE on == Value(r, t.on)  at == Value(q, t.on)
<1>1. /\ r = [at |-> r.at, env |-> r.env, own |-> r.own, seen |-> r.seen, undefined |-> r.undefined]
      /\ q = [at |-> q.at, env |-> q.env, own |-> q.own, seen |-> q.seen, undefined |-> q.undefined]
  BY ExecutionType
<1>2. /\ r.at = q.at /\ r.own = q.own /\ r.seen = q.seen /\ ~r.undefined /\ ~q.undefined
      /\ \A l \in ls : r.env[l] = q.env[l]
  BY DEF Agree
<1>3. t.kind \in {"Return", "Switch"} => on = at
  BY TermType, SameValue
<1>4. CASE t.kind = "Return"
  <2> DEFINE seen == Told(r, "return", on)
  <2>1. Told(q, "return", at) = seen
    BY <1>3, <1>4, SameTold
  <2>2. /\ Leave(r, t) = [r EXCEPT !.at = -1, !.seen = seen]
        /\ Leave(q, t) = [q EXCEPT !.at = -1, !.seen = seen]
    BY <1>4, <2>1 DEF Leave
  <2> HIDE DEF on, at, seen
  <2> QED BY <1>1, <1>2, <2>2 DEF Agree
<1>5. CASE t.kind = "Unreachable"
  <2>1. Leave(r, t) = [r EXCEPT !.undefined = TRUE]
    BY <1>5 DEF Leave
  <2> QED BY <1>1, <2>1
<1>6. CASE t.kind \in {"Goto", "Switch"}
  <2> DEFINE to(v) == IF v \in DOMAIN t.arms THEN t.arms[v] ELSE t.other
  <2>1. Leave(r, t) = [r EXCEPT !.at = to(on)] /\ Leave(q, t) = [q EXCEPT !.at = to(at)]
    BY <1>6 DEF Leave
  <2>2. to(on) = to(at)
    <3>1. CASE t.kind = "Goto"
      <4>1. DOMAIN t.arms = {}
        BY <3>1, TermType
      <4> QED BY <4>1
    <3>2. CASE t.kind = "Switch"
      BY <1>3, <3>2
    <3> QED BY <1>6, <3>1, <3>2
  <2> DEFINE n == to(on)
  <2>3. Leave(r, t) = [r EXCEPT !.at = n] /\ Leave(q, t) = [q EXCEPT !.at = n]
    BY <2>1, <2>2
  <2> HIDE DEF n, to, on, at
  <2> QED BY <1>1, <1>2, <2>3 DEF Agree
<1> QED BY <1>4, <1>5, <1>6, TermType

\* An execution goes on as an execution, and what is undefined stays so.
LEMMA FurtherType ==
  ASSUME NEW bs, WellFormed(bs), NEW run \in Execution
  PROVE  /\ Further(bs, run) \in Execution /\ Further(bs, run).own = run.own
         /\ run.undefined => Further(bs, run).undefined
<1>1. CASE run.at = -1
  BY <1>1 DEF Further
<1>2. CASE run.at # -1 /\ run.at \notin Ids(bs)
  <2> DEFINE seen == Told(run, "lost", 0)
  <2>2. seen \in Seq(Event)
    BY ToldType
  <2>3. Further(bs, run) = [run EXCEPT !.seen = seen]
    BY <1>2 DEF Further
  <2> HIDE DEF seen
  <2> QED BY <2>2, <2>3 DEF Execution
<1>3. CASE run.at # -1 /\ run.at \in Ids(bs)
  <2> DEFINE b == BlockAt(bs, run.at)
  <2>1. Further(bs, run) = Leave(After(run, b.stmts), b.term)
    BY <1>3 DEF Further
  <2>2. b \in BodyBlock
    BY <1>3, BlockAtType
  <2> HIDE DEF b
  <2>3. b.stmts \in Seq(Statement) /\ b.term \in Terms
    BY <2>2 DEF BodyBlock
  <2>4. /\ After(run, b.stmts) \in Execution /\ After(run, b.stmts).own = run.own
        /\ run.undefined => After(run, b.stmts).undefined
    BY <2>3, AfterType
  <2> QED BY <2>1, <2>3, <2>4, LeaveType
<1> QED BY <1>1, <1>2, <1>3

\* H goes from block to block.
Begin(own, env) == [at |-> 0, env |-> env, own |-> own, seen |-> <<>>, undefined |-> FALSE]

Runs(H, bs, own, env) ==
  /\ H \in [0..Fuel -> Execution] /\ H[0] = Begin(own, env)
  /\ \A i \in 1..Fuel : H[i] = Further(bs, H[i - 1])

\* What Run computes.
LEMMA RunRuns ==
  ASSUME NEW bs, WellFormed(bs), NEW own \in SUBSET Locals, NEW env \in Env
  PROVE  \E H : Runs(H, bs, own, env) /\ Run(bs, own, env) = H[Fuel]
<1> DEFINE start == Begin(own, env)
           R(f) == f = [i \in 0..Fuel |->
                          IF i = 0 THEN [at |-> 0, env |-> env, own |-> own, seen |-> <<>>,
                                         undefined |-> FALSE]
                          ELSE Further(bs, f[i - 1])]
           f0 == CHOOSE f : R(f)
           V == Execution
           G == [i \in 1..Fuel |-> [r \in V |-> Further(bs, r)]]
<1>1. Fuel \in Nat
  BY PassesAssumption
<1>2. start \in V
  BY DEF Execution, Begin
<1>3. \A r \in V : Further(bs, r) \in V
  BY FurtherType
<1>4. G \in [1..Fuel -> [V -> V]]
  BY <1>3
<1>5. Run(bs, own, env) = f0[Fuel]
  BY DEF Run
<1> HIDE DEF V, G, start
<1>6. PICK H : H \in [0..Fuel -> V] /\ H[0] = start /\ \A i \in 1..Fuel : H[i] = G[i][H[i - 1]]
  <2>1. \E F : Recurses(F, Fuel, V, start, G)
    BY <1>1, <1>2, <1>4, Recursion
  <2> QED BY <2>1 DEF Recurses
<1>7. \A i \in 1..Fuel : i \in 0..Fuel /\ i - 1 \in 0..Fuel /\ i # 0 /\ H[i - 1] \in V
  BY <1>1, <1>6
<1>8. \A i \in 1..Fuel : H[i] = Further(bs, H[i - 1])
  BY <1>6, <1>7 DEF G
<1>9. R(H)
  <2>1. \A i \in 0..Fuel : i = 0 \/ i \in 1..Fuel
    BY <1>1
  <2>2. \A i \in 0..Fuel : H[i] = IF i = 0 THEN start ELSE Further(bs, H[i - 1])
    BY <1>6, <1>8, <2>1
  <2> QED BY <1>6, <2>2 DEF start, Begin
<1>10. R(f0)
  BY <1>9
<1>11. f0[0] = start /\ DOMAIN f0 = 0..Fuel /\ f0 = [i \in 0..Fuel |-> f0[i]]
  <2> HIDE DEF f0
  <2> QED BY <1>1, <1>10 DEF start, Begin
<1>12. \A i \in 1..Fuel : f0[i] = Further(bs, f0[i - 1])
  <2> HIDE DEF f0
  <2> QED BY <1>7, <1>10
<1> HIDE DEF f0, R
<1>13. \A i \in 0..Fuel : f0[i] \in V
  <2>1. \A i \in 1..Fuel : f0[i - 1] \in V => f0[i] \in V
    BY <1>3, <1>12
  <2>2. f0[0] \in V
    BY <1>2, <1>11
  <2> QED BY <1>1, <2>1, <2>2, RecursionStays
<1>14. f0 \in [0..Fuel -> V]
  BY <1>11, <1>13
<1>15. Runs(f0, bs, own, env)
  BY <1>11, <1>12, <1>14 DEF Runs, V, start
<1> QED BY <1>5, <1>15

-----------------------------------------------------------------------------
(* Simulation.                                                             *)

\* Executions that agree on what a statement reads agree after it, on what it
\* writes as well.
LEMMA StepAgrees ==
  ASSUME NEW r \in Execution, NEW q \in Execution, NEW s \in Statement, NEW ls,
         Agree(r, q, ls), Open(r) \subseteq ls, Needs(s) \subseteq ls
  PROVE  \/ Step(r, s).undefined
         \/ Agree(Step(r, s), Step(q, s), ls \cup Uses(s.lhs))
<1> DEFINE args == Arguments(r, s)  x == IF s.kind = "call" THEN 1 ELSE Computed(s.op, args)
           seen == IF s.kind = "assign" THEN r.seen ELSE Told(r, s.kind, args[1])
           here == Stored(r, s, args)  there == Stored(q, s, args)  c == Cell(r, s.lhs)
<1>1. /\ r.env \in Env /\ q.env \in Env
      /\ r = [at |-> r.at, env |-> r.env, own |-> r.own, seen |-> r.seen, undefined |-> r.undefined]
      /\ q = [at |-> q.at, env |-> q.env, own |-> q.own, seen |-> q.seen, undefined |-> q.undefined]
  BY ExecutionType
<1>2. /\ r.at = q.at /\ r.own = q.own /\ r.seen = q.seen /\ ~r.undefined /\ ~q.undefined
      /\ \A l \in ls : r.env[l] = q.env[l]
  BY DEF Agree
<1>3. Arguments(q, s) = args
  <2>1. \A i \in DOMAIN s.args : Argument(r, s.op, s.args[i]) = Argument(q, s.op, s.args[i])
    <3> TAKE i \in DOMAIN s.args
    <3>1. s.args[i] \in Operand /\ Roots(s.args[i]) \subseteq ls
      BY StatementType, ReadsType
    <3> QED BY <3>1, SameValue
  <2> QED BY <2>1 DEF Arguments
<1>4. s.kind # "assign" => Told(q, s.kind, args[1]) = seen
  BY SameTold
<1>5. s.lhs[1] # "const" => Cell(q, s.lhs) = c
  <2> HAVE s.lhs[1] # "const"
  <2>1. CASE s.lhs[1] = "deref"
    <3>1. s.lhs \in Operand /\ Roots(s.lhs) \subseteq ls
      BY <2>1, StatementType, ReadsType, OperandType DEF Bases
    <3> QED BY <2>1, <3>1, SameValue
  <2>2. CASE s.lhs[1] # "deref"
    BY <2>2 DEF Cell
  <2> QED BY <2>1, <2>2
<1>6. /\ Step(r, s) = IF Undefined(s.op, args) THEN [r EXCEPT !.undefined = TRUE]
                      ELSE [r EXCEPT !.seen = seen, !.env = here]
      /\ Step(q, s) = IF Undefined(s.op, args) THEN [q EXCEPT !.undefined = TRUE]
                      ELSE [q EXCEPT !.seen = seen, !.env = there]
  <2>1. (IF s.kind = "assign" THEN q.seen ELSE Told(q, s.kind, args[1])) = seen
    BY <1>2, <1>4
  <2> HIDE DEF args, seen, here, there
  <2>2. /\ Step(r, s) = IF r.undefined \/ Undefined(s.op, args) THEN [r EXCEPT !.undefined = TRUE]
                        ELSE [r EXCEPT !.seen = seen, !.env = here]
        /\ Step(q, s) = IF q.undefined \/ Undefined(s.op, args) THEN [q EXCEPT !.undefined = TRUE]
                        ELSE [q EXCEPT !.seen = seen, !.env = there]
    BY <1>3, <2>1 DEF Step, args, seen, here, there
  <2> QED BY <1>2, <2>2
<1>7. \A l \in ls \cup Uses(s.lhs) : here[l] = there[l]
  <2>1. CASE s.lhs[1] = "const"
    <3>1. here = r.env /\ there = q.env /\ Uses(s.lhs) = {}
      BY <2>1 DEF Stored, Uses
    <3> HIDE DEF here, there
    <3> QED BY <1>2, <3>1
  <2>2. CASE s.lhs[1] # "const"
    <3>1. c \in Cells
      BY <2>2, StatementType, ValueType
    <3>2. Uses(s.lhs) \subseteq {c}
      BY DEF Uses, Cell
    <3>3. here = [r.env EXCEPT ![c] = x] /\ there = [q.env EXCEPT ![c] = x]
      BY <1>5, <2>2 DEF Stored
    <3> HIDE DEF here, there, x, c
    <3>4. here[c] = x /\ there[c] = x
      BY <1>1, <3>1, <3>3 DEF Env
    <3>5. \A l : l # c => here[l] = r.env[l] /\ there[l] = q.env[l]
      <4>1. \A l \in Cells : l # c => here[l] = r.env[l] /\ there[l] = q.env[l]
        BY <1>1, <3>1, <3>3 DEF Env
      <4>2. DOMAIN here = Cells /\ DOMAIN there = Cells /\ DOMAIN r.env = Cells /\ DOMAIN q.env = Cells
        BY <1>1, <3>3 DEF Env
      <4> QED BY <4>1, <4>2, <3>3
    <3> QED BY <1>2, <3>2, <3>4, <3>5
  <2> QED BY <2>1, <2>2
<1> HIDE DEF here, there, seen, args, c
<1>8. CASE Undefined(s.op, args)
  <2>1. Step(r, s) = [r EXCEPT !.undefined = TRUE]
    BY <1>6, <1>8
  <2>2. Step(r, s).undefined
    BY <1>1, <2>1
  <2> QED BY <2>2
<1>9. CASE ~Undefined(s.op, args)
  <2>1. /\ Step(r, s) = [r EXCEPT !.seen = seen, !.env = here]
        /\ Step(q, s) = [q EXCEPT !.seen = seen, !.env = there]
    BY <1>6, <1>9
  <2>2. /\ Step(r, s).at = r.at /\ Step(r, s).seen = seen /\ Step(r, s).env = here
        /\ Step(q, s).at = q.at /\ Step(q, s).seen = seen /\ Step(q, s).env = there
        /\ Step(r, s).own = r.own /\ Step(q, s).own = q.own
        /\ Step(r, s).undefined = r.undefined /\ Step(q, s).undefined = q.undefined
    BY <1>1, <2>1
  <2> QED BY <1>2, <1>7, <2>2 DEF Agree
<1> QED BY <1>8, <1>9

\* A store can be left out where nobody asks for the local.
LEMMA StoreLeftOut ==
  ASSUME NEW r \in Execution, NEW q \in Execution, NEW s \in Statement, Stores(s), NEW ls,
         Agree(r, q, ls)
  PROVE  Step(r, s).undefined \/ Agree(Step(r, s), q, ls \ {s.lhs[2]})
<1> DEFINE args == Arguments(r, s)  here == Stored(r, s, args)  x == Computed(s.op, args)
<1>1. /\ r.env \in Env
      /\ r = [at |-> r.at, env |-> r.env, own |-> r.own, seen |-> r.seen, undefined |-> r.undefined]
  BY ExecutionType
<1>2. /\ r.at = q.at /\ r.own = q.own /\ r.seen = q.seen /\ ~r.undefined /\ ~q.undefined
      /\ \A l \in ls : r.env[l] = q.env[l]
  BY DEF Agree
<1>3. s.kind = "assign" /\ s.lhs[1] = "local"
  BY DEF Stores
<1>4. here = [r.env EXCEPT ![s.lhs[2]] = x]
  BY <1>3 DEF Stored, Cell
<1>5. Step(r, s) = IF Undefined(s.op, args) THEN [r EXCEPT !.undefined = TRUE]
                   ELSE [r EXCEPT !.seen = r.seen, !.env = here]
  BY <1>2, <1>3 DEF Step
<1> HIDE DEF here, args, x
<1>6. \A l \in ls \ {s.lhs[2]} : here[l] = q.env[l]
  <2> TAKE l \in ls \ {s.lhs[2]}
  <2>1. here[l] = r.env[l]
    <3>1. DOMAIN here = Cells /\ DOMAIN r.env = Cells
      BY <1>1, <1>4 DEF Env
    <3>2. CASE l \in Cells
      BY <1>1, <1>4, <3>2 DEF Env
    <3>3. CASE l \notin Cells
      BY <1>4, <3>1, <3>3
    <3> QED BY <3>2, <3>3
  <2> QED BY <1>2, <2>1
<1>7. CASE Undefined(s.op, args)
  <2>1. Step(r, s) = [r EXCEPT !.undefined = TRUE]
    BY <1>5, <1>7
  <2>2. Step(r, s).undefined
    BY <1>1, <2>1
  <2> QED BY <2>2
<1>8. CASE ~Undefined(s.op, args)
  <2>1. Step(r, s) = [r EXCEPT !.seen = r.seen, !.env = here]
    BY <1>5, <1>8
  <2>2. /\ Step(r, s).at = r.at /\ Step(r, s).seen = r.seen /\ Step(r, s).env = here
        /\ Step(r, s).own = r.own /\ Step(r, s).undefined = r.undefined
    BY <1>1, <2>1
  <2> QED BY <1>2, <1>6, <2>2 DEF Agree
<1> QED BY <1>7, <1>8

LiveAt(live, id) == {l \in Locals : <<id, l>> \in live}

\* Block b of one body and c of another, run from where they agree on what is
\* live and on the cells fixed, agree on what is live behind them, and on those.
Follows(b, c, live, fixed) ==
  /\ c.id = b.id /\ c.term = b.term
  /\ \A r, q \in Execution :
       Agree(r, q, LiveAt(live, b.id) \cup fixed) /\ Open(r) \subseteq fixed =>
         \/ After(r, b.stmts).undefined
         \/ Agree(After(r, b.stmts), After(q, c.stmts), LiveOut(live, b) \cup TermUses(b.term) \cup fixed)

\* What one body does is what another does, unless it is undefined; own are
\* the locals that have an address.
Better(own, bs, cs) ==
  \A env \in Env :
    \/ Run(bs, own, env).undefined
    \/ ~Run(cs, own, env).undefined /\ Run(cs, own, env).seen = Run(bs, own, env).seen

\* Bodies behave alike if the blocks that one of them can reach follow those of
\* the other, and what their terminators read is used or fixed.
LEMMA Simulation ==
  ASSUME NEW bs, WellFormed(bs), NEW cs, WellFormed(cs), NEW own \in SUBSET Locals,
         NEW live, NEW fixed, own \cup {0} \subseteq fixed,
         NEW ids \in SUBSET Ids(bs), ids \subseteq Ids(cs), 0 \in ids,
         \A id \in ids : /\ Follows(BlockAt(bs, id), BlockAt(cs, id), live, fixed)
                         /\ BlockAt(bs, id).term.targets \subseteq ids
                         /\ Roots(BlockAt(bs, id).term.on) \subseteq Uses(BlockAt(bs, id).term.on) \cup fixed
  PROVE  Better(own, bs, cs)
<1> SUFFICES ASSUME NEW env \in Env
             PROVE  \/ Run(bs, own, env).undefined
                    \/ ~Run(cs, own, env).undefined /\ Run(cs, own, env).seen = Run(bs, own, env).seen
  BY DEF Better
<1>1. PICK H : Runs(H, bs, own, env) /\ Run(bs, own, env) = H[Fuel]
  BY RunRuns
<1>2. PICK J : Runs(J, cs, own, env) /\ Run(cs, own, env) = J[Fuel]
  BY RunRuns
<1>3. /\ H \in [0..Fuel -> Execution] /\ J \in [0..Fuel -> Execution] /\ H[0] = J[0]
      /\ H[0] = Begin(own, env)
      /\ \A i \in 1..Fuel : H[i] = Further(bs, H[i - 1]) /\ J[i] = Further(cs, J[i - 1])
  BY <1>1, <1>2 DEF Runs
<1>4. Fuel \in Nat
  BY PassesAssumption
<1> DEFINE Alike(r, q) == \/ r.undefined
                          \/ r.at = -1 /\ Agree(r, q, {})
                          \/ /\ r.at \in ids /\ Agree(r, q, LiveAt(live, r.at) \cup fixed)
                             /\ Open(r) \subseteq fixed
           B == {i \in 0..Fuel : Alike(H[i], J[i])}
<1>5. 0 \in B /\ B \in SUBSET (0..Fuel)
  <2>1. H[0].at = 0 /\ ~H[0].undefined /\ H[0].own = own
    BY <1>3 DEF Begin
  <2>2. Agree(H[0], J[0], LiveAt(live, H[0].at) \cup fixed) /\ Open(H[0]) \subseteq fixed
    BY <1>3, <2>1 DEF Agree, Open
  <2>3. 0 \in 0..Fuel /\ 0 \in ids
    BY <1>4
  <2>4. Alike(H[0], J[0])
    BY <2>1, <2>2, <2>3
  <2> HIDE DEF Alike
  <2> QED BY <2>3, <2>4
<1>6. ASSUME NEW r \in Execution, NEW q \in Execution, Alike(r, q)
      PROVE  Alike(Further(bs, r), Further(cs, q))
  <2>1. CASE r.undefined
    BY <2>1, FurtherType
  <2>2. CASE r.at = -1 /\ Agree(r, q, {})
    <3>1. q.at = -1
      BY <2>2 DEF Agree
    <3> QED BY <2>2, <3>1 DEF Further
  <2>3. CASE r.at \in ids /\ Agree(r, q, LiveAt(live, r.at) \cup fixed) /\ Open(r) \subseteq fixed
    <3> DEFINE b == BlockAt(bs, r.at)  c == BlockAt(cs, r.at)
               u == After(r, b.stmts)  v == After(q, c.stmts)
               ls == LiveOut(live, b) \cup TermUses(b.term) \cup fixed
    <3>1. q.at = r.at /\ r.at \in Ids(bs) /\ r.at \in Ids(cs)
      BY <2>3 DEF Agree
    <3>2. b \in BodyBlock /\ c \in BodyBlock /\ b.id = r.at
      BY <3>1, BlockAtType
    <3>3. r.at \in Nat
      BY <3>1, BlockAtType
    <3>4. Further(bs, r) = Leave(u, b.term) /\ Further(cs, q) = Leave(v, c.term)
      BY <3>1, <3>3 DEF Further
    <3>5. /\ Follows(b, c, live, fixed) /\ b.term.targets \subseteq ids
          /\ Roots(b.term.on) \subseteq Uses(b.term.on) \cup fixed
      BY <2>3
    <3> HIDE DEF b, c
    <3>7. c.term = b.term /\ (u.undefined \/ Agree(u, v, ls))
      BY <2>3, <3>2, <3>5 DEF Follows
    <3>8. /\ b.stmts \in Seq(Statement) /\ c.stmts \in Seq(Statement) /\ b.term \in Terms
      BY <3>2 DEF BodyBlock
    <3>9. u \in Execution /\ v \in Execution /\ Open(u) \subseteq fixed
      BY <2>3, <3>8, AfterType DEF Open
    <3> HIDE DEF u, v
    <3> DEFINE y == Leave(u, b.term)  z == Leave(v, b.term)
    <3>10. CASE u.undefined
      BY <3>4, <3>8, <3>9, <3>10, LeaveType
    <3>11. CASE ~u.undefined
      <4>1. Agree(u, v, ls)
        BY <3>7, <3>11
      <4>2. b.term.kind \in {"Return", "Switch"} => Roots(b.term.on) \subseteq ls
        BY <3>5 DEF TermUses
      <4>3. fixed \subseteq ls /\ LiveOut(live, b) \subseteq ls
        OBVIOUS
      <4> HIDE DEF ls
      <4>4. y.undefined \/ Agree(y, z, ls)
        BY <3>8, <3>9, <4>1, <4>2, <4>3, LeaveAgrees
      <4>5. y.undefined \/ y.at \in b.term.targets \cup {-1}
        BY <3>8, <3>9, LeaveType
      <4>6. Open(y) \subseteq fixed
        BY <3>8, <3>9, LeaveType DEF Open
      <4>7. CASE y.undefined
        BY <3>4, <4>7
      <4>8. CASE ~y.undefined /\ y.at = -1
        <5>1. Agree(y, z, {})
          BY <4>4, <4>8 DEF Agree
        <5> QED BY <3>4, <3>7, <4>8, <5>1
      <4>9. CASE ~y.undefined /\ y.at \in b.term.targets
        <5>1. LiveAt(live, y.at) \cup fixed \subseteq ls
          <6>1. Successors(b.term) = b.term.targets
            BY <3>8, TermType
          <6> QED BY <4>3, <4>9, <6>1 DEF LiveAt, LiveOut
        <5>2. Agree(y, z, LiveAt(live, y.at) \cup fixed)
          BY <4>4, <4>9, <5>1 DEF Agree
        <5> QED BY <3>4, <3>5, <3>7, <4>6, <4>9, <5>2
      <4> QED BY <4>5, <4>7, <4>8, <4>9
    <3> QED BY <3>10, <3>11
  <2> QED BY <1>6, <2>1, <2>2, <2>3
<1>7. \A i \in 0..Fuel - 1 : i \in B => i + 1 \in B
  <2> SUFFICES ASSUME NEW i \in 0..Fuel - 1, i \in B PROVE i + 1 \in B
    OBVIOUS
  <2>1. i + 1 \in 1..Fuel /\ i + 1 - 1 = i /\ i + 1 \in 0..Fuel /\ i \in 0..Fuel
    BY <1>4
  <2>2. Alike(H[i], J[i]) /\ H[i] \in Execution /\ J[i] \in Execution
    BY <1>3, <2>1
  <2> HIDE DEF Alike
  <2>3. Alike(Further(bs, H[i]), Further(cs, J[i]))
    BY <1>6, <2>2
  <2>4. H[i + 1] = Further(bs, H[i]) /\ J[i + 1] = Further(cs, J[i])
    BY <1>3, <2>1
  <2> QED BY <2>1, <2>3, <2>4
<1> HIDE DEF B
<1>8. B = 0..Fuel
  BY <1>4, <1>5, <1>7, UpTo
<1>9. Alike(H[Fuel], J[Fuel])
  <2>1. Fuel \in B
    BY <1>4, <1>8
  <2> QED BY <2>1 DEF B
<1> QED BY <1>1, <1>2, <1>9 DEF Agree

\* Better is a preorder.
LEMMA BetterThan ==
  ASSUME NEW own, NEW as, NEW bs, NEW cs
  PROVE  Better(own, as, as) /\ (Better(own, as, bs) /\ Better(own, bs, cs) => Better(own, as, cs))
BY DEF Better

-----------------------------------------------------------------------------
(* What can be reached.                                                    *)

\* The blocks ids, and those that they lead to.
Near(bs, ids) == ids \cup UNION {bs[i].term.targets : i \in {j \in DOMAIN bs : bs[j].id \in ids}}

Closed(bs, ids) == \A i \in DOMAIN bs : bs[i].id \in ids => bs[i].term.targets \subseteq ids

\* There are no more ids than blocks.
LEMMA IdsFinite ==
  ASSUME NEW bs, WellFormed(bs)
  PROVE  IsFiniteSet(Ids(bs)) /\ Cardinality(Ids(bs)) <= Len(bs) /\ Cardinality(Ids(bs)) \in Nat
<1> DEFINE n == Len(bs)  f == [i \in 1..n |-> bs[i].id]
<1>1. n \in Nat /\ DOMAIN bs = 1..n
  BY DEF WellFormed
<1>2. f \in Surjection(1..n, Ids(bs))
  BY <1>1 DEF Surjection, Ids
<1>3. IsFiniteSet(1..n) /\ Cardinality(1..n) = n
  <2>1. 1 \in Int /\ n \in Int
    BY <1>1
  <2>2. IsFiniteSet(1..n) /\ Cardinality(1..n) = IF 1 > n THEN 0 ELSE n - 1 + 1
    BY <2>1, FS_Interval
  <2> QED BY <1>1, <2>2
<1> HIDE DEF n, f
<1>4. IsFiniteSet(Ids(bs)) /\ Cardinality(Ids(bs)) <= n
  BY <1>2, <1>3, FS_Surjection
<1> QED BY <1>4, FS_CardinalityType DEF n

\* compute_reachable_blocks and the validator's reachability find the same
\* blocks, the least set with the entry that its blocks lead out of nowhere.
LEMMA ReachableIs ==
  ASSUME NEW bs, WellFormed(bs)
  PROVE  /\ ReachableBlocks(bs) = Reachable(bs, 0)
         /\ 0 \in Reachable(bs, 0) /\ Reachable(bs, 0) \subseteq Ids(bs)
         /\ Closed(bs, Reachable(bs, 0))
         /\ \A ids : 0 \in ids /\ Closed(bs, ids) => Reachable(bs, 0) \subseteq ids
<1> DEFINE n == Len(bs)  U == Ids(bs)  V == SUBSET U  v == {0}
           G == [ids \in V |-> Near(bs, ids)]
           step == [i \in 1..n |-> G]
<1>1. n \in Nat /\ DOMAIN bs = 1..n /\ UniqueIds(bs) /\ v \in V
      /\ \A i \in DOMAIN bs : bs[i].id \in U /\ bs[i].term.targets \subseteq U
  BY DEF WellFormed, Ids
<1>2. \A i \in DOMAIN bs : Successors(bs[i].term) = bs[i].term.targets
  <2> TAKE i \in DOMAIN bs
  <2>1. bs[i] \in BodyBlock
    BY BlockAtType
  <2>2. bs[i].term \in Terms
    BY <2>1 DEF BodyBlock
  <2> QED BY <2>2, TermType
<1> HIDE DEF n, U
<1>3. \A ids \in V : Near(bs, ids) \in V /\ ids \subseteq Near(bs, ids)
  BY <1>1 DEF Near
<1>4. G \in [V -> V] /\ step \in [1..n -> [V -> V]]
  <2>1. G \in [V -> V]
    BY <1>3
  <2> HIDE DEF G, V
  <2> QED BY <2>1
<1> HIDE DEF G, V, v
<1>5. PICK H : Recurses(H, n, V, v, step)
  BY <1>1, <1>4, Recursion
<1>6. /\ H \in [0..n -> V] /\ H[0] = v /\ \A i \in 1..n : H[i] = G[H[i - 1]]
  BY <1>5 DEF Recurses
<1>7. \A i \in 1..n : i \in 0..n /\ i - 1 \in 0..n /\ i # 0
  BY <1>1
<1> HIDE DEF step
<1>8. ReachableBlocks(bs) = H[n]
  <2> DEFINE near(f, i) == f[i - 1]
             R(f) == f = [i \in 0..n |->
                       IF i = 0 THEN {0}
                       ELSE near(f, i) \cup
                            UNION {Successors(bs[j].term) :
                                     j \in {k \in DOMAIN bs : bs[k].id \in near(f, i)}}]
             f0 == CHOOSE f : R(f)
  <2>1. ReachableBlocks(bs) = f0[n]
    BY DEF ReachableBlocks, n
  <2>2. \A ids \in V : ids \cup UNION {Successors(bs[j].term) : j \in {k \in DOMAIN bs : bs[k].id \in ids}}
                       = G[ids]
    BY <1>2 DEF G, Near
  <2>3. R(H)
    <3>1. \A i \in 0..n : i = 0 \/ i \in 1..n
      BY <1>1
    <3>2. \A i \in 1..n : H[i - 1] \in V
      BY <1>6, <1>7
    <3>3. \A i \in 0..n : H[i] =
            IF i = 0 THEN {0}
            ELSE near(H, i) \cup
                 UNION {Successors(bs[j].term) : j \in {k \in DOMAIN bs : bs[k].id \in near(H, i)}}
      BY <1>6, <2>2, <3>1, <3>2 DEF v
    <3> QED BY <1>6, <3>3
  <2>4. R(f0)
    BY <2>3
  <2> HIDE DEF f0
  <2>5. f0[0] = v
    BY <1>1, <2>4 DEF v
  <2>6. \A i \in 1..n : f0[i - 1] \in V => f0[i] = step[i][f0[i - 1]]
    <3> SUFFICES ASSUME NEW i \in 1..n, f0[i - 1] \in V PROVE f0[i] = G[f0[i - 1]]
      BY DEF step
    <3>1. f0[i] = near(f0, i) \cup
                  UNION {Successors(bs[j].term) : j \in {k \in DOMAIN bs : bs[k].id \in near(f0, i)}}
      BY <1>7, <2>4
    <3> QED BY <2>2, <3>1
  <2> HIDE DEF R
  <2>7. Unfolds(f0, n, V, v, step)
    BY <2>5, <2>6 DEF Unfolds
  <2>8. f0[n] = H[n]
    BY <1>1, <1>4, <1>5, <2>7, RecursionOnce
  <2> QED BY <2>1, <2>8
<1>9. Reachable(bs, 0) = H[n]
  <2> DEFINE near(f, i) == f[i - 1]
             R(f) == f = [i \in 0..n |->
                       IF i = 0 THEN {0}
                       ELSE near(f, i) \cup UNION {TermOf(bs, b).targets : b \in near(f, i)}]
             f0 == CHOOSE f : R(f)
  <2>1. Reachable(bs, 0) = f0[n]
    BY DEF Reachable, n
  <2>2. \A i \in DOMAIN bs : TermOf(bs, bs[i].id) = bs[i].term
    <3> TAKE i \in DOMAIN bs
    <3> DEFINE k == CHOOSE k \in DOMAIN bs : bs[k].id = bs[i].id /\ IsFirst(bs, k)
    <3>1. IsFirst(bs, i)
      <4> SUFFICES ASSUME NEW j \in 1..i - 1, bs[j].id = bs[i].id PROVE FALSE
        BY DEF IsFirst
      <4>1. j \in DOMAIN bs /\ j # i
        BY <1>1
      <4> QED BY <1>1, <4>1 DEF UniqueIds
    <3>2. k \in DOMAIN bs /\ bs[k].id = bs[i].id
      BY <3>1
    <3>3. k = i
      BY <1>1, <3>2 DEF UniqueIds
    <3>4. bs[i].id \in Ids(bs)
      BY DEF Ids
    <3> QED BY <3>3, <3>4 DEF TermOf
  <2>3. \A ids \in V : ids \cup UNION {TermOf(bs, b).targets : b \in ids} = G[ids]
    <3> TAKE ids \in V
    <3>1. \A b \in ids : \E i \in DOMAIN bs : bs[i].id = b
      BY DEF V, U, Ids
    <3> DEFINE T1 == {TermOf(bs, b).targets : b \in ids}
               T2 == {bs[i].term.targets : i \in {j \in DOMAIN bs : bs[j].id \in ids}}
    <3>2. \A x \in T1 : x \in T2
      BY <2>2, <3>1
    <3>3. \A x \in T2 : x \in T1
      BY <2>2
    <3>4. T1 = T2
      BY <3>2, <3>3
    <3>5. G[ids] = ids \cup UNION T2
      BY DEF G, Near
    <3> HIDE DEF T1, T2
    <3>6. ids \cup UNION T1 = G[ids]
      BY <3>4, <3>5
    <3> QED BY <3>6 DEF T1
  <2>4. R(H)
    <3>1. \A i \in 0..n : i = 0 \/ i \in 1..n
      BY <1>1
    <3>2. \A i \in 1..n : H[i - 1] \in V
      BY <1>6, <1>7
    <3>3. \A i \in 0..n : H[i] =
            IF i = 0 THEN {0} ELSE near(H, i) \cup UNION {TermOf(bs, b).targets : b \in near(H, i)}
      BY <1>6, <2>3, <3>1, <3>2 DEF v
    <3> QED BY <1>6, <3>3
  <2>5. R(f0)
    BY <2>4
  <2> HIDE DEF f0
  <2>6. f0[0] = v
    BY <1>1, <2>5 DEF v
  <2>7. \A i \in 1..n : f0[i - 1] \in V => f0[i] = step[i][f0[i - 1]]
    <3> SUFFICES ASSUME NEW i \in 1..n, f0[i - 1] \in V PROVE f0[i] = G[f0[i - 1]]
      BY DEF step
    <3>1. f0[i] = near(f0, i) \cup UNION {TermOf(bs, b).targets : b \in near(f0, i)}
      BY <1>7, <2>5
    <3> QED BY <2>3, <3>1
  <2> HIDE DEF R
  <2>8. Unfolds(f0, n, V, v, step)
    BY <2>6, <2>7 DEF Unfolds
  <2>9. f0[n] = H[n]
    BY <1>1, <1>4, <1>5, <2>8, RecursionOnce
  <2> QED BY <2>1, <2>9
<1>10. G[H[n]] = H[n]
  <2>1. IsFiniteSet(U) /\ Cardinality(U) <= n
    BY IdsFinite DEF U, n
  <2>2. /\ H \in [0..n -> SUBSET U] /\ G \in [SUBSET U -> SUBSET U]
        /\ \A i \in 1..n : H[i] = G[H[i - 1]]
    BY <1>4, <1>6 DEF V
  <2>3. \A i \in 0..n : H[i] \subseteq G[H[i]]
    <3> TAKE i \in 0..n
    <3>1. H[i] \in V
      BY <1>6
    <3> QED BY <1>3, <3>1 DEF G
  <2>4. Chain(H, n, U, G)
    BY <2>2, <2>3 DEF Chain
  <2> QED BY <1>1, <2>1, <2>4, ChainStops
<1>11. n \in 0..n /\ H[n] \in V /\ Near(bs, H[n]) = H[n]
  <2>1. n \in 0..n /\ H[n] \in V
    BY <1>1, <1>6
  <2> QED BY <1>10, <2>1 DEF G
<1>12. Closed(bs, H[n])
  BY <1>11 DEF Closed, Near
<1>13. ASSUME NEW ids, 0 \in ids, Closed(bs, ids) PROVE H[n] \subseteq ids
  <2> DEFINE S == SUBSET ids
  <2>1. H[0] \in S
    BY <1>6, <1>13 DEF v
  <2>2. \A i \in 1..n : H[i - 1] \in S => H[i] \in S
    <3> SUFFICES ASSUME NEW i \in 1..n, H[i - 1] \in S PROVE H[i] \in S
      OBVIOUS
    <3>1. H[i - 1] \in V /\ H[i] = G[H[i - 1]]
      BY <1>6, <1>7
    <3>2. H[i] = Near(bs, H[i - 1])
      BY <3>1 DEF G
    <3>3. H[i - 1] \subseteq ids
      BY DEF S
    <3>4. \A j \in DOMAIN bs : bs[j].id \in H[i - 1] => bs[j].term.targets \subseteq ids
      BY <1>13, <3>3 DEF Closed
    <3>5. Near(bs, H[i - 1]) \subseteq ids
      BY <3>3, <3>4 DEF Near
    <3> QED BY <3>2, <3>5
  <2> HIDE DEF S
  <2>3. \A i \in 0..n : H[i] \in S
    BY <1>1, <2>1, <2>2, RecursionStays
  <2> QED BY <1>11, <2>3 DEF S
<1>14. 0 \in H[n]
  <2> DEFINE S == {x \in V : 0 \in x}
  <2>1. H[0] \in S
    BY <1>1, <1>6 DEF v
  <2>2. \A i \in 1..n : H[i - 1] \in S => H[i] \in S
    <3> SUFFICES ASSUME NEW i \in 1..n, H[i - 1] \in S PROVE H[i] \in S
      OBVIOUS
    <3>1. H[i - 1] \in V /\ H[i] = G[H[i - 1]] /\ H[i] \in V
      BY <1>6, <1>7
    <3>2. H[i] = Near(bs, H[i - 1])
      BY <3>1 DEF G
    <3> QED BY <3>1, <3>2 DEF Near
  <2> HIDE DEF S
  <2>3. \A i \in 0..n : H[i] \in S
    BY <1>1, <2>1, <2>2, RecursionStays
  <2> QED BY <1>11, <2>3 DEF S
<1> QED BY <1>8, <1>9, <1>11, <1>12, <1>13, <1>14 DEF V, U

-----------------------------------------------------------------------------
(* What a pass keeps.                                                      *)

\* Every block of cs comes from one of bs: the same id and terminator, and no
\* local that is not read or mentioned there.
Within(cs, bs) ==
  \A i \in DOMAIN cs : \E k \in DOMAIN bs :
    /\ cs[i].id = bs[k].id /\ cs[i].term = bs[k].term
    /\ Mentions(cs[i]) \subseteq Mentions(bs[k]) /\ ReadsOf(cs[i]) \subseteq ReadsOf(bs[k])

\* A body that computes with ints, and stores to no local that has an address
\* or is read where the dead-store pass does not look.
Plain(own, bs) ==
  /\ LiteralsFit(bs)
  /\ \A i, k \in DOMAIN bs : Kill(bs[i].stmts) \cap (own \cup BlindIn(bs[k])) = {}

\* The cells that no store of such a body goes to.
Fixed(own, bs) == own \cup {0} \cup UNION {BlindIn(bs[k]) : k \in DOMAIN bs}

\* A body optimised to another.
Optimises(own, bs, cs) ==
  /\ WellFormed(cs) /\ Within(cs, bs)
  /\ Plain(own, bs) => Plain(own, cs) /\ Better(own, bs, cs)

\* What a terminator and a statement read is used or fixed.
LEMMA FixedIs ==
  ASSUME NEW bs, WellFormed(bs), NEW own \in SUBSET Locals, NEW i \in DOMAIN bs
  PROVE  /\ own \cup {0} \subseteq Fixed(own, bs)
         /\ Roots(bs[i].term.on) \subseteq Uses(bs[i].term.on) \cup Fixed(own, bs)
         /\ \A j \in DOMAIN bs[i].stmts : Missed(bs[i].stmts[j]) \subseteq Fixed(own, bs)
         /\ Plain(own, bs) => Kill(bs[i].stmts) \cap Fixed(own, bs) = {}
<1>1. BlindIn(bs[i]) \subseteq Fixed(own, bs)
  BY DEF Fixed
<1>2. \A j \in DOMAIN bs[i].stmts : Missed(bs[i].stmts[j]) \subseteq BlindIn(bs[i])
  BY DEF BlindIn
<1>3. Roots(bs[i].term.on) \ Uses(bs[i].term.on) \subseteq BlindIn(bs[i])
  BY DEF BlindIn
<1>4. 0 \notin Kill(bs[i].stmts)
  <2>1. bs[i].stmts \in Seq(Statement)
    BY BlockAtType DEF BodyBlock
  <2>2. \A j \in DOMAIN bs[i].stmts : Stores(bs[i].stmts[j]) => bs[i].stmts[j].lhs[2] # 0
    <3> SUFFICES ASSUME NEW j \in DOMAIN bs[i].stmts, Stores(bs[i].stmts[j])
                 PROVE  bs[i].stmts[j].lhs[2] # 0
      OBVIOUS
    <3>1. bs[i].stmts[j] \in Statement
      BY <2>1
    <3>2. bs[i].stmts[j].lhs[2] \in Locals
      BY <3>1, StatementType, OperandType DEF Stores
    <3> QED BY <3>2 DEF Locals
  <2> QED BY <2>2 DEF Kill
<1>5. ASSUME Plain(own, bs) PROVE Kill(bs[i].stmts) \cap Fixed(own, bs) = {}
  <2>1. \A k \in DOMAIN bs : Kill(bs[i].stmts) \cap (own \cup BlindIn(bs[k])) = {}
    BY <1>5 DEF Plain
  <2> QED BY <1>4, <2>1 DEF Fixed
<1> QED BY <1>1, <1>2, <1>3, <1>5 DEF Fixed

\* Statement t does no more than s: it stores where s does and misses no read
\* that s does not.
From(t, s) ==
  /\ Stores(t) => Stores(s) /\ t.lhs = s.lhs
  /\ Missed(t) \subseteq Missed(s)
  /\ FitsInt(s) => FitsInt(t)

\* A body of such statements is plain if the body they come from is.
LEMMA PlainKept ==
  ASSUME NEW own, NEW bs, NEW cs, Plain(own, bs),
         \A i \in DOMAIN cs : \E k \in DOMAIN bs :
           /\ cs[i].term = bs[k].term
           /\ \A j \in DOMAIN cs[i].stmts : \E m \in DOMAIN bs[k].stmts :
                From(cs[i].stmts[j], bs[k].stmts[m])
  PROVE  Plain(own, cs)
<1>1. \A i \in DOMAIN cs : \E k \in DOMAIN bs :
        /\ Kill(cs[i].stmts) \subseteq Kill(bs[k].stmts)
        /\ BlindIn(cs[i]) \subseteq BlindIn(bs[k])
        /\ \A j \in DOMAIN cs[i].stmts : FitsInt(cs[i].stmts[j])
  <2> TAKE i \in DOMAIN cs
  <2>1. PICK k \in DOMAIN bs :
           /\ cs[i].term = bs[k].term
           /\ \A j \in DOMAIN cs[i].stmts : \E m \in DOMAIN bs[k].stmts :
                From(cs[i].stmts[j], bs[k].stmts[m])
    OBVIOUS
  <2>2. Kill(cs[i].stmts) \subseteq Kill(bs[k].stmts)
    BY <2>1 DEF Kill, From
  <2>3. BlindIn(cs[i]) \subseteq BlindIn(bs[k])
    BY <2>1 DEF BlindIn, From
  <2>4. \A j \in DOMAIN cs[i].stmts : FitsInt(cs[i].stmts[j])
    BY <2>1 DEF Plain, LiteralsFit, From
  <2> QED BY <2>2, <2>3, <2>4
<1>2. LiteralsFit(cs)
  BY <1>1 DEF LiteralsFit
<1>3. \A i, k \in DOMAIN cs : Kill(cs[i].stmts) \cap (own \cup BlindIn(cs[k])) = {}
  <2> TAKE i, k \in DOMAIN cs
  <2>1. PICK m \in DOMAIN bs : Kill(cs[i].stmts) \subseteq Kill(bs[m].stmts)
    BY <1>1
  <2>2. PICK n \in DOMAIN bs : BlindIn(cs[k]) \subseteq BlindIn(bs[n])
    BY <1>1
  <2>3. Kill(bs[m].stmts) \cap (own \cup BlindIn(bs[n])) = {}
    BY DEF Plain
  <2> QED BY <2>1, <2>2, <2>3
<1> QED BY <1>2, <1>3 DEF Plain

\* Two passes are a pass.
LEMMA OptimisesMore ==
  ASSUME NEW own, NEW as, NEW bs, NEW cs, Optimises(own, as, bs), Optimises(own, bs, cs)
  PROVE  Optimises(own, as, cs)
<1>1. Within(cs, as)
  <2> SUFFICES ASSUME NEW i \in DOMAIN cs
               PROVE  \E k \in DOMAIN as :
                        /\ cs[i].id = as[k].id /\ cs[i].term = as[k].term
                        /\ Mentions(cs[i]) \subseteq Mentions(as[k])
                        /\ ReadsOf(cs[i]) \subseteq ReadsOf(as[k])
    BY DEF Within
  <2>1. PICK j \in DOMAIN bs : /\ cs[i].id = bs[j].id /\ cs[i].term = bs[j].term
                               /\ Mentions(cs[i]) \subseteq Mentions(bs[j])
                               /\ ReadsOf(cs[i]) \subseteq ReadsOf(bs[j])
    BY DEF Optimises, Within
  <2>2. PICK k \in DOMAIN as : /\ bs[j].id = as[k].id /\ bs[j].term = as[k].term
                               /\ Mentions(bs[j]) \subseteq Mentions(as[k])
                               /\ ReadsOf(bs[j]) \subseteq ReadsOf(as[k])
    BY DEF Optimises, Within
  <2> QED BY <2>1, <2>2
<1>2. Better(own, as, bs) /\ Better(own, bs, cs) => Better(own, as, cs)
  BY BetterThan
<1> QED BY <1>1, <1>2 DEF Optimises

\* What can be reached in a body from which all has gone that cannot.
LEMMA ReachableStays ==
  ASSUME NEW bs, WellFormed(bs), NEW cs, WellFormed(cs), Within(cs, bs), Ids(cs) = Reachable(bs, 0)
  PROVE  Reachable(cs, 0) = Reachable(bs, 0)
<1> DEFINE R == Reachable(cs, 0)
<1>1. 0 \in R /\ R \subseteq Ids(cs) /\ Closed(cs, R)
  BY ReachableIs
<1> HIDE DEF R
<1>2. Closed(bs, R)
  <2> SUFFICES ASSUME NEW i \in DOMAIN bs, bs[i].id \in R PROVE bs[i].term.targets \subseteq R
    BY DEF Closed
  <2>1. PICK j \in DOMAIN cs : cs[j].id = bs[i].id
    BY <1>1 DEF Ids
  <2>2. PICK k \in DOMAIN bs : cs[j].id = bs[k].id /\ cs[j].term = bs[k].term
    BY DEF Within
  <2>3. k = i
    BY <2>1, <2>2 DEF WellFormed, UniqueIds
  <2> QED BY <1>1, <2>1, <2>2, <2>3 DEF Closed
<1>3. Reachable(bs, 0) \subseteq R
  BY <1>1, <1>2, ReachableIs
<1> QED BY <1>1, <1>3 DEF R

\* dead_code.rs: what is left is what can be reached, and it behaves alike.
LEMMA DeadCodeOptimises ==
  ASSUME NEW bs, WellFormed(bs), NEW own \in SUBSET Locals
  PROVE  Optimises(own, bs, DeadCode(bs)) /\ Ids(DeadCode(bs)) = Reachable(bs, 0)
<1> DEFINE R == Reachable(bs, 0)  keep == {i \in DOMAIN bs : bs[i].id \in R}  cs == Retain(bs, keep)
<1>1. DeadCode(bs) = cs
  BY ReachableIs DEF DeadCode
<1>2. 0 \in R /\ R \subseteq Ids(bs) /\ Closed(bs, R)
  BY ReachableIs
<1>3. bs \in Seq(BodyBlock) /\ UniqueIds(bs)
  BY DEF WellFormed
<1> HIDE DEF R
<1>4. keep \subseteq DOMAIN bs /\ \A i \in keep : bs[i].id \in R
  OBVIOUS
<1> HIDE DEF cs
<1>5. cs \in Seq(BodyBlock)
  BY <1>3, RetainPlaces DEF cs
<1>6. PICK at : /\ at \in [DOMAIN cs -> keep]
                /\ \A j \in DOMAIN cs : cs[j] = bs[at[j]]
                /\ \A j, k \in DOMAIN cs : at[j] = at[k] => j = k
                /\ \A i \in keep : \E j \in DOMAIN cs : at[j] = i
  <2>1. DOMAIN bs \cap keep = keep
    BY <1>4
  <2> HIDE DEF keep
  <2> QED BY <1>3, <2>1, RetainPlaces DEF cs
<1>7. \A i \in DOMAIN cs : cs[i] = bs[at[i]] /\ at[i] \in DOMAIN bs /\ bs[at[i]].id \in R
  BY <1>4, <1>6
<1>8. Ids(cs) = R
  <2>1. Ids(cs) \subseteq R
    BY <1>7 DEF Ids
  <2>2. \A id \in R : \E i \in keep : bs[i].id = id
    BY <1>2 DEF Ids
  <2>3. R \subseteq Ids(cs)
    BY <1>6, <2>2 DEF Ids
  <2> QED BY <2>1, <2>3
<1> HIDE DEF keep
<1>9. UniqueIds(cs)
  <2> SUFFICES ASSUME NEW i \in DOMAIN cs, NEW j \in DOMAIN cs, cs[i].id = cs[j].id PROVE i = j
    BY DEF UniqueIds
  <2>1. at[i] = at[j]
    BY <1>3, <1>7 DEF UniqueIds
  <2> QED BY <1>6, <2>1
<1>10. \A i \in DOMAIN cs : cs[i].term.targets \subseteq Ids(cs)
  BY <1>2, <1>7, <1>8 DEF Closed, WellFormed
<1>11. WellFormed(cs)
  BY <1>2, <1>5, <1>8, <1>9, <1>10 DEF WellFormed
<1>12. Within(cs, bs)
  BY <1>7 DEF Within
<1>13. ASSUME Plain(own, bs) PROVE Plain(own, cs) /\ Better(own, bs, cs)
  <2>1. Plain(own, cs)
    <3>1. \A s : From(s, s)
      BY DEF From
    <3>2. \A i \in DOMAIN cs : \E k \in DOMAIN bs :
            /\ cs[i].term = bs[k].term
            /\ \A j \in DOMAIN cs[i].stmts : \E m \in DOMAIN bs[k].stmts :
                 From(cs[i].stmts[j], bs[k].stmts[m])
      BY <1>7, <3>1
    <3> QED BY <1>13, <3>2, PlainKept
  <2> DEFINE live == R \X Locals  fixed == Fixed(own, bs)
  <2>2. \A id \in R : BlockAt(cs, id) = BlockAt(bs, id)
    <3> TAKE id \in R
    <3>1. PICK i \in DOMAIN cs : cs[i].id = id
      BY <1>8 DEF Ids
    <3>2. BlockAt(cs, id) = cs[i]
      BY <1>11, <3>1, BlockAtType
    <3>3. BlockAt(bs, id) = bs[at[i]]
      BY <1>7, <3>1, BlockAtType
    <3> QED BY <1>7, <3>2, <3>3
  <2>3. \A id \in R : /\ BlockAt(bs, id).term.targets \subseteq R
                      /\ Roots(BlockAt(bs, id).term.on) \subseteq Uses(BlockAt(bs, id).term.on) \cup fixed
                      /\ own \cup {0} \subseteq fixed
    <3> TAKE id \in R
    <3>1. PICK i \in DOMAIN bs : bs[i].id = id /\ BlockAt(bs, id) = bs[i]
      BY <1>2, BlockAtType
    <3>2. bs[i].term.targets \subseteq R
      BY <1>2, <3>1 DEF Closed
    <3> QED BY <3>1, <3>2, FixedIs
  <2> HIDE DEF fixed
  <2>4. ASSUME NEW id \in R PROVE Follows(BlockAt(bs, id), BlockAt(cs, id), live, fixed)
    <3> DEFINE b == BlockAt(bs, id)
    <3>1. b = BlockAt(cs, id) /\ b.id = id
      BY <1>2, <2>2, BlockAtType
    <3> HIDE DEF b
    <3>2. Locals \cup {0} \subseteq LiveAt(live, b.id) \cup fixed
      BY <2>3, <3>1 DEF LiveAt
    <3>3. ASSUME NEW r \in Execution, NEW q \in Execution, Agree(r, q, LiveAt(live, b.id) \cup fixed)
          PROVE  \/ After(r, b.stmts).undefined
                 \/ Agree(After(r, b.stmts), After(q, b.stmts),
                          LiveOut(live, b) \cup TermUses(b.term) \cup fixed)
      <4>1. r = q /\ r.undefined \in BOOLEAN
        BY <3>2, <3>3, SameExecution, ExecutionType
      <4> QED BY <4>1 DEF Agree
    <3>4. Follows(b, b, live, fixed)
      BY <3>3 DEF Follows
    <3> QED BY <3>1, <3>4 DEF b
  <2> HIDE DEF live
  <2>5. Better(own, bs, cs)
    BY <1>2, <1>8, <1>11, <2>3, <2>4, Simulation
  <2> QED BY <2>1, <2>5
<1>14. Optimises(own, bs, cs)
  BY <1>11, <1>12, <1>13 DEF Optimises
<1> QED BY <1>1, <1>8, <1>14 DEF R

-----------------------------------------------------------------------------
(* const_fold.rs.                                                          *)

\* The constant a statement is folded to.
Fold(s) ==
  IF s.op \in UnaryOps THEN FoldUnary(s.op, s.args[1][2])
  ELSE FoldBinary(s.op, s.args[1][2], s.args[2][2])

\* What is folded is an integer.
LEMMA FoldIsInt ==
  ASSUME NEW s \in Statement, CanFold(s)
  PROVE  Fold(s) \in Int
<1>1. /\ s.op \in BinaryOps \cup UnaryOps /\ s.op # "Use"
      /\ \A i \in DOMAIN s.args : s.args[i][1] = "const"
      /\ s.op \in Divisions => s.args[2][2] # 0
  BY DEF CanFold, BinaryOps, UnaryOps, Divisions, Comparisons, Logics
<1>2. \A i \in DOMAIN s.args : s.args[i][2] \in Int
  BY <1>1, StatementType, OperandType
<1> DEFINE a == s.args[1][2]  b == s.args[2][2]
<1>3. CASE s.op \in BinaryOps
  <2>1. s.op \notin UnaryOps /\ s.op \notin OtherOps
    BY <1>3, OpsDiffer
  <2>2. DOMAIN s.args = {1, 2}
    BY <1>1, <2>1, StatementType
  <2>3. a \in Int /\ b \in Int
    BY <1>2, <2>2
  <2>4. Fold(s) = FoldBinary(s.op, a, b)
    BY <2>1 DEF Fold
  <2>5. s.op \in {"Div", "Rem"} => b # 0
    BY <1>1 DEF Divisions
  <2> HIDE DEF a, b
  <2>6. CASE s.op \in Comparisons
    BY <2>4, <2>6 DEF FoldBinary, Truth
  <2>7. CASE s.op \in Logics
    <3>1. Fold(s) = Truth(a # 0 /\ b # 0) \/ Fold(s) = Truth(a # 0 \/ b # 0)
      BY <2>4, <2>7, OpsDiffer DEF FoldBinary, Logics
    <3> QED BY <3>1 DEF Truth
  <2>8. CASE s.op \notin Comparisons \cup Logics
    <3>1. s.op \in {"Add", "Sub", "Mul", "Div", "Rem"}
      BY <1>3, <2>8 DEF BinaryOps, Divisions
    <3>2. Fold(s) = Whole(s.op, a, b)
      BY <2>4, <2>8 DEF FoldBinary, Logics
    <3> QED BY <2>3, <2>5, <3>1, <3>2, WholeInt
  <2> QED BY <2>6, <2>7, <2>8
<1>4. CASE s.op \in UnaryOps
  <2>1. 1 \in DOMAIN s.args
    BY StatementType
  <2>2. a \in Int
    BY <1>2, <2>1
  <2>3. Fold(s) = FoldUnary(s.op, a)
    BY <1>4 DEF Fold
  <2> HIDE DEF a
  <2>4. s.op = "Neg" \/ s.op = "Not" \/ s.op = "BitNot"
    BY <1>4 DEF UnaryOps
  <2> QED BY <2>2, <2>3, <2>4 DEF FoldUnary, Truth
<1> QED BY <1>1, <1>3, <1>4

\* What is folded, in integers without bounds, is cut down to what the program
\* computes, in ints.
LEMMA FoldComputes ==
  ASSUME NEW s \in Statement, FitsInt(s), CanFold(s), NEW run,
         ~Undefined(s.op, Arguments(run, s))
  PROVE  Wrap(Fold(s)) = Computed(s.op, Arguments(run, s))
<1> DEFINE args == Arguments(run, s)
<1>1. /\ s.op \in BinaryOps \cup UnaryOps /\ s.op \notin {"Ref", "Deref"}
      /\ \A i \in DOMAIN s.args : s.args[i][1] = "const"
      /\ s.op \in Divisions => s.args[2][2] # 0
  BY DEF CanFold, BinaryOps, UnaryOps, Divisions, Comparisons, Logics
<1>2. \A i \in DOMAIN s.args : s.args[i][2] \in Ints /\ s.op # "Not"
  BY <1>1 DEF FitsInt, Ints
<1>3. \A n \in Ints : n \in Int
  BY PassesAssumption DEF Ints, Min_, Max_
<1>4. \A i \in DOMAIN s.args : args[i] = s.args[i][2]
  <2> TAKE i \in DOMAIN s.args
  <2>1. args[i] = Argument(run, s.op, s.args[i])
    BY DEF Arguments
  <2>2. args[i] = Value(run, s.args[i])
    BY <1>1, <2>1 DEF Argument
  <2>3. args[i] = Wrap(s.args[i][2])
    BY <1>1, <2>2 DEF Value
  <2> QED BY <1>2, <1>3, <2>3, Wraps
<1>5. 0 \in Ints /\ 1 \in Ints
  BY PassesAssumption DEF Ints, Min_, Max_
<1>6. CASE s.op \in BinaryOps
  <2> DEFINE a == s.args[1][2]  b == s.args[2][2]
  <2>1. s.op \notin UnaryOps /\ s.op \notin OtherOps /\ s.op \notin Logics
    BY <1>6, OpsDiffer DEF Undefined
  <2>2. DOMAIN s.args = {1, 2}
    BY <2>1, StatementType
  <2>3. args[1] = a /\ args[2] = b /\ a \in Ints /\ b \in Ints
    BY <1>2, <1>4, <2>2
  <2>4. Fold(s) = FoldBinary(s.op, a, b)
    BY <2>1 DEF Fold
  <2> HIDE DEF a, b, args
  <2>5. CASE s.op \in Comparisons
    <3>1. Computed(s.op, args) = Truth(Compare(s.op, a, b))
      BY <2>3, <2>5 DEF Computed, Comparisons
    <3>2. Fold(s) = Truth(Compare(s.op, a, b))
      BY <2>4, <2>5 DEF FoldBinary, Comparisons
    <3>3. Fold(s) \in Ints
      BY <1>5, <3>2 DEF Truth
    <3> QED BY <1>3, <3>1, <3>2, <3>3, Wraps DEF args
  <2>6. CASE s.op \notin Comparisons
    <3>1. Computed(s.op, args) = Wrap(Whole(s.op, a, b))
      BY <1>6, <2>1, <2>3, <2>6 DEF Computed, UnaryOps, OtherOps
    <3>2. Fold(s) = Whole(s.op, a, b)
      BY <2>1, <2>4, <2>6 DEF FoldBinary, Logics
    <3> QED BY <3>1, <3>2 DEF args
  <2> QED BY <2>5, <2>6
<1>7. CASE s.op \in UnaryOps
  <2> DEFINE a == s.args[1][2]
  <2>1. s.op \notin BinaryOps /\ s.op \in {"Neg", "Not", "BitNot"} /\ s.op \notin Comparisons
    BY <1>7, OpsDiffer
  <2>2. DOMAIN s.args = {1}
    BY <2>1, StatementType
  <2>3. args[1] = a /\ a \in Ints /\ a \in Int /\ s.op # "Not"
    BY <1>2, <1>3, <1>4, <2>2
  <2>4. Fold(s) = FoldUnary(s.op, a)
    BY <1>7 DEF Fold
  <2> HIDE DEF a, args
  <2>5. CASE s.op = "Neg"
    <3>1. Computed(s.op, args) = Wrap(-a)
      BY <2>1, <2>3, <2>5 DEF Computed
    <3>2. Fold(s) = -a
      BY <2>4, <2>5 DEF FoldUnary
    <3> QED BY <3>1, <3>2 DEF args
  <2>6. CASE s.op = "BitNot"
    <3>1. Computed(s.op, args) = -a - 1
      BY <2>1, <2>3, <2>6 DEF Computed
    <3>2. Fold(s) = -a - 1
      BY <2>4, <2>6 DEF FoldUnary
    <3>3. -a - 1 \in Ints
      BY <2>3, PassesAssumption DEF Ints, Min_, Max_
    <3> QED BY <1>3, <3>1, <3>2, <3>3, Wraps DEF args
  <2> QED BY <2>1, <2>3, <2>5, <2>6
<1> QED BY <1>1, <1>6, <1>7

\* A folded statement is a statement that reads nothing.
LEMMA FoldedType ==
  ASSUME NEW s \in Statement
  PROVE  /\ Folded(s) \in Statement /\ From(Folded(s), s) /\ Folded(s).lhs = s.lhs
         /\ Reads(Folded(s)) \subseteq Reads(s)
         /\ CanFold(s) => Folded(s) = [kind |-> "assign", lhs |-> s.lhs, op |-> "Use",
                                       args |-> <<Const(Fold(s))>>]
<1>1. CASE ~CanFold(s)
  BY <1>1 DEF Folded, From
<1>2. CASE CanFold(s)
  <2> DEFINE c == Const(Fold(s))  f == [kind |-> "assign", lhs |-> s.lhs, op |-> "Use", args |-> <<c>>]
  <2>1. s.kind = "assign" /\ s.lhs \in Place
    BY <1>2, StatementType DEF CanFold
  <2>2. s = [kind |-> s.kind, lhs |-> s.lhs, op |-> s.op, args |-> s.args]
    BY StatementType
  <2>3. Folded(s) = [s EXCEPT !.op = "Use", !.args = <<c>>]
    BY <1>2 DEF Folded, Fold
  <2>4. Fold(s) \in Int
    BY <1>2, FoldIsInt
  <2>5. c \in Operand /\ c[1] = "const"
    BY <2>4 DEF Const, Operand
  <2> HIDE DEF c
  <2>6. Folded(s) = f
    BY <2>1, <2>2, <2>3
  <2>7. <<c>> \in [1..1 -> Operand] /\ <<c>>[1] = c /\ DOMAIN <<c>> = {1}
    BY <2>5
  <2>8. f \in Statement
    BY <2>1, <2>7 DEF Statement, OtherOps
  <2>9. Reads(f) = {}
    BY <2>5, <2>7 DEF Reads, Roots
  <2>10. From(f, s)
    <3>1. FitsInt(f)
      BY DEF FitsInt, BinaryOps, UnaryOps, Divisions, Comparisons, Logics
    <3>2. Stores(f) = Stores(s) /\ f.lhs = s.lhs
      BY <2>1 DEF Stores
    <3>3. Missed(f) \subseteq Missed(s)
      <4>1. Stores(s) => Bases(s.lhs) = {}
        BY DEF Stores, Bases
      <4> QED BY <2>9, <3>2, <4>1 DEF Missed, Needs
    <3> QED BY <3>1, <3>2, <3>3 DEF From
  <2> QED BY <1>2, <2>6, <2>8, <2>9, <2>10 DEF c
<1> QED BY <1>1, <1>2

\* A folded statement does what the statement does, unless that is undefined.
LEMMA FoldedStep ==
  ASSUME NEW s \in Statement, FitsInt(s), NEW run \in Execution
  PROVE  Step(run, s).undefined \/ Step(run, Folded(s)) = Step(run, s)
<1> DEFINE args == Arguments(run, s)  v == Const(Fold(s))
           f == [kind |-> "assign", lhs |-> s.lhs, op |-> "Use", args |-> <<v>>]
           given == Arguments(run, f)
<1>1. run = [at |-> run.at, env |-> run.env, own |-> run.own, seen |-> run.seen,
             undefined |-> run.undefined]
  BY ExecutionType
<1>2. CASE run.undefined \/ Undefined(s.op, args)
  <2>1. Step(run, s) = [run EXCEPT !.undefined = TRUE]
    BY <1>2 DEF Step
  <2>2. Step(run, s).undefined
    BY <1>1, <2>1
  <2> QED BY <2>2
<1>3. CASE ~CanFold(s)
  BY <1>3 DEF Folded
<1>4. CASE ~(run.undefined \/ Undefined(s.op, args)) /\ CanFold(s)
  <2>1. Folded(s) = f /\ s.kind = "assign"
    BY <1>4, FoldedType DEF CanFold
  <2>2. Wrap(Fold(s)) = Computed(s.op, args)
    BY <1>4, FoldComputes
  <2>3. given[1] = Computed(s.op, args)
    <3>1. f.args = <<v>> /\ DOMAIN <<v>> = {1} /\ <<v>>[1] = v
      OBVIOUS
    <3>2. v[1] = "const" /\ v[2] = Fold(s)
      BY DEF Const
    <3> HIDE DEF v
    <3>3. Value(run, v) = Computed(s.op, args)
      BY <2>2, <3>2 DEF Value
    <3>4. Argument(run, "Use", v) = Value(run, v) /\ f.op = "Use"
      BY DEF Argument
    <3> HIDE DEF f, args
    <3> QED BY <3>1, <3>3, <3>4 DEF Arguments
  <2>4. f.kind = "assign" /\ f.lhs = s.lhs /\ f.op = "Use"
    OBVIOUS
  <2> HIDE DEF f, args, given
  <2>5. Computed("Use", given) = given[1] /\ ~Undefined("Use", given)
    BY DEF Computed, Undefined, Comparisons, BinaryOps, Divisions, Logics
  <2>6. Stored(run, f, given) = Stored(run, s, args)
    BY <2>1, <2>3, <2>4, <2>5 DEF Stored
  <2>7. Step(run, f) = [run EXCEPT !.seen = run.seen, !.env = Stored(run, f, given)]
    BY <1>4, <2>4, <2>5 DEF Step, given
  <2>8. Step(run, s) = [run EXCEPT !.seen = run.seen, !.env = Stored(run, s, args)]
    BY <1>4, <2>1 DEF Step, args
  <2> QED BY <2>1, <2>6, <2>7, <2>8
<1> QED BY <1>2, <1>3, <1>4

\* const_fold.rs: the body behaves alike.
LEMMA ConstFoldOptimises ==
  ASSUME NEW bs, WellFormed(bs), NEW own \in SUBSET Locals
  PROVE  Optimises(own, bs, ConstFold(bs)) /\ Ids(ConstFold(bs)) = Ids(bs)
<1> DEFINE fold(stmts) == [j \in DOMAIN stmts |-> Folded(stmts[j])]  cs == ConstFold(bs)
<1>1. bs \in Seq(BodyBlock) /\ Len(bs) \in Nat /\ DOMAIN bs = 1..Len(bs) /\ UniqueIds(bs)
  BY DEF WellFormed
<1>2. \A i \in DOMAIN bs : bs[i].id \in Nat /\ bs[i].stmts \in Seq(Statement) /\ bs[i].term \in Terms
                           /\ bs[i] = [id |-> bs[i].id, stmts |-> bs[i].stmts, term |-> bs[i].term]
  <2> TAKE i \in DOMAIN bs
  <2>1. bs[i] \in BodyBlock
    BY BlockAtType
  <2> QED BY <2>1 DEF BodyBlock
<1>3. DOMAIN cs = DOMAIN bs /\ Len(cs) = Len(bs)
      /\ \A i \in DOMAIN bs : cs[i] = [bs[i] EXCEPT !.stmts = fold(bs[i].stmts)]
  BY <1>1 DEF ConstFold
<1> HIDE DEF cs
<1>4. \A i \in DOMAIN bs : /\ cs[i].id = bs[i].id /\ cs[i].term = bs[i].term
                           /\ cs[i].stmts = fold(bs[i].stmts)
                           /\ cs[i] = [id |-> bs[i].id, stmts |-> fold(bs[i].stmts), term |-> bs[i].term]
  <2> SUFFICES ASSUME NEW i \in DOMAIN bs
               PROVE  cs[i] = [id |-> bs[i].id, stmts |-> fold(bs[i].stmts), term |-> bs[i].term]
    OBVIOUS
  <2> DEFINE x == fold(bs[i].stmts)
  <2>1. cs[i] = [bs[i] EXCEPT !.stmts = x]
    BY <1>3
  <2> HIDE DEF x
  <2>2. cs[i] = [id |-> bs[i].id, stmts |-> x, term |-> bs[i].term]
    BY <1>2, <2>1
  <2> QED BY <2>2 DEF x
<1>5. ASSUME NEW i \in DOMAIN bs
      PROVE  /\ cs[i].stmts \in Seq(Statement) /\ Len(cs[i].stmts) = Len(bs[i].stmts)
             /\ DOMAIN cs[i].stmts = DOMAIN bs[i].stmts
             /\ \A j \in DOMAIN bs[i].stmts :
                  /\ bs[i].stmts[j] \in Statement /\ cs[i].stmts[j] = Folded(bs[i].stmts[j])
                  /\ From(cs[i].stmts[j], bs[i].stmts[j])
                  /\ cs[i].stmts[j].lhs = bs[i].stmts[j].lhs
                  /\ Reads(cs[i].stmts[j]) \subseteq Reads(bs[i].stmts[j])
  <2> DEFINE stmts == bs[i].stmts  n == Len(stmts)  t == cs[i].stmts
  <2>1. stmts \in Seq(Statement) /\ n \in Nat /\ DOMAIN stmts = 1..n
    BY <1>2
  <2>2. \A j \in 1..n : stmts[j] \in Statement
    BY <2>1
  <2>3. t = [j \in 1..n |-> Folded(stmts[j])]
    BY <1>4, <2>1
  <2> HIDE DEF stmts, n, t
  <2>4. \A j \in 1..n : /\ t[j] = Folded(stmts[j]) /\ t[j] \in Statement /\ From(t[j], stmts[j])
                        /\ t[j].lhs = stmts[j].lhs /\ Reads(t[j]) \subseteq Reads(stmts[j])
    BY <2>2, <2>3, FoldedType
  <2>5. t \in [1..n -> Statement]
    BY <2>3, <2>4
  <2>6. t \in Seq(Statement) /\ Len(t) = n /\ DOMAIN t = 1..n
    BY <2>1, <2>5
  <2>7. DOMAIN stmts = 1..n
    BY <2>1
  <2> QED BY <2>2, <2>4, <2>6, <2>7 DEF stmts, n, t
<1> HIDE DEF fold
<1>6. cs \in Seq(BodyBlock)
  <2>1. \A i \in 1..Len(bs) : cs[i] \in BodyBlock
    <3> SUFFICES ASSUME NEW i \in 1..Len(bs) PROVE cs[i] \in BodyBlock
      OBVIOUS
    <3> DEFINE t == cs[i].stmts
    <3>1. t \in Seq(Statement) /\ bs[i].id \in Nat /\ bs[i].term \in Terms
      BY <1>1, <1>2, <1>5
    <3>2. cs[i] = [id |-> bs[i].id, stmts |-> t, term |-> bs[i].term]
      BY <1>1, <1>4
    <3> HIDE DEF t
    <3> QED BY <3>1, <3>2 DEF BodyBlock
  <2>2. cs = [i \in 1..Len(bs) |-> cs[i]]
    BY <1>1 DEF cs, ConstFold
  <2>3. cs \in [1..Len(bs) -> BodyBlock]
    BY <2>1, <2>2
  <2> QED BY <1>1, <2>3
<1>7. Ids(cs) = Ids(bs)
  BY <1>3, <1>4 DEF Ids
<1>8. WellFormed(cs)
  <2>1. UniqueIds(cs)
    BY <1>1, <1>3, <1>4 DEF UniqueIds
  <2>2. \A i \in DOMAIN cs : cs[i].term.targets \subseteq Ids(cs)
    BY <1>3, <1>4, <1>7 DEF WellFormed
  <2> QED BY <1>6, <1>7, <2>1, <2>2 DEF WellFormed
<1>9. Within(cs, bs)
  <2> SUFFICES ASSUME NEW i \in DOMAIN bs
               PROVE  /\ Mentions(cs[i]) \subseteq Mentions(bs[i])
                      /\ ReadsOf(cs[i]) \subseteq ReadsOf(bs[i])
    BY <1>3, <1>4 DEF Within
  <2>1. DOMAIN cs[i].stmts = DOMAIN bs[i].stmts
    BY <1>4, <1>5
  <2>2. \A j \in DOMAIN bs[i].stmts : /\ Reads(cs[i].stmts[j]) \subseteq Reads(bs[i].stmts[j])
                                      /\ cs[i].stmts[j].lhs = bs[i].stmts[j].lhs
    BY <1>5
  <2>3. cs[i].term = bs[i].term
    BY <1>4
  <2>4. Mentions(cs[i]) \subseteq Mentions(bs[i])
    <3>1. \A j \in DOMAIN bs[i].stmts :
            Reads(cs[i].stmts[j]) \cup Roots(cs[i].stmts[j].lhs)
              \subseteq Reads(bs[i].stmts[j]) \cup Roots(bs[i].stmts[j].lhs)
      BY <2>2
    <3> QED BY <2>1, <2>3, <3>1 DEF Mentions
  <2>5. ReadsOf(cs[i]) \subseteq ReadsOf(bs[i])
    BY <2>1, <2>2, <2>3 DEF ReadsOf
  <2> QED BY <2>4, <2>5
<1>10. ASSUME Plain(own, bs) PROVE Plain(own, cs) /\ Better(own, bs, cs)
  <2>1. Plain(own, cs)
    <3>1. \A i \in DOMAIN cs : /\ cs[i].term = bs[i].term /\ i \in DOMAIN bs
                               /\ \A j \in DOMAIN cs[i].stmts : /\ j \in DOMAIN bs[i].stmts
                                                                /\ From(cs[i].stmts[j], bs[i].stmts[j])
      BY <1>3, <1>4, <1>5
    <3>2. \A i \in DOMAIN cs : \E k \in DOMAIN bs :
            /\ cs[i].term = bs[k].term
            /\ \A j \in DOMAIN cs[i].stmts : \E m \in DOMAIN bs[k].stmts :
                 From(cs[i].stmts[j], bs[k].stmts[m])
      BY <3>1
    <3> QED BY <1>10, <3>2, PlainKept
  <2>2. ASSUME NEW i \in DOMAIN bs, NEW r \in Execution
        PROVE  \/ After(r, bs[i].stmts).undefined
               \/ After(r, cs[i].stmts) = After(r, bs[i].stmts)
    <3> DEFINE stmts == bs[i].stmts  t == cs[i].stmts  n == Len(stmts)
    <3>1. /\ n \in Nat /\ stmts \in Seq(Statement) /\ t \in Seq(Statement)
          /\ Len(t) = n /\ DOMAIN stmts = 1..n
          /\ \A j \in 1..n : stmts[j] \in Statement /\ FitsInt(stmts[j]) /\ t[j] = Folded(stmts[j])
      <4>1. stmts \in Seq(Statement) /\ n \in Nat /\ DOMAIN stmts = 1..n
        BY <1>2
      <4>2. \A j \in 1..n : FitsInt(stmts[j])
        BY <1>10, <4>1 DEF Plain, LiteralsFit
      <4> QED BY <1>5, <4>1, <4>2
    <3> HIDE DEF stmts, t, n
    <3>2. PICK H : Walks(H, r, stmts) /\ After(r, stmts) = H[Len(stmts)]
      BY <3>1, AfterWalks
    <3>3. PICK J : Walks(J, r, t) /\ After(r, t) = J[Len(t)]
      BY <3>1, AfterWalks
    <3>4. /\ H[0] = r /\ J[0] = r /\ H \in [0..n -> Execution]
          /\ \A j \in 1..n : H[j] = Step(H[j - 1], stmts[j]) /\ J[j] = Step(J[j - 1], t[j])
      BY <3>1, <3>2, <3>3 DEF Walks, n
    <3> DEFINE B == {j \in 0..n : H[j].undefined \/ J[j] = H[j]}
    <3>5. 0 \in B /\ B \in SUBSET (0..n)
      BY <3>1, <3>4
    <3>6. \A j \in 0..n - 1 : j \in B => j + 1 \in B
      <4> SUFFICES ASSUME NEW j \in 0..n - 1, j \in B PROVE j + 1 \in B
        OBVIOUS
      <4>1. j + 1 \in 1..n /\ j + 1 - 1 = j /\ j + 1 \in 0..n /\ j \in 0..n
        BY <3>1
      <4>2. /\ H[j] \in Execution /\ H[j + 1] = Step(H[j], stmts[j + 1]) /\ J[j + 1] = Step(J[j], t[j + 1])
            /\ stmts[j + 1] \in Statement /\ FitsInt(stmts[j + 1]) /\ t[j + 1] = Folded(stmts[j + 1])
        BY <3>1, <3>4, <4>1
      <4>3. CASE H[j].undefined
        BY <4>1, <4>2, <4>3, StepType
      <4>4. CASE J[j] = H[j]
        BY <4>1, <4>2, <4>4, FoldedStep
      <4> QED BY <4>3, <4>4
    <3> HIDE DEF B
    <3>7. B = 0..n
      BY <3>1, <3>5, <3>6, UpTo
    <3>8. H[n].undefined \/ J[n] = H[n]
      <4>1. n \in B
        BY <3>1, <3>7
      <4> QED BY <4>1 DEF B
    <3>9. After(r, t) = J[n] /\ After(r, stmts) = H[n]
      BY <3>1, <3>2, <3>3 DEF n
    <3> QED BY <3>8, <3>9 DEF stmts, t
  <2> DEFINE live == Ids(bs) \X Locals  fixed == Fixed(own, bs)
  <2>3. \A i \in DOMAIN bs : /\ Roots(bs[i].term.on) \subseteq Uses(bs[i].term.on) \cup fixed
                             /\ own \cup {0} \subseteq fixed
    BY FixedIs
  <2> HIDE DEF fixed
  <2>4. ASSUME NEW id \in Ids(bs)
        PROVE  /\ Follows(BlockAt(bs, id), BlockAt(cs, id), live, fixed)
               /\ BlockAt(bs, id).term.targets \subseteq Ids(bs)
               /\ Roots(BlockAt(bs, id).term.on) \subseteq Uses(BlockAt(bs, id).term.on) \cup fixed
               /\ own \cup {0} \subseteq fixed
    <3>1. PICK i \in DOMAIN bs : bs[i].id = id
      BY DEF Ids
    <3>2. BlockAt(bs, id) = bs[i] /\ BlockAt(cs, id) = cs[i]
      BY <1>3, <1>4, <1>8, <3>1, BlockAtType
    <3>3. Locals \cup {0} \subseteq LiveAt(live, bs[i].id) \cup fixed
      BY <2>3, <3>1 DEF LiveAt
    <3>4. ASSUME NEW r \in Execution, NEW q \in Execution,
                 Agree(r, q, LiveAt(live, bs[i].id) \cup fixed)
          PROVE  \/ After(r, bs[i].stmts).undefined
                 \/ Agree(After(r, bs[i].stmts), After(q, cs[i].stmts),
                          LiveOut(live, bs[i]) \cup TermUses(bs[i].term) \cup fixed)
      <4>1. r = q
        BY <3>3, <3>4, SameExecution
      <4>2. After(r, bs[i].stmts).undefined \/ After(q, cs[i].stmts) = After(r, bs[i].stmts)
        BY <2>2, <4>1
      <4> QED BY <4>2 DEF Agree
    <3>5. Follows(bs[i], cs[i], live, fixed)
      BY <1>4, <3>4 DEF Follows
    <3> QED BY <2>3, <3>2, <3>5 DEF WellFormed
  <2> HIDE DEF live
  <2>5. 0 \in Ids(bs)
    BY DEF WellFormed
  <2>6. Better(own, bs, cs)
    BY <1>7, <1>8, <2>4, <2>5, Simulation
  <2> QED BY <2>1, <2>6
<1> QED BY <1>7, <1>8, <1>9, <1>10 DEF Optimises, cs

-----------------------------------------------------------------------------
(* dead_store.rs.                                                          *)

\* The uses and stores of a block are of locals.
LEMMA UsesType ==
  ASSUME NEW b \in BodyBlock
  PROVE  TermUses(b.term) \subseteq Locals /\ Gen(b) \subseteq Locals
<1>1. b.stmts \in Seq(Statement) /\ b.term \in Terms
  BY DEF BodyBlock
<1>2. TermUses(b.term) \subseteq Locals
  BY <1>1, TermType, OperandType DEF TermUses
<1>3. \A i \in DOMAIN b.stmts : RvalueUses(b.stmts[i]) \subseteq Locals
  <2> TAKE i \in DOMAIN b.stmts
  <2>1. b.stmts[i] \in Statement
    BY <1>1
  <2> QED BY <2>1, ReadsType
<1> QED BY <1>2, <1>3 DEF Gen

\* What a sweep over the blocks finds.
LEMMA SweepIs ==
  ASSUME NEW bs, NEW live, NEW x
  PROVE  x \in Sweep(bs, live) <=>
           \E i \in DOMAIN bs : \E l \in Gen(bs[i]) \cup (LiveOut(live, bs[i]) \ Kill(bs[i].stmts)) :
             x = <<bs[i].id, l>>
<1> DEFINE In(b) == Gen(b) \cup (LiveOut(live, b) \ Kill(b.stmts))
<1>1. x \in Sweep(bs, live) <=> \E b \in Range(bs) : x \in {b.id} \X In(b)
  BY DEF Sweep
<1>2. \A b : x \in {b.id} \X In(b) <=> \E l \in In(b) : x = <<b.id, l>>
  <2> HIDE DEF In
  <2> QED OBVIOUS
<1> HIDE DEF In
<1>3. (\E b \in Range(bs) : \E l \in In(b) : x = <<b.id, l>>)
      <=> \E i \in DOMAIN bs : \E l \in In(bs[i]) : x = <<bs[i].id, l>>
  BY DEF Range
<1>4. x \in Sweep(bs, live) <=> \E i \in DOMAIN bs : \E l \in In(bs[i]) : x = <<bs[i].id, l>>
  BY <1>1, <1>2, <1>3
<1> QED BY <1>4 DEF In

\* The more is live, the more a sweep finds.
LEMMA SweepGrows ==
  ASSUME NEW bs, NEW live, NEW more, live \subseteq more
  PROVE  Sweep(bs, live) \subseteq Sweep(bs, more)
<1>1. \A b : LiveOut(live, b) \subseteq LiveOut(more, b)
  BY DEF LiveOut
<1> SUFFICES ASSUME NEW x \in Sweep(bs, live) PROVE x \in Sweep(bs, more)
  OBVIOUS
<1>2. PICK i \in DOMAIN bs : \E l \in Gen(bs[i]) \cup (LiveOut(live, bs[i]) \ Kill(bs[i].stmts)) :
                               x = <<bs[i].id, l>>
  BY SweepIs
<1>3. PICK l \in Gen(bs[i]) \cup (LiveOut(live, bs[i]) \ Kill(bs[i].stmts)) : x = <<bs[i].id, l>>
  BY <1>2
<1>4. l \in Gen(bs[i]) \cup (LiveOut(more, bs[i]) \ Kill(bs[i].stmts))
  BY <1>1
<1> QED BY <1>3, <1>4, SweepIs

\* There are no more pairs of a block and a local than sweeps are made.
LEMMA PairsFinite ==
  ASSUME NEW bs, WellFormed(bs)
  PROVE  /\ Len(bs) * MaxLocals \in Nat /\ IsFiniteSet(Ids(bs) \X Locals)
         /\ Cardinality(Ids(bs) \X Locals) <= Len(bs) * MaxLocals
<1> DEFINE n == Len(bs)  m == MaxLocals  I == Ids(bs)  a == Cardinality(I)  L == Locals
<1>1. n \in Nat /\ m \in Nat
  BY PassesAssumption DEF WellFormed
<1>2. IsFiniteSet(I) /\ a \in Nat /\ a <= n
  BY IdsFinite
<1>3. IsFiniteSet(L) /\ Cardinality(L) = m
  <2>1. 1 \in Int /\ m \in Int
    BY <1>1
  <2> HIDE DEF m
  <2>2. IsFiniteSet(1..m) /\ Cardinality(1..m) = IF 1 > m THEN 0 ELSE m - 1 + 1
    BY <2>1, FS_Interval
  <2>3. (IF 1 > m THEN 0 ELSE m - 1 + 1) = m
    BY <1>1
  <2> QED BY <2>2, <2>3 DEF Locals, m
<1> HIDE DEF n, m, I, L
<1>4. IsFiniteSet(I \X L) /\ Cardinality(I \X L) = Cardinality(I) * Cardinality(L)
  BY <1>2, <1>3, FS_Product
<1>5. \A x, y, z \in Nat : x <= y => x * z <= y * z
  OBVIOUS
<1>6. \A x, y \in Nat : x * y \in Nat
  OBVIOUS
<1>7. a * m <= n * m /\ n * m \in Nat
  BY <1>1, <1>2, <1>5, <1>6
<1> QED BY <1>3, <1>4, <1>7 DEF n, m, I, L

\* compute_liveness comes to an end: a block's live-in holds what it uses
\* before storing to it, and what is live behind it and not stored to, and
\* nothing that no block uses.
LEMMA LiveInIs ==
  ASSUME NEW bs, WellFormed(bs)
  PROVE  /\ \A i \in DOMAIN bs :
              Gen(bs[i]) \cup (LiveOut(LiveIn(bs), bs[i]) \ Kill(bs[i].stmts))
                \subseteq LiveAt(LiveIn(bs), bs[i].id)
         /\ \A used : (\A i \in DOMAIN bs : Gen(bs[i]) \subseteq used) =>
              \A id, l : <<id, l>> \in LiveIn(bs) => l \in used
<1> DEFINE n == Len(bs) * MaxLocals  U == Ids(bs) \X Locals  V == SUBSET U  v == {}
           G == [x \in V |-> Sweep(bs, x)]  step == [i \in 1..n |-> G]
           R(f) == f = [i \in 0..n |-> IF i = 0 THEN {} ELSE Sweep(bs, f[i - 1])]
           f0 == CHOOSE f : R(f)
<1>1. n \in Nat /\ IsFiniteSet(U) /\ Cardinality(U) <= n
  BY PairsFinite
<1>2. LiveIn(bs) = f0[n]
  BY DEF LiveIn
<1> HIDE DEF n
<1>3. \A i \in DOMAIN bs : bs[i].id \in Ids(bs) /\ Gen(bs[i]) \subseteq Locals
  BY BlockAtType, UsesType
<1>4. \A x \in V : Sweep(bs, x) \in V
  <2> SUFFICES ASSUME NEW x \in V, NEW y \in Sweep(bs, x) PROVE y \in U
    OBVIOUS
  <2>1. PICK i \in DOMAIN bs : \E l \in Gen(bs[i]) \cup (LiveOut(x, bs[i]) \ Kill(bs[i].stmts)) :
                                 y = <<bs[i].id, l>>
    BY SweepIs
  <2>2. PICK l \in Gen(bs[i]) \cup (LiveOut(x, bs[i]) \ Kill(bs[i].stmts)) : y = <<bs[i].id, l>>
    BY <2>1
  <2>3. l \in Locals
    BY <1>3, <2>2 DEF LiveOut
  <2> QED BY <1>3, <2>2, <2>3
<1> HIDE DEF U
<1>5. G \in [V -> V] /\ v \in V
  BY <1>4
<1> HIDE DEF V, v, G
<1>6. step \in [1..n -> [V -> V]]
  BY <1>5
<1>7. PICK H : Recurses(H, n, V, v, step)
  BY <1>1, <1>5, <1>6, Recursion
<1>8. /\ H \in [0..n -> V] /\ H[0] = v /\ \A i \in 1..n : H[i] = G[H[i - 1]]
  BY <1>7 DEF Recurses
<1>9. \A i \in 1..n : i \in 0..n /\ i - 1 \in 0..n /\ i # 0
  BY <1>1
<1>10. \A i \in 1..n : H[i] = Sweep(bs, H[i - 1])
  <2> TAKE i \in 1..n
  <2>1. H[i - 1] \in V /\ H[i] = G[H[i - 1]]
    BY <1>8, <1>9
  <2> QED BY <2>1 DEF G
<1>11. R(H)
  <2>1. \A i \in 0..n : i = 0 \/ i \in 1..n
    BY <1>1
  <2>2. \A i \in 0..n : H[i] = IF i = 0 THEN {} ELSE Sweep(bs, H[i - 1])
    BY <1>8, <1>10, <2>1 DEF v
  <2> QED BY <1>8, <2>2
<1>12. R(f0)
  BY <1>11
<1> HIDE DEF f0
<1>13. f0[n] = H[n]
  <2>1. f0[0] = v
    BY <1>1, <1>12 DEF v
  <2>2. \A i \in 1..n : f0[i] = Sweep(bs, f0[i - 1])
    BY <1>9, <1>12
  <2>3. \A i \in 1..n : f0[i - 1] \in V => f0[i] = step[i][f0[i - 1]]
    BY <2>2 DEF G
  <2> HIDE DEF step, R
  <2>4. Unfolds(f0, n, V, v, step)
    BY <2>1, <2>3 DEF Unfolds
  <2> QED BY <1>1, <1>5, <1>6, <1>7, <2>4, RecursionOnce
<1> HIDE DEF R, step
<1>14. \A i \in 0..n : H[i] \subseteq Sweep(bs, H[i])
  <2> DEFINE B == {i \in 0..n : H[i] \subseteq Sweep(bs, H[i])}
  <2>1. 0 \in B /\ B \in SUBSET (0..n)
    BY <1>1, <1>8 DEF v
  <2>2. \A i \in 0..n - 1 : i \in B => i + 1 \in B
    <3> SUFFICES ASSUME NEW i \in 0..n - 1, i \in B PROVE i + 1 \in B
      OBVIOUS
    <3>1. i + 1 \in 1..n /\ i + 1 - 1 = i /\ i + 1 \in 0..n
      BY <1>1
    <3>2. H[i + 1] = Sweep(bs, H[i]) /\ H[i] \subseteq H[i + 1]
      BY <1>10, <3>1
    <3>3. Sweep(bs, H[i]) \subseteq Sweep(bs, H[i + 1])
      BY <3>2, SweepGrows
    <3> QED BY <3>1, <3>2, <3>3
  <2> HIDE DEF B
  <2>3. B = 0..n
    BY <1>1, <2>1, <2>2, UpTo
  <2> QED BY <2>3 DEF B
<1>15. G[H[n]] = H[n]
  <2>1. \A i \in 0..n : H[i] \subseteq G[H[i]]
    BY <1>8, <1>14 DEF G
  <2>2. Chain(H, n, U, G)
    BY <1>5, <1>8, <2>1 DEF Chain, V
  <2> QED BY <1>1, <2>2, ChainStops
<1>16. LiveIn(bs) \in V /\ Sweep(bs, LiveIn(bs)) = LiveIn(bs)
  <2>1. n \in 0..n
    BY <1>1
  <2>2. H[n] \in V
    BY <1>8, <2>1
  <2> QED BY <1>2, <1>13, <1>15, <2>2 DEF G
<1>17. ASSUME NEW i \in DOMAIN bs,
              NEW l \in Gen(bs[i]) \cup (LiveOut(LiveIn(bs), bs[i]) \ Kill(bs[i].stmts))
       PROVE  l \in LiveAt(LiveIn(bs), bs[i].id)
  <2> DEFINE live == LiveIn(bs)
  <2> HIDE DEF live
  <2>1. l \in Gen(bs[i]) \cup (LiveOut(live, bs[i]) \ Kill(bs[i].stmts))
    BY DEF live
  <2>2. l \in Locals
    BY <1>3, <2>1 DEF LiveOut
  <2>3. <<bs[i].id, l>> \in Sweep(bs, live)
    BY <2>1, SweepIs
  <2> QED BY <1>16, <2>2, <2>3 DEF LiveAt, live
<1>18. ASSUME NEW used, \A i \in DOMAIN bs : Gen(bs[i]) \subseteq used
       PROVE  \A id, l : <<id, l>> \in LiveIn(bs) => l \in used
  <2> DEFINE Only(x) == \A id, l : <<id, l>> \in x => l \in used
             S == {x \in V : Only(x)}
  <2>1. ASSUME NEW x, Only(x) PROVE Only(Sweep(bs, x))
    <3> SUFFICES ASSUME NEW id, NEW l, <<id, l>> \in Sweep(bs, x) PROVE l \in used
      OBVIOUS
    <3>1. PICK i \in DOMAIN bs : \E k \in Gen(bs[i]) \cup (LiveOut(x, bs[i]) \ Kill(bs[i].stmts)) :
                                   <<id, l>> = <<bs[i].id, k>>
      BY SweepIs
    <3>2. l \in Gen(bs[i]) \cup LiveOut(x, bs[i])
      BY <3>1
    <3> QED BY <1>18, <2>1, <3>2 DEF LiveOut
  <2>2. H[0] \in S
    <3>1. 0 \in 0..n
      BY <1>1
    <3> QED BY <1>8, <3>1 DEF v
  <2>3. \A i \in 1..n : H[i - 1] \in S => H[i] \in S
    <3> SUFFICES ASSUME NEW i \in 1..n, H[i - 1] \in S PROVE H[i] \in S
      OBVIOUS
    <3>1. H[i] \in V /\ H[i] = Sweep(bs, H[i - 1]) /\ Only(H[i - 1])
      BY <1>8, <1>9, <1>10
    <3> HIDE DEF Only
    <3> QED BY <2>1, <3>1
  <2> HIDE DEF S
  <2>4. \A i \in 0..n : H[i] \in S
    BY <1>1, <2>2, <2>3, RecursionStays
  <2>5. n \in 0..n
    BY <1>1
  <2> QED BY <1>2, <1>13, <2>4, <2>5 DEF S
<1> QED BY <1>17, <1>18

\* Liveness backwards over a block, statement by statement.
LEMMA LiveBehindIs ==
  ASSUME NEW b \in BodyBlock, NEW out \in SUBSET Locals
  PROVE  /\ LiveBehind(b, out)[Len(b.stmts)] = out \cup TermUses(b.term)
         /\ \A i \in 1..Len(b.stmts) :
              LiveBehind(b, out)[i - 1] =
                IF Stores(b.stmts[i])
                THEN (LiveBehind(b, out)[i] \ {b.stmts[i].lhs[2]}) \cup RvalueUses(b.stmts[i])
                ELSE LiveBehind(b, out)[i]
<1> DEFINE n == Len(b.stmts)
           Before(s, x) == IF Stores(s) THEN (x \ {s.lhs[2]}) \cup RvalueUses(s) ELSE x
           stmt(k) == b.stmts[n + 1 - k]
           V == SUBSET Locals
           v == out \cup TermUses(b.term)
           R(f) == f = [k \in 0..n |-> IF k = 0 THEN out \cup TermUses(b.term)
                                       ELSE LET s == b.stmts[n + 1 - k]
                                            IN IF Stores(s) THEN (f[k - 1] \ {s.lhs[2]}) \cup RvalueUses(s)
                                               ELSE f[k - 1]]
           f0 == CHOOSE f : R(f)
           step == [k \in 1..n |-> [x \in V |-> Before(stmt(k), x)]]
<1>1. b.stmts \in Seq(Statement) /\ n \in Nat /\ \A i \in 1..n : b.stmts[i] \in Statement
  BY DEF BodyBlock
<1>2. v \in V
  BY UsesType
<1>3. \A k \in 1..n : n + 1 - k \in 1..n
  BY <1>1
<1>4. \A k \in 1..n : \A x \in V : Before(stmt(k), x) \in V
  BY <1>1, <1>3, ReadsType
<1>5. LiveBehind(b, out) = [i \in 0..n |-> f0[n - i]]
  BY DEF LiveBehind
<1> HIDE DEF n, V, v
<1>6. step \in [1..n -> [V -> V]]
  <2> HIDE DEF Before, stmt
  <2> QED BY <1>4
<1> HIDE DEF step
<1>7. PICK H : Recurses(H, n, V, v, step)
  BY <1>1, <1>2, <1>6, Recursion
<1>8. H \in [0..n -> V] /\ H[0] = v /\ \A k \in 1..n : H[k] = step[k][H[k - 1]]
  BY <1>7 DEF Recurses
<1>9. \A k \in 1..n : k \in 0..n /\ k - 1 \in 0..n /\ k # 0
  BY <1>1
<1>10. \A k \in 1..n : H[k] = Before(stmt(k), H[k - 1])
  <2> TAKE k \in 1..n
  <2>1. H[k - 1] \in V /\ H[k] = step[k][H[k - 1]]
    BY <1>8, <1>9
  <2> HIDE DEF Before, stmt
  <2> QED BY <2>1 DEF step
<1>11. R(H)
  <2>1. \A k \in 0..n : k = 0 \/ k \in 1..n
    BY <1>1
  <2>2. \A k \in 0..n : H[k] = IF k = 0 THEN out \cup TermUses(b.term)
                               ELSE LET s == b.stmts[n + 1 - k]
                                    IN IF Stores(s) THEN (H[k - 1] \ {s.lhs[2]}) \cup RvalueUses(s)
                                       ELSE H[k - 1]
    BY <1>8, <1>10, <2>1 DEF v
  <2> QED BY <1>8, <2>2
<1>12. R(f0)
  BY <1>11
<1> HIDE DEF f0
<1>13. f0[0] = v /\ \A k \in 1..n : f0[k] = Before(stmt(k), f0[k - 1])
  <2>1. f0[0] = v
    BY <1>1, <1>12 DEF v
  <2>2. \A k \in 1..n : f0[k] = Before(stmt(k), f0[k - 1])
    BY <1>9, <1>12
  <2> QED BY <2>1, <2>2
<1> HIDE DEF R
<1>14. LiveBehind(b, out)[n] = v
  <2>1. n \in 0..n /\ n - n = 0
    BY <1>1
  <2> QED BY <1>5, <1>13, <2>1
<1>15. \A i \in 1..n : LiveBehind(b, out)[i - 1] = Before(b.stmts[i], LiveBehind(b, out)[i])
  <2> TAKE i \in 1..n
  <2> DEFINE k == n - (i - 1)
  <2>1. k \in 1..n /\ k - 1 = n - i /\ n + 1 - k = i /\ i - 1 \in 0..n /\ i \in 0..n
    BY <1>1
  <2>2. LiveBehind(b, out)[i - 1] = f0[k] /\ LiveBehind(b, out)[i] = f0[k - 1]
    BY <1>5, <2>1
  <2> HIDE DEF k
  <2>3. f0[k] = Before(stmt(k), f0[k - 1])
    BY <1>13, <2>1
  <2>4. stmt(k) = b.stmts[i]
    BY <2>1
  <2> QED BY <2>2, <2>3, <2>4
<1> QED BY <1>14, <1>15 DEF n, v

\* What is live before a block is what it uses before storing to it, and what
\* is live behind it and not stored to.
LEMMA BehindStart ==
  ASSUME NEW b \in BodyBlock, NEW out \in SUBSET Locals
  PROVE  LiveBehind(b, out)[0] \subseteq Gen(b) \cup (out \ Kill(b.stmts))
<1> DEFINE stmts == b.stmts  n == Len(stmts)  behind == LiveBehind(b, out)
           K(i) == {stmts[j].lhs[2] : j \in {m \in 1..i : Stores(stmts[m])}}
           P(i) == behind[i] \ K(i) \subseteq Gen(b) \cup (out \ Kill(stmts))
           B == {k \in 0..n : P(n - k)}
<1>1. stmts \in Seq(Statement) /\ n \in Nat /\ DOMAIN stmts = 1..n
  BY DEF BodyBlock
<1>2. Kill(stmts) = K(n)
  BY <1>1 DEF Kill
<1>3. ASSUME NEW i \in 1..n PROVE Kill(SubSeq(stmts, 1, i - 1)) = K(i - 1)
  <2> DEFINE t == SubSeq(stmts, 1, i - 1)
  <2>1. DOMAIN t = 1..i - 1 /\ \A j \in 1..i - 1 : t[j] = stmts[j]
    BY <1>1
  <2> HIDE DEF t, stmts
  <2> QED BY <2>1 DEF Kill, t
<1>4. /\ behind[n] = out \cup TermUses(b.term)
      /\ \A i \in 1..n : behind[i - 1] = IF Stores(stmts[i])
                                         THEN (behind[i] \ {stmts[i].lhs[2]}) \cup RvalueUses(stmts[i])
                                         ELSE behind[i]
  BY LiveBehindIs
<1>5. TermUses(b.term) \subseteq Gen(b)
  BY DEF Gen
<1>6. ASSUME NEW i \in 1..n, Stores(stmts[i]) PROVE RvalueUses(stmts[i]) \ K(i - 1) \subseteq Gen(b)
  <2>1. i \in {j \in DOMAIN b.stmts : b.stmts[j].kind = "assign"}
    BY <1>1, <1>6 DEF Stores
  <2> DEFINE U(j) == RvalueUses(b.stmts[j]) \ Kill(SubSeq(b.stmts, 1, j - 1))
  <2>2. Gen(b) = TermUses(b.term)
                 \cup UNION {U(j) : j \in {m \in DOMAIN b.stmts : b.stmts[m].kind = "assign"}}
    BY DEF Gen
  <2>3. U(i) = RvalueUses(stmts[i]) \ K(i - 1)
    BY <1>3
  <2> HIDE DEF U
  <2>4. U(i) \subseteq Gen(b)
    BY <2>1, <2>2
  <2> QED BY <2>3, <2>4
<1> HIDE DEF behind
<1>7. ASSUME NEW i \in 1..n, P(i) PROVE P(i - 1)
  <2>1. \A j : j \in 1..i <=> j \in 1..i - 1 \/ j = i
    BY <1>1
  <2>2. Stores(stmts[i]) => K(i) = K(i - 1) \cup {stmts[i].lhs[2]}
    BY <2>1
  <2>3. ~Stores(stmts[i]) => K(i) = K(i - 1)
    BY <2>1
  <2>4. behind[i - 1] = IF Stores(stmts[i])
                        THEN (behind[i] \ {stmts[i].lhs[2]}) \cup RvalueUses(stmts[i])
                        ELSE behind[i]
    BY <1>4
  <2> HIDE DEF K
  <2> QED BY <1>6, <1>7, <2>2, <2>3, <2>4
<1> HIDE DEF stmts, n, K
<1>8. P(n)
  BY <1>2, <1>4, <1>5
<1> HIDE DEF P
<1>9. B = 0..n
  <2>1. n - 0 = n /\ 0 \in 0..n
    BY <1>1
  <2>2. 0 \in B /\ B \in SUBSET (0..n)
    BY <1>8, <2>1
  <2>3. \A k \in 0..n - 1 : k \in B => k + 1 \in B
    <3> SUFFICES ASSUME NEW k \in 0..n - 1, k \in B PROVE k + 1 \in B
      OBVIOUS
    <3>1. n - k \in 1..n /\ n - (k + 1) = n - k - 1 /\ k + 1 \in 0..n
      BY <1>1
    <3>2. P(n - k - 1)
      BY <1>7, <3>1
    <3> QED BY <3>1, <3>2
  <2> HIDE DEF B
  <2> QED BY <1>1, <2>2, <2>3, UpTo
<1>10. P(0)
  <2>1. n \in 0..n /\ n - n = 0
    BY <1>1
  <2> QED BY <1>9, <2>1
<1>11. K(0) = {}
  BY DEF K
<1> QED BY <1>10, <1>11 DEF P, behind, stmts

\* J goes through the statements that are kept.
WalksKept(J, run, stmts, keep) ==
  /\ J \in [0..Len(stmts) -> Execution] /\ J[0] = run
  /\ \A i \in 1..Len(stmts) : J[i] = IF i \in keep THEN Step(J[i - 1], stmts[i]) ELSE J[i - 1]

\* Running what is retained of some statements.
LEMMA RetainWalk ==
  ASSUME NEW run \in Execution, NEW stmts \in Seq(Statement), NEW keep
  PROVE  \E J : WalksKept(J, run, stmts, keep) /\ After(run, Retain(stmts, keep)) = J[Len(stmts)]
<1> DEFINE n == Len(stmts)
<1>1. n \in Nat /\ \A i \in 1..n : stmts[i] \in Statement
  OBVIOUS
<1>2. PICK K : Keeps(K, stmts, keep, Statement) /\ Retain(stmts, keep) = K[n]
  BY RetainSteps
<1>3. /\ K \in [0..n -> Seq(Statement)] /\ K[0] = <<>>
      /\ \A i \in 1..n : K[i] = IF i \in keep THEN Append(K[i - 1], stmts[i]) ELSE K[i - 1]
  BY <1>2 DEF Keeps
<1> DEFINE J == [i \in 0..n |-> After(run, K[i])]
<1> HIDE DEF n
<1>4. J \in [0..n -> Execution]
  BY <1>3, AfterType
<1>5. \A i \in 0..n : J[i] = After(run, K[i])
  OBVIOUS
<1> HIDE DEF J
<1>6. 0 \in 0..n /\ n \in 0..n
  BY <1>1
<1>7. J[0] = run
  BY <1>3, <1>5, <1>6, AfterNothing
<1>8. ASSUME NEW i \in 1..n PROVE J[i] = IF i \in keep THEN Step(J[i - 1], stmts[i]) ELSE J[i - 1]
  <2>1. i \in 0..n /\ i - 1 \in 0..n
    BY <1>1
  <2>2. K[i - 1] \in Seq(Statement) /\ stmts[i] \in Statement
    BY <1>1, <1>3, <2>1
  <2>3. J[i] = After(run, K[i]) /\ J[i - 1] = After(run, K[i - 1])
    BY <1>5, <2>1
  <2>4. After(run, Append(K[i - 1], stmts[i])) = Step(After(run, K[i - 1]), stmts[i])
    BY <2>2, AfterAppend
  <2> QED BY <1>3, <2>3, <2>4
<1>9. After(run, Retain(stmts, keep)) = J[n]
  BY <1>2, <1>5, <1>6
<1> QED BY <1>4, <1>7, <1>8, <1>9 DEF n, WalksKept

\* A block that stores to nothing fixed, and whose reads that dead_store.rs
\* does not look for are.
SeesAll(b, fixed) ==
  Kill(b.stmts) \cap fixed = {} /\ \A i \in DOMAIN b.stmts : Missed(b.stmts[i]) \subseteq fixed

\* The statements t are among others.
PartOf(t, stmts) == \A j \in DOMAIN t : \E m \in DOMAIN stmts : t[j] = stmts[m]

\* dead_store.rs: what is left of a block has the statements of the block,
\* and agrees with it on what is live behind it.
LEMMA SweptAgrees ==
  ASSUME NEW b \in BodyBlock, NEW live
  PROVE  /\ Swept(b, live) \in Seq(Statement)
         /\ PartOf(Swept(b, live), b.stmts)
         /\ \A fixed : SeesAll(b, fixed) =>
              \A r, q \in Execution :
                /\ Agree(r, q, Gen(b) \cup (LiveOut(live, b) \ Kill(b.stmts)) \cup fixed)
                /\ Open(r) \subseteq fixed
                => \/ After(r, b.stmts).undefined
                   \/ Agree(After(r, b.stmts), After(q, Swept(b, live)),
                            LiveOut(live, b) \cup TermUses(b.term) \cup fixed)
<1> DEFINE stmts == b.stmts  n == Len(stmts)  out == LiveOut(live, b)  behind == LiveBehind(b, out)
           dead(i) == Stores(stmts[i]) /\ stmts[i].lhs[2] \notin behind[i]
           keep == {i \in DOMAIN stmts : ~dead(i)}
<1>1. stmts \in Seq(Statement) /\ n \in Nat /\ DOMAIN stmts = 1..n
  BY DEF BodyBlock
<1>2. Swept(b, live) = Retain(stmts, keep)
  BY DEF Swept
<1>3. \A i \in 1..n : i \in keep <=> ~(Stores(stmts[i]) /\ stmts[i].lhs[2] \notin behind[i])
  BY <1>1
<1>4. out \in SUBSET Locals
  BY DEF LiveOut
<1>5. /\ behind[n] = out \cup TermUses(b.term)
      /\ \A i \in 1..n : behind[i - 1] = IF Stores(stmts[i])
                                         THEN (behind[i] \ {stmts[i].lhs[2]}) \cup RvalueUses(stmts[i])
                                         ELSE behind[i]
      /\ behind[0] \subseteq Gen(b) \cup (out \ Kill(stmts))
  BY <1>4, LiveBehindIs, BehindStart
<1> HIDE DEF keep, behind
<1>6. /\ Retain(stmts, keep) \in Seq(Statement)
      /\ PartOf(Retain(stmts, keep), stmts)
  <2> HIDE DEF stmts
  <2>1. Retain(stmts, keep) \in Seq(Statement)
    BY <1>1, RetainPlaces
  <2> DEFINE t == Retain(stmts, keep)
  <2>2. PICK at : /\ at \in [DOMAIN t -> DOMAIN stmts \cap keep]
                  /\ \A j \in DOMAIN t : t[j] = stmts[at[j]]
                  /\ \A j, k \in DOMAIN t : at[j] = at[k] => j = k
                  /\ \A i \in DOMAIN stmts \cap keep : \E j \in DOMAIN t : at[j] = i
    <3>1. stmts \in Seq(Statement)
      BY <1>1
    <3> HIDE DEF t
    <3> QED BY <3>1, RetainPlaces DEF t
  <2>3. \A j \in DOMAIN t : at[j] \in DOMAIN stmts
    BY <2>2
  <2> QED BY <2>1, <2>2, <2>3 DEF PartOf
<1> HIDE DEF out
<1>7. ASSUME NEW fixed, SeesAll(b, fixed), NEW r \in Execution, NEW q \in Execution,
             Agree(r, q, Gen(b) \cup (out \ Kill(stmts)) \cup fixed), Open(r) \subseteq fixed
      PROVE  \/ After(r, stmts).undefined
             \/ Agree(After(r, stmts), After(q, Retain(stmts, keep)), out \cup TermUses(b.term) \cup fixed)
  <2>1. \A i \in 1..n : /\ Missed(stmts[i]) \subseteq fixed
                        /\ Stores(stmts[i]) => stmts[i].lhs[2] \notin fixed
    BY <1>1, <1>7 DEF SeesAll, Kill
  <2> HIDE DEF stmts
  <2>2. PICK H : Walks(H, r, stmts) /\ After(r, stmts) = H[n]
    BY <1>1, AfterWalks
  <2>3. PICK J : WalksKept(J, q, stmts, keep) /\ After(q, Retain(stmts, keep)) = J[n]
    BY <1>1, RetainWalk
  <2>4. /\ H \in [0..n -> Execution] /\ H[0] = r
        /\ \A i \in 1..n : H[i] = Step(H[i - 1], stmts[i])
        /\ J \in [0..n -> Execution] /\ J[0] = q
        /\ \A i \in 1..n : J[i] = IF i \in keep THEN Step(J[i - 1], stmts[i]) ELSE J[i - 1]
    BY <2>2, <2>3 DEF Walks, WalksKept
  <2> DEFINE Alike(i) == /\ H[i].undefined \/ Agree(H[i], J[i], behind[i] \cup fixed)
                         /\ H[i].own = r.own
             B == {i \in 0..n : Alike(i)}
  <2>5. Alike(0)
    BY <1>5, <1>7, <2>4 DEF Agree
  <2>6. ASSUME NEW i \in 1..n, Alike(i - 1) PROVE Alike(i)
    <3> DEFINE s == stmts[i]  x == behind[i - 1]  y == behind[i]  h == H[i - 1]  k == J[i - 1]
    <3>1. i - 1 \in 0..n /\ i \in 0..n
      BY <1>1
    <3>2. h \in Execution /\ k \in Execution /\ s \in Statement
      BY <1>1, <2>4, <3>1
    <3>3. H[i] = Step(h, s) /\ J[i] = IF i \in keep THEN Step(k, s) ELSE k
      BY <2>4
    <3>4. /\ x = IF Stores(s) THEN (y \ {s.lhs[2]}) \cup RvalueUses(s) ELSE y
          /\ (i \in keep <=> ~(Stores(s) /\ s.lhs[2] \notin y))
          /\ Missed(s) \subseteq fixed /\ (Stores(s) => s.lhs[2] \notin fixed)
      <4>1. x = IF Stores(s) THEN (y \ {s.lhs[2]}) \cup RvalueUses(s) ELSE y
        BY <1>5 DEF stmts
      <4>2. i \in keep <=> ~(Stores(s) /\ s.lhs[2] \notin y)
        BY <1>3 DEF stmts
      <4>3. Missed(s) \subseteq fixed /\ (Stores(s) => s.lhs[2] \notin fixed)
        BY <2>1
      <4> QED BY <4>1, <4>2, <4>3
    <3>5. (h.undefined \/ Agree(h, k, x \cup fixed)) /\ h.own = r.own
      BY <2>6
    <3>6. H[i].own = r.own
      BY <3>2, <3>3, <3>5, StepType
    <3>7. CASE h.undefined
      BY <3>2, <3>3, <3>6, <3>7, StepType
    <3>8. CASE Agree(h, k, x \cup fixed) /\ i \in keep
      <4>1. Needs(s) \subseteq x \cup fixed /\ Open(h) \subseteq x \cup fixed
        BY <1>7, <3>4, <3>5 DEF Missed, Open
      <4> HIDE DEF s, x, y, h, k
      <4>2. Step(h, s).undefined \/ Agree(Step(h, s), Step(k, s), (x \cup fixed) \cup Uses(s.lhs))
        BY <3>2, <3>8, <4>1, StepAgrees
      <4>3. Stores(s) => Uses(s.lhs) = {s.lhs[2]}
        BY DEF Stores, Uses
      <4>4. y \cup fixed \subseteq (x \cup fixed) \cup Uses(s.lhs)
        BY <3>4, <4>3
      <4>5. Step(h, s).undefined \/ Agree(Step(h, s), Step(k, s), y \cup fixed)
        BY <4>2, <4>4 DEF Agree
      <4> QED BY <3>3, <3>6, <3>8, <4>5 DEF y
    <3>9. CASE Agree(h, k, x \cup fixed) /\ i \notin keep
      <4> HIDE DEF s, x, y, h, k
      <4>1. Stores(s) /\ s.lhs[2] \notin y
        BY <3>4, <3>9
      <4>2. Step(h, s).undefined \/ Agree(Step(h, s), k, (x \cup fixed) \ {s.lhs[2]})
        BY <3>2, <3>9, <4>1, StoreLeftOut
      <4>3. y \cup fixed \subseteq (x \cup fixed) \ {s.lhs[2]}
        BY <3>4, <4>1
      <4>4. Step(h, s).undefined \/ Agree(Step(h, s), k, y \cup fixed)
        BY <4>2, <4>3 DEF Agree
      <4> QED BY <3>3, <3>6, <3>9, <4>4 DEF y
    <3> HIDE DEF Alike, h, k, x
    <3> QED BY <3>5, <3>7, <3>8, <3>9
  <2> HIDE DEF Alike
  <2>7. B = 0..n
    <3>1. 0 \in B /\ B \in SUBSET (0..n)
      BY <1>1, <2>5
    <3>2. \A i \in 0..n - 1 : i \in B => i + 1 \in B
      <4> SUFFICES ASSUME NEW i \in 0..n - 1, i \in B PROVE i + 1 \in B
        OBVIOUS
      <4>1. i + 1 \in 1..n /\ i + 1 - 1 = i /\ i + 1 \in 0..n
        BY <1>1
      <4>2. Alike(i + 1)
        BY <2>6, <4>1
      <4> QED BY <4>1, <4>2
    <3> HIDE DEF B
    <3> QED BY <1>1, <3>1, <3>2, UpTo
  <2>8. Alike(n)
    <3>1. n \in 0..n
      BY <1>1
    <3> QED BY <2>7, <3>1
  <2> QED BY <1>5, <2>2, <2>3, <2>8 DEF Alike
<1> QED BY <1>2, <1>6, <1>7 DEF out

\* dead_store.rs: the body behaves alike.
LEMMA DeadStoreOptimises ==
  ASSUME NEW bs, WellFormed(bs), NEW own \in SUBSET Locals
  PROVE  Optimises(own, bs, DeadStore(bs)) /\ Ids(DeadStore(bs)) = Ids(bs)
<1> DEFINE cs == DeadStore(bs)  live == LiveIn(bs)
<1>1. bs \in Seq(BodyBlock)
  BY DEF WellFormed
<1>2. \A i \in DOMAIN bs : /\ bs[i] \in BodyBlock
                           /\ bs[i] = [id |-> bs[i].id, stmts |-> bs[i].stmts, term |-> bs[i].term]
  <2> SUFFICES ASSUME NEW i \in DOMAIN bs PROVE bs[i] \in BodyBlock
    BY DEF BodyBlock
  <2> QED BY BlockAtType
<1>3. /\ DOMAIN cs = DOMAIN bs
      /\ \A i \in DOMAIN bs : cs[i] = [bs[i] EXCEPT !.stmts = Swept(bs[i], live)]
  BY <1>1 DEF DeadStore
<1>4. \A i \in DOMAIN bs : /\ cs[i].id = bs[i].id /\ cs[i].term = bs[i].term
                           /\ cs[i].stmts = Swept(bs[i], live)
                           /\ cs[i] = [id |-> bs[i].id, stmts |-> Swept(bs[i], live), term |-> bs[i].term]
  <2> HIDE DEF cs, live
  <2> SUFFICES ASSUME NEW i \in DOMAIN bs
               PROVE  cs[i] = [id |-> bs[i].id, stmts |-> Swept(bs[i], live), term |-> bs[i].term]
    OBVIOUS
  <2>1. cs[i] = [bs[i] EXCEPT !.stmts = Swept(bs[i], live)]
    BY <1>3
  <2> QED BY <1>2, <2>1
<1>5. cs \in Seq(BodyBlock)
  <2>1. Len(bs) \in Nat /\ DOMAIN bs = 1..Len(bs)
    BY <1>1
  <2>2. \A i \in DOMAIN bs : cs[i] \in BodyBlock
    <3> SUFFICES ASSUME NEW i \in DOMAIN bs PROVE cs[i] \in BodyBlock
      OBVIOUS
    <3>1. bs[i] \in BodyBlock
      BY <1>2
    <3>2. Swept(bs[i], live) \in Seq(Statement)
      BY <3>1, SweptAgrees
    <3>3. bs[i].id \in Nat /\ bs[i].term \in Terms
      BY <3>1 DEF BodyBlock
    <3> DEFINE t == Swept(bs[i], live)
    <3>4. cs[i] = [id |-> bs[i].id, stmts |-> t, term |-> bs[i].term]
      BY <1>4
    <3> HIDE DEF cs, t
    <3> QED BY <3>2, <3>3, <3>4 DEF BodyBlock, t
  <2>3. cs = [i \in 1..Len(bs) |-> cs[i]]
    BY <2>1 DEF DeadStore
  <2> HIDE DEF cs
  <2>4. cs \in [1..Len(bs) -> BodyBlock]
    BY <2>1, <2>2, <2>3
  <2> QED BY <2>1, <2>4
<1>6. \A i \in DOMAIN bs : \A j \in DOMAIN cs[i].stmts : \E m \in DOMAIN bs[i].stmts :
        cs[i].stmts[j] = bs[i].stmts[m]
  <2> SUFFICES ASSUME NEW i \in DOMAIN bs
               PROVE  \A j \in DOMAIN cs[i].stmts : \E m \in DOMAIN bs[i].stmts :
                        cs[i].stmts[j] = bs[i].stmts[m]
    OBVIOUS
  <2>1. bs[i] \in BodyBlock
    BY <1>2
  <2>2. PartOf(Swept(bs[i], live), bs[i].stmts)
    BY <2>1, SweptAgrees
  <2>3. cs[i].stmts = Swept(bs[i], live)
    BY <1>4
  <2> HIDE DEF cs, live
  <2> QED BY <2>2, <2>3 DEF PartOf
<1>7. Ids(cs) = Ids(bs)
  BY <1>3, <1>4 DEF Ids
<1> HIDE DEF cs
<1>8. WellFormed(cs)
  <2>1. UniqueIds(bs) => UniqueIds(cs)
    BY <1>1, <1>3, <1>4, <1>5 DEF UniqueIds
  <2> QED BY <1>3, <1>4, <1>5, <1>7, <2>1 DEF WellFormed
<1>9. Within(cs, bs)
  <2> SUFFICES ASSUME NEW i \in DOMAIN bs
               PROVE  Mentions(cs[i]) \subseteq Mentions(bs[i]) /\ ReadsOf(cs[i]) \subseteq ReadsOf(bs[i])
    BY <1>3, <1>4 DEF Within
  <2>1. \A j \in DOMAIN cs[i].stmts : \E m \in DOMAIN bs[i].stmts : cs[i].stmts[j] = bs[i].stmts[m]
    BY <1>6
  <2>2. cs[i].term = bs[i].term
    BY <1>4
  <2>3. Mentions(cs[i]) \subseteq Mentions(bs[i])
    BY <2>1, <2>2 DEF Mentions
  <2>4. ReadsOf(cs[i]) \subseteq ReadsOf(bs[i])
    BY <2>1, <2>2 DEF ReadsOf
  <2> QED BY <2>3, <2>4
<1>10. ASSUME Plain(own, bs) PROVE Plain(own, cs) /\ Better(own, bs, cs)
  <2> DEFINE fixed == Fixed(own, bs)
  <2>1. Plain(own, cs)
    <3>1. \A s : From(s, s)
      BY DEF From
    <3>2. \A i \in DOMAIN cs : \E k \in DOMAIN bs :
            /\ cs[i].term = bs[k].term
            /\ \A j \in DOMAIN cs[i].stmts : \E m \in DOMAIN bs[k].stmts :
                 From(cs[i].stmts[j], bs[k].stmts[m])
      <4> TAKE i \in DOMAIN cs
      <4>1. i \in DOMAIN bs /\ cs[i].term = bs[i].term
        BY <1>3, <1>4
      <4>2. \A j \in DOMAIN cs[i].stmts : \E m \in DOMAIN bs[i].stmts : cs[i].stmts[j] = bs[i].stmts[m]
        BY <1>6, <4>1
      <4>3. \A j \in DOMAIN cs[i].stmts : \E m \in DOMAIN bs[i].stmts :
              From(cs[i].stmts[j], bs[i].stmts[m])
        BY <3>1, <4>2
      <4> QED BY <4>1, <4>3
    <3> QED BY <1>10, <3>2, PlainKept
  <2>2. ASSUME NEW i \in DOMAIN bs
        PROVE  /\ SeesAll(bs[i], fixed) /\ own \cup {0} \subseteq fixed
               /\ Roots(bs[i].term.on) \subseteq Uses(bs[i].term.on) \cup fixed
    BY <1>10, FixedIs DEF SeesAll
  <2> HIDE DEF fixed
  <2>3. ASSUME NEW i \in DOMAIN bs PROVE Follows(bs[i], cs[i], live, fixed)
    <3> DEFINE b == bs[i]  t == Swept(b, live)
               from == Gen(b) \cup (LiveOut(live, b) \ Kill(b.stmts))
               to == LiveOut(live, b) \cup TermUses(b.term) \cup fixed
    <3>1. b \in BodyBlock /\ SeesAll(b, fixed)
      BY <1>2, <2>2
    <3>2. from \subseteq LiveAt(live, b.id)
      BY LiveInIs
    <3>3. cs[i].id = b.id /\ cs[i].term = b.term /\ cs[i].stmts = t
      BY <1>4
    <3>4. \A r, q \in Execution : Agree(r, q, from \cup fixed) /\ Open(r) \subseteq fixed =>
            After(r, b.stmts).undefined \/ Agree(After(r, b.stmts), After(q, t), to)
      BY <3>1, SweptAgrees
    <3> HIDE DEF from, to, t, b, live
    <3>5. \A r, q \in Execution : Agree(r, q, LiveAt(live, b.id) \cup fixed) => Agree(r, q, from \cup fixed)
      BY <3>2 DEF Agree
    <3>6. Follows(b, cs[i], live, fixed)
      BY <3>3, <3>4, <3>5 DEF Follows, to
    <3> QED BY <3>6 DEF b
  <2>4. ASSUME NEW id \in Ids(bs)
        PROVE  /\ Follows(BlockAt(bs, id), BlockAt(cs, id), live, fixed)
               /\ BlockAt(bs, id).term.targets \subseteq Ids(bs)
               /\ Roots(BlockAt(bs, id).term.on) \subseteq Uses(BlockAt(bs, id).term.on) \cup fixed
               /\ own \cup {0} \subseteq fixed
    <3>1. PICK i \in DOMAIN bs : bs[i].id = id
      BY DEF Ids
    <3>2. BlockAt(bs, id) = bs[i] /\ BlockAt(cs, id) = cs[i]
      BY <1>3, <1>4, <1>8, <3>1, BlockAtType
    <3>3. bs[i].term.targets \subseteq Ids(bs)
      BY DEF WellFormed
    <3> HIDE DEF live
    <3> QED BY <2>2, <2>3, <3>2, <3>3
  <2>5. 0 \in Ids(bs)
    BY DEF WellFormed
  <2> HIDE DEF live
  <2>6. Better(own, bs, cs)
    BY <1>7, <1>8, <2>4, <2>5, Simulation
  <2> QED BY <2>1, <2>6
<1> QED BY <1>7, <1>8, <1>9, <1>10 DEF Optimises, cs

\* dead_store.rs: a body it leaves alone reads every local it stores to.
LEMMA StoresLeftAreRead ==
  ASSUME NEW bs, WellFormed(bs), DeadStore(bs) = bs, NEW i \in DOMAIN bs
  PROVE  Kill(bs[i].stmts) \subseteq UNION {ReadsOf(bs[k]) : k \in DOMAIN bs}
<1> DEFINE used == UNION {ReadsOf(bs[k]) : k \in DOMAIN bs}  b == bs[i]  live == LiveIn(bs)
           out == LiveOut(live, b)  behind == LiveBehind(b, out)  stmts == b.stmts  n == Len(stmts)
           dead(j) == Stores(stmts[j]) /\ stmts[j].lhs[2] \notin behind[j]
           keep == {j \in DOMAIN stmts : ~dead(j)}
<1>1. \A k \in DOMAIN bs : /\ TermUses(bs[k].term) \subseteq used /\ Gen(bs[k]) \subseteq used
                           /\ \A j \in DOMAIN bs[k].stmts : RvalueUses(bs[k].stmts[j]) \subseteq used
  <2> TAKE k \in DOMAIN bs
  <2>1. bs[k].stmts \in Seq(Statement) /\ bs[k].term \in Terms
    BY BlockAtType DEF BodyBlock
  <2>2. ReadsOf(bs[k]) \subseteq used
    OBVIOUS
  <2> HIDE DEF used
  <2>3. TermUses(bs[k].term) \subseteq used
    BY <2>1, <2>2, TermType, OperandType DEF TermUses, ReadsOf
  <2>4. \A j \in DOMAIN bs[k].stmts : RvalueUses(bs[k].stmts[j]) \subseteq used
    <3> TAKE j \in DOMAIN bs[k].stmts
    <3>1. bs[k].stmts[j] \in Statement
      BY <2>1
    <3>2. Reads(bs[k].stmts[j]) \subseteq used
      BY <2>2 DEF ReadsOf
    <3> QED BY <3>1, <3>2, ReadsType
  <2> QED BY <2>3, <2>4 DEF Gen
<1>2. b \in BodyBlock /\ stmts \in Seq(Statement) /\ n \in Nat /\ DOMAIN stmts = 1..n
  BY BlockAtType DEF BodyBlock
<1>3. Swept(b, live) = stmts
  <2>1. DeadStore(bs)[i] = [bs[i] EXCEPT !.stmts = Swept(bs[i], live)]
    BY DEF DeadStore
  <2>2. b = [id |-> b.id, stmts |-> b.stmts, term |-> b.term]
    BY <1>2 DEF BodyBlock
  <2> DEFINE t == Swept(b, live)
  <2>3. b = [b EXCEPT !.stmts = t]
    BY <2>1
  <2> HIDE DEF b, t
  <2>4. [b EXCEPT !.stmts = t].stmts = t
    BY <2>2
  <2> QED BY <2>3, <2>4 DEF t
<1>4. Retain(stmts, keep) = stmts
  BY <1>3 DEF Swept
<1>5. DOMAIN stmts \subseteq keep
  <2> HIDE DEF stmts, keep
  <2> QED BY <1>2, <1>4, RetainAll
<1>6. \A j \in 1..n : Stores(stmts[j]) => stmts[j].lhs[2] \in behind[j]
  <2> HIDE DEF behind
  <2> QED BY <1>2, <1>5
<1>7. out \in SUBSET Locals /\ out \subseteq used
  <2>1. \A id, l : <<id, l>> \in LiveIn(bs) => l \in used
    <3> HIDE DEF used
    <3> QED BY <1>1, LiveInIs
  <2> HIDE DEF used
  <2> QED BY <2>1 DEF LiveOut
<1>8. /\ behind[n] = out \cup TermUses(b.term)
      /\ \A j \in 1..n : behind[j - 1] = IF Stores(stmts[j])
                                         THEN (behind[j] \ {stmts[j].lhs[2]}) \cup RvalueUses(stmts[j])
                                         ELSE behind[j]
  BY <1>2, <1>7, LiveBehindIs
<1>9. TermUses(b.term) \subseteq used /\ \A j \in 1..n : RvalueUses(stmts[j]) \subseteq used
  <2> HIDE DEF used
  <2> QED BY <1>1, <1>2
<1> DEFINE B == {k \in 0..n : behind[n - k] \subseteq used}
<1> HIDE DEF used, b, live, out, behind, stmts, n
<1>10. B = 0..n
  <2>1. 0 \in B /\ B \in SUBSET (0..n)
    <3>1. n - 0 = n /\ 0 \in 0..n
      BY <1>2
    <3> QED BY <1>7, <1>8, <1>9, <3>1
  <2>2. \A k \in 0..n - 1 : k \in B => k + 1 \in B
    <3> SUFFICES ASSUME NEW k \in 0..n - 1, k \in B PROVE k + 1 \in B
      OBVIOUS
    <3>1. n - k \in 1..n /\ n - (k + 1) = n - k - 1 /\ k + 1 \in 0..n
      BY <1>2
    <3>2. behind[n - k] \subseteq used
      OBVIOUS
    <3>3. behind[n - k - 1] \subseteq used
      BY <1>8, <1>9, <3>1, <3>2
    <3> QED BY <3>1, <3>3
  <2> HIDE DEF B
  <2> QED BY <1>2, <2>1, <2>2, UpTo
<1>11. \A j \in 1..n : behind[j] \subseteq used
  <2> TAKE j \in 1..n
  <2>1. n - j \in 0..n /\ n - (n - j) = j
    BY <1>2
  <2> QED BY <1>10, <2>1
<1>12. Kill(stmts) \subseteq used
  BY <1>2, <1>6, <1>11 DEF Kill
<1> QED BY <1>12 DEF stmts, b, used

-----------------------------------------------------------------------------
(* The pipeline.                                                           *)

\* Until the passes run nothing has been optimised; then the body optimises the
\* one handed over, and has the blocks that can be reached once the first pass
\* has run; when the rounds end early the last pass has changed nothing.
PassesInv ==
  /\ filling \in 0..Len(blocks) /\ pass \in 0..3 /\ round \in 0..MaxRounds /\ changed \in BOOLEAN
  /\ pass # 0 => round < MaxRounds
  /\ WellFormed(blocks)
  /\ filling # 0 => pass = 1 /\ round = 0
  /\ filling = 0 =>
       /\ WellFormed(source) /\ Optimises(Taken(source), source, blocks)
       /\ pass = 1 /\ round = 0 => blocks = source
       /\ ~(pass = 1 /\ round = 0) => Ids(blocks) = Reachable(source, 0)
       /\ pass = 0 /\ round < MaxRounds => DeadStore(blocks) = blocks

\* Addresses are taken of locals.
LEMMA TakenType ==
  ASSUME NEW bs, WellFormed(bs)
  PROVE  Taken(bs) \subseteq Locals
<1>1. \A i \in DOMAIN bs : \A j \in DOMAIN bs[i].stmts : Reads(bs[i].stmts[j]) \subseteq Locals
  <2> TAKE i \in DOMAIN bs
  <2>1. bs[i].stmts \in Seq(Statement)
    BY BlockAtType DEF BodyBlock
  <2> TAKE j \in DOMAIN bs[i].stmts
  <2>2. bs[i].stmts[j] \in Statement
    BY <2>1
  <2> QED BY <2>2, ReadsType
<1> QED BY <1>1 DEF Taken

\* The bodies that are made, before there are statements in them.
LEMMA PassesStart ==
  ASSUME Init PROVE PassesInv
<1>1. PICK g \in Graphs :
        /\ blocks = [i \in DOMAIN g.terms |-> [id |-> i - 1, stmts |-> <<>>, term |-> g.terms[i]]]
        /\ locals = g.locals
        /\ filling = 1
        /\ pass = 1 /\ round = 0 /\ changed = FALSE
        /\ source = <<>>
  BY DEF Init
<1> DEFINE terms == g.terms  n == Len(terms)
<1>2. /\ terms \in Seq(Range(terms)) /\ terms # <<>>
      /\ \A t \in Range(terms) : IsTerminator(t) /\ t.targets \subseteq 0..n - 1
  BY PassesAssumption
<1>3. Range(terms) \subseteq Terms
  BY DEF Terms
<1>4. blocks = [i \in DOMAIN terms |-> [id |-> i - 1, stmts |-> <<>>, term |-> terms[i]]]
  BY <1>1
<1> HIDE DEF terms
<1>5. n \in Nat /\ n >= 1 /\ DOMAIN terms = 1..n /\ \A i \in 1..n : terms[i] \in Range(terms)
  <2>1. n \in Nat /\ DOMAIN terms = 1..n
    BY <1>2
  <2>2. n # 0
    BY <1>2
  <2> QED BY <2>1, <2>2 DEF Range
<1> HIDE DEF n
<1>6. \A i \in 1..n : /\ blocks[i].id = i - 1 /\ blocks[i].stmts = <<>> /\ blocks[i].term = terms[i]
                      /\ blocks[i] \in BodyBlock
  <2> SUFFICES ASSUME NEW i \in 1..n
               PROVE  /\ blocks[i].id = i - 1 /\ blocks[i].stmts = <<>> /\ blocks[i].term = terms[i]
                      /\ blocks[i] \in BodyBlock
    OBVIOUS
  <2>1. blocks[i] = [id |-> i - 1, stmts |-> <<>>, term |-> terms[i]]
    BY <1>4, <1>5
  <2>2. i - 1 \in Nat /\ <<>> \in Seq(Statement) /\ terms[i] \in Terms
    BY <1>3, <1>5
  <2> QED BY <2>1, <2>2 DEF BodyBlock
<1>7. blocks \in Seq(BodyBlock) /\ Len(blocks) = n /\ DOMAIN blocks = 1..n
  <2>1. blocks \in [1..n -> BodyBlock]
    <3>1. blocks = [i \in 1..n |-> blocks[i]]
      BY <1>4, <1>5
    <3> QED BY <1>6, <3>1
  <2> QED BY <1>5, <2>1
<1>8. \A id \in 0..n - 1 : id \in Ids(blocks)
  <2> TAKE id \in 0..n - 1
  <2>1. id + 1 \in 1..n /\ id + 1 - 1 = id
    BY <1>5
  <2>2. blocks[id + 1].id = id
    BY <1>6, <2>1
  <2> QED BY <1>7, <2>1, <2>2 DEF Ids
<1>9. UniqueIds(blocks)
  <2>1. \A i, j \in 1..n : i - 1 = j - 1 => i = j
    BY <1>5
  <2> QED BY <1>6, <1>7, <2>1 DEF UniqueIds
<1>10. WellFormed(blocks)
  <2>1. 0 \in Ids(blocks)
    BY <1>5, <1>8
  <2>2. \A i \in 1..n : blocks[i].term.targets \subseteq Ids(blocks)
    BY <1>2, <1>5, <1>6, <1>8
  <2> QED BY <1>7, <1>9, <2>1, <2>2 DEF WellFormed
<1>11. 1 \in 0..Len(blocks)
  BY <1>5, <1>7
<1>12. /\ filling = 1 /\ filling \in 0..Len(blocks) /\ pass = 1 /\ pass \in 0..3 /\ round = 0
       /\ round \in 0..MaxRounds /\ round < MaxRounds
  BY <1>1, <1>11 DEF MaxRounds
<1>13. changed \in BOOLEAN
  BY <1>1
<1> QED BY <1>10, <1>12, <1>13 DEF PassesInv

\* A statement more, and the body is one still.
LEMMA FillKeeps ==
  ASSUME PassesInv, NEW s \in Menu, Fill(s) PROVE PassesInv'
<1>1. filling # 0 /\ s \in Statements \cup Operations
  BY DEF Menu
<1>2. s \in Statement
  BY <1>1, PassesAssumption
<1> DEFINE bs == blocks  k == filling  cs == blocks'
<1>3. /\ WellFormed(bs) /\ bs \in Seq(BodyBlock) /\ UniqueIds(bs) /\ 0 \in Ids(bs) /\ Len(bs) \in Nat
      /\ DOMAIN bs = 1..Len(bs) /\ k \in DOMAIN bs
      /\ \A i \in DOMAIN bs : bs[i].term.targets \subseteq Ids(bs)
  BY <1>1 DEF PassesInv, WellFormed
<1>4. cs = [bs EXCEPT ![k].stmts = Append(@, s)]
  BY DEF Fill
<1>5. \A i \in DOMAIN bs : bs[i].id \in Nat /\ bs[i].stmts \in Seq(Statement) /\ bs[i].term \in Terms
                           /\ bs[i] = [id |-> bs[i].id, stmts |-> bs[i].stmts, term |-> bs[i].term]
  <2> TAKE i \in DOMAIN bs
  <2>1. bs[i] \in BodyBlock
    BY <1>3, BlockAtType
  <2> QED BY <2>1 DEF BodyBlock
<1> DEFINE t(i) == IF i = k THEN Append(bs[i].stmts, s) ELSE bs[i].stmts
<1> HIDE DEF bs, cs, k
<1>6. /\ DOMAIN cs = DOMAIN bs
      /\ \A i \in DOMAIN bs : cs[i] = [id |-> bs[i].id, stmts |-> t(i), term |-> bs[i].term]
  <2> SUFFICES ASSUME NEW i \in DOMAIN bs
               PROVE  cs[i] = [id |-> bs[i].id, stmts |-> t(i), term |-> bs[i].term]
    BY <1>4
  <2>1. CASE i = k
    <3> DEFINE x == Append(bs[i].stmts, s)
    <3>1. cs[i] = [bs[i] EXCEPT !.stmts = x]
      BY <1>4, <2>1
    <3> HIDE DEF x
    <3>2. cs[i] = [id |-> bs[i].id, stmts |-> x, term |-> bs[i].term]
      BY <1>5, <3>1
    <3> QED BY <2>1, <3>2 DEF x
  <2>2. CASE i # k
    BY <1>4, <1>5, <2>2
  <2> QED BY <2>1, <2>2
<1>7. \A i \in DOMAIN bs : t(i) \in Seq(Statement)
  BY <1>2, <1>5
<1> HIDE DEF t
<1>8. \A i \in DOMAIN bs : cs[i].id = bs[i].id /\ cs[i].term = bs[i].term /\ cs[i].stmts = t(i)
  BY <1>6
<1>9. cs \in Seq(BodyBlock)
  <2>1. \A i \in DOMAIN bs : cs[i] \in BodyBlock
    BY <1>5, <1>6, <1>7 DEF BodyBlock
  <2>2. cs = [i \in 1..Len(bs) |-> cs[i]]
    BY <1>3, <1>4
  <2>3. cs \in [1..Len(bs) -> BodyBlock]
    BY <1>3, <2>1, <2>2
  <2> QED BY <1>3, <2>3
<1>10. Ids(cs) = Ids(bs)
  BY <1>6, <1>8 DEF Ids
<1>11. WellFormed(cs)
  <2>1. UniqueIds(cs)
    BY <1>3, <1>6, <1>8, <1>9 DEF UniqueIds
  <2>2. \A i \in DOMAIN cs : cs[i].term.targets \subseteq Ids(cs)
    BY <1>3, <1>6, <1>8, <1>10
  <2> QED BY <1>3, <1>9, <1>10, <2>1, <2>2 DEF WellFormed
<1>12. Len(cs) = Len(bs)
  BY <1>3, <1>6, <1>9
<1> QED BY <1>1, <1>11, <1>12 DEF PassesInv, Fill, bs, cs

\* The next block, or the passes.
LEMMA NextBlockKeeps ==
  ASSUME PassesInv, NextBlock PROVE PassesInv'
<1>1. /\ filling \in 0..Len(blocks) /\ filling # 0 /\ pass = 1 /\ round = 0 /\ WellFormed(blocks)
      /\ round \in 0..MaxRounds /\ pass \in 0..3 /\ changed \in BOOLEAN /\ round < MaxRounds
  BY DEF PassesInv, NextBlock
<1>2. /\ filling' = IF filling < Len(blocks) THEN filling + 1 ELSE 0
      /\ source' = IF filling < Len(blocks) THEN source ELSE blocks
      /\ blocks' = blocks /\ pass' = pass /\ round' = round /\ changed' = changed
  BY DEF NextBlock
<1>3. Len(blocks) \in Nat
  BY <1>1 DEF WellFormed
<1>4. filling' \in 0..Len(blocks) /\ (filling' = 0 => source' = blocks)
  BY <1>1, <1>2, <1>3
<1>5. Optimises(Taken(blocks), blocks, blocks)
  <2>1. Within(blocks, blocks)
    BY DEF Within
  <2> QED BY <1>1, <2>1, BetterThan DEF Optimises
<1> QED BY <1>1, <1>2, <1>4, <1>5 DEF PassesInv

\* A pass optimises the body, and the first one leaves what can be reached.
LEMMA RunPassKeeps ==
  ASSUME PassesInv, RunPass PROVE PassesInv'
<1> DEFINE after == Passes(pass, blocks)  own == Taken(source)
<1>1. /\ filling = 0 /\ pass \in 0..3 /\ pass # 0 /\ round \in 0..MaxRounds /\ round < MaxRounds
      /\ changed \in BOOLEAN /\ WellFormed(blocks) /\ WellFormed(source)
      /\ Optimises(own, source, blocks) /\ own \in SUBSET Locals
      /\ pass = 1 /\ round = 0 => blocks = source
      /\ ~(pass = 1 /\ round = 0) => Ids(blocks) = Reachable(source, 0)
  BY TakenType DEF PassesInv, RunPass
<1>2. /\ blocks' = after /\ filling' = filling /\ source' = source
      /\ IF pass < 3
           THEN /\ pass' = pass + 1
                /\ changed' = (changed \/ after # blocks)
                /\ round' = round
           ELSE /\ pass' = IF (changed \/ after # blocks) /\ round + 1 < MaxRounds THEN 1 ELSE 0
                /\ round' = round + 1
                /\ changed' = FALSE
  BY DEF RunPass, Changed
<1> HIDE DEF own
<1>8. pass' = 0 /\ round' < MaxRounds => DeadStore(after) = after
  <2> SUFFICES ASSUME pass' = 0, round' < MaxRounds PROVE DeadStore(after) = after
    OBVIOUS
  <2>1. ~(pass < 3)
    BY <1>1, <1>2
  <2>2. pass = 3 /\ after = blocks
    BY <1>1, <1>2, <2>1
  <2>3. after = DeadStore(blocks)
    BY <2>2 DEF Passes
  <2> HIDE DEF after
  <2> QED BY <2>2, <2>3
<1>3. Optimises(own, blocks, after) /\ Ids(after) = Reachable(source, 0)
  <2>1. CASE pass = 1
    <3>1. after = DeadCode(blocks)
      BY <2>1 DEF Passes
    <3>2. Optimises(own, blocks, after) /\ Ids(after) = Reachable(blocks, 0)
      BY <1>1, <3>1, DeadCodeOptimises
    <3>3. Reachable(blocks, 0) = Reachable(source, 0)
      <4>1. CASE round = 0
        BY <1>1, <2>1, <4>1
      <4>2. CASE round # 0
        <5>1. Within(blocks, source) /\ Ids(blocks) = Reachable(source, 0)
          BY <1>1, <4>2 DEF Optimises
        <5> QED BY <1>1, <5>1, ReachableStays
      <4> QED BY <4>1, <4>2
    <3> QED BY <3>2, <3>3
  <2>2. CASE pass = 2
    <3>1. after = ConstFold(blocks)
      BY <2>2 DEF Passes
    <3> QED BY <1>1, <2>2, <3>1, ConstFoldOptimises
  <2>3. CASE pass = 3
    <3>1. after = DeadStore(blocks)
      BY <2>3 DEF Passes
    <3> QED BY <1>1, <2>3, <3>1, DeadStoreOptimises
  <2>4. pass = 1 \/ pass = 2 \/ pass = 3
    BY <1>1
  <2> QED BY <2>1, <2>2, <2>3, <2>4
<1> HIDE DEF after
<1>4. Optimises(own, source, after) /\ WellFormed(after) /\ Len(after) \in Nat
  <2>1. WellFormed(after)
    BY <1>3 DEF Optimises
  <2> QED BY <1>1, <1>3, <2>1, OptimisesMore DEF WellFormed
<1>5. /\ pass' \in 0..3 /\ round' \in 0..MaxRounds /\ (pass' # 0 => round' < MaxRounds)
      /\ ~(pass' = 1 /\ round' = 0)
  <2>1. MaxRounds = 3
    BY DEF MaxRounds
  <2>2. CASE pass < 3
    BY <1>1, <1>2, <2>1, <2>2
  <2>3. CASE ~(pass < 3)
    BY <1>1, <1>2, <2>1, <2>3
  <2> QED BY <2>2, <2>3
<1>6. changed' \in BOOLEAN
  BY <1>1, <1>2
<1>7. filling' = 0 /\ filling' \in 0..Len(after)
  BY <1>1, <1>2, <1>4
<1> QED BY <1>1, <1>2, <1>3, <1>4, <1>5, <1>6, <1>7, <1>8 DEF PassesInv, own

\* The invariant holds throughout.
LEMMA PassesInvariance ==
  Spec => []PassesInv
<1>1. Init => PassesInv
  BY PassesStart
<1>2. PassesInv /\ [Next]_vars => PassesInv'
  <2> SUFFICES ASSUME PassesInv, [Next]_vars PROVE PassesInv'
    OBVIOUS
  <2>1. CASE \E s \in Menu : Fill(s)
    BY <2>1, FillKeeps
  <2>2. CASE NextBlock
    BY <2>2, NextBlockKeeps
  <2>3. CASE RunPass
    BY <2>3, RunPassKeeps
  <2>4. CASE UNCHANGED vars
    BY <2>4 DEF PassesInv, vars
  <2> QED BY <2>1, <2>2, <2>3, <2>4 DEF Next
<1> QED BY <1>1, <1>2, PTL DEF Spec

\* The state of the pipeline has its type: the body keeps its entry block.
THEOREM PassesTypes ==
  Spec => []TypeOK
<1>1. PassesInv => TypeOK
  <2> SUFFICES ASSUME PassesInv PROVE TypeOK
    OBVIOUS
  <2>1. /\ WellFormed(blocks) /\ 0 \in Ids(blocks) /\ blocks \in Seq(BodyBlock)
        /\ filling \in 0..Len(blocks) /\ pass \in 0..3 /\ round \in 0..MaxRounds /\ changed \in BOOLEAN
    BY DEF PassesInv, WellFormed
  <2>2. blocks # <<>>
    BY <2>1 DEF Ids
  <2>3. \A i \in DOMAIN blocks : IsTerminator(blocks[i].term)
    <3> TAKE i \in DOMAIN blocks
    <3>1. blocks[i].term \in Terms
      BY <2>1, BlockAtType DEF BodyBlock
    <3>2. PICK g \in Graphs : blocks[i].term \in Range(g.terms)
      BY <3>1 DEF Terms
    <3> QED BY <3>2, PassesAssumption
  <2> QED BY <2>1, <2>2, <2>3 DEF TypeOK
<1> QED BY <1>1, PassesInvariance, PTL

\* pass/: a body that computes with ints, and stores to no local whose address
\* is taken or that is read where the dead-store pass does not look, makes the
\* same calls and drops with the same values after the passes, and returns the
\* same, with the same behind every address, whatever its graph, its statements
\* and the width of an int.
THEOREM PassesKeepBehaviour ==
  Spec => []SameBehaviour
<1>1. PassesInv => SameBehaviour
  <2> SUFFICES ASSUME PassesInv, Done, StoresAreSeen(source), LiteralsFit(source)
               PROVE  SameRuns(source, blocks)
    BY DEF SameBehaviour
  <2>1. Plain(Taken(source), source)
    <3>1. \A k \in DOMAIN source : Taken(source) \cup BlindIn(source[k]) \subseteq Blind(source)
      BY DEF Blind
    <3> QED BY <3>1 DEF Plain, StoresAreSeen
  <2>2. Better(Taken(source), source, blocks)
    BY <2>1 DEF PassesInv, Done, Optimises
  <2>3. \A env \in [Cells -> Starts] : env \in Env
    BY PassesAssumption DEF Env
  <2> QED BY <2>2, <2>3 DEF SameRuns, Better
<1> QED BY <1>1, PassesInvariance, PTL

\* pass/mod.rs, dead_store.rs: when the rounds end because one has changed
\* nothing, the body reads every local that it stores to whole, whatever the
\* body is.
THEOREM NoUselessStoreIsLeft ==
  Spec => []UselessStoresGo
<1>1. PassesInv => UselessStoresGo
  <2> SUFFICES ASSUME PassesInv, Done, round < MaxRounds, NEW i \in DOMAIN blocks
               PROVE  Kill(blocks[i].stmts) \subseteq UNION {ReadsOf(blocks[k]) : k \in DOMAIN blocks}
    BY DEF UselessStoresGo
  <2>1. WellFormed(blocks) /\ DeadStore(blocks) = blocks
    BY DEF PassesInv, Done
  <2> QED BY <2>1, StoresLeftAreRead
<1> QED BY <1>1, PassesInvariance, PTL

\* pass/, validate/: the passes keep a body the validator accepts, and leave the
\* blocks that can be reached and no others, with no local to report in them
\* that was not there before.
THEOREM PassesKeepValid ==
  Spec => []ValidStaysValid
<1>1. PassesInv => ValidStaysValid
  <2> SUFFICES ASSUME PassesInv, Done PROVE ValidStaysValid
    BY DEF ValidStaysValid
  <2>1. /\ WellFormed(source) /\ WellFormed(blocks) /\ Within(blocks, source)
        /\ Ids(blocks) = Reachable(source, 0)
    BY DEF PassesInv, Done, Optimises
  <2>2. Reachable(blocks, 0) = Reachable(source, 0)
    BY <2>1, ReachableStays
  <2>3. UniqueIds(blocks) /\ Dangling(blocks) = {}
    BY <2>1 DEF WellFormed, Dangling
  <2>4. ValidLocals(source, locals) => ValidLocals(blocks, locals)
    BY <2>1 DEF Within, ValidLocals
  <2>5. MaybeUndefined(blocks, locals) \subseteq MaybeUndefined(source, locals)
    BY <2>1, <2>2 DEF Within, MaybeUndefined
  <2> QED BY <2>1, <2>3, <2>4, <2>5 DEF ValidStaysValid, Valid
<1> QED BY <1>1, PassesInvariance, PTL
=============================================================================
