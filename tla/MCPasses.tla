------------------------------ MODULE MCPasses ------------------------------
(***************************************************************************)
(* The bodies that Passes is checked with: small control-flow graphs, and  *)
(* statements over two locals.                                             *)
(***************************************************************************)
EXTENDS Passes

(* A sequence, a loop, a branch with a join, a block no path leads to.     *)
SmallGraphs ==
  {[locals |-> n, terms |-> <<Jump(1), Back(Local(1))>>] : n \in 1..2}
    \cup {[locals |-> n, terms |-> <<Back(Local(1)), Jump(0)>>] : n \in 1..2}
    \cup {[locals |-> 2, terms |-> <<Jump(1), Choose(Local(1), 2, 1), Back(Local(2))>>],
          [locals |-> 2, terms |-> <<Choose(Local(2), 1, 2), Jump(2), Back(Local(1))>>]}

(* Stores, copies, a sum that overflows, parts, addresses and what they    *)
(* lead to, calls and drops.                                               *)
SmallStatements ==
  UNION {{Assign(Local(l), "Use", <<Const(1)>>) : l \in 1..2},
         {Assign(Local(l), "Add", <<Local(l), Const(Max_)>>) : l \in 1..2},
         {Assign(Local(1), "Use", <<Local(2)>>), Assign(Local(2), "Aggregate", <<Local(1)>>)},
         {Assign(Part(1), "Use", <<Local(2)>>), Assign(Local(2), "ExtractPayload", <<Part(1)>>)},
         {Assign(Local(2), "Discriminant", <<Local(1)>>)},
         {Assign(Local(2), "Ref", <<Local(1)>>), Assign(Local(2), "Deref", <<Local(2)>>)},
         {Assign(Local(1), "Use", <<Deref(2)>>), Assign(Deref(2), "Use", <<Local(1)>>)},
         {Call(Const(0), Local(2)), Call(Local(1), Const(1))},
         {Drop(Local(1))}}

(* Every operation on constants, two of which are no ints.                 *)
Literals == Min_ - 1..Max_ + 1

AllOperations ==
  {Assign(Local(1), op, <<Const(a), Const(b)>>) : op \in BinaryOps, a, b \in Literals}
    \cup {Assign(Local(1), op, <<Const(a)>>) : op \in UnaryOps, a \in Literals}
=============================================================================
