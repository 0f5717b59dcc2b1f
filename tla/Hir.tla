-------------------------------- MODULE Hir --------------------------------
(***************************************************************************)
(* The control-flow graph of one lowered function (middleend/hir/mod.rs)   *)
(* and the checks validate/cfg.rs makes of it.                             *)
(*                                                                         *)
(* A body is a sequence of blocks, in the order the lowering pushed them   *)
(* (HirBody.blocks is a Vec searched by id, never indexed by it).  A block *)
(* keeps its id and its terminator; the statements of a block are kept     *)
(* beside it, by the module that emits them.  A terminator keeps its kind  *)
(* and the set of blocks it may transfer control to.                       *)
(***************************************************************************)
EXTENDS Integers, Sequences, FiniteSets

BlockId == Nat
NoBlock == -1            \* Option<BlockId>::None

TermKind == {"Goto", "Return", "Switch", "Unreachable"}
Terminator == [kind : TermKind, targets : SUBSET BlockId]
Block == [id : BlockId, term : Terminator]

Goto(b)     == [kind |-> "Goto", targets |-> {b}]
Switch(bs)  == [kind |-> "Switch", targets |-> bs]
Return      == [kind |-> "Return", targets |-> {}]
Unreachable == [kind |-> "Unreachable", targets |-> {}]

NewBlock(b) == [id |-> b, term |-> Unreachable]

-----------------------------------------------------------------------------
(* Lookup and update by id: Vec::iter().find(|b| b.id == id), so the first *)
(* of two blocks with the same id is the one that is seen.                 *)

IsFirst(bs, i) == \A j \in 1 .. (i - 1) : bs[j].id # bs[i].id

Ids(bs) == {bs[i].id : i \in DOMAIN bs}

TermOf(bs, b) ==
  IF b \in Ids(bs)
  THEN bs[CHOOSE i \in DOMAIN bs : bs[i].id = b /\ IsFirst(bs, i)].term
  ELSE Unreachable

SetTerm(bs, b, t) ==
  [i \in DOMAIN bs |->
     IF bs[i].id = b /\ IsFirst(bs, i) THEN [bs[i] EXCEPT !.term = t] ELSE bs[i]]

-----------------------------------------------------------------------------
(* What validate_cfg checks of a body.                                     *)

UniqueIds(bs) == \A i, j \in DOMAIN bs : bs[i].id = bs[j].id => i = j

Dangling(bs) == (UNION {bs[i].term.targets : i \in DOMAIN bs}) \ Ids(bs)

\* The blocks control can reach from the entry.
Reachable(bs, entry) ==
  LET reach[n \in 0 .. Len(bs)] ==
        IF n = 0 THEN {entry}
        ELSE LET near == reach[n - 1] IN near \cup UNION {TermOf(bs, b).targets : b \in near}
  IN  reach[Len(bs)]
=============================================================================
