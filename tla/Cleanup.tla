------------------------------- MODULE Cleanup -------------------------------
(***************************************************************************)
(* The clean-up that Lowering emits, against what the language promises of *)
(* it: the refinement of ScopedCleanup, and the documented consequences of *)
(* that promise one by one.  A lexical scope is a frame of a function or a *)
(* block; scope_stack and defer_scopes are what the code believes is open. *)
(***************************************************************************)
EXTENDS Lowering

\* The frame of the k-th open scope, the outermost first.
ScopeAt(k) == CHOOSE i \in ScopeFrames(Len(frames)) : Cardinality(ScopeFrames(i)) = k

\* The frame of a block is the body of a loop when a loop frame is below it.
OpenScopes ==
  [k \in 1 .. Cardinality(ScopeFrames(Len(frames))) |->
     LET i == ScopeAt(k)
     IN  [owned |-> frames[i].owned, defers |-> frames[i].defers, late |-> frames[i].late,
          loop |-> i > 1 /\ frames[i - 1].kind = "loop"]]

Promise == INSTANCE ScopedCleanup WITH
  Names <- 0 .. (MaxParams + 2 * MaxStmts), Params <- MaxParams,
  open <- OpenScopes, taken <- taken, exit <- event

\* Every way out of a scope runs the clean-up of exactly the scopes it leaves,
\* innermost first and in reverse order of declaration, a defer before what it may use
\* is dropped (lower_ret, lower_stop, lower_skip, lower_jmp, exit_scope,
\* unwind_scopes_to_depth).
CleanupAsPromised == Promise!Spec

-----------------------------------------------------------------------------
(* On code without branches, what one run of the function does.            *)

Count(op, x) == Cardinality({k \in DOMAIN code[0] : code[0][k] = [op |-> op, id |-> x]})
Owners == {x \in 0 .. (next_local - 1) : Count("init", x) > 0}

\* In a function whose end is reached, whatever is moved where, every deferred
\* expression runs exactly once and every owned local that still holds its value is
\* dropped exactly once: no scope's clean-up is lost between exit_scope and the
\* block it is emitted to.
NothingLeaks ==
  outcome = "lowered" /\ ~errors /\ next_block = 1 /\ Live =>
    /\ \A d \in 0 .. (next_defer - 1) : Count("run", d) = 1
    /\ \A x \in Owners \ taken : Count("drop", x) = 1

-----------------------------------------------------------------------------
(* What the documents say of single ways out.                              *)

\* 05-memory.md:99: `defer` is triggered on `ret` (lower_ret), in each of the
\* scopes it leaves.
ReturnRunsEveryDefer ==
  [][event' # event /\ event'.kind = "ret" =>
       \A k \in event'.from .. Len(OpenScopes) : \A d \in ToSet(OpenScopes[k].defers) :
         [op |-> "run", id |-> d] \in ToSet(event'.items)]_vars

\* mod.rs:215: a local that has been moved away is not dropped (mark_moved).
MovedIsNotDropped ==
  [][event' # event => \A x \in taken : [op |-> "drop", id |-> x] \notin ToSet(event'.items)]_vars
=============================================================================
