---------------------------- MODULE ScopedCleanup ----------------------------
(***************************************************************************)
(* What the language promises about clean-up (docs/spec/05-memory.md 5.3,  *)
(* 5.4): while a function is read from top to bottom a stack of scopes is  *)
(* open; a scope collects owned locals and deferred expressions; and each  *)
(* way out of a scope -- its end, a return, a jump out of a loop -- runs   *)
(* the clean-up of exactly the scopes it leaves, the innermost first, and  *)
(* in each of them in reverse order of declaration.  A defer may use what  *)
(* was declared before it (f := open()!, then defer f.close() in 5.2), so  *)
(* it runs before that is dropped.                                         *)
(*                                                                         *)
(* The module says nothing of basic blocks, locals or the order in which a *)
(* compiler visits the program.  Cleanup.tla shows Lowering implements it. *)
(***************************************************************************)
EXTENDS Integers, Sequences, SequencesExt

CONSTANTS Names, Params     \* of owned locals and defers; owned parameters of a function

VARIABLES
  open,     \* the open scopes, outermost first: [owned, defers, late, loop], where late
            \* says whether the last defer follows an owned local
  taken,    \* owned locals whose value has been moved elsewhere
  exit      \* the last way out: [kind, from, items], scopes from .. Len(open) left

vars == <<open, taken, exit>>

\* One drop for each owned local that is not gone, the last one first.
Drops(owned, gone) ==
  LET drops[n \in 0 .. Len(owned)] ==
        IF n = 0 THEN <<>>
        ELSE IF owned[n] \in gone THEN drops[n - 1]
        ELSE <<[op |-> "drop", id |-> owned[n]]>> \o drops[n - 1]
  IN  drops[Len(owned)]

ScopeCleanup(s) ==
  LET runs == [i \in DOMAIN s.defers |-> [op |-> "run", id |-> s.defers[i]]]
  IN  IF s.late = "yes" THEN Reverse(runs) \o Drops(s.owned, taken)
      ELSE Drops(s.owned, taken) \o Reverse(runs)

\* Everything scopes from .. Len(open) have to clean up, the innermost first.
CleanupFrom(from) ==
  FlattenSeq([i \in 1 .. (Len(open) - from + 1) |-> ScopeCleanup(open[Len(open) - i + 1])])

Exit(kind, from) == exit' = [kind |-> kind, from |-> from, items |-> CleanupFrom(from)]

Init == open = <<>> /\ taken = {} /\ exit = [kind |-> "start", from |-> 0, items |-> <<>>]

EnterFunction(n) ==
  /\ UNCHANGED exit
  /\ taken' = {}
  /\ open = <<>>
  /\ open' = <<[owned |-> [i \in 1 .. n |-> i - 1], defers |-> <<>>, late |-> "no",
               loop |-> FALSE]>>

EnterScope(loop) ==
  /\ UNCHANGED <<taken, exit>>
  /\ open # <<>>
  /\ open' = Append(open, [owned |-> <<>>, defers |-> <<>>, late |-> "no", loop |-> loop])

Declare(x) ==
  /\ UNCHANGED <<taken, exit>>
  /\ open # <<>>
  /\ open' = [open EXCEPT ![Len(open)].owned = Append(@, x)]

Defer(d) ==
  LET s == open[Len(open)] IN
  /\ UNCHANGED <<taken, exit>>
  /\ open # <<>>
  /\ open' = [open EXCEPT ![Len(open)] =
                [s EXCEPT !.defers = Append(s.defers, d), !.late = IF s.owned = <<>> THEN "no" ELSE "yes"]]

\* y := x, where x owns a value: y is declared and owns it from now on.
Move(x, y) ==
  /\ UNCHANGED exit
  /\ taken' = taken \cup {x}
  /\ open # <<>>
  /\ open' = [open EXCEPT ![Len(open)].owned = Append(@, y)]

\* f(x): the callee owns the value.
Give(x) ==
  /\ UNCHANGED exit
  /\ taken' = taken \cup {x}
  /\ open # <<>> /\ UNCHANGED open

Leave ==
  /\ UNCHANGED taken
  /\ open # <<>>
  /\ Exit("end", Len(open))
  /\ open' = Front(open)

\* No path reaches the end of the scope.
LeaveUnreached ==
  /\ UNCHANGED <<taken, exit>>
  /\ open # <<>>
  /\ open' = Front(open)

\* The scopes stay open: what follows the return or the jump is read next.
Stay(kind, from) == UNCHANGED taken /\ Exit(kind, from) /\ UNCHANGED open

Return    == open # <<>> /\ Stay("ret", 1)
Propagate == open # <<>> /\ Stay("propagate", 1)
Jump(from) == open[from].loop /\ Stay("jump", from)

Next ==
  \/ \E n \in 0 .. Params : EnterFunction(n)
  \/ \E loop \in BOOLEAN : EnterScope(loop)
  \/ \E x \in Names : Declare(x) \/ Defer(x) \/ Give(x)
  \/ \E x, y \in Names : Move(x, y)
  \/ Leave \/ LeaveUnreached
  \/ Return \/ Propagate
  \/ \E from \in DOMAIN open : Jump(from)

Spec == Init /\ [][Next]_vars
=============================================================================
