--------------------------- MODULE TestAnnotations ---------------------------
(***************************************************************************)
(* Expected against emitted diagnostics: the `--~` annotations of a file   *)
(* (driver/test_verifier.rs).  An annotation is its line, its severity and *)
(* its code, or Malformed; message fragments are left out, as an           *)
(* annotation without one matches every wording.                           *)
(***************************************************************************)
EXTENDS Integers, Sequences, FiniteSetsExt

Malformed == [line |-> 0, sev |-> "none", code |-> "none"]

(* Places 1 and 2 of a file are on its first line.                         *)
LineOf(lo) == IF lo <= 2 THEN 1 ELSE 2

(* Only diagnostics that point into the source (DiagLoc::At) can match.    *)
Matches(a, d) ==
  /\ d.sev = a.sev
  /\ d.lo > 0
  /\ LineOf(d.lo) = a.line
  /\ d.code = a.code

(* The first diagnostic an annotation matches is the one it covers.        *)
MatchOf(a, diags) ==
  LET hits == {i \in DOMAIN diags : Matches(a, diags[i])}
  IN IF hits = {} THEN {} ELSE {Min(hits)}

VerifyAnyHit(annots, diags) ==
  IF \E i \in DOMAIN annots : annots[i] = Malformed THEN "Malformed"
  ELSE IF \E i \in DOMAIN annots : MatchOf(annots[i], diags) = {} THEN "NotTriggered"
  ELSE "Pass"

VerifyTestAnnotations(annots, diags) ==
  LET covered == UNION {MatchOf(annots[i], diags) : i \in DOMAIN annots}
  IN IF \E i \in DOMAIN annots : annots[i] = Malformed THEN "Malformed"
     ELSE IF \E i \in DOMAIN annots : MatchOf(annots[i], diags) = {} THEN "NotTriggered"
     ELSE IF covered = DOMAIN diags THEN "Pass"
     ELSE "Unexpected"
=============================================================================
