------------------------------ MODULE DiagSink ------------------------------
(***************************************************************************)
(* The diagnostic sink: counting, merging, throttling and the final sort   *)
(* (diag/sink.rs, diag/diagnostic.rs), as operators on a sink record.      *)
(* A message is its severity, its code and the place it points to; wording *)
(* and sub-diagnostics are left out.                                       *)
(***************************************************************************)
EXTENDS Integers, FiniteSets, Sequences, SequencesExt, FiniteSetsExt

(* error_limit = None.                                                     *)
NoLimit == -1

(* u32::MAX, the sort key of a diagnostic without a place.                 *)
Nowhere == 99

ErrorLimitTaken(n) == n

(* --error-limit=0 stands for no limit.                                    *)
ErrorLimitFromArg(n) == IF n = 0 THEN NoLimit ELSE n

Diag(sev, code, file, lo) ==
  [sev |-> sev, code |-> code, file |-> file, lo |-> lo, occurrences |-> 1]

SortKey(d) == <<d.file, d.lo>>

DedupKey(d) == <<d.code, SortKey(d)>>

WithErrorLimit(limit) ==
  [diags |-> <<>>, errs |-> 0, warns |-> 0, limit |-> limit, suppressed |-> 0]

StoredErrors(s) == Cardinality({i \in DOMAIN s.diags : s.diags[i].sev = "error"})

Full(s, d) ==
  /\ d.sev = "error"
  /\ s.limit # NoLimit
  /\ StoredErrors(s) >= s.limit

(* Counting always happens; what is stored may be merged or throttled.     *)
Counted(s, d) ==
  [s EXCEPT !.errs = IF d.sev = "error" THEN @ + 1 ELSE @,
            !.warns = IF d.sev = "warning" THEN @ + 1 ELSE @]

MergedSilently(s, i) == s

Merged(s, i) == [s EXCEPT !.diags[i].occurrences = @ + 1]

Throttled(s) == [s EXCEPT !.suppressed = @ + 1]

Emit(s, d) ==
  LET counted == Counted(s, d)
      same == {i \in DOMAIN s.diags : DedupKey(s.diags[i]) = DedupKey(d)}
  IN IF same # {} THEN Merged(counted, Min(same))
     ELSE IF Full(s, d) THEN Throttled(counted)
     ELSE [counted EXCEPT !.diags = Append(@, d)]

EmitAll(s, ds) == FoldLeft(Emit, s, ds)

HasErrors(s) == s.errs > 0

KeyBefore(k, l) == k[1] < l[1] \/ (k[1] = l[1] /\ k[2] < l[2])

(* sort_by_key is stable: equal places keep the order of emission.  The     *)
(* place of a diagnostic in the result is how many are not behind it.      *)
Ahead(s, i, j) ==
  \/ KeyBefore(SortKey(s.diags[i]), SortKey(s.diags[j]))
  \/ SortKey(s.diags[i]) = SortKey(s.diags[j]) /\ i < j

Rank(s, i) == Cardinality({j \in DOMAIN s.diags : j = i \/ Ahead(s, j, i)})

Finished(s) ==
  [k \in DOMAIN s.diags |-> s.diags[CHOOSE i \in DOMAIN s.diags : Rank(s, i) = k]]

(* The reports that the stored diagnostics of a severity stand for.        *)
Reported(s, sev) ==
  UNION {{i} \X (1 .. s.diags[i].occurrences) : i \in {j \in DOMAIN s.diags : s.diags[j].sev = sev}}

Occurrences(s, sev) == Cardinality(Reported(s, sev))
=============================================================================
