----------------------------- MODULE DriverProofs -----------------------------
(***************************************************************************)
(* For every command line, any number of files and whatever the passes and *)
(* the tools report: nothing is written after an error, each file goes as  *)
(* far as its own first error lets it, exit code 0 means that all that was *)
(* asked for is there, a failure is explained, every report is counted     *)
(* once, and a file of tests passes only with all its diagnostics named.   *)
(***************************************************************************)
EXTENDS Driver, SequenceFacts

-----------------------------------------------------------------------------
(* The diagnostic sink.                                                    *)

Codes == {"lex", "parse", "resolve", "escape", "typecheck", "cycle", "read", "lower",
          "propagate", "codegen"}

Entry == [sev : {"error", "warning"}, code : Codes, file : Nat, lo : Nat, occurrences : Nat]

Sink == [diags : Seq(Entry), errs : Nat, warns : Nat, limit : Int, suppressed : Nat]

\* Some stored diagnostic is an error and has this code.
StoredError(s, code) ==
  \E i \in DOMAIN s.diags : s.diags[i].sev = "error" /\ s.diags[i].code = code

\* Counting leaves what is stored alone.
LEMMA CountedFacts ==
  ASSUME NEW s \in Sink, NEW d \in Entry
  PROVE  /\ Counted(s, d) \in Sink
         /\ Counted(s, d).diags = s.diags
         /\ Counted(s, d).errs = IF d.sev = "error" THEN s.errs + 1 ELSE s.errs
<1>1. PICK e \in Nat : e = IF d.sev = "error" THEN s.errs + 1 ELSE s.errs
  BY DEF Sink
<1> DEFINE t == [s EXCEPT !.errs = e]
<1>2. t \in Sink /\ t.diags = s.diags /\ t.errs = e
  BY <1>1 DEF Sink
<1>3. PICK w \in Nat : w = IF d.sev = "warning" THEN t.warns + 1 ELSE t.warns
  BY <1>2 DEF Sink
<1>4. Counted(s, d) = [t EXCEPT !.warns = w]
  <2>1. Counted(s, d) = [[s EXCEPT !.errs = IF d.sev = "error" THEN @ + 1 ELSE @]
                           EXCEPT !.warns = IF d.sev = "warning" THEN @ + 1 ELSE @]
    BY Zenon DEF Counted
  <2>2. t = [s EXCEPT !.errs = IF d.sev = "error" THEN @ + 1 ELSE @]
    BY <1>1
  <2> HIDE DEF t
  <2>3. Counted(s, d) = [t EXCEPT !.warns = IF d.sev = "warning" THEN @ + 1 ELSE @]
    BY <2>1, <2>2, Zenon
  <2> QED BY <1>3, <2>3
<1> HIDE DEF t
<1>5. [t EXCEPT !.warns = w] \in Sink /\ [t EXCEPT !.warns = w].diags = t.diags
      /\ [t EXCEPT !.warns = w].errs = t.errs
  BY <1>2 DEF Sink
<1> QED BY <1>1, <1>2, <1>4, <1>5

\* Merging leaves the severities and the codes of what is stored alone.
LEMMA MergedFacts ==
  ASSUME NEW s \in Sink, NEW i
  PROVE  /\ Merged(s, i) \in Sink /\ Merged(s, i).errs = s.errs
         /\ \A code : StoredError(Merged(s, i), code) => StoredError(s, code)
<1> DEFINE ds == [s.diags EXCEPT ![i] = [s.diags[i] EXCEPT !.occurrences = @ + 1]]
<1>1. s.diags \in Seq(Entry) /\ \A j \in DOMAIN s.diags : s.diags[j] \in Entry
  BY ElementsType DEF Sink
<1>2. /\ Merged(s, i) = [s EXCEPT !.diags = ds]
  BY DEF Merged
<1>3. \A e \in Entry : /\ [e EXCEPT !.occurrences = @ + 1] \in Entry
                       /\ [e EXCEPT !.occurrences = @ + 1].sev = e.sev
                       /\ [e EXCEPT !.occurrences = @ + 1].code = e.code
  BY DEF Entry
<1>4. /\ DOMAIN ds = DOMAIN s.diags
      /\ \A j \in DOMAIN s.diags : /\ ds[j] \in Entry
                                   /\ ds[j].sev = s.diags[j].sev /\ ds[j].code = s.diags[j].code
  <2>1. DOMAIN ds = DOMAIN s.diags
    OBVIOUS
  <2>2. ASSUME NEW j \in DOMAIN s.diags
        PROVE  ds[j] \in Entry /\ ds[j].sev = s.diags[j].sev /\ ds[j].code = s.diags[j].code
    <3>1. s.diags[j] \in Entry
      BY <1>1
    <3>2. CASE j = i
      <4>1. ds[j] = [s.diags[j] EXCEPT !.occurrences = @ + 1]
        BY <3>2
      <4> QED BY <1>3, <3>1, <4>1
    <3>3. CASE j # i
      <4>1. ds[j] = s.diags[j]
        BY <3>3
      <4> QED BY <3>1, <4>1
    <3> QED BY <3>2, <3>3
  <2> QED BY <2>1, <2>2
<1> HIDE DEF ds
<1>5. ds \in Seq(Entry)
  <2>1. Len(s.diags) \in Nat /\ DOMAIN s.diags = 1 .. Len(s.diags)
    BY <1>1
  <2>2. ds = [j \in 1 .. Len(s.diags) |-> ds[j]]
    BY <1>4, <2>1 DEF ds
  <2>3. \A j \in 1 .. Len(s.diags) : ds[j] \in Entry
    BY <1>4, <2>1
  <2> QED BY <2>1, <2>2, <2>3
<1>6. Merged(s, i) \in Sink /\ Merged(s, i).errs = s.errs /\ Merged(s, i).diags = ds
  BY <1>2, <1>5 DEF Sink
<1> QED BY <1>4, <1>6 DEF StoredError

\* Whatever the sink does with a report: it counts it once, and an error
\* it holds afterwards was there before or is the one reported.
LEMMA EmitFacts ==
  ASSUME NEW s \in Sink, NEW d \in Entry
  PROVE  /\ Emit(s, d) \in Sink
         /\ Emit(s, d).errs = IF d.sev = "error" THEN s.errs + 1 ELSE s.errs
         /\ \A code : StoredError(Emit(s, d), code) =>
              StoredError(s, code) \/ (d.sev = "error" /\ d.code = code)
<1> DEFINE c == Counted(s, d)
           i == Min({j \in DOMAIN s.diags : DedupKey(s.diags[j]) = DedupKey(d)})
           added == [c EXCEPT !.diags = Append(@, d)]
<1>1. /\ c \in Sink /\ c.diags = s.diags
      /\ c.errs = IF d.sev = "error" THEN s.errs + 1 ELSE s.errs
  BY CountedFacts
<1>2. Emit(s, d) \in {Merged(c, i), Throttled(c), added}
  BY DEF Emit
<1> HIDE DEF c, i
<1>3. \A code : StoredError(c, code) => StoredError(s, code)
  BY <1>1 DEF StoredError
<1>4. CASE Emit(s, d) = Merged(c, i)
  BY <1>1, <1>3, <1>4, MergedFacts
<1>5. CASE Emit(s, d) = Throttled(c)
  <2>1. Throttled(c) \in Sink /\ Throttled(c).errs = c.errs /\ Throttled(c).diags = c.diags
    BY <1>1 DEF Throttled, Sink
  <2> QED BY <1>1, <1>3, <1>5, <2>1 DEF StoredError
<1>6. CASE Emit(s, d) = added
  <2>1. added.diags = Append(c.diags, d) /\ added.errs = c.errs /\ c.diags \in Seq(Entry)
    BY <1>1 DEF Sink
  <2>2. /\ Append(c.diags, d) \in Seq(Entry)
        /\ Len(c.diags) \in Nat /\ DOMAIN c.diags = 1 .. Len(c.diags)
        /\ DOMAIN Append(c.diags, d) = 1 .. Len(c.diags) + 1
        /\ \A j \in 1 .. Len(c.diags) : Append(c.diags, d)[j] = c.diags[j]
        /\ Append(c.diags, d)[Len(c.diags) + 1] = d
    BY <2>1, AppendElements, ElementsType
  <2>3. added \in Sink
    BY <1>1, <2>1, <2>2 DEF Sink
  <2>4. ASSUME NEW code, StoredError(added, code)
        PROVE  StoredError(c, code) \/ (d.sev = "error" /\ d.code = code)
    <3>1. PICK j \in 1 .. Len(c.diags) + 1 :
            Append(c.diags, d)[j].sev = "error" /\ Append(c.diags, d)[j].code = code
      BY <2>1, <2>2, <2>4 DEF StoredError
    <3>2. j \in 1 .. Len(c.diags) \/ j = Len(c.diags) + 1
      BY <2>2
    <3> QED BY <2>2, <3>1, <3>2 DEF StoredError
  <2> HIDE DEF added
  <2> QED BY <1>1, <1>3, <1>6, <2>1, <2>3, <2>4
<1> QED BY <1>2, <1>4, <1>5, <1>6

\* A report is an entry.
LEMMA DiagType ==
  ASSUME NEW sev \in {"error", "warning"}, NEW code \in Codes, NEW f \in Nat, NEW lo \in Nat
  PROVE  /\ Diag(sev, code, f, lo) \in Entry
         /\ Diag(sev, code, f, lo).sev = sev /\ Diag(sev, code, f, lo).code = code
BY DEF Diag, Entry

\* A new sink holds nothing and has counted nothing.
LEMMA EmptySink ==
  ASSUME NEW limit \in Int
  PROVE  /\ WithErrorLimit(limit) \in Sink /\ WithErrorLimit(limit).errs = 0
         /\ \A code : ~StoredError(WithErrorLimit(limit), code)
<1>1. <<>> \in Seq(Entry)
  OBVIOUS
<1> QED BY <1>1 DEF WithErrorLimit, Sink, StoredError

-----------------------------------------------------------------------------
(* The sorted result.                                                      *)

\* Which diagnostic comes first is settled for any two of them.
LEMMA AheadFacts ==
  ASSUME NEW s \in Sink
  PROVE  /\ \A i, j \in DOMAIN s.diags : i # j => Ahead(s, i, j) \/ Ahead(s, j, i)
         /\ \A i \in DOMAIN s.diags : ~Ahead(s, i, i)
         /\ \A i, j, k \in DOMAIN s.diags : Ahead(s, i, j) /\ Ahead(s, j, k) => Ahead(s, i, k)
<1>1. /\ DOMAIN s.diags \subseteq Nat
      /\ \A i \in DOMAIN s.diags : s.diags[i].file \in Nat /\ s.diags[i].lo \in Nat
  <2>1. s.diags \in Seq(Entry)
    BY DEF Sink
  <2>2. DOMAIN s.diags \subseteq Nat /\ \A i \in DOMAIN s.diags : s.diags[i] \in Entry
    BY <2>1
  <2>3. \A e \in Entry : e.file \in Nat /\ e.lo \in Nat
    BY DEF Entry
  <2> QED BY <2>2, <2>3
<1> DEFINE f(i) == s.diags[i].file
           l(i) == s.diags[i].lo
<1>2. \A i, j : Ahead(s, i, j) <=>
        \/ f(i) < f(j) \/ (f(i) = f(j) /\ l(i) < l(j))
        \/ f(i) = f(j) /\ l(i) = l(j) /\ i < j
  BY DEF Ahead, KeyBefore, SortKey
<1>3. \A i \in DOMAIN s.diags : f(i) \in Nat /\ l(i) \in Nat
  BY <1>1
<1> HIDE DEF f, l
<1> QED BY <1>1, <1>2, <1>3

\* finish keeps every diagnostic, and makes none up.
LEMMA FinishedKeeps ==
  ASSUME NEW s \in Sink
  PROVE  /\ DOMAIN Finished(s) = DOMAIN s.diags
         /\ \A i \in DOMAIN s.diags : \E k \in DOMAIN s.diags : Finished(s)[k] = s.diags[i]
         /\ \A k \in DOMAIN s.diags : \E i \in DOMAIN s.diags : Finished(s)[k] = s.diags[i]
<1> DEFINE D == DOMAIN s.diags
           upTo(i) == {j \in D : j = i \/ Ahead(s, j, i)}
           rank == [i \in D |-> Rank(s, i)]
<1>1. PICK n \in Nat : D = 1 .. n
  <2>1. s.diags \in Seq(Entry)
    BY DEF Sink
  <2> QED BY <2>1
<1>2. IsFiniteSet(D) /\ Cardinality(D) = n
  BY <1>1, FS_Interval
<1>3. \A i \in D : Rank(s, i) = Cardinality(upTo(i)) /\ upTo(i) \in SUBSET D /\ i \in upTo(i)
  BY DEF Rank
<1>4. ASSUME NEW i \in D
      PROVE  /\ IsFiniteSet(upTo(i)) /\ Rank(s, i) \in Nat /\ Rank(s, i) <= n
             /\ Rank(s, i) # 0
  <2>1. upTo(i) \in SUBSET D
    BY <1>3
  <2>2. IsFiniteSet(upTo(i)) /\ Cardinality(upTo(i)) <= Cardinality(D)
    BY <1>2, <2>1, FS_Subset
  <2>3. Cardinality(upTo(i)) # 0 /\ Cardinality(upTo(i)) \in Nat
    BY <1>3, <2>2, FS_EmptySet, FS_CardinalityType
  <2> QED BY <1>2, <1>3, <2>2, <2>3
<1>5. ASSUME NEW i \in D, NEW j \in D, Ahead(s, i, j)
      PROVE  Rank(s, i) # Rank(s, j)
  <2>1. ~Ahead(s, j, i) /\ j # i
    BY <1>5, AheadFacts
  <2>2. upTo(i) \in SUBSET upTo(j)
    BY <1>5, AheadFacts
  <2>3. j \in upTo(j) /\ j \notin upTo(i)
    BY <2>1
  <2>4. Cardinality(upTo(j)) = Cardinality(upTo(i)) => upTo(j) = upTo(i)
    <3> HIDE DEF upTo
    <3> QED BY <1>4, <2>2, FS_Subset
  <2> QED BY <1>3, <2>3, <2>4
<1>6. \A i, j \in D : Rank(s, i) = Rank(s, j) => i = j
  BY <1>5, AheadFacts
<1>7. \A i \in D : Rank(s, i) \in D
  <2> SUFFICES ASSUME NEW i \in D PROVE Rank(s, i) \in D
    OBVIOUS
  <2>1. Rank(s, i) \in Nat /\ Rank(s, i) <= n /\ Rank(s, i) # 0
    BY <1>4
  <2> QED BY <1>1, <2>1
<1>8. rank \in Injection(D, D)
  <2>1. \A i \in D : Rank(s, i) \in D
    BY <1>7
  <2> QED BY <1>6, <2>1 DEF Injection, IsInjective
<1>9. rank \in Surjection(D, D)
  <2> HIDE DEF D, rank
  <2> QED BY <1>2, <1>8, FS_Injection
<1>10. \A k \in D : \E i \in D : Rank(s, i) = k
  BY <1>9 DEF Surjection
<1>11. DOMAIN Finished(s) = D
       /\ \A k \in D : Finished(s)[k] = s.diags[CHOOSE i \in D : Rank(s, i) = k]
  BY DEF Finished
<1>12. \A i \in D : (CHOOSE j \in D : Rank(s, j) = Rank(s, i)) = i
  BY <1>6
<1>13. \A i \in D : Finished(s)[Rank(s, i)] = s.diags[i]
  BY <1>7, <1>11, <1>12
<1> HIDE DEF D
<1>14. \A k \in D : (CHOOSE j \in D : Rank(s, j) = k) \in D
  BY <1>10
<1> QED BY <1>7, <1>11, <1>13, <1>14 DEF D

-----------------------------------------------------------------------------
(* Counting.                                                               *)

\* Only the warning of the lowering is one; every report is one occurrence.
AsReported(d) == d \in Entry /\ (d.code = "propagate" <=> d.sev = "warning")

\* What is stored accounts for what was counted, and with an error counted
\* one is stored.
Accounted(s) ==
  /\ s \in Sink /\ (s.limit = NoLimit \/ s.limit \in Nat \ {0})
  /\ \A i \in DOMAIN s.diags : AsReported(s.diags[i])
  /\ \A sev : IsFiniteSet(Reported(s, sev))
  /\ s.errs = Occurrences(s, "error") + s.suppressed
  /\ s.warns = Occurrences(s, "warning")
  /\ s.errs # 0 => \E i \in DOMAIN s.diags : s.diags[i].sev = "error"

\* The pairs that are counted.
LEMMA ReportedPairs ==
  ASSUME NEW s, NEW sev
  PROVE  /\ \A i, k : <<i, k>> \in Reported(s, sev) <=>
              /\ i \in DOMAIN s.diags /\ s.diags[i].sev = sev
              /\ k \in 1 .. s.diags[i].occurrences
         /\ \A p \in Reported(s, sev) : p = <<p[1], p[2]>>
BY DEF Reported

\* Two sets of pairs are equal if they have the same pairs.
LEMMA SamePairs ==
  ASSUME NEW R, NEW S, \A p \in R : p = <<p[1], p[2]>>, \A p \in S : p = <<p[1], p[2]>>,
         \A i, k : <<i, k>> \in R <=> <<i, k>> \in S
  PROVE  R = S
<1>1. ASSUME NEW p \in R PROVE p \in S
  <2>1. p = <<p[1], p[2]>>
    OBVIOUS
  <2> QED BY <2>1
<1>2. ASSUME NEW p \in S PROVE p \in R
  <2>1. p = <<p[1], p[2]>>
    OBVIOUS
  <2> QED BY <2>1
<1> QED BY <1>1, <1>2

\* A new report of what is not stored yet.
LEMMA ReportedAppend ==
  ASSUME NEW s \in Sink, NEW t \in Sink, NEW d \in Entry, d.occurrences = 1,
         t.diags = Append(s.diags, d), NEW sev,
         IsFiniteSet(Reported(s, sev))
  PROVE  /\ IsFiniteSet(Reported(t, sev))
         /\ Occurrences(t, sev) =
              IF d.sev = sev THEN Occurrences(s, sev) + 1 ELSE Occurrences(s, sev)
<1> DEFINE n == Len(s.diags)
           R == Reported(s, sev)
           new == <<n + 1, 1>>
<1>1. /\ n \in Nat /\ DOMAIN s.diags = 1 .. n /\ DOMAIN t.diags = 1 .. n + 1
      /\ \A i \in 1 .. n : t.diags[i] = s.diags[i]
      /\ t.diags[n + 1] = d
  <2>1. s.diags \in Seq(Entry)
    BY DEF Sink
  <2> QED BY <2>1, AppendElements, ElementsType
<1> HIDE DEF n
<1>2. \A p \in R : p = <<p[1], p[2]>>
  BY ReportedPairs
<1>3. \A p \in Reported(t, sev) : p = <<p[1], p[2]>>
  BY ReportedPairs
<1>4. \A i, k : <<i, k>> \in R <=>
        i \in 1 .. n /\ s.diags[i].sev = sev /\ k \in 1 .. s.diags[i].occurrences
  BY <1>1, ReportedPairs
<1>5. \A i, k : <<i, k>> \in Reported(t, sev) <=>
        i \in 1 .. n + 1 /\ t.diags[i].sev = sev /\ k \in 1 .. t.diags[i].occurrences
  BY <1>1, ReportedPairs
<1>6. new \notin R
  <2>1. n + 1 \notin 1 .. n
    BY <1>1
  <2> QED BY <1>4, <2>1
<1>7. \A k : k \in 1 .. d.occurrences <=> k = 1
  OBVIOUS
<1> HIDE DEF R
<1>8. CASE d.sev = sev
  <2>1. \A i, k : <<i, k>> \in Reported(t, sev) <=> <<i, k>> \in R \cup {new}
    <3>1. ASSUME NEW i, NEW k, i \in 1 .. n
          PROVE  <<i, k>> \in Reported(t, sev) <=> <<i, k>> \in R \cup {new}
      <4>1. <<i, k>> # new
        BY <1>1, <3>1
      <4>2. i \in 1 .. n + 1
        BY <1>1, <3>1
      <4> QED BY <1>1, <1>4, <1>5, <3>1, <4>1, <4>2
    <3>2. ASSUME NEW i, NEW k, i = n + 1
          PROVE  <<i, k>> \in Reported(t, sev) <=> <<i, k>> \in R \cup {new}
      <4>1. i \notin 1 .. n /\ i \in 1 .. n + 1
        BY <1>1, <3>2
      <4>2. <<i, k>> = new <=> k = 1
        BY <3>2
      <4> QED BY <1>1, <1>4, <1>5, <1>7, <1>8, <3>2, <4>1, <4>2
    <3>3. ASSUME NEW i, NEW k, i \notin 1 .. n, i # n + 1
          PROVE  <<i, k>> \in Reported(t, sev) <=> <<i, k>> \in R \cup {new}
      <4>1. i \notin 1 .. n + 1
        BY <1>1, <3>3
      <4> QED BY <1>4, <1>5, <3>3, <4>1
    <3> QED BY <3>1, <3>2, <3>3
  <2>2. \A p \in R \cup {new} : p = <<p[1], p[2]>>
    BY <1>2
  <2>3. Reported(t, sev) = R \cup {new}
    BY <1>3, <2>1, <2>2, SamePairs
  <2> HIDE DEF new
  <2> QED BY <1>6, <1>8, <2>3, FS_AddElement DEF R, Occurrences
<1>9. CASE d.sev # sev
  <2>1. \A i, k : <<i, k>> \in Reported(t, sev) <=> <<i, k>> \in R
    <3>1. \A i : i \in 1 .. n + 1 <=> i \in 1 .. n \/ i = n + 1
      BY <1>1
    <3> QED BY <1>1, <1>4, <1>5, <1>9, <3>1
  <2>2. Reported(t, sev) = R
    BY <1>2, <1>3, <2>1, SamePairs
  <2> QED BY <1>9, <2>2 DEF R, Occurrences
<1> QED BY <1>8, <1>9

\* A report that is merged into a stored one.
LEMMA ReportedMerge ==
  ASSUME NEW s \in Sink, NEW i \in DOMAIN s.diags, NEW sev,
         IsFiniteSet(Reported(s, sev))
  PROVE  LET t == Merged(s, i) IN
         /\ IsFiniteSet(Reported(t, sev))
         /\ Occurrences(t, sev) =
              IF s.diags[i].sev = sev THEN Occurrences(s, sev) + 1 ELSE Occurrences(s, sev)
         /\ DOMAIN t.diags = DOMAIN s.diags
         /\ \A j \in DOMAIN s.diags :
              t.diags[j].sev = s.diags[j].sev /\ t.diags[j].code = s.diags[j].code
<1> DEFINE t == Merged(s, i)
           m == s.diags[i].occurrences
           R == Reported(s, sev)
           new == <<i, m + 1>>
<1>1. /\ m \in Nat /\ \A j \in DOMAIN s.diags : s.diags[j] \in Entry
  <2>1. s.diags \in Seq(Entry)
    BY DEF Sink
  <2>2. \A j \in DOMAIN s.diags : s.diags[j] \in Entry
    BY <2>1
  <2>3. \A e \in Entry : e.occurrences \in Nat
    BY DEF Entry
  <2> QED BY <2>2, <2>3
<1>2. t.diags = [s.diags EXCEPT ![i] = [s.diags[i] EXCEPT !.occurrences = @ + 1]]
  BY DEF Merged, Sink
<1>3. \A e \in Entry : /\ [e EXCEPT !.occurrences = @ + 1].occurrences = e.occurrences + 1
                       /\ [e EXCEPT !.occurrences = @ + 1].sev = e.sev
                       /\ [e EXCEPT !.occurrences = @ + 1].code = e.code
  BY DEF Entry
<1>4. DOMAIN t.diags = DOMAIN s.diags
  BY <1>2
<1>5. \A j \in DOMAIN s.diags : j # i => t.diags[j] = s.diags[j]
  BY <1>2
<1>6. /\ t.diags[i].sev = s.diags[i].sev /\ t.diags[i].code = s.diags[i].code
      /\ t.diags[i].occurrences = m + 1
  <2>1. t.diags[i] = [s.diags[i] EXCEPT !.occurrences = @ + 1]
    BY <1>2
  <2> QED BY <1>1, <1>3, <2>1
<1> HIDE DEF m, t
<1>7. /\ \A p \in R : p = <<p[1], p[2]>>
      /\ \A p \in Reported(t, sev) : p = <<p[1], p[2]>>
  BY ReportedPairs
<1>8. \A j, k : <<j, k>> \in R <=>
        j \in DOMAIN s.diags /\ s.diags[j].sev = sev /\ k \in 1 .. s.diags[j].occurrences
  BY ReportedPairs
<1>9. \A j, k : <<j, k>> \in Reported(t, sev) <=>
        j \in DOMAIN s.diags /\ t.diags[j].sev = sev /\ k \in 1 .. t.diags[j].occurrences
  BY <1>4, ReportedPairs
<1>10. \A k : k \in 1 .. m + 1 <=> k \in 1 .. m \/ k = m + 1
  BY <1>1
<1>11. \A j, k : j # i => (<<j, k>> \in Reported(t, sev) <=> <<j, k>> \in R)
  BY <1>5, <1>8, <1>9
<1>12. CASE s.diags[i].sev = sev
  <2>1. \A k : <<i, k>> \in Reported(t, sev) <=> <<i, k>> \in R \/ k = m + 1
    BY <1>6, <1>8, <1>9, <1>10, <1>12 DEF m
  <2>2. \A j, k : <<j, k>> \in Reported(t, sev) <=> <<j, k>> \in R \cup {new}
    <3>1. \A j, k : <<j, k>> = new <=> j = i /\ k = m + 1
      OBVIOUS
    <3> HIDE DEF new, R
    <3> QED BY <1>11, <2>1, <3>1
  <2>3. new \notin R
    <3>1. m + 1 \notin 1 .. m
      BY <1>1
    <3> QED BY <1>8, <3>1 DEF m
  <2>4. \A p \in R \cup {new} : p = <<p[1], p[2]>>
    BY <1>7
  <2> HIDE DEF R
  <2>5. Reported(t, sev) = R \cup {new}
    BY <1>7, <2>2, <2>4, SamePairs
  <2> HIDE DEF new
  <2>6. IsFiniteSet(Reported(t, sev)) /\ Occurrences(t, sev) = Occurrences(s, sev) + 1
    BY <2>3, <2>5, FS_AddElement DEF R, Occurrences
  <2> QED BY <1>4, <1>5, <1>6, <1>12, <2>6 DEF t
<1>13. CASE s.diags[i].sev # sev
  <2>1. \A j, k : <<j, k>> \in Reported(t, sev) <=> <<j, k>> \in R
    BY <1>6, <1>8, <1>9, <1>11, <1>13
  <2> HIDE DEF R
  <2>2. Reported(t, sev) = R
    BY <1>7, <2>1, SamePairs
  <2> QED BY <1>4, <1>5, <1>6, <1>13, <2>2 DEF R, Occurrences, t
<1> QED BY <1>12, <1>13

\* What counting does to every field.
LEMMA CountedFields ==
  ASSUME NEW s \in Sink, NEW d \in Entry
  PROVE  /\ Counted(s, d).warns = IF d.sev = "warning" THEN s.warns + 1 ELSE s.warns
         /\ Counted(s, d).limit = s.limit /\ Counted(s, d).suppressed = s.suppressed
<1>1. PICK e : e = IF d.sev = "error" THEN s.errs + 1 ELSE s.errs
  OBVIOUS
<1>2. PICK w : w = IF d.sev = "warning" THEN s.warns + 1 ELSE s.warns
  OBVIOUS
<1> DEFINE t == [s EXCEPT !.errs = e]
<1>3. t.warns = s.warns /\ t.limit = s.limit /\ t.suppressed = s.suppressed
      /\ DOMAIN t = {"diags", "errs", "warns", "limit", "suppressed"}
  BY DEF Sink
<1>4. Counted(s, d) = [t EXCEPT !.warns = w]
  <2>1. Counted(s, d) = [[s EXCEPT !.errs = IF d.sev = "error" THEN @ + 1 ELSE @]
                           EXCEPT !.warns = IF d.sev = "warning" THEN @ + 1 ELSE @]
    BY Zenon DEF Counted
  <2>2. t = [s EXCEPT !.errs = IF d.sev = "error" THEN @ + 1 ELSE @]
    BY <1>1
  <2> HIDE DEF t
  <2>3. Counted(s, d) = [t EXCEPT !.warns = IF d.sev = "warning" THEN @ + 1 ELSE @]
    BY <2>1, <2>2, Zenon
  <2> QED BY <1>2, <1>3, <2>3
<1> HIDE DEF t
<1>5. /\ [t EXCEPT !.warns = w].warns = w /\ [t EXCEPT !.warns = w].limit = t.limit
      /\ [t EXCEPT !.warns = w].suppressed = t.suppressed
  BY <1>3
<1> QED BY <1>2, <1>3, <1>4, <1>5

\* Only what is stored matters for what it stands for.
LEMMA SameStored ==
  ASSUME NEW s, NEW t, t.diags = s.diags
  PROVE  \A sev : Reported(t, sev) = Reported(s, sev) /\ Occurrences(t, sev) = Occurrences(s, sev)
BY DEF Reported, Occurrences

\* A report is counted once and stored, merged or among the suppressed; the
\* first error is never suppressed.
LEMMA EmitAccounted ==
  ASSUME NEW s, Accounted(s), NEW d, AsReported(d), d.occurrences = 1
  PROVE  /\ Accounted(Emit(s, d))
         /\ Emit(s, d).warns = IF d.sev = "warning" THEN s.warns + 1 ELSE s.warns
<1> DEFINE c == Counted(s, d)
           same == {j \in DOMAIN s.diags : DedupKey(s.diags[j]) = DedupKey(d)}
           added == [c EXCEPT !.diags = Append(@, d)]
           ofSort(sev) == IF d.sev = sev THEN 1 ELSE 0
<1>1. /\ s \in Sink /\ d \in Entry /\ (d.sev = "error" \/ d.sev = "warning")
      /\ s.errs \in Nat /\ s.warns \in Nat /\ s.suppressed \in Nat /\ s.diags \in Seq(Entry)
      /\ (s.limit = NoLimit \/ s.limit \in Nat \ {0})
      /\ \A sev : IsFiniteSet(Reported(s, sev)) /\ Occurrences(s, sev) \in Nat
  <2>1. s \in Sink /\ d \in Entry
    BY DEF Accounted, AsReported
  <2>2. d.sev = "error" \/ d.sev = "warning"
    BY <2>1 DEF Entry
  <2>3. s.errs \in Nat /\ s.warns \in Nat /\ s.suppressed \in Nat /\ s.diags \in Seq(Entry)
    BY <2>1 DEF Sink
  <2>4. \A sev : IsFiniteSet(Reported(s, sev)) /\ Occurrences(s, sev) \in Nat
    BY FS_CardinalityType DEF Accounted, Occurrences
  <2> QED BY <2>1, <2>2, <2>3, <2>4 DEF Accounted
<1>2. /\ c \in Sink /\ c.diags = s.diags
      /\ c.errs = s.errs + ofSort("error") /\ c.warns = s.warns + ofSort("warning")
      /\ c.limit = s.limit /\ c.suppressed = s.suppressed
  BY <1>1, CountedFacts, CountedFields
<1>3. \A sev : Reported(c, sev) = Reported(s, sev) /\ Occurrences(c, sev) = Occurrences(s, sev)
  BY <1>2, SameStored
<1>4. /\ s.errs = Occurrences(s, "error") + s.suppressed
      /\ s.warns = Occurrences(s, "warning")
      /\ \A i \in DOMAIN s.diags : AsReported(s.diags[i])
      /\ s.errs # 0 => \E i \in DOMAIN s.diags : s.diags[i].sev = "error"
  BY DEF Accounted
<1>5. \/ same # {} /\ Emit(s, d) = Merged(c, Min(same))
      \/ same = {} /\ Full(s, d) /\ Emit(s, d) = Throttled(c)
      \/ same = {} /\ ~Full(s, d) /\ Emit(s, d) = added
  BY DEF Emit
<1> HIDE DEF c
<1>6. CASE same # {} /\ Emit(s, d) = Merged(c, Min(same))
  <2> DEFINE i == Min(same)
             t == Merged(c, i)
  <2>1. i \in DOMAIN s.diags /\ DedupKey(s.diags[i]) = DedupKey(d)
    <3>1. same \in SUBSET Nat
      BY <1>1
    <3> HIDE DEF same
    <3>2. i \in same
      BY <1>6, <3>1, LeastNumber
    <3> QED BY <3>2 DEF same
  <2>2. s.diags[i].sev = d.sev
    <3>1. s.diags[i].code = d.code
      BY <2>1 DEF DedupKey
    <3>2. AsReported(s.diags[i])
      BY <1>4, <2>1
    <3>3. s.diags[i].sev = "error" \/ s.diags[i].sev = "warning"
      BY <3>2 DEF AsReported, Entry
    <3> QED BY <1>1, <3>1, <3>2, <3>3 DEF AsReported
  <2> HIDE DEF i, same
  <2>3. \A sev : /\ IsFiniteSet(Reported(t, sev))
                 /\ Occurrences(t, sev) = Occurrences(s, sev) + ofSort(sev)
                 /\ DOMAIN t.diags = DOMAIN s.diags
                 /\ \A j \in DOMAIN s.diags :
                      t.diags[j].sev = s.diags[j].sev /\ t.diags[j].code = s.diags[j].code
    <3> SUFFICES ASSUME NEW sev
                 PROVE  /\ IsFiniteSet(Reported(t, sev))
                        /\ Occurrences(t, sev) = Occurrences(s, sev) + ofSort(sev)
                        /\ DOMAIN t.diags = DOMAIN s.diags
                        /\ \A j \in DOMAIN s.diags :
                             t.diags[j].sev = s.diags[j].sev /\ t.diags[j].code = s.diags[j].code
      OBVIOUS
    <3>1. IsFiniteSet(Reported(c, sev)) /\ i \in DOMAIN c.diags
      BY <1>1, <1>2, <1>3, <2>1
    <3>2. /\ IsFiniteSet(Reported(t, sev))
          /\ Occurrences(t, sev) =
               IF c.diags[i].sev = sev THEN Occurrences(c, sev) + 1 ELSE Occurrences(c, sev)
          /\ DOMAIN t.diags = DOMAIN c.diags
          /\ \A j \in DOMAIN c.diags :
               t.diags[j].sev = c.diags[j].sev /\ t.diags[j].code = c.diags[j].code
      BY <1>2, <3>1, ReportedMerge
    <3> QED BY <1>1, <1>2, <1>3, <2>2, <3>2
  <2>4. /\ t \in Sink /\ t.errs = c.errs /\ t.warns = c.warns /\ t.limit = c.limit
        /\ t.suppressed = c.suppressed
    <3>1. t \in Sink /\ t.errs = c.errs
      BY <1>2, MergedFacts
    <3>2. t.warns = c.warns /\ t.limit = c.limit /\ t.suppressed = c.suppressed
      BY <1>2 DEF Merged, Sink
    <3> QED BY <3>1, <3>2
  <2>5. \A j \in DOMAIN t.diags : AsReported(t.diags[j])
    <3> SUFFICES ASSUME NEW j \in DOMAIN t.diags PROVE AsReported(t.diags[j])
      OBVIOUS
    <3>1. t.diags[j] \in Entry
      <4>1. t.diags \in Seq(Entry)
        BY <2>4 DEF Sink
      <4> QED BY <4>1
    <3>2. AsReported(s.diags[j]) /\ t.diags[j].sev = s.diags[j].sev
          /\ t.diags[j].code = s.diags[j].code
      BY <1>4, <2>3
    <3> QED BY <3>1, <3>2 DEF AsReported
  <2>6. t.errs # 0 => \E j \in DOMAIN t.diags : t.diags[j].sev = "error"
    <3>1. CASE d.sev = "error"
      BY <2>1, <2>2, <2>3, <3>1
    <3>2. CASE d.sev # "error"
      <4>1. t.errs = s.errs
        BY <1>1, <1>2, <2>4, <3>2
      <4> QED BY <1>4, <2>3, <4>1
    <3> QED BY <3>1, <3>2
  <2>7. t.errs = Occurrences(t, "error") + t.suppressed /\ t.warns = Occurrences(t, "warning")
    <3> HIDE DEF t
    <3> QED BY <1>1, <1>2, <1>4, <2>3, <2>4
  <2>8. Accounted(t)
    BY <1>1, <1>2, <2>3, <2>4, <2>5, <2>6, <2>7 DEF Accounted
  <2>9. Emit(s, d) = t
    BY <1>6 DEF i
  <2> HIDE DEF t
  <2> QED BY <1>1, <1>2, <2>4, <2>8, <2>9
<1>7. CASE Full(s, d) /\ Emit(s, d) = Throttled(c)
  <2> DEFINE t == Throttled(c)
  <2>1. /\ t \in Sink /\ t.diags = c.diags /\ t.errs = c.errs /\ t.warns = c.warns
        /\ t.limit = c.limit /\ t.suppressed = c.suppressed + 1
    BY <1>2 DEF Throttled, Sink
  <2>2. d.sev = "error" /\ s.limit \in Nat \ {0} /\ StoredErrors(s) >= s.limit
    BY <1>1, <1>7 DEF Full
  <2>3. \E i \in DOMAIN s.diags : s.diags[i].sev = "error"
    <3> SUFFICES ASSUME \A i \in DOMAIN s.diags : s.diags[i].sev # "error" PROVE FALSE
      OBVIOUS
    <3>1. {i \in DOMAIN s.diags : s.diags[i].sev = "error"} = {}
      OBVIOUS
    <3>2. StoredErrors(s) = 0
      BY <3>1, FS_EmptySet DEF StoredErrors
    <3> QED BY <2>2, <3>2
  <2> HIDE DEF t
  <2>4. \A sev : Reported(t, sev) = Reported(s, sev) /\ Occurrences(t, sev) = Occurrences(s, sev)
    BY <1>2, <2>1, SameStored
  <2>5. t.errs = Occurrences(t, "error") + t.suppressed /\ t.warns = Occurrences(t, "warning")
    <3>1. t.errs = s.errs + 1 /\ t.warns = s.warns /\ t.suppressed = s.suppressed + 1
      BY <1>1, <1>2, <2>1, <2>2
    <3>2. /\ Occurrences(t, "error") = Occurrences(s, "error")
          /\ Occurrences(t, "warning") = Occurrences(s, "warning")
      BY <2>4
    <3>3. Occurrences(s, "error") \in Nat
      BY <1>1
    <3> HIDE DEF t, c
    <3> QED BY <1>1, <1>4, <3>1, <3>2, <3>3
  <2>6. Accounted(t)
    BY <1>1, <1>2, <1>4, <2>1, <2>3, <2>4, <2>5 DEF Accounted
  <2>7. Emit(s, d) = t
    BY <1>7 DEF t
  <2> QED BY <1>1, <1>2, <2>1, <2>2, <2>6, <2>7
<1>8. CASE Emit(s, d) = added
  <2>1. /\ added.diags = Append(c.diags, d) /\ added.errs = c.errs /\ added.warns = c.warns
        /\ added.limit = c.limit /\ added.suppressed = c.suppressed
    BY <1>2 DEF Sink
  <2>2. added \in Sink
    BY <1>1, <1>8, EmitFacts
  <2> DEFINE n == Len(s.diags)
  <2>3. /\ n \in Nat /\ DOMAIN s.diags = 1 .. n
        /\ DOMAIN added.diags = 1 .. n + 1
        /\ \A j \in 1 .. n : added.diags[j] = s.diags[j]
        /\ added.diags[n + 1] = d
    BY <1>1, <1>2, <2>1, AppendElements, ElementsType
  <2> HIDE DEF added, n
  <2>4. \A sev : /\ IsFiniteSet(Reported(added, sev))
                 /\ Occurrences(added, sev) = Occurrences(s, sev) + ofSort(sev)
    BY <1>1, <1>2, <2>1, <2>2, ReportedAppend
  <2>5. \A j \in DOMAIN added.diags : AsReported(added.diags[j])
    <3>1. \A j \in 1 .. n + 1 : j \in 1 .. n \/ j = n + 1
      BY <2>3
    <3> QED BY <1>4, <2>3, <3>1
  <2>6. added.errs # 0 => \E j \in DOMAIN added.diags : added.diags[j].sev = "error"
    <3>0. n + 1 \in 1 .. n + 1 /\ \A j \in 1 .. n : j \in 1 .. n + 1
      BY <2>3
    <3>1. CASE d.sev = "error"
      BY <2>3, <3>0, <3>1
    <3>2. CASE d.sev # "error"
      <4>1. added.errs = s.errs
        BY <1>1, <1>2, <2>1, <3>2
      <4> QED BY <1>4, <2>3, <3>0, <4>1
    <3> QED BY <3>1, <3>2
  <2>7. /\ added.errs = Occurrences(added, "error") + added.suppressed
        /\ added.warns = Occurrences(added, "warning")
    BY <1>1, <1>2, <1>4, <2>1, <2>4
  <2>8. Accounted(added)
    BY <1>1, <1>2, <2>1, <2>2, <2>4, <2>5, <2>6, <2>7 DEF Accounted
  <2> QED BY <1>1, <1>2, <1>8, <2>1, <2>8
<1> QED BY <1>5, <1>6, <1>7, <1>8

\* A new sink has nothing to account for.
LEMMA EmptyAccounted ==
  ASSUME NEW limit, limit = NoLimit \/ limit \in Nat \ {0}
  PROVE  Accounted(WithErrorLimit(limit)) /\ WithErrorLimit(limit).warns = 0
<1> DEFINE s == WithErrorLimit(limit)
<1>1. /\ s \in Sink /\ s.diags = <<>> /\ s.errs = 0 /\ s.warns = 0 /\ s.suppressed = 0
      /\ s.limit = limit
  <2>1. limit \in Int
    BY DEF NoLimit
  <2> QED BY <2>1, EmptySink DEF WithErrorLimit
<1> HIDE DEF s
<1>2. \A sev : Reported(s, sev) = {}
  BY <1>1 DEF Reported
<1>3. \A sev : IsFiniteSet(Reported(s, sev)) /\ Occurrences(s, sev) = 0
  BY <1>2, FS_EmptySet DEF Occurrences
<1>4. Accounted(s)
  BY <1>1, <1>3 DEF Accounted
<1> QED BY <1>1, <1>4 DEF s

-----------------------------------------------------------------------------
(* The inductive invariant, part by part.                                  *)

Clean == [f \in Files |-> "nothing"]
Ids == 0 .. files - 1
Generating == pc \in {"emit", "runtime", "link"}

\* Every component has its type.  In verify mode nothing is asked of the sink.
Types ==
  /\ opts \in [inputs : Nat, emit : Seq(EmitStages), output : BOOLEAN, verify : BOOLEAN,
               limit : Int]
  /\ pc \in {"args", "load", "read", "file", "front", "verify", "verdict", "lower", "emit",
             "runtime", "link", "stopped"}
  /\ files \in Nat /\ order \in Seq(Ids) /\ sources \in Seq(Ids)
  /\ outs \in Seq([file : Ids, stage : 1 .. 5, module : BOOLEAN, symbols : BOOLEAN,
                   types : BOOLEAN])
  /\ pass \in 0 .. 5 /\ before \in Nat /\ lowered \in Nat /\ stage \in Nat \ {0}
  /\ failed \in [Ids -> 0 .. 5]
  /\ reports \in [error : Nat, warning : Nat]
  /\ disk \in [Files -> {"nothing", "llvm-ir", "obj", "exe"}]
  /\ ~opts.verify => sink \in Sink

\* Before the modules are loaded there is nothing.
Begun ==
  /\ pc \in {"args", "load"} =>
       /\ files = 0 /\ order = <<>> /\ sources = <<>> /\ outs = <<>> /\ lowered = 0
       /\ reports.error = 0
  /\ pc = "front" => sources # <<>> /\ pass \in 1 .. 5
  /\ pc \in {"verify", "verdict"} => opts.verify /\ sources # <<>>

\* Nothing is written before code is generated, and verify mode never does.
Unwritten ==
  /\ pc \notin {"emit", "runtime", "link", "stopped"} => disk = Clean
  /\ opts.verify => outs = <<>> /\ disk = Clean /\ pc \notin {"lower", "emit", "runtime", "link"}

\* The error count is right, and code is generated only if it is zero.
Errors ==
  ~opts.verify =>
    /\ sink.errs = reports.error
    /\ sink.errs = 0 => \A code : ~StoredError(sink, code)
    /\ Generating => sink.errs = 0
    /\ pc = "front" => before <= sink.errs

\* Without an error no module is lost on the way.
Whole ==
  ~opts.verify =>
    /\ pc \in {"read", "file", "front"} /\ sink.errs = 0 =>
         /\ Len(order) + Len(sources) + Len(outs) = files
         /\ \A i \in DOMAIN outs : Complete(outs[i])
    /\ pc \in {"read", "file", "front"} => lowered = 0
    /\ pc \in {"file", "front"} => order = <<>>
    /\ pc = "lower" \/ Generating =>
         Len(outs) = files /\ \A i \in DOMAIN outs : Complete(outs[i])
    /\ pc = "lower" => lowered <= Len(outs)
    /\ Generating => lowered = Len(outs)
    /\ pc = "emit" => disk["tempObj"] = "nothing" /\ disk["runtimeObj"] = "nothing"
    /\ pc \in {"runtime", "link"} => opts.emit = <<>>

\* Every module is read once, and only the one at hand may have failed, in the
\* pass that runs.
PerFile ==
  ~opts.verify =>
    /\ IsInjective(order) /\ IsInjective(sources)
    /\ ToSet(order) \cap ToSet(sources) = {}
    /\ \A i \in DOMAIN outs : outs[i].file \notin ToSet(order) \cup ToSet(sources)
    /\ \A f \in ToSet(order) \cup ToSet(sources) :
         failed[f] = 0 \/ (pc = "front" /\ f = Head(sources))
    /\ pc = "front" => /\ failed[Head(sources)] \in {0, pass}
                       /\ failed[Head(sources)] = 0 <=> sink.errs = before
    /\ GatePerFile

\* The limit is none or positive, the sinks are typed, and the shared one
\* accounts for the reports.
Accounts ==
  /\ opts.limit = NoLimit \/ opts.limit \in Nat \ {0}
  /\ own \in Sink
  /\ pc \in {"args", "load"} => reports.warning = 0
  /\ pc = "load" => Accounted(sink)
  /\ ~opts.verify => Accounted(sink) /\ sink.warns = reports.warning

\* A compiler that has an exit code has stopped, and says why if it failed.
Explained == (exit = "none" <=> pc # "stopped") /\ FailureIsExplained

DriverInv ==
  /\ Types /\ Begun /\ Unwritten /\ Errors /\ Whole /\ PerFile /\ Accounts /\ Explained
  /\ ErrorsWriteNothing /\ SuccessMeansDone /\ PassMeansAnnotated

-----------------------------------------------------------------------------
(* Types.                                                                  *)

Outputs == [file : Ids, stage : 1 .. 5, module : BOOLEAN, symbols : BOOLEAN, types : BOOLEAN]

\* What an error or a warning of a pass or a tool does to the sink.
LEMMA EmitTypes ==
  ASSUME Types, ~opts.verify, NEW sev \in {"error", "warning"}, NEW code \in Codes,
         NEW f \in Nat, NEW lo \in Nat
  PROVE  LET s == Emit(sink, Diag(sev, code, f, lo)) IN
         /\ s \in Sink
         /\ s.errs = IF sev = "error" THEN sink.errs + 1 ELSE sink.errs
         /\ sink.errs \in Nat
         /\ \A c : StoredError(s, c) => StoredError(sink, c) \/ (sev = "error" /\ c = code)
<1>1. sink \in Sink /\ sink.errs \in Nat
  BY DEF Types, Sink
<1>2. /\ Diag(sev, code, f, lo) \in Entry
      /\ Diag(sev, code, f, lo).sev = sev /\ Diag(sev, code, f, lo).code = code
  BY DiagType
<1> QED BY <1>1, <1>2, EmitFacts

\* What the history of reports counts.
LEMMA ReceivedTypes ==
  ASSUME Types, NEW sev \in {"error", "warning"}, Received(sev)
  PROVE  /\ reports' \in [error : Nat, warning : Nat]
         /\ reports'.error = IF sev = "error" THEN reports.error + 1 ELSE reports.error
BY DEF Types, Received

\* The passes of the front end are five, and each has a code of its own.
LEMMA PassesAre == Len(Passes) = 5 /\ \A i \in 1 .. 5 : Passes[i] \in Codes
BY DEF Passes, Codes

\* The command line.
LEMMA ParsingTypes ==
  ASSUME Types
  PROVE  /\ ParseArg => Types'
         /\ ParseArgsEnd => Types'
<1> DEFINE Options == [inputs : Nat, emit : Seq(EmitStages), output : BOOLEAN, verify : BOOLEAN,
                       limit : Int]
<1>1. ASSUME ParseArg PROVE Types'
  <2>1. opts' \in Options /\ (~opts'.verify => ~opts.verify)
    <3>0. opts \in Options
      BY DEF Types
    <3>1. [opts EXCEPT !.inputs = @ + 1] \in Options
          /\ [opts EXCEPT !.inputs = @ + 1].verify = opts.verify
      BY <3>0
    <3>2. ASSUME NEW s \in EmitStages
          PROVE  /\ [opts EXCEPT !.emit = Append(@, s)] \in Options
                 /\ [opts EXCEPT !.emit = Append(@, s)].verify = opts.verify
      BY <3>0
    <3>3. /\ [opts EXCEPT !.output = TRUE] \in Options
          /\ [opts EXCEPT !.output = TRUE].verify = opts.verify
      BY <3>0
    <3>4. /\ [opts EXCEPT !.verify = TRUE] \in Options
          /\ [opts EXCEPT !.verify = TRUE].verify
      BY <3>0
    <3>5. ASSUME NEW n \in Limits
          PROVE  /\ [opts EXCEPT !.limit = ErrorLimitFromArg(n)] \in Options
                 /\ [opts EXCEPT !.limit = ErrorLimitFromArg(n)].verify = opts.verify
      <4>1. ErrorLimitFromArg(n) \in Int
        BY DriverAssumption DEF ErrorLimitFromArg, NoLimit
      <4> QED BY <3>0, <4>1
    <3>6. \/ opts' = opts
          \/ opts' = [opts EXCEPT !.inputs = @ + 1]
          \/ \E s \in EmitStages : opts' = [opts EXCEPT !.emit = Append(@, s)]
          \/ opts' = [opts EXCEPT !.output = TRUE]
          \/ opts' = [opts EXCEPT !.verify = TRUE]
          \/ \E n \in Limits : opts' = [opts EXCEPT !.limit = ErrorLimitFromArg(n)]
      BY <1>1 DEF ParseArg
    <3> HIDE DEF Options
    <3> QED BY <3>0, <3>1, <3>2, <3>3, <3>4, <3>5, <3>6
  <2>2. /\ pc' \in {"args", "stopped"}
        /\ UNCHANGED <<sink, modules, frontEnd, backEnd, history>>
    BY <1>1 DEF ParseArg, Stop, Usage
  <2> QED BY <2>1, <2>2 DEF Types, modules, frontEnd, backEnd, history, Ids
<1>2. ASSUME ParseArgsEnd PROVE Types'
  <2>1. /\ pc' \in {"load", "stopped"} /\ UNCHANGED <<opts, modules, frontEnd, backEnd, history>>
        /\ sink' \in {sink, WithErrorLimit(opts.limit)}
    BY <1>2 DEF ParseArgsEnd, Stop, Usage
  <2>2. WithErrorLimit(opts.limit) \in Sink
    BY EmptySink DEF Types
  <2> QED BY <2>1, <2>2 DEF Types, modules, frontEnd, backEnd, history, Ids
<1> QED BY <1>1, <1>2

\* Stages 1 to 3.
LEMMA LoadTypes ==
  ASSUME Types, Begun, Load
  PROVE  Types'
<1>1. PICK n \in 1 .. MaxFiles : \E s \in Orders(n) :
        files' = n /\ order' = s /\ failed' = [f \in 0 .. n - 1 |-> 0]
  BY DEF Load
<1>2. n \in Nat /\ Ids' = 0 .. n - 1
  BY <1>1, DriverAssumption DEF Ids
<1>3. order' \in Seq(Ids')
  <2>1. PICK s \in [1 .. n -> 0 .. n - 1] : order' = s
    BY <1>1 DEF Orders
  <2> QED BY <1>2, <2>1
<1>4. sources' = <<>> /\ outs' = <<>>
  BY DEF Load, Begun, frontEnd
<1>5. sources' \in Seq(Ids') /\ outs' \in Seq(Outputs')
  <2>1. \A S : <<>> \in Seq(S)
    OBVIOUS
  <2> QED BY <1>4, <2>1
<1>6. failed' \in [Ids' -> 0 .. 5]
  BY <1>1, <1>2
<1>7. /\ pc' \in {"read", "stopped"} /\ reports' \in [error : Nat, warning : Nat]
      /\ ~opts.verify => sink' \in Sink
  <2>1. "lex" \in Codes /\ "cycle" \in Codes /\ 0 \in Nat /\ 1 \in Nat /\ Nowhere \in Nat
    BY DEF Nowhere, Codes
  <2>2. CASE GoOn(sink, "read") /\ UNCHANGED reports
    BY <2>2 DEF Types, GoOn
  <2>3. CASE /\ GateUnlessVerifying(Emit(sink, Diag("error", "lex", 0, 1)), "read")
             /\ Received("error")
    BY <2>1, <2>3, EmitTypes, ReceivedTypes DEF GateUnlessVerifying, Gate, GoOn, Finish, Stop
  <2>4. CASE Finish(Emit(sink, Diag("error", "cycle", Nowhere, Nowhere))) /\ Received("error")
    BY <2>1, <2>4, EmitTypes, ReceivedTypes DEF Finish, Stop
  <2> QED BY <2>2, <2>3, <2>4 DEF Load
<1>8. UNCHANGED <<opts, frontEnd, backEnd>>
  BY DEF Load
<1> QED BY <1>1, <1>2, <1>3, <1>5, <1>6, <1>7, <1>8 DEF Types, frontEnd, backEnd, Outputs

\* The module at hand.
LEMMA HeadTypes ==
  ASSUME Types, sources # <<>>
  PROVE  /\ Head(sources) \in Ids /\ Tail(sources) \in Seq(Ids) /\ Ids \subseteq Nat
         /\ Len(Tail(sources)) = Len(sources) - 1
         /\ ToSet(sources) = {Head(sources)} \cup ToSet(Tail(sources))
         /\ IsInjective(sources) =>
              IsInjective(Tail(sources)) /\ Head(sources) \notin ToSet(Tail(sources))
<1>1. sources \in Seq(Ids) /\ Ids \subseteq Nat
  BY DEF Types, Ids
<1> QED BY <1>1, TailElements, HeadTailProperties

\* The second reading.
LEMMA ReadingTypes ==
  ASSUME Types, Begun
  PROVE  /\ ReadAgain => Types'
         /\ ReadAll => Types'
         /\ FrontEndDone => Types'
         /\ Verified => Types'
<1>1. ASSUME ReadAgain PROVE Types'
  <2>1. /\ order # <<>> /\ order' = Tail(order) /\ UNCHANGED <<opts, pc, files, frontEnd, backEnd, failed>>
        /\ \/ sources' = Append(sources, Head(order)) /\ UNCHANGED <<sink, reports>>
           \/ /\ sink' = Emit(sink, Diag("error", "read", Head(order), 0))
              /\ Received("error") /\ UNCHANGED sources
    BY <1>1 DEF ReadAgain
  <2>2. order \in Seq(Ids) /\ sources \in Seq(Ids) /\ Ids \subseteq Nat
    BY DEF Types, Ids
  <2>3. order' \in Seq(Ids) /\ Head(order) \in Ids
    BY <2>1, <2>2, TailElements
  <2>4. sources' \in Seq(Ids)
    BY <2>1, <2>2, <2>3, AppendElements, SMTT(20)
  <2>5. reports' \in [error : Nat, warning : Nat] /\ (~opts.verify => sink' \in Sink)
    <3>1. "read" \in Codes /\ 0 \in Nat /\ Head(order) \in Nat
      BY <2>2, <2>3 DEF Codes
    <3>2. CASE UNCHANGED <<sink, reports>>
      BY <2>1, <3>2 DEF Types
    <3>3. CASE sink' = Emit(sink, Diag("error", "read", Head(order), 0)) /\ Received("error")
      BY <3>1, <3>3, EmitTypes, ReceivedTypes
    <3> QED BY <2>1, <3>2, <3>3
  <2> QED BY <2>1, <2>3, <2>4, <2>5 DEF Types, frontEnd, backEnd, Ids
<1>2. ASSUME ReadAll \/ FrontEndDone PROVE Types'
  <2>1. /\ pc' \in {"file", "lower", "stopped"} /\ sink' = sink
        /\ UNCHANGED <<opts, modules, frontEnd, backEnd, history>>
    BY <1>2 DEF ReadAll, FrontEndDone, GateUnlessVerifying, Gate, GoOn, Finish, Stop
  <2> QED BY <2>1 DEF Types, modules, frontEnd, backEnd, history, Ids
<1>3. ASSUME Verified PROVE Types'
  <2>1. pc' = "stopped" /\ UNCHANGED <<opts, sink, modules, frontEnd, backEnd, history>>
    BY <1>3 DEF Verified, Stop
  <2> QED BY <2>1 DEF Types, modules, frontEnd, backEnd, history, Ids
<1> QED BY <1>1, <1>2, <1>3

\* The front end and verify mode.
LEMMA FrontEndTypes ==
  ASSUME Types, Begun
  PROVE  /\ StartFile => Types'
         /\ Report => Types'
         /\ EndPass => Types'
         /\ Verify => Types'
         /\ React => Types'
<1>1. ASSUME StartFile PROVE Types'
  <2>1. /\ pc' = "front" /\ pass' = 1 /\ before' = ErrorsBefore
        /\ UNCHANGED <<opts, sink, modules, outs, backEnd, history>>
    BY <1>1 DEF StartFile
  <2>2. before' \in Nat
    BY <2>1 DEF ErrorsBefore, Types, Sink
  <2> QED BY <2>1, <2>2 DEF Types, modules, backEnd, history, Ids
<1>2. ASSUME Report PROVE Types'
  <2>1. /\ pc = "front" /\ sources # <<>> /\ pass \in 1 .. 5
        /\ failed' = [failed EXCEPT ![Head(sources)] = IF @ = 0 THEN pass ELSE @]
        /\ Received("error")
        /\ UNCHANGED <<opts, pc, modules, pass, before, outs, backEnd>>
    BY <1>2 DEF Report, Begun
  <2>2. ~opts.verify => sink' \in Sink
    <3> HAVE ~opts.verify
    <3>1. PICK lo \in Places : sink' = Emit(sink, Diag("error", Passes[pass], Head(sources), lo))
      BY <1>2 DEF Report, Into, Current
    <3>2. Passes[pass] \in Codes /\ Head(sources) \in Nat /\ lo \in Nat
      BY <2>1, PassesAre, HeadTypes DEF Places
    <3> QED BY <3>1, <3>2, EmitTypes
  <2>3. failed' \in [Ids -> 0 .. 5]
    BY <2>1, HeadTypes DEF Types
  <2>4. reports' \in [error : Nat, warning : Nat]
    BY <2>1, ReceivedTypes
  <2> QED BY <2>1, <2>2, <2>3, <2>4 DEF Types, modules, backEnd, Ids
<1>3. ASSUME EndPass PROVE Types'
  <2>1. pc = "front" /\ sources # <<>> /\ pass \in 1 .. 5
    BY <1>3 DEF EndPass, Begun
  <2>2. /\ outs' \in {outs, Append(outs, Output(pass))}
        /\ pc' \in {"front", "file", "verify"}
        /\ sources' \in {sources, Tail(sources)}
        /\ pass' \in {pass, pass + 1} /\ (pass' = pass + 1 => pass # 5)
        /\ UNCHANGED <<opts, order, files, sink, before, backEnd, history>>
    <3>1. UNCHANGED <<opts, order, files, sink, before, backEnd, history>>
      BY <1>3 DEF EndPass
    <3>2. CASE StopsHere \/ pass = Len(Passes)
      BY <1>3, <2>1, <3>1, <3>2 DEF EndPass
    <3>3. CASE ~(StopsHere \/ pass = Len(Passes))
      BY <1>3, <2>1, <3>1, <3>3, PassesAre DEF EndPass
    <3> QED BY <3>2, <3>3
  <2>3. Output(pass) \in Outputs
    BY <2>1, HeadTypes DEF Output, Outputs
  <2>4. outs' \in Seq(Outputs)
    <3>1. outs \in Seq(Outputs)
      BY DEF Types, Outputs
    <3> QED BY <2>2, <2>3, <3>1, AppendElements
  <2>5. sources' \in Seq(Ids)
    BY <2>1, <2>2, HeadTypes DEF Types
  <2>6. pass' \in 0 .. 5
    BY <2>1, <2>2
  <2> QED BY <2>2, <2>4, <2>5, <2>6 DEF Types, backEnd, history, Ids, Outputs
<1>4. ASSUME Verify PROVE Types'
  <2>1. /\ pc' = "verdict"
        /\ UNCHANGED <<opts, sink, modules, pass, before, outs, backEnd, history>>
    BY <1>4 DEF Verify
  <2> QED BY <2>1 DEF Types, modules, backEnd, history, Ids
<1>5. ASSUME React PROVE Types'
  <2>1. /\ pc' \in {"file", "stopped"} /\ sources' = Tail(sources)
        /\ UNCHANGED <<opts, order, files, frontEnd, backEnd, history>>
    BY <1>5 DEF React, Stop
  <2>2. opts.verify /\ sources # <<>>
    BY <1>5 DEF React, Begun
  <2>3. sources' \in Seq(Ids)
    BY <2>1, <2>2, HeadTypes
  <2> QED BY <2>1, <2>2, <2>3 DEF Types, frontEnd, backEnd, history, Ids
<1> QED BY <1>1, <1>2, <1>3, <1>4, <1>5

\* The lowering.
LEMMA LoweringTypes ==
  ASSUME Types, Unwritten
  PROVE  /\ LowerReport => Types'
         /\ Lower => Types'
<1>1. ASSUME LowerReport PROVE Types'
  <2>1. /\ pc = "lower" /\ lowered + 1 \in DOMAIN outs
        /\ UNCHANGED <<opts, pc, modules, frontEnd, backEnd, failed>>
    BY <1>1 DEF LowerReport, Types
  <2>2. ~opts.verify
    BY <2>1 DEF Unwritten
  <2>3. PICK sev \in {"error", "warning"}, lo \in Places :
          /\ sink' = Emit(sink, Diag(sev, LowerCode(sev), outs[lowered + 1].file, lo))
          /\ Received(sev)
    BY <1>1 DEF LowerReport
  <2>4. LowerCode(sev) \in Codes /\ lo \in Nat
    BY DEF LowerCode, Codes, Places
  <2>5. outs[lowered + 1].file \in Nat
    <3>1. outs \in Seq(Outputs) /\ Ids \subseteq Nat
      BY DEF Types, Outputs, Ids
    <3>2. outs[lowered + 1] \in Outputs
      BY <2>1, <3>1
    <3> QED BY <3>1, <3>2 DEF Outputs
  <2>6. sink' \in Sink /\ reports' \in [error : Nat, warning : Nat]
    BY <2>2, <2>3, <2>4, <2>5, EmitTypes, ReceivedTypes
  <2> QED BY <2>1, <2>6 DEF Types, modules, frontEnd, backEnd, Ids
<1>2. ASSUME Lower PROVE Types'
  <2>1. /\ pc' \in {"lower", "emit", "stopped"} /\ sink' = sink
        /\ lowered' \in {lowered, lowered + 1}
        /\ UNCHANGED <<opts, modules, frontEnd, stage, disk, history>>
    BY <1>2 DEF Lower, Finish, Stop, Gate, GoOn
  <2> QED BY <2>1 DEF Types, modules, frontEnd, history, Ids
<1> QED BY <1>1, <1>2

\* Whatever a back-end call does, it goes on, or stops with or without a report.
LEMMA CompileToObjectTypes ==
  ASSUME Types, ~opts.verify, NEW path, NEW what \in {"llvm-ir", "obj"}, NEW done,
         \/ disk' = [disk EXCEPT ![path] = what] /\ UNCHANGED <<reports, sink>>
         \/ CodegenFailed /\ UNCHANGED disk
         \/ BackendError /\ UNCHANGED <<disk, reports>>
  PROVE  /\ disk' \in [Files -> {"nothing", "llvm-ir", "obj", "exe"}]
         /\ reports' \in [error : Nat, warning : Nat] /\ sink' \in Sink
<1>1. "codegen" \in Codes /\ Nowhere \in Nat
  BY DEF Codes, Nowhere
<1>2. CASE CodegenFailed /\ UNCHANGED disk
  BY <1>1, <1>2, EmitTypes, ReceivedTypes DEF CodegenFailed, Finish, Types
<1>3. CASE BackendError /\ UNCHANGED <<disk, reports>>
  BY <1>3 DEF BackendError, Types
<1>4. CASE disk' = [disk EXCEPT ![path] = what] /\ UNCHANGED <<reports, sink>>
  BY <1>4 DEF Types
<1> QED BY <1>2, <1>3, <1>4

\* The back end and the linker.
LEMMA BackEndTypes ==
  ASSUME Types, Unwritten
  PROVE  /\ EmitStage => Types'
         /\ TempObject => Types'
         /\ EmitDone => Types'
         /\ CompileRuntime => Types'
         /\ Link => Types'
<1>0. Generating => ~opts.verify
  BY DEF Generating, Unwritten
<1>1. ASSUME EmitStage PROVE Types'
  <2>1. /\ pc = "emit" /\ pc' \in {"emit", "stopped"} /\ stage' \in {stage, stage + 1}
        /\ UNCHANGED <<opts, modules, frontEnd, lowered, failed>>
        /\ \/ disk' = [disk EXCEPT ![EmitPath] = opts.emit[stage]] /\ UNCHANGED <<reports, sink>>
           \/ UNCHANGED <<disk, reports, sink>>
           \/ CodegenFailed /\ UNCHANGED disk
           \/ BackendError /\ UNCHANGED <<disk, reports>>
        /\ opts.emit[stage] \in {"llvm-ir", "obj"} \/ UNCHANGED <<disk, reports, sink>>
    BY <1>1 DEF EmitStage, CompileToObject, CodegenFailed, BackendError, Finish, Stop
  <2>2. /\ disk' \in [Files -> {"nothing", "llvm-ir", "obj", "exe"}]
        /\ reports' \in [error : Nat, warning : Nat] /\ sink' \in Sink
    <3>1. CASE UNCHANGED <<disk, reports, sink>>
      BY <1>0, <2>1, <3>1 DEF Types, Generating
    <3>2. CASE ~UNCHANGED <<disk, reports, sink>>
      BY <1>0, <2>1, <3>2, CompileToObjectTypes DEF Generating
    <3> QED BY <3>1, <3>2
  <2> QED BY <2>1, <2>2 DEF Types, modules, frontEnd, Ids
<1>2. ASSUME TempObject PROVE Types'
  <2>1. /\ pc = "emit" /\ pc' \in {"runtime", "stopped"} /\ UNCHANGED stage
        /\ UNCHANGED <<opts, modules, frontEnd, lowered, failed>>
        /\ \/ disk' = [disk EXCEPT !["tempObj"] = "obj"] /\ UNCHANGED <<reports, sink>>
           \/ CodegenFailed /\ UNCHANGED disk
           \/ BackendError /\ UNCHANGED <<disk, reports>>
    BY <1>2 DEF TempObject, CompileToObject, CodegenFailed, BackendError, Finish, Stop, GoOn
  <2>2. /\ disk' \in [Files -> {"nothing", "llvm-ir", "obj", "exe"}]
        /\ reports' \in [error : Nat, warning : Nat] /\ sink' \in Sink
    BY <1>0, <2>1, CompileToObjectTypes DEF Generating
  <2> QED BY <2>1, <2>2 DEF Types, modules, frontEnd, Ids
<1>3. ASSUME EmitDone PROVE Types'
  <2>1. pc' = "stopped" /\ sink' = sink /\ UNCHANGED <<opts, modules, frontEnd, backEnd, history>>
    BY <1>3 DEF EmitDone, Finish, Stop
  <2> QED BY <2>1 DEF Types, modules, frontEnd, backEnd, history, Ids
<1>4. \A fs : Removed(fs) \in [Files -> {"nothing", "llvm-ir", "obj", "exe"}]
  BY DEF Removed, Types
<1>5. ASSUME CompileRuntime PROVE Types'
  <2>1. /\ pc' \in {"link", "stopped"} /\ sink' = sink
        /\ UNCHANGED <<opts, modules, frontEnd, lowered, stage, history>>
        /\ disk' = disk \/ disk' = [disk EXCEPT !["runtimeObj"] = "obj"]
    BY <1>5 DEF CompileRuntime, BackendError, Stop, GoOn
  <2> QED BY <2>1 DEF Types, modules, frontEnd, history, Ids
<1>6. ASSUME Link PROVE Types'
  <2>1. /\ pc' = "stopped" /\ sink' = sink
        /\ UNCHANGED <<opts, modules, frontEnd, lowered, stage, history>>
        /\ \/ disk' = disk
           \/ disk' = Removed({"runtimeObj"})
           \/ disk' = [Removed({"runtimeObj", "tempObj"}) EXCEPT !["out"] = "exe"]
    BY <1>6 DEF Link, BackendError, Stop, Finish
  <2>2. disk' \in [Files -> {"nothing", "llvm-ir", "obj", "exe"}]
    <3> DEFINE r == Removed({"runtimeObj", "tempObj"})
    <3>1. r \in [Files -> {"nothing", "llvm-ir", "obj", "exe"}]
      BY <1>4
    <3> HIDE DEF r
    <3>2. [r EXCEPT !["out"] = "exe"] \in [Files -> {"nothing", "llvm-ir", "obj", "exe"}]
      BY <3>1
    <3>3. CASE disk' = [r EXCEPT !["out"] = "exe"]
      BY <3>2, <3>3
    <3>4. CASE disk' = disk
      BY <3>4 DEF Types
    <3>5. CASE disk' = Removed({"runtimeObj"})
      BY <1>4, <3>5
    <3> QED BY <2>1, <3>3, <3>4, <3>5 DEF r
  <2> QED BY <2>1, <2>2 DEF Types, modules, frontEnd, history, Ids
<1> QED BY <1>1, <1>2, <1>3, <1>5, <1>6

\* All steps together.
LEMMA TypesStep ==
  ASSUME Types, Begun, Unwritten, [Next]_vars
  PROVE  Types'
<1>1. CASE UNCHANGED vars
  BY <1>1 DEF vars, Types, Ids
<1>2. CASE Next
  BY <1>2, ParsingTypes, LoadTypes, ReadingTypes, FrontEndTypes, LoweringTypes, BackEndTypes DEF Next
<1> QED BY <1>1, <1>2

-----------------------------------------------------------------------------
(* Where the compiler stands, and what is on the disk.                     *)

\* Loading happens once.
LEMMA BegunStep ==
  ASSUME Types, Begun, [Next]_vars
  PROVE  Begun'
<1>1. CASE ParseArg
  BY <1>1 DEF ParseArg, Stop, Usage, Begun, modules, frontEnd, backEnd, history
<1>2. CASE ParseArgsEnd
  BY <1>2 DEF ParseArgsEnd, Stop, Usage, Begun, modules, frontEnd, backEnd, history
<1>3. CASE Load \/ ReadAgain \/ ReadAll \/ FrontEndDone \/ Verified
  <2>1. pc' \in {"read", "file", "lower", "stopped"}
    BY <1>3 DEF Load, ReadAgain, ReadAll, FrontEndDone, Verified, GateUnlessVerifying, Gate, GoOn,
       Finish, Stop
  <2> QED BY <2>1 DEF Begun
<1>4. CASE StartFile
  BY <1>4 DEF StartFile, Begun, modules
<1>5. CASE Report
  BY <1>5 DEF Report, Begun, modules
<1>6. CASE EndPass
  <2>1. pc = "front" /\ sources # <<>> /\ pass \in 1 .. 5 /\ UNCHANGED opts
    BY <1>6 DEF EndPass, Begun
  <2>2. CASE StopsHere \/ pass = Len(Passes)
    <3>1. pc' = IF opts.verify THEN "verify" ELSE "file"
      BY <1>6, <2>2 DEF EndPass
    <3>2. opts.verify => sources' = sources
      BY <1>6, <2>2 DEF EndPass
    <3> QED BY <2>1, <3>1, <3>2 DEF Begun
  <2>3. CASE ~(StopsHere \/ pass = Len(Passes))
    <3>1. pass' = pass + 1 /\ UNCHANGED <<pc, sources>> /\ pass # 5
      BY <1>6, <2>3, PassesAre DEF EndPass
    <3> QED BY <2>1, <3>1 DEF Begun
  <2> QED BY <2>2, <2>3
<1>7. CASE Verify
  BY <1>7 DEF Verify, Begun, modules
<1>8. CASE React
  <2>1. pc' \in {"file", "stopped"}
    BY <1>8 DEF React, Stop
  <2> QED BY <2>1 DEF Begun
<1>9. CASE LowerReport \/ Lower
  <2>1. pc' \in {"lower", "emit", "stopped"}
    BY <1>9 DEF LowerReport, Lower, Gate, GoOn, Finish, Stop
  <2> QED BY <2>1 DEF Begun
<1>10. CASE EmitStage \/ TempObject \/ EmitDone \/ CompileRuntime \/ Link
  <2>1. pc' \in {"emit", "runtime", "link", "stopped"}
    BY <1>10 DEF EmitStage, TempObject, EmitDone, CompileRuntime, Link, CompileToObject,
       CodegenFailed, BackendError, GoOn, Finish, Stop
  <2> QED BY <2>1 DEF Begun
<1>11. CASE UNCHANGED vars
  BY <1>11 DEF vars, Begun
<1> QED BY <1>1, <1>2, <1>3, <1>4, <1>5, <1>6, <1>7, <1>8, <1>9, <1>10, <1>11 DEF Next

\* Only the back end writes, and verify mode never reaches it.
LEMMA UnwrittenStep ==
  ASSUME Types, Begun, Unwritten, [Next]_vars
  PROVE  Unwritten'
<1>1. CASE ParseArg
  BY <1>1 DEF ParseArg, Stop, Usage, Begun, Unwritten, Clean, frontEnd, backEnd
<1>2. CASE ParseArgsEnd
  BY <1>2 DEF ParseArgsEnd, Stop, Usage, Unwritten, Clean, frontEnd, backEnd
<1>3. CASE Load \/ ReadAgain \/ ReadAll
  <2>1. /\ pc \in {"load", "read"} /\ pc' \in {"read", "file", "stopped"}
        /\ UNCHANGED <<opts, outs, disk>>
    BY <1>3 DEF Load, ReadAgain, ReadAll, GateUnlessVerifying, Gate, GoOn, Finish, Stop, frontEnd,
       backEnd
  <2> QED BY <2>1 DEF Unwritten, Clean
<1>4. CASE FrontEndDone
  <2>1. pc = "file" /\ ~opts.verify /\ UNCHANGED <<opts, outs, disk>>
    BY <1>4 DEF FrontEndDone, frontEnd, backEnd
  <2> QED BY <2>1 DEF Unwritten, Clean
<1>5. CASE StartFile \/ Report \/ Verify \/ React \/ Verified
  <2>1. /\ pc \in {"file", "front", "verify", "verdict"}
        /\ pc' \in {"file", "front", "verdict", "stopped"} /\ UNCHANGED <<opts, outs, disk>>
    BY <1>5 DEF StartFile, Report, Verify, React, Verified, Stop, frontEnd, backEnd
  <2> QED BY <2>1 DEF Unwritten, Clean
<1>6. CASE EndPass
  <2>1. /\ pc = "front" /\ pc' \in {"front", "file", "verify"} /\ UNCHANGED <<opts, disk>>
        /\ opts.verify => outs' = outs
    BY <1>6 DEF EndPass, backEnd
  <2> QED BY <2>1 DEF Unwritten, Clean
<1>7. CASE LowerReport \/ Lower
  <2>1. pc = "lower" /\ UNCHANGED <<opts, disk>>
    BY <1>7 DEF LowerReport, Lower, backEnd
  <2>2. pc' \in {"lower", "emit", "stopped"}
    BY <1>7 DEF LowerReport, Lower, Gate, GoOn, Finish, Stop
  <2>3. ~opts.verify /\ disk = Clean
    BY <2>1 DEF Unwritten
  <2> QED BY <2>1, <2>2, <2>3 DEF Unwritten, Clean
<1>8. CASE EmitStage \/ TempObject \/ EmitDone \/ CompileRuntime \/ Link
  <2>1. pc \in {"emit", "runtime", "link"} /\ UNCHANGED opts
    BY <1>8 DEF EmitStage, TempObject, EmitDone, CompileRuntime, Link
  <2>2. pc' \in {"emit", "runtime", "link", "stopped"}
    BY <1>8 DEF EmitStage, TempObject, EmitDone, CompileRuntime, Link, CompileToObject,
       CodegenFailed, BackendError, GoOn, Finish, Stop
  <2> QED BY <2>1, <2>2 DEF Unwritten
<1>9. CASE UNCHANGED vars
  BY <1>9 DEF vars, Unwritten, Clean
<1> QED BY <1>1, <1>2, <1>3, <1>4, <1>5, <1>6, <1>7, <1>8, <1>9 DEF Next

-----------------------------------------------------------------------------
(* The count of errors.                                                    *)

\* An error counts, and with it nothing is asked of what is stored.
LEMMA ErrorCounts ==
  ASSUME Types, Errors, ~opts.verify, NEW code \in Codes, NEW f \in Nat, NEW lo \in Nat,
         Received("error")
  PROVE  LET s == Emit(sink, Diag("error", code, f, lo)) IN
         s.errs = reports'.error /\ s.errs = sink.errs + 1 /\ s.errs # 0 /\ s.errs \in Nat
BY EmitTypes, ReceivedTypes DEF Errors

\* Each error that is received counts, and only gates lead to the back end.
LEMMA ErrorsStep ==
  ASSUME Types, Begun, Unwritten, Errors, [Next]_vars
  PROVE  Errors'
<1> SUFFICES ASSUME ~opts'.verify
             PROVE  /\ sink'.errs = reports'.error
                    /\ sink'.errs = 0 => \A code : ~StoredError(sink', code)
                    /\ Generating' => sink'.errs = 0
                    /\ pc' = "front" => before' <= sink'.errs
  BY DEF Errors, StoredError
<1>0. opts' = opts \/ ParseArg
  BY DEF Next, vars, ParseArgsEnd, Load, ReadAgain, ReadAll, StartFile, Report, EndPass, Verify,
     React, Verified, FrontEndDone, LowerReport, Lower, EmitStage, TempObject, EmitDone,
     CompileRuntime, Link
<1>1. CASE ParseArg
  <2>1. ~opts.verify
    BY <1>1 DEF ParseArg, Stop, Usage, Types
  <2>2. pc' \in {"args", "stopped"} /\ UNCHANGED <<sink, reports>>
    BY <1>1 DEF ParseArg, Stop, Usage, history
  <2> QED BY <2>1, <2>2 DEF Errors, Generating
<1> SUFFICES ASSUME ~opts.verify, opts' = opts PROVE Errors'
  BY <1>0, <1>1 DEF Errors, StoredError
<1>2. sink \in Sink /\ sink.errs \in Nat /\ sink.errs = reports.error
      /\ (sink.errs = 0 => \A code : ~StoredError(sink, code))
  BY DEF Types, Sink, Errors
<1>3. ASSUME UNCHANGED <<sink, reports>>, Generating' => Generating \/ sink.errs = 0,
             pc' = "front" => before' <= sink.errs
      PROVE  Errors'
  BY <1>2, <1>3 DEF Errors, StoredError
<1>4. ASSUME NEW code \in Codes, NEW f \in Nat, NEW lo \in Nat, Received("error"),
             sink' = Emit(sink, Diag("error", code, f, lo)), ~Generating',
             pc' = "front" => pc = "front" /\ before' = before
      PROVE  Errors'
  <2>1. sink'.errs = reports'.error /\ sink'.errs = sink.errs + 1
    BY <1>4, ErrorCounts
  <2>2. pc' = "front" => before' <= sink'.errs
    BY <1>2, <1>4, <2>1 DEF Errors, Types
  <2> QED BY <1>2, <1>4, <2>1, <2>2 DEF Errors
<1>5. CASE ParseArgsEnd
  <2>1. pc = "args" /\ pc' \in {"load", "stopped"} /\ UNCHANGED reports
        /\ sink' \in {sink, WithErrorLimit(opts.limit)}
    BY <1>5 DEF ParseArgsEnd, Stop, Usage, history
  <2>2. reports.error = 0
    BY <2>1 DEF Begun
  <2>3. CASE sink' = sink
    BY <1>3, <2>1, <2>3 DEF Generating
  <2>4. CASE sink' = WithErrorLimit(opts.limit)
    BY <2>1, <2>2, <2>4, EmptySink DEF Errors, Generating, Types, StoredError
  <2> QED BY <2>1, <2>3, <2>4
<1>6. CASE Load
  <2>1. pc' \in {"read", "stopped"}
    BY <1>6 DEF Load, GateUnlessVerifying, Gate, GoOn, Finish, Stop
  <2>2. "lex" \in Codes /\ "cycle" \in Codes /\ Nowhere \in Nat
    BY DEF Codes, Nowhere
  <2>3. \/ UNCHANGED <<sink, reports>>
        \/ sink' = Emit(sink, Diag("error", "lex", 0, 1)) /\ Received("error")
        \/ sink' = Emit(sink, Diag("error", "cycle", Nowhere, Nowhere)) /\ Received("error")
    BY <1>6 DEF Load, GateUnlessVerifying, Gate, GoOn, Finish
  <2> QED BY <1>3, <1>4, <2>1, <2>2, <2>3 DEF Generating
<1>7. CASE ReadAgain
  <2>1. pc' = "read" /\ order # <<>>
    BY <1>7 DEF ReadAgain
  <2>2. "read" \in Codes /\ Head(order) \in Nat
    BY <2>1, TailElements DEF Types, Ids, Codes
  <2>3. \/ UNCHANGED <<sink, reports>>
        \/ sink' = Emit(sink, Diag("error", "read", Head(order), 0)) /\ Received("error")
    BY <1>7 DEF ReadAgain
  <2> QED BY <1>3, <1>4, <2>1, <2>2, <2>3 DEF Generating
<1>8. CASE ReadAll \/ FrontEndDone \/ Verified \/ Verify \/ React
  <2>1. ~Verify /\ ~React /\ ~Verified
    BY DEF Verify, React, Verified, Begun
  <2>2. pc' \in {"file", "lower", "stopped"} /\ UNCHANGED <<sink, reports>>
    BY <1>8, <2>1 DEF ReadAll, FrontEndDone, GateUnlessVerifying, Gate, GoOn, Finish, Stop, history
  <2> QED BY <1>3, <2>2 DEF Generating
<1>9. CASE StartFile
  <2>1. pc' = "front" /\ before' = sink.errs /\ UNCHANGED <<sink, reports>>
    BY <1>9 DEF StartFile, ErrorsBefore, history
  <2> QED BY <1>2, <1>3, <2>1 DEF Generating
<1>10. CASE Report
  <2>1. pc = "front" /\ pc' = "front" /\ before' = before /\ Received("error") /\ sources # <<>>
    BY <1>10 DEF Report, Begun
  <2>2. PICK lo \in Places : sink' = Emit(sink, Diag("error", Passes[pass], Head(sources), lo))
    BY <1>10 DEF Report, Into, Current
  <2>3. Passes[pass] \in Codes /\ Head(sources) \in Nat /\ lo \in Nat
    BY <2>1, PassesAre, HeadTypes DEF Places, Begun
  <2> QED BY <1>4, <2>1, <2>2, <2>3 DEF Generating
<1>11. CASE EndPass
  <2>1. pc = "front" /\ pc' \in {"front", "file", "verify"} /\ UNCHANGED <<sink, reports, before>>
    BY <1>11 DEF EndPass, history
  <2> QED BY <1>3, <2>1 DEF Generating, Errors
<1>12. CASE LowerReport
  <2>1. pc' = "lower" /\ lowered + 1 \in DOMAIN outs
    BY <1>12 DEF LowerReport, Types
  <2>2. PICK sev \in {"error", "warning"}, lo \in Places :
          /\ sink' = Emit(sink, Diag(sev, LowerCode(sev), outs[lowered + 1].file, lo))
          /\ Received(sev)
    BY <1>12 DEF LowerReport
  <2>3. LowerCode(sev) \in Codes /\ lo \in Nat /\ outs[lowered + 1].file \in Nat
    <3>1. outs \in Seq(Outputs) /\ Ids \subseteq Nat
      BY DEF Types, Outputs, Ids
    <3>2. outs[lowered + 1] \in Outputs
      BY <2>1, <3>1
    <3>3. outs[lowered + 1].file \in Nat
      BY <3>1, <3>2 DEF Outputs
    <3>4. LowerCode(sev) \in Codes /\ lo \in Nat
      BY DEF LowerCode, Codes, Places
    <3> QED BY <3>3, <3>4
  <2>4. CASE sev = "error"
    BY <1>4, <2>1, <2>2, <2>3, <2>4 DEF Generating
  <2>5. CASE sev = "warning"
    <3>1. sink'.errs = sink.errs /\ reports'.error = reports.error
      BY <2>2, <2>3, <2>5, EmitTypes, ReceivedTypes
    <3>2. \A c : StoredError(sink', c) => StoredError(sink, c)
      BY <2>2, <2>3, <2>5, EmitTypes
    <3> QED BY <1>2, <2>1, <3>1, <3>2 DEF Errors, Generating, StoredError
  <2> QED BY <2>4, <2>5
<1>13. CASE Lower
  <2>1. pc = "lower" /\ UNCHANGED <<sink, reports>> /\ pc' \in {"lower", "emit", "stopped"}
    BY <1>13 DEF Lower, Gate, GoOn, Finish, Stop, history
  <2>2. pc' = "emit" => sink.errs = 0
    <3> HAVE pc' = "emit"
    <3>1. Gate(sink, "emit")
      BY <1>13 DEF Lower, Finish, Stop
    <3>2. ~HasErrors(sink)
      BY <3>1 DEF Gate, Finish, Stop
    <3> QED BY <1>2, <3>2 DEF HasErrors
  <2> QED BY <1>3, <2>1, <2>2 DEF Generating
<1>14. CASE EmitStage \/ TempObject
  <2>1. Generating /\ pc' \in {"emit", "runtime", "stopped"}
    BY <1>14 DEF EmitStage, TempObject, CompileToObject, CodegenFailed, BackendError, GoOn, Finish,
       Stop, Generating
  <2>2. UNCHANGED <<sink, reports>> \/ CodegenFailed
    BY <1>14 DEF EmitStage, TempObject, CompileToObject, BackendError, GoOn
  <2>3. CodegenFailed => Errors'
    <3> HAVE CodegenFailed
    <3>1. "codegen" \in Codes /\ Nowhere \in Nat
      BY DEF Codes, Nowhere
    <3> QED BY <1>4, <3>1 DEF CodegenFailed, Finish, Stop, Generating
  <2> QED BY <1>3, <2>1, <2>2, <2>3
<1>15. CASE EmitDone \/ CompileRuntime \/ Link
  <2>1. Generating /\ UNCHANGED <<sink, reports>> /\ pc' \in {"link", "stopped"}
    BY <1>15 DEF EmitDone, CompileRuntime, Link, BackendError, GoOn, Finish, Stop, Generating,
       history
  <2> QED BY <1>3, <2>1
<1>16. CASE UNCHANGED vars
  <2>1. UNCHANGED <<pc, sink, reports, before>>
    BY <1>16 DEF vars
  <2>2. pc' = "front" => before' <= sink.errs
    BY <2>1 DEF Errors
  <2> QED BY <1>3, <2>1, <2>2 DEF Generating
<1>17. CASE ParseArg
  BY <1>1, <1>17 DEF Errors, StoredError
<1> QED BY <1>5, <1>6, <1>7, <1>8, <1>9, <1>10, <1>11, <1>12, <1>13, <1>14, <1>15, <1>16, <1>17
        DEF Next

-----------------------------------------------------------------------------
(* No module is lost.                                                      *)

\* The three steps of the front end, outside verify mode.
LEMMA ReadAgainEffect ==
  ASSUME Types, Errors, ~opts.verify, ReadAgain
  PROVE  /\ pc = "read" /\ order # <<>> /\ order' = Tail(order)
         /\ UNCHANGED <<opts, pc, files, outs, lowered, disk, failed>>
         /\ sink.errs \in Nat
         /\ \/ sources' = Append(sources, Head(order)) /\ sink' = sink
            \/ sources' = sources /\ sink'.errs = sink.errs + 1
<1>1. /\ pc = "read" /\ order # <<>> /\ order' = Tail(order)
      /\ UNCHANGED <<opts, pc, files, outs, lowered, disk, failed>>
  BY DEF ReadAgain, frontEnd, backEnd
<1>2. "read" \in Codes /\ Head(order) \in Nat
  BY <1>1, TailElements DEF Types, Ids, Codes
<1>3. sink.errs \in Nat
  BY DEF Types, Sink
<1>4. CASE sources' = Append(sources, Head(order)) /\ UNCHANGED sink
  BY <1>1, <1>3, <1>4
<1>5. CASE /\ sink' = Emit(sink, Diag("error", "read", Head(order), 0)) /\ Received("error")
           /\ UNCHANGED sources
  <2>1. sink'.errs = sink.errs + 1
    BY <1>2, <1>5, ErrorCounts
  <2> QED BY <1>1, <1>3, <1>5, <2>1
<1> QED BY <1>4, <1>5 DEF ReadAgain

\* A report counts as an error of the pass that runs.
LEMMA ReportEffect ==
  ASSUME Types, Begun, Errors, ~opts.verify, Report
  PROVE  /\ pc = "front" /\ sources # <<>> /\ pass \in 1 .. 5
         /\ UNCHANGED <<opts, pc, order, sources, files, pass, before, outs, lowered, disk>>
         /\ failed' = [failed EXCEPT ![Head(sources)] = IF @ = 0 THEN pass ELSE @]
         /\ sink.errs \in Nat /\ before \in Nat /\ before <= sink.errs
         /\ sink'.errs = sink.errs + 1
<1>1. /\ pc = "front" /\ Received("error") /\ sources # <<>> /\ pass \in 1 .. 5
      /\ UNCHANGED <<opts, pc, order, sources, files, pass, before, outs, lowered, disk>>
      /\ failed' = [failed EXCEPT ![Head(sources)] = IF @ = 0 THEN pass ELSE @]
  BY DEF Report, Begun, modules, backEnd
<1>2. PICK lo \in Places : sink' = Emit(sink, Diag("error", Passes[pass], Head(sources), lo))
  BY DEF Report, Into, Current
<1>3. Passes[pass] \in Codes /\ Head(sources) \in Nat /\ lo \in Nat
  BY <1>1, PassesAre, HeadTypes DEF Places
<1>4. sink'.errs = sink.errs + 1
  BY <1>1, <1>2, <1>3, ErrorCounts
<1> QED BY <1>1, <1>4 DEF Types, Sink, Errors

\* A pass ends the file's front end or hands it to the next pass.
LEMMA EndPassEffect ==
  ASSUME Types, Begun, Errors, ~opts.verify, EndPass
  PROVE  /\ pc = "front" /\ sources # <<>> /\ pass \in 1 .. 5
         /\ UNCHANGED <<opts, order, files, sink, before, lowered, disk, failed>>
         /\ sink.errs \in Nat /\ before \in Nat /\ before <= sink.errs
         /\ \/ /\ sink.errs > before \/ pass = 5
               /\ outs' = Append(outs, Output(pass)) /\ pc' = "file"
               /\ sources' = Tail(sources) /\ pass' = pass
            \/ /\ ~(sink.errs > before) /\ pass # 5
               /\ pass' = pass + 1 /\ UNCHANGED <<outs, pc, sources>>
<1>1. /\ pc = "front" /\ sources # <<>> /\ pass \in 1 .. 5
      /\ UNCHANGED <<opts, order, files, sink, before, lowered, disk, failed>>
  BY DEF EndPass, Begun, backEnd, history
<1>2. sink.errs \in Nat /\ before \in Nat /\ before <= sink.errs
  BY <1>1 DEF Types, Sink, Errors
<1>3. StopsHere <=> sink.errs > before
  BY DEF StopsHere, Current
<1>4. CASE StopsHere \/ pass = 5
  BY <1>1, <1>2, <1>3, <1>4, PassesAre DEF EndPass
<1>5. CASE ~(StopsHere \/ pass = 5)
  BY <1>1, <1>2, <1>3, <1>5, PassesAre DEF EndPass
<1> QED BY <1>4, <1>5

\* What a gate that lets through has seen.
LEMMA GatePasses ==
  ASSUME NEW next, Gate(sink, next), sink.errs \in Nat
  PROVE  pc' = "stopped" \/ (pc' = next /\ sink.errs = 0 /\ sink' = sink)
BY DEF Gate, Finish, Stop, GoOn, HasErrors

\* Without an error what is read, compiled and lowered adds up to the files.
LEMMA WholeStep ==
  ASSUME Types, Begun, Unwritten, Errors, Whole, [Next]_vars
  PROVE  Whole'
<1> DEFINE AllComplete == \A i \in DOMAIN outs : Complete(outs[i])
<1>1. CASE ~(pc' \in {"read", "file", "front", "lower", "emit", "runtime", "link"})
  BY <1>1 DEF Whole, Generating
<1> SUFFICES ASSUME ~opts'.verify,
                    pc' \in {"read", "file", "front", "lower", "emit", "runtime", "link"}
             PROVE  Whole'
  BY <1>1 DEF Whole
<1>2. ~ParseArg /\ ~ParseArgsEnd /\ ~Verify /\ ~Verified /\ ~EmitDone /\ ~Link
  BY DEF ParseArg, ParseArgsEnd, Usage, Stop, Verify, Verified, EmitDone, Link, BackendError, Finish
<1>3. opts' = opts /\ ~opts.verify
  <2>1. opts' = opts
    BY <1>2 DEF Next, vars, Load, ReadAgain, ReadAll, StartFile, Report, EndPass, React,
       FrontEndDone, LowerReport, Lower, EmitStage, TempObject, CompileRuntime
  <2> QED BY <2>1
<1>4. ~React
  BY <1>3 DEF React, Begun
<1>5. sink.errs \in Nat /\ order \in Seq(Ids) /\ sources \in Seq(Ids) /\ outs \in Seq(Outputs)
  BY <1>3 DEF Types, Sink, Outputs
<1>6. /\ Len(order) \in Nat /\ Len(sources) \in Nat /\ Len(outs) \in Nat
      /\ DOMAIN outs = 1 .. Len(outs)
  BY <1>5
<1>7. CASE Load
  <2>1. pc' = "read" /\ sources' = <<>> /\ outs' = <<>> /\ lowered' = 0
    BY <1>7 DEF Load, GateUnlessVerifying, Gate, GoOn, Finish, Stop, Begun, frontEnd, backEnd
  <2>2. PICK n \in 1 .. MaxFiles : \E s \in Orders(n) : files' = n /\ order' = s
    BY <1>7 DEF Load
  <2>3. Len(order') = files'
    <3>1. PICK s \in [1 .. n -> 0 .. n - 1] : order' = s /\ files' = n
      BY <2>2 DEF Orders
    <3>2. n \in Nat
      BY DriverAssumption
    <3> QED BY <3>1, <3>2
  <2>4. files' \in Nat
    BY <2>2, DriverAssumption
  <2>5. /\ Len(order') + Len(sources') + Len(outs') = files'
        /\ \A i \in DOMAIN outs' : Complete(outs'[i])
    <3>1. Len(sources') = 0 /\ Len(outs') = 0 /\ DOMAIN outs' = {}
      BY <2>1
    <3>2. Len(order') + Len(sources') + Len(outs') = files'
      <4>1. \A m \in Nat : m + 0 + 0 = m
        OBVIOUS
      <4> QED BY <2>3, <2>4, <3>1, <4>1, Zenon
    <3>3. \A i \in DOMAIN outs' : Complete(outs'[i])
      BY <3>1, Zenon
    <3> QED BY <3>2, <3>3
  <2> QED BY <2>1, <2>5 DEF Whole, Generating
<1>8. CASE ReadAgain
  <2>1. /\ pc = "read" /\ order # <<>> /\ order' = Tail(order)
        /\ UNCHANGED <<opts, pc, files, outs, lowered, disk, failed>>
        /\ \/ sources' = Append(sources, Head(order)) /\ sink' = sink
           \/ sources' = sources /\ sink'.errs = sink.errs + 1
    BY <1>3, <1>8, ReadAgainEffect
  <2>2. Len(order') = Len(order) - 1 /\ Head(order) \in Ids
    BY <1>5, <2>1, HeadTailProperties
  <2>3. CASE sources' = Append(sources, Head(order)) /\ sink' = sink
    <3>1. Len(sources') = Len(sources) + 1
      BY <1>5, <2>2, <2>3, AppendElements
    <3> QED BY <1>3, <1>6, <2>1, <2>2, <2>3, <3>1 DEF Whole, Generating
  <2>4. CASE sink'.errs = sink.errs + 1
    <3>1. sink'.errs # 0
      BY <1>5, <2>4
    <3> QED BY <1>3, <2>1, <3>1 DEF Whole, Generating
  <2> QED BY <2>1, <2>3, <2>4
<1>9. CASE ReadAll
  <2>1. /\ pc = "read" /\ order = <<>> /\ pc' = "file" /\ sink' = sink
        /\ UNCHANGED <<order, sources, files, outs, lowered, disk>>
    BY <1>3, <1>9 DEF ReadAll, GateUnlessVerifying, Gate, GoOn, Finish, Stop, modules, frontEnd,
       backEnd
  <2> QED BY <1>3, <2>1 DEF Whole, Generating
<1>10. CASE StartFile
  <2>1. /\ pc = "file" /\ pc' = "front" /\ sink' = sink
        /\ UNCHANGED <<order, sources, files, outs, lowered, disk>>
    BY <1>10 DEF StartFile, modules, backEnd
  <2> QED BY <1>3, <2>1 DEF Whole, Generating
<1>11. CASE Report
  <2>1. /\ pc = "front" /\ sink'.errs = sink.errs + 1
        /\ UNCHANGED <<pc, order, sources, files, outs, lowered, disk>>
    BY <1>3, <1>11, ReportEffect
  <2>2. sink'.errs # 0
    BY <1>5, <2>1
  <2> QED BY <1>3, <2>1, <2>2 DEF Whole, Generating
<1>12. CASE EndPass
  <2>1. /\ pc = "front" /\ sources # <<>> /\ pass \in 1 .. 5
        /\ UNCHANGED <<order, files, sink, before, lowered, disk>>
        /\ before \in Nat /\ before <= sink.errs
    BY <1>3, <1>12, EndPassEffect
  <2>2. CASE ~(sink.errs > before) /\ pass # 5 /\ UNCHANGED <<outs, pc, sources>>
    BY <1>3, <2>1, <2>2 DEF Whole, Generating
  <2>3. CASE /\ sink.errs > before \/ pass = 5
             /\ outs' = Append(outs, Output(pass)) /\ pc' = "file" /\ sources' = Tail(sources)
    <3>1. Output(pass) \in Outputs
      BY <2>1, HeadTypes DEF Output, Outputs
    <3>2. /\ Len(outs') = Len(outs) + 1 /\ DOMAIN outs' = 1 .. Len(outs) + 1
          /\ \A i \in 1 .. Len(outs) : outs'[i] = outs[i]
          /\ outs'[Len(outs) + 1] = Output(pass)
      BY <1>5, <2>3, <3>1, AppendElements
    <3>3. Len(sources') = Len(sources) - 1
      BY <2>1, <2>3, HeadTypes
    <3>4. sink.errs = 0 => Complete(Output(pass))
      <4> HAVE sink.errs = 0
      <4>1. pass = 5
        BY <2>1, <2>3
      <4>2. /\ Output(pass).module = (pass >= 2) /\ Output(pass).symbols = (pass >= 3)
            /\ Output(pass).types = (pass = 5)
        BY DEF Output
      <4>3. pass >= 2 /\ pass >= 3
        BY <4>1
      <4>4. Output(pass).module /\ Output(pass).symbols /\ Output(pass).types
        BY <4>1, <4>2, <4>3, Zenon
      <4> QED BY <4>4 DEF Complete
    <3>5. sink.errs = 0 => \A i \in DOMAIN outs' : Complete(outs'[i])
      <4> SUFFICES ASSUME sink.errs = 0, NEW i \in DOMAIN outs' PROVE Complete(outs'[i])
        OBVIOUS
      <4>1. i \in 1 .. Len(outs) \/ i = Len(outs) + 1
        BY <1>6, <3>2
      <4>2. AllComplete
        BY <1>3, <2>1 DEF Whole
      <4> QED BY <1>6, <3>2, <3>4, <4>1, <4>2
    <3> QED BY <1>3, <1>6, <2>1, <2>3, <3>2, <3>3, <3>5 DEF Whole, Generating
  <2> QED BY <1>3, <1>12, <2>2, <2>3, EndPassEffect
<1>13. CASE FrontEndDone
  <2>1. /\ pc = "file" /\ sources = <<>> /\ Gate(sink, "lower")
        /\ UNCHANGED <<order, sources, files, outs, lowered, disk>>
    BY <1>13 DEF FrontEndDone, modules, frontEnd, backEnd
  <2>2. pc' = "lower" /\ sink.errs = 0
    BY <1>5, <2>1, GatePasses
  <2>3. Len(order) = 0 /\ Len(sources) = 0
    BY <1>3, <2>1 DEF Whole
  <2>4. Len(outs) = files /\ AllComplete
    <3>1. Len(order) + Len(sources) + Len(outs) = files
      BY <1>3, <2>1, <2>2 DEF Whole
    <3>2. AllComplete
      BY <1>3, <2>1, <2>2, Zenon DEF Whole
    <3> QED BY <1>6, <2>3, <3>1, <3>2
  <2>5. lowered <= Len(outs)
    BY <1>3, <1>6, <2>1 DEF Whole
  <2> QED BY <1>3, <2>1, <2>2, <2>4, <2>5 DEF Whole, Generating
<1>14. CASE LowerReport
  <2>1. pc = "lower" /\ pc' = "lower" /\ UNCHANGED <<outs, files, lowered>>
    BY <1>14 DEF LowerReport, modules, frontEnd, backEnd
  <2> QED BY <1>3, <2>1 DEF Whole, Generating
<1>15. CASE Lower
  <2>1. pc = "lower" /\ UNCHANGED <<outs, files, disk>> /\ Unwritten
    BY <1>15 DEF Lower, modules, frontEnd
  <2>2. \/ lowered' = lowered + 1 /\ pc' = "lower" /\ lowered # Len(outs)
        \/ lowered' = lowered /\ pc' = "emit" /\ lowered = Len(outs)
    BY <1>15 DEF Lower, Gate, GoOn, Finish, Stop
  <2>3. disk["tempObj"] = "nothing" /\ disk["runtimeObj"] = "nothing"
    BY <2>1 DEF Unwritten, Clean, Files
  <2>4. lowered <= Len(outs) /\ lowered \in Nat
    BY <1>3, <2>1 DEF Whole, Types
  <2> QED BY <1>3, <1>6, <2>1, <2>2, <2>3, <2>4 DEF Whole, Generating
<1>16. CASE EmitStage
  <2>1. pc = "emit" /\ pc' = "emit" /\ UNCHANGED <<outs, files, lowered>>
    BY <1>16 DEF EmitStage, CompileToObject, CodegenFailed, BackendError, Finish, Stop, modules,
       frontEnd
  <2>2. disk' = disk \/ disk' = [disk EXCEPT ![EmitPath] = opts.emit[stage]]
    BY <1>16 DEF EmitStage, CompileToObject
  <2>3. disk'["tempObj"] = disk["tempObj"] /\ disk'["runtimeObj"] = disk["runtimeObj"]
    BY <2>2 DEF EmitPath, Types, Files
  <2> QED BY <1>3, <2>1, <2>3 DEF Whole, Generating
<1>17. CASE TempObject
  <2>1. pc = "emit" /\ pc' = "runtime" /\ opts.emit = <<>> /\ UNCHANGED <<opts, outs, files, lowered>>
    BY <1>17 DEF TempObject, CompileToObject, CodegenFailed, BackendError, GoOn, Finish, Stop,
       modules, frontEnd
  <2> QED BY <1>3, <2>1 DEF Whole, Generating
<1>18. CASE CompileRuntime
  <2>1. pc = "runtime" /\ pc' = "link" /\ UNCHANGED <<opts, outs, files, lowered>>
    BY <1>18 DEF CompileRuntime, BackendError, GoOn, Stop, modules, frontEnd
  <2> QED BY <1>3, <2>1 DEF Whole, Generating
<1>19. CASE UNCHANGED vars
  BY <1>3, <1>19 DEF vars, Whole, Generating
<1> QED BY <1>2, <1>4, <1>7, <1>8, <1>9, <1>10, <1>11, <1>12, <1>13, <1>14, <1>15, <1>16, <1>17,
           <1>18, <1>19 DEF Next

-----------------------------------------------------------------------------
(* Each file is on its own.                                                *)

\* A step that leaves the files alone, outside the front end.
LEMMA PerFileAlone ==
  ASSUME PerFile, ~opts.verify, UNCHANGED <<order, sources, outs, failed>>,
         pc # "front", pc' # "front"
  PROVE  PerFile'
<1>1. /\ IsInjective(order) /\ IsInjective(sources)
      /\ ToSet(order) \cap ToSet(sources) = {}
      /\ \A i \in DOMAIN outs : outs[i].file \notin ToSet(order) \cup ToSet(sources)
      /\ \A f \in ToSet(order) \cup ToSet(sources) : failed[f] = 0
      /\ GatePerFile
  BY DEF PerFile
<1>2. GatePerFile'
  BY <1>1 DEF GatePerFile
<1> QED BY <1>1, <1>2 DEF PerFile

\* The end of a file's front end: its first error decided how far it went.
LEMMA PerFileEndPass ==
  ASSUME Types, Begun, Errors, PerFile, ~opts.verify, EndPass
  PROVE  PerFile'
<1>1. /\ pc = "front" /\ sources # <<>> /\ pass \in 1 .. 5
      /\ UNCHANGED <<opts, order, files, sink, before, lowered, disk, failed>>
      /\ sink.errs \in Nat /\ before \in Nat /\ before <= sink.errs
      /\ \/ /\ sink.errs > before \/ pass = 5
            /\ outs' = Append(outs, Output(pass)) /\ pc' = "file"
            /\ sources' = Tail(sources) /\ pass' = pass
         \/ /\ ~(sink.errs > before) /\ pass # 5
            /\ pass' = pass + 1 /\ UNCHANGED <<outs, pc, sources>>
  BY EndPassEffect
<1> DEFINE h == Head(sources)
<1>2. /\ h \in Ids /\ Tail(sources) \in Seq(Ids)
      /\ ToSet(sources) = {h} \cup ToSet(Tail(sources))
      /\ IsInjective(sources) => IsInjective(Tail(sources)) /\ h \notin ToSet(Tail(sources))
  BY <1>1, HeadTypes
<1>3. /\ IsInjective(order) /\ IsInjective(sources)
      /\ ToSet(order) \cap ToSet(sources) = {}
      /\ \A i \in DOMAIN outs : outs[i].file \notin ToSet(order) \cup ToSet(sources)
      /\ \A f \in ToSet(order) \cup ToSet(sources) : failed[f] = 0 \/ f = h
      /\ failed[h] \in {0, pass} /\ (failed[h] = 0 <=> sink.errs = before)
      /\ GatePerFile
  BY <1>1 DEF PerFile
<1>4. CASE ~(sink.errs > before) /\ pass # 5 /\ pass' = pass + 1 /\ UNCHANGED <<outs, pc, sources>>
  <2>1. failed[h] = 0
    BY <1>1, <1>3, <1>4
  <2>2. GatePerFile'
    BY <1>1, <1>3, <1>4 DEF GatePerFile
  <2> QED BY <1>1, <1>3, <1>4, <2>1, <2>2 DEF PerFile
<1>5. CASE /\ sink.errs > before \/ pass = 5
           /\ outs' = Append(outs, Output(pass)) /\ pc' = "file" /\ sources' = Tail(sources)
  <2>1. outs \in Seq(Outputs) /\ Output(pass) \in Outputs
    BY <1>1, <1>2 DEF Types, Output, Outputs
  <2>2. /\ Len(outs) \in Nat /\ DOMAIN outs = 1 .. Len(outs) /\ DOMAIN outs' = 1 .. Len(outs) + 1
        /\ \A i \in 1 .. Len(outs) : outs'[i] = outs[i]
        /\ outs'[Len(outs) + 1] = Output(pass)
    BY <1>5, <2>1, AppendElements, ElementsType
  <2>3. Output(pass).file = h /\ Output(pass).stage = pass
    BY DEF Output
  <2>4. pass = IF failed[h] = 0 THEN 5 ELSE failed[h]
    BY <1>1, <1>3, <1>5
  <2>5. ASSUME NEW i \in DOMAIN outs'
        PROVE  /\ outs'[i].file \notin ToSet(order) \cup ToSet(Tail(sources))
               /\ outs'[i].stage = IF failed[outs'[i].file] = 0 THEN Len(Passes)
                                   ELSE failed[outs'[i].file]
    <3>1. i \in DOMAIN outs \/ i = Len(outs) + 1
      BY <2>2
    <3>2. CASE i \in DOMAIN outs
      <4>1. outs'[i] = outs[i]
        BY <2>2, <3>2
      <4> QED BY <1>2, <1>3, <3>2, <4>1 DEF GatePerFile
    <3>3. CASE i = Len(outs) + 1
      <4>1. outs'[i].file = h /\ outs'[i].stage = pass
        BY <2>2, <2>3, <3>3
      <4>2. h \notin ToSet(order) \cup ToSet(Tail(sources))
        BY <1>2, <1>3
      <4> QED BY <2>4, <4>1, <4>2, PassesAre
    <3> QED BY <3>1, <3>2, <3>3
  <2>6. GatePerFile'
    BY <1>1, <2>5 DEF GatePerFile
  <2>7. ToSet(order) \cap ToSet(Tail(sources)) = {}
    BY <1>2, <1>3
  <2>8. \A f \in ToSet(order) \cup ToSet(Tail(sources)) : failed[f] = 0
    BY <1>2, <1>3
  <2> QED BY <1>1, <1>2, <1>3, <1>5, <2>5, <2>6, <2>7, <2>8 DEF PerFile
<1> QED BY <1>1, <1>4, <1>5

\* One step per action: only the head of `sources` is ever touched.
LEMMA PerFileStep ==
  ASSUME Types, Begun, Errors, PerFile, [Next]_vars
  PROVE  PerFile'
<1> SUFFICES ASSUME ~opts'.verify PROVE PerFile'
  BY DEF PerFile
<1>1. ~opts.verify
  <2>1. CASE ParseArg
    BY <2>1 DEF ParseArg, Stop, Usage, Types
  <2>2. CASE ~ParseArg
    <3>1. opts' = opts
      BY <2>2 DEF Next, vars, ParseArgsEnd, Load, ReadAgain, ReadAll, StartFile, Report, EndPass,
         Verify, React, Verified, FrontEndDone, LowerReport, Lower, EmitStage, TempObject,
         EmitDone, CompileRuntime, Link
    <3> QED BY <3>1
  <2> QED BY <2>1, <2>2
<1>2. order \in Seq(Ids) /\ sources \in Seq(Ids) /\ Ids \subseteq Nat
  BY DEF Types, Ids
<1>3. CASE \/ ParseArg \/ ParseArgsEnd \/ ReadAll \/ FrontEndDone \/ LowerReport \/ Lower
           \/ EmitStage \/ TempObject \/ EmitDone \/ CompileRuntime \/ Link \/ Verified
  <2>1. UNCHANGED <<order, sources, outs, failed>>
    BY <1>3 DEF ParseArg, ParseArgsEnd, ReadAll, FrontEndDone, LowerReport, Lower, EmitStage,
       TempObject, EmitDone, CompileRuntime, Link, Verified, modules, frontEnd, history
  <2>2. pc # "front"
    BY <1>3 DEF ParseArg, ParseArgsEnd, ReadAll, FrontEndDone, LowerReport, Lower, EmitStage,
       TempObject, EmitDone, CompileRuntime, Link, Verified
  <2>3. pc' # "front"
    BY <1>3, <2>2 DEF ParseArg, ParseArgsEnd, ReadAll, FrontEndDone, LowerReport, Lower, EmitStage,
       TempObject, EmitDone, CompileRuntime, Link, Verified, Usage, Stop, GateUnlessVerifying,
       Gate, GoOn, Finish, CompileToObject, CodegenFailed, BackendError
  <2> QED BY <1>1, <2>1, <2>2, <2>3, PerFileAlone
<1>4. CASE Verify \/ React
  BY <1>1, <1>4 DEF Verify, React, Begun
<1>5. CASE Load
  <2>1. pc = "load" /\ pc' \in {"read", "stopped"} /\ sources' = <<>> /\ outs' = <<>>
    BY <1>5 DEF Load, GateUnlessVerifying, Gate, GoOn, Finish, Stop, Begun, frontEnd
  <2>2. PICK n \in 1 .. MaxFiles : \E s \in Orders(n) :
          order' = s /\ failed' = [f \in 0 .. n - 1 |-> 0]
    BY <1>5 DEF Load
  <2>3. PICK s \in Orders(n) : order' = s /\ failed' = [f \in 0 .. n - 1 |-> 0]
    BY <2>2
  <2>4. /\ DOMAIN s = 1 .. n /\ \A i \in 1 .. n : s[i] \in 0 .. n - 1
        /\ \A i, j \in 1 .. n : s[i] = s[j] => i = j
    BY DEF Orders
  <2>5. IsInjective(order')
    BY <2>3, <2>4 DEF IsInjective
  <2>6. ToSet(order') \subseteq 0 .. n - 1
    BY <2>3, <2>4 DEF ToSet
  <2>7. ToSet(sources') = {} /\ DOMAIN outs' = {} /\ IsInjective(sources')
    BY <2>1 DEF ToSet, IsInjective
  <2>8. \A f \in ToSet(order') : failed'[f] = 0
    BY <2>3, <2>6
  <2>9. GatePerFile'
    BY <2>7 DEF GatePerFile
  <2> QED BY <2>1, <2>5, <2>7, <2>8, <2>9 DEF PerFile
<1>6. CASE ReadAgain
  <2>1. /\ pc = "read" /\ order # <<>> /\ order' = Tail(order)
        /\ UNCHANGED <<opts, pc, files, outs, lowered, disk, failed>>
        /\ sources' \in {sources, Append(sources, Head(order))}
    BY <1>1, <1>6, ReadAgainEffect
  <2> DEFINE h == Head(order)
  <2>2. /\ h \in Ids /\ ToSet(order) = {h} \cup ToSet(Tail(order))
        /\ IsInjective(order) => IsInjective(Tail(order)) /\ h \notin ToSet(Tail(order))
    BY <1>2, <2>1, TailElements
  <2>3. /\ IsInjective(order) /\ IsInjective(sources)
        /\ ToSet(order) \cap ToSet(sources) = {}
        /\ \A i \in DOMAIN outs : outs[i].file \notin ToSet(order) \cup ToSet(sources)
        /\ \A f \in ToSet(order) \cup ToSet(sources) : failed[f] = 0
        /\ GatePerFile
    BY <1>1, <2>1 DEF PerFile
  <2>4. h \in ToSet(order) /\ h \notin ToSet(sources)
    BY <2>2, <2>3
  <2>5. /\ IsInjective(sources') /\ ToSet(sources') \subseteq ToSet(sources) \cup {h}
    <3>1. CASE sources' = sources
      BY <2>3, <3>1
    <3>2. CASE sources' = Append(sources, h)
      <4>1. /\ ToSet(Append(sources, h)) = ToSet(sources) \cup {h}
            /\ IsInjective(sources) /\ h \notin ToSet(sources) =>
                 IsInjective(Append(sources, h))
        BY <1>2, <2>2, AppendElements
      <4> HIDE DEF h
      <4> QED BY <2>3, <2>4, <3>2, <4>1, Zenon
    <3> QED BY <2>1, <3>1, <3>2
  <2>6. /\ ToSet(order') \cap ToSet(sources') = {} /\ IsInjective(order')
        /\ ToSet(order') \cup ToSet(sources') \subseteq ToSet(order) \cup ToSet(sources)
    BY <2>1, <2>2, <2>3, <2>4, <2>5
  <2>7. GatePerFile'
    BY <2>1, <2>3 DEF GatePerFile
  <2> QED BY <2>1, <2>3, <2>5, <2>6, <2>7 DEF PerFile
<1>7. CASE StartFile
  <2>1. /\ pc = "file" /\ pc' = "front" /\ pass' = 1 /\ before' = sink.errs /\ sink' = sink
        /\ sources # <<>> /\ UNCHANGED <<order, sources, outs, failed>>
    BY <1>1, <1>7 DEF StartFile, ErrorsBefore, modules, history
  <2>2. Head(sources) \in ToSet(sources)
    BY <2>1, HeadTypes
  <2>3. /\ IsInjective(order) /\ IsInjective(sources)
        /\ ToSet(order) \cap ToSet(sources) = {}
        /\ \A i \in DOMAIN outs : outs[i].file \notin ToSet(order) \cup ToSet(sources)
        /\ \A f \in ToSet(order) \cup ToSet(sources) : failed[f] = 0
        /\ GatePerFile
    BY <1>1, <2>1 DEF PerFile
  <2>4. GatePerFile'
    BY <2>1, <2>3 DEF GatePerFile
  <2> QED BY <2>1, <2>2, <2>3, <2>4 DEF PerFile
<1>8. CASE Report
  <2>1. /\ pc = "front" /\ sources # <<>> /\ pass \in 1 .. 5
        /\ UNCHANGED <<pc, order, sources, pass, before, outs>>
        /\ failed' = [failed EXCEPT ![Head(sources)] = IF @ = 0 THEN pass ELSE @]
        /\ sink.errs \in Nat /\ before \in Nat /\ before <= sink.errs
        /\ sink'.errs = sink.errs + 1
    BY <1>1, <1>8, ReportEffect
  <2> DEFINE h == Head(sources)
  <2>2. h \in Ids /\ h \in ToSet(sources)
    BY <2>1, HeadTypes
  <2>3. /\ IsInjective(order) /\ IsInjective(sources)
        /\ ToSet(order) \cap ToSet(sources) = {}
        /\ \A i \in DOMAIN outs : outs[i].file \notin ToSet(order) \cup ToSet(sources)
        /\ \A f \in ToSet(order) \cup ToSet(sources) : failed[f] = 0 \/ f = h
        /\ failed[h] \in {0, pass}
        /\ GatePerFile
    BY <1>1, <2>1 DEF PerFile
  <2>4. DOMAIN failed = Ids
    BY DEF Types
  <2>5. failed'[h] = pass /\ \A f : f # h => failed'[f] = failed[f]
    BY <2>1, <2>2, <2>3, <2>4
  <2>6. sink'.errs # before /\ failed'[h] # 0
    BY <2>1, <2>5
  <2>7. \A i \in DOMAIN outs : failed'[outs[i].file] = failed[outs[i].file]
    BY <2>2, <2>3, <2>5
  <2>8. GatePerFile'
    BY <2>1, <2>3, <2>7 DEF GatePerFile
  <2> QED BY <2>1, <2>3, <2>5, <2>6, <2>8 DEF PerFile
<1>9. CASE EndPass
  BY <1>1, <1>9, PerFileEndPass
<1>10. CASE UNCHANGED vars
  <2>1. UNCHANGED <<opts, pc, order, sources, sink, pass, before, outs, failed>>
    BY <1>10 DEF vars
  <2>2. GatePerFile' <=> GatePerFile
    BY <2>1 DEF GatePerFile
  <2> QED BY <1>1, <2>1, <2>2 DEF PerFile
<1> QED BY <1>3, <1>4, <1>5, <1>6, <1>7, <1>8, <1>9, <1>10 DEF Next

-----------------------------------------------------------------------------
(* What is written, and what exit code 0 means.                            *)

\* What is written is written with a count of zero.
LEMMA ErrorsWriteNothingStep ==
  ASSUME Types, Begun, Unwritten, Errors, ErrorsWriteNothing, [Next]_vars,
         Unwritten', Errors'
  PROVE  ErrorsWriteNothing'
<1>1. CASE disk' = Clean
  BY <1>1 DEF ErrorsWriteNothing, Clean
<1>2. CASE \A c : StoredError(sink', c) => c = "codegen"
  BY <1>2 DEF ErrorsWriteNothing, StoredError
<1>3. CASE opts'.verify \/ pc' \notin {"emit", "runtime", "link", "stopped"}
  BY <1>1, <1>3 DEF Unwritten, Clean
<1>4. CASE ~opts'.verify /\ Generating'
  <2>1. \A c : ~StoredError(sink', c)
    BY <1>4 DEF Errors, StoredError
  <2> QED BY <1>2, <2>1
<1>5. CASE ~opts'.verify /\ pc' = "stopped"
  <2>1. CASE \/ ParseArg \/ ParseArgsEnd \/ Load \/ ReadAgain \/ ReadAll \/ StartFile \/ Report
             \/ EndPass \/ Verify \/ React \/ Verified \/ FrontEndDone \/ LowerReport \/ Lower
    <3>1. disk' = disk
      BY <2>1 DEF ParseArg, ParseArgsEnd, Load, ReadAgain, ReadAll, StartFile, Report, EndPass,
         Verify, React, Verified, FrontEndDone, LowerReport, Lower, backEnd
    <3>2. pc \notin {"emit", "runtime", "link", "stopped"}
      BY <2>1 DEF ParseArg, ParseArgsEnd, Load, ReadAgain, ReadAll, StartFile, Report, EndPass,
         Verify, React, Verified, FrontEndDone, LowerReport, Lower
    <3> QED BY <1>1, <3>1, <3>2 DEF Unwritten
  <2>2. CASE EmitStage \/ TempObject \/ EmitDone \/ CompileRuntime \/ Link
    <3>1. Generating
      BY <2>2 DEF EmitStage, TempObject, EmitDone, CompileRuntime, Link, Generating
    <3>2. ~opts.verify
      BY <3>1 DEF Unwritten, Generating
    <3>3. \A c : ~StoredError(sink, c)
      BY <3>1, <3>2 DEF Errors
    <3>4. sink' = sink \/ CodegenFailed
      BY <2>2 DEF EmitStage, TempObject, EmitDone, CompileRuntime, Link, CompileToObject,
         BackendError, GoOn, Finish
    <3>5. CASE sink' = sink
      BY <1>2, <3>3, <3>5 DEF StoredError
    <3>6. CASE CodegenFailed
      <4>1. sink' = Emit(sink, Diag("error", "codegen", Nowhere, Nowhere))
        BY <3>6 DEF CodegenFailed, Finish
      <4>2. "codegen" \in Codes /\ Nowhere \in Nat
        BY DEF Codes, Nowhere
      <4>3. \A c : StoredError(sink', c) => StoredError(sink, c) \/ c = "codegen"
        BY <3>2, <4>1, <4>2, EmitTypes
      <4> QED BY <1>2, <3>3, <4>3
    <3> QED BY <3>4, <3>5, <3>6
  <2>3. CASE UNCHANGED vars
    BY <2>3 DEF vars, ErrorsWriteNothing
  <2> QED BY <2>1, <2>2, <2>3 DEF Next
<1> QED BY <1>3, <1>4, <1>5 DEF Generating, Types

\* A compiler that finishes with an error does not say Ok.
LEMMA FinishedBadly ==
  ASSUME NEW s, s.errs \in Nat, s.errs # 0, Finish(s)
  PROVE  exit' # "Ok"
BY DEF Finish, Stop, ExitCodeOf, HasErrors

\* The compiler says Ok at three places: with
\* nothing to write, after the last stage of --emit and after the link.
LEMMA SuccessStep ==
  ASSUME Types, Begun, Unwritten, Errors, Whole, SuccessMeansDone, [Next]_vars
  PROVE  SuccessMeansDone'
<1> SUFFICES ASSUME pc' = "stopped", files' > 0, exit' = "Ok", ~opts'.verify
             PROVE  SuccessMeansDone'
  BY DEF SuccessMeansDone, Finishing
<1>1. ~ParseArg /\ ~ParseArgsEnd
  BY DEF ParseArg, ParseArgsEnd, modules, Begun
<1>2. CASE UNCHANGED vars
  BY <1>2 DEF vars, SuccessMeansDone, Finishing
<1> SUFFICES ASSUME Next PROVE SuccessMeansDone'
  BY <1>2
<1>3. opts' = opts /\ ~opts.verify
  <2>1. opts' = opts
    BY <1>1 DEF Next, Load, ReadAgain, ReadAll, StartFile, Report, EndPass, Verify, React,
       Verified, FrontEndDone, LowerReport, Lower, EmitStage, TempObject, EmitDone,
       CompileRuntime, Link
  <2> QED BY <2>1
<1>4. sink.errs \in Nat /\ sink.errs = reports.error
  BY <1>3 DEF Types, Sink, Errors
<1>5. ~Verified /\ ~Verify /\ ~React /\ ~ReadAgain /\ ~StartFile /\ ~Report /\ ~EndPass
      /\ ~LowerReport
  BY <1>3 DEF Verified, Verify, React, ReadAgain, StartFile, Report, EndPass, LowerReport, Begun
<1>6. ASSUME NEW next \in {"read", "file", "lower", "emit"} PROVE ~Gate(sink, next)
  BY <1>4, FinishedBadly DEF Gate, GoOn, HasErrors
<1>7. ASSUME NEW code \in Codes, NEW f \in Nat, NEW lo \in Nat, Received("error")
      PROVE  ~Finish(Emit(sink, Diag("error", code, f, lo)))
  BY <1>3, <1>7, ErrorCounts, FinishedBadly
<1>8. ~Load
  <2> SUFFICES ASSUME Load PROVE FALSE
    OBVIOUS
  <2>1. "lex" \in Codes /\ "cycle" \in Codes /\ Nowhere \in Nat
    BY DEF Codes, Nowhere
  <2>2. /\ ~GoOn(sink, "read") /\ ~GoOn(Emit(sink, Diag("error", "lex", 0, 1)), "read")
    BY DEF GoOn
  <2>3. \/ Finish(Emit(sink, Diag("error", "lex", 0, 1))) /\ Received("error")
        \/ Finish(Emit(sink, Diag("error", "cycle", Nowhere, Nowhere))) /\ Received("error")
    BY <1>3, <2>2 DEF Load, GateUnlessVerifying, Gate
  <2> QED BY <1>7, <2>1, <2>3
<1>9. ~ReadAll /\ ~FrontEndDone
  BY <1>3, <1>6 DEF ReadAll, FrontEndDone, GateUnlessVerifying
<1>10. ~CodegenFailed
  <2>1. "codegen" \in Codes /\ Nowhere \in Nat
    BY DEF Codes, Nowhere
  <2> QED BY <1>7, <2>1 DEF CodegenFailed
<1>11. ~BackendError
  BY DEF BackendError, Stop
<1>12. ~EmitStage /\ ~TempObject /\ ~CompileRuntime
  BY <1>10, <1>11 DEF EmitStage, TempObject, CompileRuntime, CompileToObject, GoOn
<1>13. CASE Lower
  <2>1. /\ pc = "lower" /\ UNCHANGED <<outs, files, disk, reports>>
    BY <1>13 DEF Lower, modules, frontEnd, history
  <2>2. /\ Len(outs) = files /\ \A i \in DOMAIN outs : Complete(outs[i])
        /\ lowered <= Len(outs)
    BY <1>3, <2>1 DEF Whole
  <2>3. DOMAIN outs = 1 .. Len(outs) /\ Len(outs) \in Nat /\ lowered \in Nat
    BY DEF Types
  <2>4. opts.emit = <<>> /\ ~opts.output /\ Finish(sink)
    <3>1. CASE opts.emit = <<>> /\ ~opts.output
      BY <1>13, <3>1 DEF Lower
    <3>2. CASE ~(opts.emit = <<>> /\ ~opts.output)
      <4>1. lowered # Len(outs)
        BY <1>6, <1>13, <3>2 DEF Lower
      <4>2. lowered + 1 \in DOMAIN outs
        BY <2>2, <2>3, <4>1
      <4>3. UNCHANGED pc
        BY <1>13, <2>2, <3>2, <4>1, <4>2 DEF Lower
      <4> QED BY <2>1, <4>3
    <3> QED BY <3>1, <3>2
  <2>5. sink.errs = 0
    BY <1>4, <2>4, FinishedBadly
  <2>6. disk = Clean
    BY <2>1 DEF Unwritten
  <2> QED BY <1>3, <1>4, <2>1, <2>2, <2>4, <2>5, <2>6 DEF SuccessMeansDone, Clean, Files
<1>14. CASE EmitDone
  <2>1. /\ pc = "emit" /\ opts.emit # <<>> /\ Finish(sink)
        /\ UNCHANGED <<outs, files, disk, reports>>
    BY <1>14 DEF EmitDone, modules, frontEnd, backEnd, history
  <2>2. sink.errs = 0
    BY <1>4, <2>1, FinishedBadly
  <2>3. Len(outs) = files /\ disk["tempObj"] = "nothing" /\ disk["runtimeObj"] = "nothing"
    BY <1>3, <2>1 DEF Whole, Generating
  <2> QED BY <1>3, <1>4, <2>1, <2>2, <2>3 DEF SuccessMeansDone
<1>15. CASE Link
  <2>1. /\ pc = "link" /\ Finish(sink) /\ UNCHANGED <<outs, files, lowered, reports>>
        /\ disk' = [Removed({"runtimeObj", "tempObj"}) EXCEPT !["out"] = "exe"]
    BY <1>11, <1>15 DEF Link, modules, frontEnd, history
  <2>2. sink.errs = 0
    BY <1>4, <2>1, FinishedBadly
  <2>3. Len(outs) = files /\ lowered = Len(outs)
    BY <1>3, <2>1 DEF Whole, Generating
  <2>4. disk'["tempObj"] = "nothing" /\ disk'["runtimeObj"] = "nothing" /\ disk'["out"] = "exe"
    BY <2>1 DEF Removed, Files
  <2> QED BY <1>3, <1>4, <2>1, <2>2, <2>3, <2>4 DEF SuccessMeansDone
<1> QED BY <1>1, <1>5, <1>8, <1>9, <1>12, <1>13, <1>14, <1>15 DEF Next

-----------------------------------------------------------------------------
(* The accounts of the sink.                                               *)

\* A report of the driver or of one of its passes, as it reaches the sink.
LEMMA DiagAsReported ==
  ASSUME NEW sev \in {"error", "warning"}, NEW code \in Codes, NEW f \in Nat, NEW lo \in Nat,
         code = "propagate" <=> sev = "warning"
  PROVE  AsReported(Diag(sev, code, f, lo)) /\ Diag(sev, code, f, lo).occurrences = 1
         /\ Diag(sev, code, f, lo).sev = sev
<1>1. Diag(sev, code, f, lo).occurrences = 1
  BY DEF Diag
<1> QED BY <1>1, DiagType DEF AsReported

\* A report is given to the shared sink, and to the history of reports.
Reports(sev, code, f, lo) ==
  /\ sink' = Emit(sink, Diag(sev, code, f, lo)) /\ Received(sev)
  /\ sev \in {"error", "warning"} /\ code \in Codes /\ f \in Nat /\ lo \in Nat
  /\ code = "propagate" <=> sev = "warning"

\* What a report does to the accounts.
LEMMA ReportsAccounted ==
  ASSUME Types, Accounted(sink), NEW sev, NEW code, NEW f, NEW lo, Reports(sev, code, f, lo)
  PROVE  /\ Accounted(sink')
         /\ sink.warns = reports.warning => sink'.warns = reports'.warning
<1> DEFINE d == Diag(sev, code, f, lo)
<1>1. /\ sev \in {"error", "warning"} /\ code \in Codes /\ f \in Nat /\ lo \in Nat
      /\ code = "propagate" <=> sev = "warning"
      /\ sink' = Emit(sink, d) /\ Received(sev)
  BY DEF Reports
<1>2. AsReported(d) /\ d.occurrences = 1 /\ d.sev = sev
  BY <1>1, DiagAsReported
<1> HIDE DEF d
<1>3. /\ Accounted(sink')
      /\ sink'.warns = IF sev = "warning" THEN sink.warns + 1 ELSE sink.warns
  BY <1>1, <1>2, EmitAccounted
<1>4. reports'.warning = IF sev = "warning" THEN reports.warning + 1 ELSE reports.warning
  BY <1>1 DEF Received, Types
<1> QED BY <1>3, <1>4

\* Outside verify mode the sink changes when it is set up and with a report.
LEMMA SinkSteps ==
  ASSUME Types, Begun, Unwritten, ~opts.verify, [Next]_vars
  PROVE  \/ UNCHANGED <<sink, reports>>
         \/ ParseArgsEnd /\ sink' = WithErrorLimit(opts.limit) /\ UNCHANGED reports
         \/ \E sev, code, f, lo : Reports(sev, code, f, lo)
<1> DEFINE Goal ==
      \/ UNCHANGED <<sink, reports>>
      \/ ParseArgsEnd /\ sink' = WithErrorLimit(opts.limit) /\ UNCHANGED reports
      \/ \E sev, code, f, lo : Reports(sev, code, f, lo)
<1>1. ASSUME NEW code \in Codes, code # "propagate", NEW f \in Nat, NEW lo \in Nat,
             sink' = Emit(sink, Diag("error", code, f, lo)), Received("error")
      PROVE  Goal
  <2>1. Reports("error", code, f, lo)
    BY <1>1 DEF Reports
  <2> QED BY <2>1
<1>2. CASE ParseArgsEnd
  BY <1>2 DEF ParseArgsEnd, history
<1>3. CASE Load
  <2>1. "lex" \in Codes /\ "cycle" \in Codes /\ Nowhere \in Nat
    BY DEF Codes, Nowhere
  <2>2. \/ UNCHANGED <<sink, reports>>
        \/ sink' = Emit(sink, Diag("error", "lex", 0, 1)) /\ Received("error")
        \/ sink' = Emit(sink, Diag("error", "cycle", Nowhere, Nowhere)) /\ Received("error")
    BY <1>3 DEF Load, GateUnlessVerifying, Gate, GoOn, Finish
  <2> QED BY <1>1, <2>1, <2>2
<1>4. CASE ReadAgain
  <2>1. "read" \in Codes /\ Head(order) \in Nat
    BY <1>4, TailElements DEF ReadAgain, Types, Ids, Codes
  <2>2. \/ UNCHANGED <<sink, reports>>
        \/ sink' = Emit(sink, Diag("error", "read", Head(order), 0)) /\ Received("error")
    BY <1>4 DEF ReadAgain
  <2> QED BY <1>1, <2>1, <2>2
<1>5. CASE Report
  <2>1. pc = "front" /\ Received("error") /\ sources # <<>> /\ pass \in 1 .. 5
    BY <1>5 DEF Report, Begun
  <2>2. PICK lo \in Places : sink' = Emit(sink, Diag("error", Passes[pass], Head(sources), lo))
    BY <1>5 DEF Report, Into, Current
  <2>3. Passes[pass] \in Codes /\ Head(sources) \in Nat /\ lo \in Nat
    BY <2>1, PassesAre, HeadTypes DEF Places
  <2>4. Passes[pass] # "propagate"
    BY <2>1 DEF Passes
  <2> QED BY <1>1, <2>1, <2>2, <2>3, <2>4
<1>6. CASE LowerReport
  <2>1. lowered + 1 \in DOMAIN outs
    BY <1>6 DEF LowerReport, Types
  <2>2. PICK sev \in {"error", "warning"}, lo \in Places :
          /\ sink' = Emit(sink, Diag(sev, LowerCode(sev), outs[lowered + 1].file, lo))
          /\ Received(sev)
    BY <1>6 DEF LowerReport
  <2>3. outs[lowered + 1].file \in Nat
    <3>1. outs \in Seq(Outputs) /\ Ids \subseteq Nat
      BY DEF Types, Outputs, Ids
    <3>2. outs[lowered + 1] \in Outputs
      BY <2>1, <3>1
    <3> QED BY <3>1, <3>2 DEF Outputs
  <2>4. LowerCode(sev) \in Codes /\ lo \in Nat /\ (LowerCode(sev) = "propagate" <=> sev = "warning")
    BY DEF LowerCode, Codes, Places
  <2>5. Reports(sev, LowerCode(sev), outs[lowered + 1].file, lo)
    BY <2>2, <2>3, <2>4 DEF Reports
  <2> QED BY <2>5
<1>7. CASE EmitStage \/ TempObject
  <2>1. UNCHANGED <<sink, reports>> \/ CodegenFailed
    BY <1>7 DEF EmitStage, TempObject, CompileToObject, BackendError, GoOn
  <2>2. "codegen" \in Codes /\ Nowhere \in Nat
    BY DEF Codes, Nowhere
  <2>3. CodegenFailed => Goal
    BY <1>1, <2>2 DEF CodegenFailed, Finish
  <2> QED BY <2>1, <2>3
<1>8. CASE Verify \/ React \/ Verified
  BY <1>8 DEF Verify, React, Verified, Begun
<1>9. CASE ParseArg \/ StartFile \/ EndPass
  BY <1>9 DEF ParseArg, StartFile, EndPass, history
<1>10. CASE ReadAll \/ FrontEndDone \/ Lower \/ EmitDone \/ CompileRuntime \/ Link
  BY <1>10 DEF ReadAll, FrontEndDone, Lower, EmitDone, CompileRuntime, Link, GateUnlessVerifying,
     Gate, GoOn, Finish, BackendError, history
<1>11. CASE UNCHANGED vars
  BY <1>11 DEF vars
<1> QED BY <1>2, <1>3, <1>4, <1>5, <1>6, <1>7, <1>8, <1>9, <1>10, <1>11 DEF Next

\* The sink of a file in verify mode is a sink.
LEMMA OwnStep ==
  ASSUME Types, Begun, own \in Sink, opts.limit = NoLimit \/ opts.limit \in Nat \ {0}, [Next]_vars
  PROVE  own' \in Sink
<1>1. CASE StartFile
  <2>1. own' = WithErrorLimit(opts.limit)
    BY <1>1 DEF StartFile
  <2>2. opts.limit \in Int
    BY DEF NoLimit
  <2> QED BY <2>1, <2>2, EmptySink
<1>2. CASE Report
  <2>1. pc = "front" /\ sources # <<>> /\ pass \in 1 .. 5
    BY <1>2 DEF Report, Begun
  <2>2. PICK lo \in Places : \/ own' = own
                             \/ own' = Emit(own, Diag("error", Passes[pass], Head(sources), lo))
    BY <1>2 DEF Report, Into, Current
  <2>3. Passes[pass] \in Codes /\ Head(sources) \in Nat /\ lo \in Nat
    BY <2>1, PassesAre, HeadTypes DEF Places
  <2>4. Diag("error", Passes[pass], Head(sources), lo) \in Entry
    BY <2>3, DiagType
  <2>5. Emit(own, Diag("error", Passes[pass], Head(sources), lo)) \in Sink
    BY <2>4, EmitFacts
  <2> QED BY <2>2, <2>5
<1>3. CASE ~StartFile /\ ~Report
  <2>1. own' = own
    BY <1>3 DEF Next, vars, ParseArg, ParseArgsEnd, Load, ReadAgain, ReadAll, EndPass, Verify,
       React, Verified, FrontEndDone, LowerReport, Lower, EmitStage, TempObject, EmitDone,
       CompileRuntime, Link, frontEnd
  <2> QED BY <2>1
<1> QED BY <1>1, <1>2, <1>3

\* The limit is settled by the command line.
LEMMA LimitStep ==
  ASSUME Types, opts.limit = NoLimit \/ opts.limit \in Nat \ {0}, [Next]_vars
  PROVE  opts'.limit = NoLimit \/ opts'.limit \in Nat \ {0}
<1>1. CASE ParseArg
  <2>1. \/ opts'.limit = opts.limit
        \/ \E n \in Limits : opts'.limit = ErrorLimitFromArg(n)
    BY <1>1 DEF ParseArg, Types
  <2> QED BY <2>1, DriverAssumption DEF ErrorLimitFromArg
<1>2. CASE ~ParseArg
  <2>1. opts' = opts
    BY <1>2 DEF Next, vars, ParseArgsEnd, Load, ReadAgain, ReadAll, StartFile, Report, EndPass,
       Verify, React, Verified, FrontEndDone, LowerReport, Lower, EmitStage, TempObject, EmitDone,
       CompileRuntime, Link
  <2> QED BY <2>1
<1> QED BY <1>1, <1>2

\* The accounts stay right.
LEMMA AccountsStep ==
  ASSUME Types, Begun, Unwritten, Accounts, [Next]_vars
  PROVE  Accounts'
<1>1. opts.limit = NoLimit \/ opts.limit \in Nat \ {0}
  BY DEF Accounts
<1>2. /\ opts'.limit = NoLimit \/ opts'.limit \in Nat \ {0}
      /\ own' \in Sink
  BY <1>1, LimitStep, OwnStep DEF Accounts
<1>3. pc' \in {"args", "load"} =>
        /\ pc \in {"args", "load"} /\ UNCHANGED reports
        /\ pc' = "load" => \/ pc = "load" /\ UNCHANGED sink
                           \/ sink' = WithErrorLimit(opts.limit)
  <2>1. CASE ParseArg
    BY <2>1 DEF ParseArg, Stop, Usage, history
  <2>2. CASE ParseArgsEnd
    BY <2>2 DEF ParseArgsEnd, Stop, Usage, history
  <2>3. CASE UNCHANGED vars
    BY <2>3 DEF vars
  <2>4. CASE \/ Load \/ ReadAgain \/ ReadAll \/ StartFile \/ Report \/ EndPass \/ Verify \/ React
             \/ Verified \/ FrontEndDone \/ LowerReport \/ Lower
    <3>1. pc' \notin {"args", "load"}
      BY <2>4 DEF Load, ReadAgain, ReadAll, StartFile, Report, EndPass, Verify, React, Verified,
         FrontEndDone, LowerReport, Lower, GateUnlessVerifying, Gate, GoOn, Finish, Stop
    <3> QED BY <3>1
  <2>5. CASE EmitStage \/ TempObject \/ EmitDone \/ CompileRuntime \/ Link
    <3>1. pc' \notin {"args", "load"}
      BY <2>5 DEF EmitStage, TempObject, EmitDone, CompileRuntime, Link, CompileToObject,
         CodegenFailed, BackendError, GoOn, Finish, Stop
    <3> QED BY <3>1
  <2> QED BY <2>1, <2>2, <2>3, <2>4, <2>5 DEF Next
<1>4. pc' \in {"args", "load"} => reports'.warning = 0
  BY <1>3 DEF Accounts
<1>5. pc' = "load" => Accounted(sink')
  <2>1. Accounted(WithErrorLimit(opts.limit))
    BY <1>1, EmptyAccounted
  <2>2. pc = "load" /\ sink' = sink => Accounted(sink')
    BY DEF Accounts
  <2>3. sink' = WithErrorLimit(opts.limit) => Accounted(sink')
    BY <2>1
  <2> QED BY <1>3, <2>2, <2>3
<1>6. ASSUME ~opts'.verify PROVE Accounted(sink') /\ sink'.warns = reports'.warning
  <2>1. ~opts.verify
    <3>1. CASE ParseArg
      BY <1>6, <3>1 DEF ParseArg, Types
    <3>2. CASE ~ParseArg
      BY <1>6, <3>2 DEF Next, vars, ParseArgsEnd, Load, ReadAgain, ReadAll, StartFile, Report,
         EndPass, Verify, React, Verified, FrontEndDone, LowerReport, Lower, EmitStage, TempObject,
         EmitDone, CompileRuntime, Link
    <3> QED BY <3>1, <3>2
  <2>2. Accounted(sink) /\ sink.warns = reports.warning
    BY <2>1 DEF Accounts
  <2>3. CASE UNCHANGED <<sink, reports>>
    <3>1. sink' = sink /\ reports' = reports
      BY <2>3
    <3> QED BY <2>2, <3>1
  <2>4. CASE ParseArgsEnd /\ sink' = WithErrorLimit(opts.limit) /\ UNCHANGED reports
    <3>1. reports.warning = 0
      BY <2>4 DEF ParseArgsEnd, Accounts
    <3>2. Accounted(WithErrorLimit(opts.limit)) /\ WithErrorLimit(opts.limit).warns = 0
      BY <1>1, EmptyAccounted
    <3>3. sink' = WithErrorLimit(opts.limit) /\ reports' = reports
      BY <2>4
    <3> QED BY <3>1, <3>2, <3>3
  <2>5. CASE \E sev, code, f, lo : Reports(sev, code, f, lo)
    BY <2>2, <2>5, ReportsAccounted
  <2> QED BY <2>1, <2>3, <2>4, <2>5, SinkSteps
<1> QED BY <1>2, <1>4, <1>5, <1>6 DEF Accounts, Accounted, AsReported, Reported, Occurrences

-----------------------------------------------------------------------------
(* Why the compiler fails.                                                 *)

\* What finish renders explains the exit code it decides on.
LEMMA FinishExplains ==
  ASSUME NEW s, Accounted(s), Finish(s)
  PROVE  /\ exit' \in {"Ok", "CompileError"} /\ pc' = "stopped"
         /\ exit' = "CompileError" => \E i \in DOMAIN shown' : shown'[i].sev = "error"
<1>1. /\ shown' = Finished(s) /\ pc' = "stopped" /\ s \in Sink
      /\ exit' = IF s.errs > 0 THEN "CompileError" ELSE "Ok"
  BY DEF Finish, Stop, ExitCodeOf, HasErrors, Accounted
<1>2. ASSUME s.errs > 0 PROVE \E i \in DOMAIN shown' : shown'[i].sev = "error"
  <2>1. PICK i \in DOMAIN s.diags : s.diags[i].sev = "error"
    BY <1>1, <1>2 DEF Accounted, Sink
  <2>2. PICK k \in DOMAIN s.diags : Finished(s)[k] = s.diags[i]
    BY <1>1, FinishedKeeps
  <2>3. DOMAIN Finished(s) = DOMAIN s.diags
    BY <1>1, FinishedKeeps
  <2> QED BY <1>1, <2>1, <2>2, <2>3
<1> QED BY <1>1, <1>2

\* The compiler stops by rendering its sink, with an error line, or well.
LEMMA HowItStops ==
  ASSUME Types, Begun, Unwritten, Next
  PROVE  /\ pc # "stopped"
         /\ \/ UNCHANGED exit /\ pc' # "stopped"
            \/ Stop("Ok")
            \/ Stop("panic")
            \/ said' = TRUE /\ exit' # "none" /\ pc' = "stopped"
            \/ Finish(sink') /\ (opts.verify => Load) /\ UNCHANGED opts
<1>0. opts.verify => pc \notin {"lower", "emit", "runtime", "link"}
  BY DEF Unwritten
<1>1. CASE ParseArg \/ ParseArgsEnd
  BY <1>1 DEF ParseArg, ParseArgsEnd, Stop, Usage
<1>2. CASE Load
  <2>1. pc # "stopped"
    BY <1>2 DEF Load
  <2>2. \/ GoOn(sink, "read")
        \/ GateUnlessVerifying(Emit(sink, Diag("error", "lex", 0, 1)), "read")
        \/ Finish(Emit(sink, Diag("error", "cycle", Nowhere, Nowhere)))
    BY <1>2 DEF Load
  <2>3. ASSUME NEW s, GoOn(s, "read") PROVE UNCHANGED exit /\ pc' # "stopped"
    BY <2>3 DEF GoOn
  <2>4. ASSUME NEW s, Finish(s) PROVE Finish(sink')
    BY <2>4 DEF Finish
  <2>5. UNCHANGED opts
    BY <1>2 DEF Load
  <2> QED BY <1>2, <2>1, <2>2, <2>3, <2>4, <2>5 DEF GateUnlessVerifying, Gate
<1>3. CASE ReadAgain \/ StartFile \/ Report \/ Verify
  BY <1>3 DEF ReadAgain, StartFile, Report, Verify
<1>4. CASE EndPass
  <2>1. pc = "front" /\ pc' \in {"front", "file", "verify"} /\ UNCHANGED exit
    BY <1>4 DEF EndPass
  <2> QED BY <2>1
<1>5. CASE React \/ Verified
  BY <1>5 DEF React, Verified, Stop
<1>6. CASE ReadAll
  <2>1. pc = "read" /\ GateUnlessVerifying(sink, "file") /\ UNCHANGED opts
    BY <1>6 DEF ReadAll
  <2>2. CASE GoOn(sink, "file")
    BY <2>1, <2>2 DEF GoOn
  <2>3. CASE Finish(sink) /\ ~opts.verify
    BY <2>1, <2>3 DEF Finish
  <2> QED BY <2>1, <2>2, <2>3 DEF GateUnlessVerifying, Gate
<1>7. ASSUME NEW s, NEW next \in {"lower", "emit", "runtime", "link"}, GoOn(s, next)
      PROVE  UNCHANGED exit /\ pc' # "stopped"
  BY <1>7 DEF GoOn
<1>8. ASSUME NEW s, Finish(s) PROVE Finish(sink')
  BY <1>8 DEF Finish
<1>9. CASE FrontEndDone
  <2>1. pc = "file" /\ ~opts.verify /\ Gate(sink, "lower") /\ UNCHANGED opts
    BY <1>9 DEF FrontEndDone
  <2> QED BY <1>7, <1>8, <2>1 DEF Gate
<1>10. CASE LowerReport \/ Lower
  <2>1. pc = "lower" /\ ~opts.verify /\ UNCHANGED opts
    BY <1>0, <1>10 DEF LowerReport, Lower
  <2>2. \/ UNCHANGED <<pc, exit>>
        \/ Finish(sink)
        \/ Gate(sink, "emit")
    BY <1>10 DEF LowerReport, Lower
  <2> QED BY <1>7, <1>8, <2>1, <2>2 DEF Gate
<1>11. BackendError => said' = TRUE /\ exit' # "none" /\ pc' = "stopped"
  BY DEF BackendError, Stop
<1>12. CodegenFailed => Finish(sink')
  BY <1>8 DEF CodegenFailed
<1>13. CASE EmitStage \/ TempObject \/ EmitDone \/ CompileRuntime \/ Link
  <2>1. pc \in {"emit", "runtime", "link"} /\ ~opts.verify /\ UNCHANGED opts
    BY <1>0, <1>13 DEF EmitStage, TempObject, EmitDone, CompileRuntime, Link
  <2>2. \/ UNCHANGED <<pc, exit>>
        \/ BackendError
        \/ CodegenFailed
        \/ Finish(sink)
        \/ GoOn(sink, "runtime")
        \/ GoOn(sink, "link")
    BY <1>13 DEF EmitStage, TempObject, EmitDone, CompileRuntime, Link, CompileToObject
  <2> QED BY <1>7, <1>8, <1>11, <1>12, <2>1, <2>2
<1> QED BY <1>1, <1>2, <1>3, <1>4, <1>5, <1>6, <1>9, <1>10, <1>13 DEF Next

\* Once stopped the compiler does nothing; before, nothing is decided.
LEMMA ExplainedStep ==
  ASSUME Types, Begun, Unwritten, Accounts, Explained, [Next]_vars, Accounts'
  PROVE  Explained'
<1>1. CASE UNCHANGED vars
  BY <1>1 DEF vars, Explained, FailureIsExplained
<1>2. CASE Next
  <2>1. pc # "stopped" /\ exit = "none"
    BY <1>2, HowItStops DEF Explained
  <2>2. CASE UNCHANGED exit /\ pc' # "stopped"
    BY <2>1, <2>2 DEF Explained, FailureIsExplained
  <2>3. CASE Stop("Ok") \/ Stop("panic")
    BY <2>3 DEF Stop, Explained, FailureIsExplained
  <2>4. CASE said' = TRUE /\ exit' # "none" /\ pc' = "stopped"
    BY <2>4 DEF Explained, FailureIsExplained
  <2>5. CASE Finish(sink') /\ (opts.verify => Load) /\ UNCHANGED opts
    <3>1. Accounted(sink')
      <4>1. CASE Load
        <5>1. Accounted(sink)
          BY <4>1 DEF Load, Accounts
        <5>2. "lex" \in Codes /\ "cycle" \in Codes /\ Nowhere \in Nat
              /\ "lex" # "propagate" /\ "cycle" # "propagate"
          BY DEF Codes, Nowhere
        <5>3. \/ sink' = sink
              \/ sink' = Emit(sink, Diag("error", "lex", 0, 1))
              \/ sink' = Emit(sink, Diag("error", "cycle", Nowhere, Nowhere))
          BY <4>1 DEF Load, GateUnlessVerifying, Gate, GoOn, Finish
        <5>4. ASSUME NEW code \in Codes, code # "propagate", NEW f \in Nat, NEW lo \in Nat
              PROVE  Accounted(Emit(sink, Diag("error", code, f, lo)))
          <6>1. /\ AsReported(Diag("error", code, f, lo))
                /\ Diag("error", code, f, lo).occurrences = 1
            BY <5>4, DiagAsReported
          <6> QED BY <5>1, <6>1, EmitAccounted
        <5> QED BY <5>1, <5>2, <5>3, <5>4
      <4>2. CASE ~opts.verify
        <5>1. opts' = opts
          BY <2>5
        <5> QED BY <4>2, <5>1 DEF Accounts
      <4> QED BY <2>5, <4>1, <4>2
    <3> QED BY <2>5, <3>1, FinishExplains DEF Explained, FailureIsExplained
  <2> QED BY <1>2, <2>2, <2>3, <2>4, <2>5, HowItStops
<1> QED BY <1>1, <1>2

-----------------------------------------------------------------------------
(* What a verdict says.                                                    *)

\* The diagnostic an annotation covers is one that it matches.
LEMMA MatchOfFacts ==
  ASSUME NEW a, NEW diags, DOMAIN diags \in SUBSET Nat
  PROVE  \/ MatchOf(a, diags) = {}
         \/ \E k \in DOMAIN diags : Matches(a, diags[k]) /\ MatchOf(a, diags) = {k}
<1> DEFINE hits == {i \in DOMAIN diags : Matches(a, diags[i])}
<1>1. hits \in SUBSET Nat
  OBVIOUS
<1>2. MatchOf(a, diags) = IF hits = {} THEN {} ELSE {Min(hits)}
  BY DEF MatchOf
<1>3. hits # {} => Min(hits) \in hits
  <2> HIDE DEF hits
  <2> QED BY <1>1, LeastNumber
<1> QED BY <1>2, <1>3

\* A pass: no annotation is without its diagnostic, no diagnostic without its
\* annotation, and none covers two.
LEMMA PassFacts ==
  ASSUME NEW n \in Nat, NEW A, NEW a \in [1 .. n -> A], NEW m \in Nat, NEW diags,
         DOMAIN diags = 1 .. m, VerifyTestAnnotations(a, diags) = "Pass"
  PROVE  /\ \A i \in 1 .. n : \E k \in 1 .. m : Matches(a[i], diags[k])
         /\ \A k \in 1 .. m : \E i \in 1 .. n : Matches(a[i], diags[k])
         /\ m <= n
<1> DEFINE of(i) == MatchOf(a[i], diags)
           covered == UNION {of(i) : i \in 1 .. n}
<1>1. (\A i \in 1 .. n : of(i) # {}) /\ covered = 1 .. m
  BY DEF VerifyTestAnnotations
<1>2. \A i \in 1 .. n : \E k \in 1 .. m : Matches(a[i], diags[k]) /\ of(i) = {k}
  <2> SUFFICES ASSUME NEW i \in 1 .. n
               PROVE  \E k \in 1 .. m : Matches(a[i], diags[k]) /\ of(i) = {k}
    OBVIOUS
  <2>1. DOMAIN diags \in SUBSET Nat
    OBVIOUS
  <2> QED BY <1>1, <2>1, MatchOfFacts
<1> HIDE DEF of
<1> DEFINE f == [i \in 1 .. n |-> CHOOSE k \in 1 .. m : of(i) = {k}]
<1>3. \A i \in 1 .. n : f[i] \in 1 .. m /\ of(i) = {f[i]}
  BY <1>2
<1>4. \A k \in 1 .. m : \E i \in 1 .. n : of(i) = {k} /\ f[i] = k
  <2> SUFFICES ASSUME NEW k \in 1 .. m PROVE \E i \in 1 .. n : of(i) = {k} /\ f[i] = k
    OBVIOUS
  <2>1. PICK i \in 1 .. n : k \in of(i)
    BY <1>1
  <2>2. of(i) = {f[i]}
    BY <1>3
  <2>3. f[i] = k
    BY <2>1, <2>2
  <2> QED BY <2>2, <2>3
<1>5. f \in [1 .. n -> 1 .. m]
  BY <1>3
<1> HIDE DEF f
<1>6. f \in Surjection(1 .. n, 1 .. m)
  BY <1>4, <1>5 DEF Surjection
<1>7. m <= n
  <2>1. IsFiniteSet(1 .. n) /\ Cardinality(1 .. n) = n /\ Cardinality(1 .. m) = m
    BY FS_Interval
  <2>2. Cardinality(1 .. m) <= Cardinality(1 .. n)
    BY <1>6, <2>1, FS_Surjection
  <2> QED BY <2>1, <2>2
<1>8. \A k \in 1 .. m : \E i \in 1 .. n : Matches(a[i], diags[k])
  <2> SUFFICES ASSUME NEW k \in 1 .. m PROVE \E i \in 1 .. n : Matches(a[i], diags[k])
    OBVIOUS
  <2>1. PICK i \in 1 .. n : of(i) = {k}
    BY <1>4
  <2>2. PICK l \in 1 .. m : Matches(a[i], diags[l]) /\ of(i) = {l}
    BY <1>2
  <2>3. l = k
    BY <2>1, <2>2
  <2> QED BY <2>2, <2>3
<1> QED BY <1>2, <1>7, <1>8

\* The annotations are held against the sorted diagnostics of the file, which
\* are the ones its sink stores.
LEMMA VerdictStep ==
  ASSUME Types, Begun, Unwritten, Accounts, PassMeansAnnotated, [Next]_vars
  PROVE  PassMeansAnnotated'
<1>1. CASE UNCHANGED vars
  BY <1>1 DEF vars, PassMeansAnnotated
<1>2. CASE Verify
  <2>1. PICK n \in 0 .. MaxAnnots : \E a \in [1 .. n -> Annotations] :
          annots' = a /\ verdict' = VerifyTestAnnotations(a, Finished(own))
    BY <1>2 DEF Verify
  <2>2. PICK a \in [1 .. n -> Annotations] :
          annots' = a /\ verdict' = VerifyTestAnnotations(a, Finished(own))
    BY <2>1
  <2>3. own' = own /\ own \in Sink /\ n \in Nat
    BY <1>2, DriverAssumption DEF Verify, Accounts
  <2> DEFINE m == Len(own.diags)
             diags == Finished(own)
  <2>4. m \in Nat /\ DOMAIN own.diags = 1 .. m
    BY <2>3 DEF Sink
  <2>5. /\ DOMAIN diags = 1 .. m
        /\ \A i \in 1 .. m : \E k \in 1 .. m : diags[k] = own.diags[i]
        /\ \A k \in 1 .. m : \E i \in 1 .. m : diags[k] = own.diags[i]
    <3>1. /\ DOMAIN diags = DOMAIN own.diags
          /\ \A i \in DOMAIN own.diags : \E k \in DOMAIN own.diags : diags[k] = own.diags[i]
          /\ \A k \in DOMAIN own.diags : \E i \in DOMAIN own.diags : diags[k] = own.diags[i]
      BY <2>3, FinishedKeeps
    <3> HIDE DEF diags
    <3> QED BY <2>4, <3>1
  <2> HIDE DEF m, diags
  <2>6. ASSUME VerifyTestAnnotations(a, diags) = "Pass"
        PROVE  /\ \A i \in 1 .. n : \E j \in 1 .. m : Matches(a[i], own.diags[j])
               /\ \A j \in 1 .. m : \E i \in 1 .. n : Matches(a[i], own.diags[j])
               /\ m <= n
    <3>1. /\ \A i \in 1 .. n : \E k \in 1 .. m : Matches(a[i], diags[k])
          /\ \A k \in 1 .. m : \E i \in 1 .. n : Matches(a[i], diags[k])
          /\ m <= n
      BY <2>3, <2>4, <2>5, <2>6, PassFacts
    <3>2. ASSUME NEW i \in 1 .. n PROVE \E j \in 1 .. m : Matches(a[i], own.diags[j])
      <4>1. PICK k \in 1 .. m : Matches(a[i], diags[k])
        BY <3>1
      <4>2. PICK j \in 1 .. m : diags[k] = own.diags[j]
        BY <2>5
      <4> QED BY <4>1, <4>2
    <3>3. ASSUME NEW j \in 1 .. m PROVE \E i \in 1 .. n : Matches(a[i], own.diags[j])
      <4>1. PICK k \in 1 .. m : diags[k] = own.diags[j]
        BY <2>5
      <4>2. PICK i \in 1 .. n : Matches(a[i], diags[k])
        BY <3>1
      <4> QED BY <4>1, <4>2
    <3> QED BY <3>1, <3>2, <3>3
  <2>7. DOMAIN annots' = 1 .. n /\ Len(annots') = n
    BY <2>2, <2>3
  <2> QED BY <2>2, <2>3, <2>4, <2>6, <2>7 DEF PassMeansAnnotated, m, diags
<1>3. CASE /\ Next /\ ~Verify
  <2>1. pc' # "verdict"
    <3>1. CASE ParseArg \/ ParseArgsEnd \/ ReadAgain \/ StartFile \/ Report \/ EndPass
      BY <3>1 DEF ParseArg, ParseArgsEnd, ReadAgain, StartFile, Report, EndPass, Stop, Usage
    <3>2. CASE Load \/ ReadAll \/ React \/ Verified \/ FrontEndDone \/ LowerReport \/ Lower
      BY <3>2 DEF Load, ReadAll, React, Verified, FrontEndDone, LowerReport, Lower,
         GateUnlessVerifying, Gate, GoOn, Finish, Stop
    <3>3. CASE EmitStage \/ TempObject \/ EmitDone \/ CompileRuntime \/ Link
      BY <3>3 DEF EmitStage, TempObject, EmitDone, CompileRuntime, Link, CompileToObject,
         CodegenFailed, BackendError, GoOn, Finish, Stop
    <3> QED BY <1>3, <3>1, <3>2, <3>3 DEF Next
  <2> QED BY <2>1 DEF PassMeansAnnotated
<1> QED BY <1>1, <1>2, <1>3

-----------------------------------------------------------------------------
(* The theorems.                                                           *)

\* The accounts at the start.
LEMMA AccountsInit ==
  ASSUME Init
  PROVE  Accounts /\ Explained /\ PassMeansAnnotated
<1>1. /\ pc = "args" /\ exit = "none" /\ sink = WithErrorLimit(NoLimit)
      /\ own = WithErrorLimit(NoLimit) /\ reports.warning = 0 /\ opts.limit = 2
  BY DEF Init, ErrorLimitFromArg
<1>2. Accounted(WithErrorLimit(NoLimit)) /\ WithErrorLimit(NoLimit).warns = 0
  BY EmptyAccounted
<1>3. WithErrorLimit(NoLimit) \in Sink
  BY <1>2 DEF Accounted
<1>4. Accounts
  BY <1>1, <1>2, <1>3 DEF Accounts
<1> QED BY <1>1, <1>4 DEF Explained, FailureIsExplained, PassMeansAnnotated

\* The driver starts with nothing read, nothing written and no error.
LEMMA DriverInit ==
  ASSUME Init
  PROVE  DriverInv
<1>1. ErrorLimitFromArg(2) \in Int /\ NoLimit \in Int
  BY DEF ErrorLimitFromArg, NoLimit
<1>2. sink \in Sink /\ sink.errs = 0 /\ \A code : ~StoredError(sink, code)
  BY <1>1, EmptySink DEF Init
<1>3. /\ pc = "args" /\ files = 0 /\ order = <<>> /\ sources = <<>> /\ outs = <<>> /\ lowered = 0
      /\ reports = [error |-> 0, warning |-> 0] /\ disk = Clean /\ failed = <<>> /\ pass = 0
      /\ before = 0 /\ stage = 1
  BY DEF Init, Clean
<1>4. opts \in [inputs : Nat, emit : Seq(EmitStages), output : BOOLEAN, verify : BOOLEAN,
                limit : Int]
  BY <1>1 DEF Init
<1>5. Types
  <2>1. failed \in [Ids -> 0 .. 5]
    <3>1. Ids = {} /\ failed = [f \in {} |-> 0]
      BY <1>3 DEF Ids
    <3> QED BY <3>1
  <2>2. disk \in [Files -> {"nothing", "llvm-ir", "obj", "exe"}]
    BY <1>3 DEF Clean
  <2> QED BY <1>2, <1>3, <1>4, <2>1, <2>2 DEF Types
<1>6. Begun /\ Unwritten /\ Errors
  BY <1>2, <1>3 DEF Begun, Unwritten, Errors, Generating
<1>7. Whole
  BY <1>3 DEF Whole, Generating
<1>8. PerFile
  <2>1. ToSet(order) = {} /\ ToSet(sources) = {} /\ DOMAIN outs = {} /\ IsInjective(order)
        /\ IsInjective(sources)
    BY <1>3 DEF ToSet, IsInjective
  <2> QED BY <1>3, <2>1 DEF PerFile, GatePerFile
<1>9. ErrorsWriteNothing /\ SuccessMeansDone
  BY <1>3 DEF ErrorsWriteNothing, SuccessMeansDone, Finishing, Clean
<1> QED BY <1>5, <1>6, <1>7, <1>8, <1>9, AccountsInit DEF DriverInv

\* However the command line reads, however many files there are and whatever
\* the passes and tools report, the parts of the invariant hold together.
THEOREM DriverInvariance == Spec => []DriverInv
<1>1. Init => DriverInv
  BY DriverInit
<1>2. DriverInv /\ [Next]_vars => DriverInv'
  <2> SUFFICES ASSUME DriverInv, [Next]_vars PROVE DriverInv'
    OBVIOUS
  <2>1. /\ Types /\ Begun /\ Unwritten /\ Errors /\ Whole /\ PerFile /\ Accounts /\ Explained
        /\ ErrorsWriteNothing /\ SuccessMeansDone /\ PassMeansAnnotated
    BY DEF DriverInv
  <2>2. Types'
    BY <2>1, TypesStep
  <2>3. Begun'
    BY <2>1, BegunStep
  <2>4. Unwritten'
    BY <2>1, UnwrittenStep
  <2>5. Errors'
    BY <2>1, ErrorsStep
  <2>6. Whole'
    BY <2>1, WholeStep
  <2>7. PerFile'
    BY <2>1, PerFileStep
  <2>8. ErrorsWriteNothing'
    BY <2>1, <2>4, <2>5, ErrorsWriteNothingStep
  <2>9. SuccessMeansDone'
    BY <2>1, SuccessStep
  <2>10. Accounts'
    BY <2>1, AccountsStep
  <2>11. Explained'
    BY <2>1, <2>10, ExplainedStep
  <2>12. PassMeansAnnotated'
    BY <2>1, VerdictStep
  <2> QED BY <2>2, <2>3, <2>4, <2>5, <2>6, <2>7, <2>8, <2>9, <2>10, <2>11, <2>12 DEF DriverInv
<1> QED BY <1>1, <1>2, PTL DEF Spec

\* Nothing is written after an error of the reading, of the front end of any
\* file or of the lowering (the gates of compile() in main.rs).
THEOREM NothingAfterErrors == Spec => []ErrorsWriteNothing
<1>1. DriverInv => ErrorsWriteNothing
  BY DEF DriverInv
<1> QED BY <1>1, DriverInvariance, PTL

\* The front end of each file stops after the pass that found the file's own
\* first error and goes through all passes if there is none, whatever the
\* files before it reported (the gates of driver/pipeline.rs).
THEOREM EachFileAsFarAsItCan == Spec => []GatePerFile
<1>1. DriverInv => GatePerFile
  <2> SUFFICES ASSUME DriverInv PROVE GatePerFile
    OBVIOUS
  <2>1. CASE opts.verify
    BY <2>1 DEF DriverInv, Unwritten, GatePerFile
  <2>2. CASE ~opts.verify
    BY <2>2 DEF DriverInv, PerFile
  <2> QED BY <2>1, <2>2
<1> QED BY <1>1, DriverInvariance, PTL

\* Exit code 0 of a compilation means that no error was reported, that every
\* module of the graph went through the front end, that the executable is there
\* if one was asked for, and that the temporary objects are gone.
THEOREM OkMeansDone == Spec => []SuccessMeansDone
<1>1. DriverInv => SuccessMeansDone
  BY DEF DriverInv
<1> QED BY <1>1, DriverInvariance, PTL

\* Whatever is merged or throttled, every report the shared sink was given is
\* counted once, and is stored, an occurrence of a stored one or among the
\* suppressed (emit of diag/sink.rs).
THEOREM EachReportCountsOnce == Spec => []EveryReportCounted
<1>1. DriverInv => EveryReportCounted
  <2> SUFFICES ASSUME DriverInv, ~opts.verify PROVE EveryReportCounted
    BY DEF EveryReportCounted
  <2>1. Accounted(sink) /\ sink.warns = reports.warning
    BY DEF DriverInv, Accounts
  <2>2. sink.errs = reports.error
    BY DEF DriverInv, Errors
  <2> QED BY <2>1, <2>2 DEF EveryReportCounted, Accounted
<1> QED BY <1>1, DriverInvariance, PTL

\* A compiler that fails says why, in an error line or in an error among the
\* rendered diagnostics, under every --error-limit (finish of diag/sink.rs and
\* the exits of main.rs).
THEOREM FailuresAreExplained == Spec => []FailureIsExplained
<1>1. DriverInv => FailureIsExplained
  BY DEF DriverInv, Explained
<1> QED BY <1>1, DriverInvariance, PTL

\* A file passes --verify-test-annotations only if its annotations and its
\* diagnostics name one another (verify_test_annotations of test_verifier.rs).
THEOREM PassesAreAnnotated == Spec => []PassMeansAnnotated
<1>1. DriverInv => PassMeansAnnotated
  BY DEF DriverInv
<1> QED BY <1>1, DriverInvariance, PTL
=============================================================================
