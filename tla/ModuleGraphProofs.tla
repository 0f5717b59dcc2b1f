------------------------- MODULE ModuleGraphProofs -------------------------
(***************************************************************************)
(* For every set of files and every import graph between them: what is     *)
(* loaded is what is imported, circular imports and only these are         *)
(* rejected, and the order of compilation puts imports first.              *)
(***************************************************************************)
EXTENDS ModuleGraph, SequenceFacts

-----------------------------------------------------------------------------
(* What Kept computes.                                                     *)

\* The recursion of Kept has a solution.
LEMMA KeptUnfolds ==
  ASSUME NEW X, NEW s \in Seq(X), NEW S
  PROVE  \E F : /\ F = [i \in 0 .. Len(s) |->
                          IF i = 0 THEN <<>>
                          ELSE IF s[i] \in S THEN Append(F[i - 1], s[i]) ELSE F[i - 1]]
                /\ Kept(s, S) = F[Len(s)]
<1> DEFINE n == Len(s)
           Step(i, before) ==
             IF i = 0 THEN <<>> ELSE IF s[i] \in S THEN Append(before, s[i]) ELSE before
           Upto(k, F) == F = [i \in 0 .. k |-> F[i]] /\ \A i \in 0 .. k : F[i] = Step(i, F[i - 1])
           B == {k \in 0 .. n : \E F : Upto(k, F)}
<1>1. n \in Nat
  OBVIOUS
<1>2. 0 \in B
  <2>1. Upto(0, [i \in 0 .. 0 |-> <<>>])
    OBVIOUS
  <2> HIDE DEF Upto
  <2> QED BY <1>1, <2>1
<1>3. ASSUME NEW k \in 0 .. n - 1, k \in B PROVE k + 1 \in B
  <2>1. PICK F : Upto(k, F)
    BY <1>3
  <2> DEFINE G == [i \in 0 .. k + 1 |-> IF i = k + 1 THEN Step(k + 1, F[k]) ELSE F[i]]
  <2>2. \A i \in 0 .. k + 1 : G[i] = Step(i, G[i - 1])
    <3> TAKE i \in 0 .. k + 1
    <3> HIDE DEF Step
    <3>1. CASE i = k + 1
      <4>1. G[i - 1] = F[k] /\ G[i] = Step(k + 1, F[k])
        BY <3>1, <1>1
      <4> QED BY <3>1, <4>1
    <3>2. CASE i \in 1 .. k
      <4>1. G[i - 1] = F[i - 1] /\ G[i] = F[i]
        BY <3>2, <1>1
      <4> QED BY <3>2, <4>1, <2>1
    <3>3. CASE i = 0
      <4>1. G[i] = F[i] /\ F[i] = Step(0, F[i - 1])
        BY <3>3, <1>1, <2>1
      <4> QED BY <3>3, <4>1 DEF Step
    <3> QED BY <3>1, <3>2, <3>3, <1>1
  <2>3. Upto(k + 1, G)
    BY <2>2
  <2> HIDE DEF Upto, G, n
  <2> QED BY <2>3, <1>1
<1> HIDE DEF B
<1>4. B = 0 .. n
  <2>1. B \in SUBSET (0 .. n)
    BY DEF B
  <2> HIDE DEF n
  <2> QED BY <1>1, <1>2, <1>3, <2>1, UpTo
<1>5. PICK F : Upto(n, F)
  <2>1. n \in B
    BY <1>1, <1>4
  <2> QED BY <2>1 DEF B
<1>6. F = [i \in 0 .. n |-> Step(i, F[i - 1])]
  <2> HIDE DEF Step, n
  <2> QED BY <1>5
<1> DEFINE H == CHOOSE H : H = [i \in 0 .. n |-> Step(i, H[i - 1])]
<1>7. H = [i \in 0 .. n |-> Step(i, H[i - 1])]
  BY <1>6
<1>8. Kept(s, S) = H[n]
  BY DEF Kept
<1> QED BY <1>7, <1>8

\* What is kept of a sequence are its elements that are in the set.
LEMMA KeptElements ==
  ASSUME NEW X, NEW s \in Seq(X), NEW S
  PROVE  Kept(s, S) \in Seq(X) /\ ToSet(Kept(s, S)) = ToSet(s) \cap S
<1> DEFINE n == Len(s)
           Step(i, before) ==
             IF i = 0 THEN <<>> ELSE IF s[i] \in S THEN Append(before, s[i]) ELSE before
<1>1. n \in Nat /\ DOMAIN s = 1 .. n /\ \A i \in 1 .. n : s[i] \in X
  OBVIOUS
<1>2. PICK F : F = [i \in 0 .. n |-> Step(i, F[i - 1])] /\ Kept(s, S) = F[n]
  BY KeptUnfolds
<1> DEFINE Good(k) == F[k] \in Seq(X) /\ ToSet(F[k]) = {s[i] : i \in 1 .. k} \cap S
           B == {k \in 0 .. n : Good(k)}
<1>3. Good(0)
  <2>1. F[0] = <<>>
    BY <1>1, <1>2
  <2> QED BY <2>1 DEF ToSet
<1>4. ASSUME NEW k \in 0 .. n - 1, Good(k) PROVE Good(k + 1)
  <2>1. k + 1 \in 1 .. n /\ (k + 1) - 1 = k /\ k + 1 # 0 /\ s[k + 1] \in X
    BY <1>1
  <2>2. F[k + 1] = IF s[k + 1] \in S THEN Append(F[k], s[k + 1]) ELSE F[k]
    <3> HIDE DEF Step
    <3>1. \A j \in 1 .. n : F[j] = Step(j, F[j - 1])
      BY <1>1, <1>2
    <3>2. F[k + 1] = Step(k + 1, F[k])
      <4> HIDE DEF n
      <4> QED BY <2>1, <3>1
    <3> QED BY <2>1, <3>2 DEF Step
  <2>3. {s[i] : i \in 1 .. k + 1} = {s[i] : i \in 1 .. k} \cup {s[k + 1]}
    BY <1>1
  <2>4. CASE s[k + 1] \in S
    <3>1. F[k + 1] = Append(F[k], s[k + 1])
      BY <2>2, <2>4
    <3>2. F[k + 1] \in Seq(X) /\ ToSet(F[k + 1]) = ToSet(F[k]) \cup {s[k + 1]}
      <4> DEFINE t == F[k]  e == s[k + 1]
      <4>1. t \in Seq(X) /\ e \in X /\ Len(t) \in Nat
        BY <1>4, <2>1
      <4> HIDE DEF t, e
      <4>2. Append(t, e) \in Seq(X) /\ ToSet(Append(t, e)) = ToSet(t) \cup {e}
        BY <4>1, AppendProperties DEF ToSet
      <4> QED BY <3>1, <4>2 DEF t, e
    <3> QED BY <1>4, <2>3, <2>4, <3>2
  <2>5. CASE s[k + 1] \notin S
    BY <1>4, <2>2, <2>3, <2>5
  <2> QED BY <2>4, <2>5
<1> HIDE DEF Good
<1>5. B = 0 .. n
  <2>1. B \in SUBSET (0 .. n) /\ 0 \in B
    BY <1>1, <1>3
  <2>2. \A i \in 0 .. n - 1 : i \in B => i + 1 \in B
    BY <1>1, <1>4
  <2> HIDE DEF B, n
  <2> QED BY <1>1, <2>1, <2>2, UpTo
<1>6. Good(n)
  <2>1. n \in B
    BY <1>1, <1>5
  <2> QED BY <2>1
<1>7. ToSet(s) = {s[i] : i \in 1 .. n}
  BY <1>1 DEF ToSet
<1> QED BY <1>2, <1>6, <1>7 DEF Good

-----------------------------------------------------------------------------
(* The inductive invariant, part by part.                                  *)

\* Every component has its type.
Types ==
  /\ content \in [Files -> Contents] /\ imports \in [Files -> Seq(Files)]
  /\ stem \in [Files -> Files] /\ inputs \in Seq(Files)
  /\ phase \in {"load", "cycles", "sort", "sorted", "rejected"}
  /\ to_process \in Seq(Files) /\ processed \in SUBSET Files /\ errors \in BOOLEAN
  /\ modules \in Seq(Files)
  /\ name_to_id \in [Files -> Ids \cup {NoId}]
  /\ phase # "load" => dependencies \in [Ids -> Seq(Ids)]
  /\ calls \in Seq([id : Ids, next : Id])
  /\ visiting \in SUBSET Ids /\ visited \in SUBSET Ids /\ cycle \in Seq(Ids)
  /\ queue \in Seq(Ids) /\ sorted \in Seq(Ids) /\ edge \in Id

\* Before a phase begins its variables have their first values.
Fresh ==
  /\ phase = "load" => calls = <<>> /\ visiting = {} /\ visited = {}
  /\ phase \in {"load", "cycles"} => queue = <<>> /\ sorted = <<>> /\ edge = 1
  /\ phase # "rejected" => cycle = <<>>
  /\ phase \in {"sort", "sorted"} => visited = Ids
  /\ phase \notin {"load", "rejected"} => ~errors /\ to_process = <<>>

\* The worklist: what is registered, and what is still to come.
Worklist ==
  /\ IsInjective(modules)
  /\ \A f \in Loaded : content[f] = "good" /\ f \in processed
  /\ ~errors =>
       /\ processed \subseteq Loaded
       /\ ToSet(inputs) \subseteq processed \cup ToSet(to_process)
       /\ \A f \in Loaded : ToSet(imports[f]) \subseteq processed \cup ToSet(to_process)
  /\ \A S \in SUBSET Files :
       ToSet(inputs) \subseteq S /\ Closed(S) => Loaded \cup ToSet(to_process) \subseteq S

\* A name finds the module that has it, and an edge leads to what is imported.
Named ==
  ~SameStem =>
    \A f \in Files :
      /\ stem[f] = f
      /\ IF f \in Loaded THEN name_to_id[f] \in Ids /\ modules[name_to_id[f]] = f
                         ELSE name_to_id[f] = NoId

Deps(m) == ToSet(dependencies[m])

EdgesAreImports ==
  (phase # "load" /\ ~SameStem) =>
    \A m \in Ids :
      /\ \A n \in Deps(m) : modules[n] \in ToSet(imports[modules[m]])
      /\ ~errors => \A f \in ToSet(imports[modules[m]]) : \E n \in Deps(m) : modules[n] = f

\* The calls of the search are a path, and what lies behind it was visited.
SearchPath ==
  phase = "cycles" =>
    /\ visiting = {calls[i].id : i \in DOMAIN calls}
    /\ visiting \cap visited = {}
    /\ \A i, j \in DOMAIN calls : calls[i].id = calls[j].id => i = j
    /\ \A i \in DOMAIN calls :
         /\ calls[i].next <= Len(dependencies[calls[i].id]) + 1
         /\ \A k \in 1 .. calls[i].next - 1 :
              \/ dependencies[calls[i].id][k] \in visited
              \/ i < Len(calls) /\ dependencies[calls[i].id][k] = calls[i + 1].id
         /\ i < Len(calls) => calls[i + 1].id \in Deps(calls[i].id)

\* No cycle among the visited modules: every set of them has a member that
\* none of them imports, and one that imports none of them.
VisitedAcyclic ==
  phase \in {"cycles", "sort", "sorted"} =>
    /\ \A m \in visited : Deps(m) \subseteq visited
    /\ \A S \in SUBSET visited :
         S # {} => /\ \E m \in S : \A n \in S : m \notin Deps(n)
                   /\ \E m \in S : Deps(m) \cap S = {}

\* What the search rejects is a cycle.
CycleIsCycle == (cycle # <<>> /\ ~SameStem) => \E f \in Loaded : OnCycle(f)

\* Kahn's algorithm: the edges not yet released are counted, and the order so
\* far puts importers first.
Unreleased ==
  {e \in Edge : e[1] \notin ToSet(sorted) \/ (e[1] = Last(sorted) /\ edge <= e[2])}

Into(m) == {e \in Unreleased : dependencies[e[1]][e[2]] = m}

Counting ==
  phase = "sort" =>
    /\ in_degree \in [Ids -> Nat]
    /\ \A m \in Ids : in_degree[m] = Cardinality(Into(m))
    /\ IsInjective(sorted) /\ IsInjective(queue)
    /\ ToSet(sorted) \cap ToSet(queue) = {}
    /\ \A m \in Ids : m \in ToSet(sorted) \cup ToSet(queue) <=> in_degree[m] = 0
    /\ \A i \in DOMAIN sorted : \A n \in Ids :
         sorted[i] \in Deps(n) => \E j \in 1 .. i - 1 : sorted[j] = n

SortedOrder ==
  phase = "sorted" =>
    /\ in_degree \in [Ids -> Nat]
    /\ Len(sorted) = Len(modules) /\ ToSet(sorted) = Ids
    /\ \A i, j \in DOMAIN sorted : sorted[j] \in Deps(sorted[i]) => j < i

SortNeverFails == phase = "rejected" /\ cycle = <<>> => sorted = <<>> /\ visited = {}

GraphInv ==
  /\ Types /\ Fresh /\ Worklist /\ Named /\ EdgesAreImports
  /\ SearchPath /\ VisitedAcyclic /\ CycleIsCycle /\ Counting /\ SortedOrder /\ SortNeverFails

-----------------------------------------------------------------------------
(* Types.                                                                  *)

\* The sequences of Init are sequences.
LEMMA SeqOfType ==
  ASSUME NEW S, NEW n \in Nat PROVE SeqOf(S, n) \subseteq Seq(S)
BY DEF SeqOf

LEMMA TypesInit == Init => Types
<1> SUFFICES ASSUME Init PROVE Types
  OBVIOUS
<1>1. SeqOf(Files, MaxImports) \subseteq Seq(Files) /\ SeqOf(Files, MaxInputs) \subseteq Seq(Files)
  BY SeqOfType, GraphAssumption
<1>2. /\ content \in [Files -> Contents] /\ imports \in [Files -> Seq(Files)]
      /\ stem \in [Files -> Files] /\ inputs \in Seq(Files) /\ to_process \in Seq(Files)
  BY <1>1 DEF Init
<1>3. name_to_id \in [Files -> Ids \cup {NoId}] /\ processed = {} /\ errors = FALSE
  BY DEF Init
<1>4. /\ modules = <<>> /\ calls = <<>> /\ cycle = <<>> /\ queue = <<>> /\ sorted = <<>>
      /\ visiting = {} /\ visited = {} /\ phase = "load" /\ edge = 1
  BY DEF Init
<1>5. \A S : calls \in Seq(S) /\ cycle \in Seq(S) /\ queue \in Seq(S) /\ sorted \in Seq(S)
  BY <1>4
<1>6. modules \in Seq(Files) /\ edge \in Id /\ visiting \in SUBSET Ids /\ visited \in SUBSET Ids
  BY <1>4 DEF Id, NoId
<1>7. processed \in SUBSET Files /\ errors \in BOOLEAN
  BY <1>3
<1> QED BY <1>2, <1>3, <1>4, <1>5, <1>6, <1>7 DEF Types

\* A file that is registered makes room for one more id.
LEMMA TypesLoad ==
  ASSUME Types, Fresh, NEW f \in Files, LoadFile(f)
  PROVE  Types'
<1> USE DEF LoadFile, Loading
<1>1. to_process # <<>> /\ to_process \in Seq(Files) /\ imports[f] \in Seq(Files)
  BY DEF Types
<1>2. to_process' \in Seq(Files)
  BY <1>1, TailElements, KeptElements, ConcatElements DEF Queued
<1>3. /\ calls' = <<>> /\ visiting' = {} /\ visited' = {} /\ cycle' = <<>>
      /\ queue' = <<>> /\ sorted' = <<>> /\ edge' = 1
  BY DEF Fresh, search, kahn
<1>4. modules' \in Seq(Files) /\ name_to_id' \in [Files -> Ids' \cup {NoId}]
  <2>1. CASE f \in ToSet(modules)
    BY <2>1 DEF Types, Ids
  <2>2. CASE f \notin ToSet(modules)
    <3>1. modules \in Seq(Files) /\ DOMAIN modules = 1 .. Len(modules) /\ Len(modules) \in Nat
      BY DEF Types
    <3>2. modules' = Append(modules, f) /\ modules' \in Seq(Files)
          /\ DOMAIN modules' = 1 .. Len(modules) + 1
      BY <2>2, <3>1, AppendElements
    <3>4. name_to_id' = [name_to_id EXCEPT ![stem[f]] = Len(modules) + 1]
      BY <2>2
    <3> HIDE DEF LoadFile, Loading
    <3>3. Ids \cup {NoId} \subseteq Ids' \cup {NoId} /\ Len(modules) + 1 \in Ids'
      <4>1. Ids = 1 .. Len(modules) /\ Ids' = 1 .. Len(modules) + 1
        BY <3>1, <3>2 DEF Ids
      <4> QED BY <3>1, <4>1
    <3> QED BY <3>2, <3>3, <3>4 DEF Types
  <2> QED BY <2>1, <2>2
<1>5. processed' \in SUBSET Files /\ errors' \in BOOLEAN
  BY DEF Types
<1> QED BY <1>2, <1>3, <1>4, <1>5 DEF Types, files, Id, NoId

\* The imports of a module that were found are its edges.
LEMMA EdgesType ==
  ASSUME Types, NEW m \in Ids
  PROVE  /\ Edges(modules[m]) \in Seq(Ids)
         /\ ToSet(Edges(modules[m])) =
              {name_to_id[stem[g]] : g \in {h \in ToSet(imports[modules[m]]) :
                                              name_to_id[stem[h]] # NoId}}
<1> DEFINE f == modules[m]
           known == {g \in Files : name_to_id[stem[g]] # NoId}
           found == Kept(imports[f], known)
           e == [i \in DOMAIN found |-> name_to_id[stem[found[i]]]]
<1>1. f \in Files
  BY ElementsType DEF Types, Ids
<1>2. imports[f] \in Seq(Files)
  BY <1>1 DEF Types
<1> HIDE DEF f, known
<1>3. found \in Seq(Files) /\ ToSet(found) = ToSet(imports[f]) \cap known
  BY <1>2, KeptElements
<1>4. ToSet(imports[f]) \subseteq Files
  BY <1>2, ElementsType
<1> HIDE DEF found
<1>5. /\ Len(found) \in Nat /\ DOMAIN found = 1 .. Len(found)
      /\ \A i \in 1 .. Len(found) : found[i] \in Files /\ found[i] \in known
  BY <1>3, ElementsType
<1>6. \A i \in 1 .. Len(found) : name_to_id[stem[found[i]]] \in Ids
  BY <1>5 DEF Types, known
<1>7. e \in Seq(Ids)
  BY <1>5, <1>6
<1>8. ToSet(e) = {name_to_id[stem[g]] : g \in ToSet(found)}
  BY <1>5 DEF ToSet
<1>9. ToSet(found) = {h \in ToSet(imports[f]) : name_to_id[stem[h]] # NoId}
  BY <1>3, <1>4 DEF known
<1>10. Edges(f) = e
  BY DEF Edges, found, known, e
<1> QED BY <1>7, <1>8, <1>9, <1>10 DEF f

LEMMA TypesSearch ==
  ASSUME Types, Fresh
  PROVE  /\ \A m \in Ids : Root(m) => Types'
         /\ Descend => Types'
         /\ PassVisited => Types'
         /\ FindCycle => Types'
         /\ Return => Types'
<1> DEFINE C == [id : Ids, next : Id]
<1>0. Ids \subseteq Nat /\ calls \in Seq(C)
  BY DEF Types, Ids
<1>1. ASSUME NEW m \in Ids, Root(m) PROVE Types'
  <2>1. calls' \in Seq(C) /\ visiting' \in SUBSET Ids
    BY <1>1 DEF Root, Types, Id, NoId
  <2> QED BY <1>1, <2>1 DEF Root, Types, files, registry, kahn, Ids
<1>2. ASSUME calls # <<>>
      PROVE  /\ Call \in C /\ Call = calls[Len(calls)] /\ Len(calls) \in DOMAIN calls
             /\ Advanced \in Seq(C)
  <2>1. Call \in C /\ Call = calls[Len(calls)] /\ Len(calls) \in 1 .. Len(calls)
        /\ DOMAIN calls = 1 .. Len(calls)
    BY <1>0, <1>2, FrontElements, ElementsType DEF Call
  <2>2. Advanced = [calls EXCEPT ![Len(calls)] = [Call EXCEPT !.next = @ + 1]]
    BY <2>1 DEF Advanced
  <2>3. [Call EXCEPT !.next = @ + 1] \in C
    BY <2>1 DEF Id, NoId
  <2> QED BY <1>0, <2>1, <2>2, <2>3, ExceptSeq
<1>3. ASSUME Searching, HasDep PROVE Dep \in Ids
  <2>1. calls # <<>> /\ phase # "load" /\ dependencies \in [Ids -> Seq(Ids)]
    BY <1>3 DEF Searching, Types
  <2>2. Call.id \in Ids /\ Call.next \in Nat \ {0}
    BY <1>2, <2>1 DEF Id, NoId
  <2>3. dependencies[Call.id] \in Seq(Ids) /\ Call.next <= Len(dependencies[Call.id])
    BY <1>3, <2>1, <2>2 DEF HasDep
  <2>4. Call.next \in 1 .. Len(dependencies[Call.id])
    BY <2>2, <2>3
  <2> QED BY <2>3, <2>4, ElementsType DEF Dep
<1>4. ASSUME Descend PROVE Types'
  <2>1. [id |-> Dep, next |-> 1] \in C /\ Dep \in Ids
    BY <1>3, <1>4 DEF Descend, Id, NoId
  <2>2. calls' \in Seq(C)
    BY <1>2, <1>4, <2>1, AppendElements DEF Descend, Searching
  <2> QED BY <1>4, <2>1, <2>2 DEF Descend, Types, files, registry, kahn, Ids
<1>5. ASSUME PassVisited PROVE Types'
  <2>1. calls' \in Seq(C)
    BY <1>2, <1>5 DEF PassVisited, Searching
  <2> QED BY <1>5, <2>1 DEF PassVisited, Types, files, registry, kahn, Ids
<1>6. ASSUME FindCycle PROVE Types'
  <2>1. cycle' = Unwound(Dep) /\ Dep \in Ids
    BY <1>3, <1>6 DEF FindCycle
  <2> DEFINE ids == [i \in DOMAIN calls |-> calls[i].id]
  <2>2. ids \in Seq(Ids)
    <3>1. DOMAIN calls = 1 .. Len(calls) /\ Len(calls) \in Nat /\ \A i \in 1 .. Len(calls) : calls[i] \in C
      BY <1>0, ElementsType
    <3>2. \A i \in 1 .. Len(calls) : calls[i].id \in Ids
      BY <3>1
    <3> QED BY <3>1, <3>2
  <2>3. Reverse(ids) \in Seq(Ids)
    <3> HIDE DEF ids
    <3>1. \A i \in 1 .. Len(ids) : Len(ids) - i + 1 \in 1 .. Len(ids)
      BY <2>2, ElementsType
    <3> QED BY <2>2, <3>1, ElementsType DEF Reverse
  <2>4. Unwound(Dep) = <<Dep>> \o Kept(Reverse(ids), Ids \ {Dep})
    BY DEF Unwound
  <2> HIDE DEF ids
  <2>5. cycle' \in Seq(Ids)
    BY <2>1, <2>3, <2>4, KeptElements, ConcatElements
  <2>6. calls' \in Seq(C)
    BY <1>6 DEF FindCycle
  <2>7. /\ phase = "cycles" /\ phase' = "rejected" /\ errors' = TRUE
        /\ UNCHANGED <<files, to_process, processed, registry, visiting, visited, kahn>>
    BY <1>6 DEF FindCycle, Searching
  <2> QED BY <2>5, <2>6, <2>7 DEF Types, files, registry, kahn, Ids
<1>7. ASSUME Return PROVE Types'
  <2>1. calls # <<>>
    BY <1>7 DEF Return, Searching
  <2>2. calls' \in Seq(C)
    BY <1>0, <1>7, <2>1, FrontElements DEF Return
  <2>3. visited' \in SUBSET Ids /\ visiting' \in SUBSET Ids
    BY <1>2, <1>7, <2>1 DEF Return, Returned, Types
  <2> QED BY <1>7, <2>2, <2>3 DEF Return, Types, files, registry, kahn, Ids
<1> QED BY <1>1, <1>4, <1>5, <1>6, <1>7

LEMMA TypesSort ==
  ASSUME Types, Fresh
  PROVE  /\ BeginSort => Types'
         /\ PopModule => Types'
         /\ Release => Types'
         /\ EndSort => Types'
<1>0. queue \in Seq(Ids) /\ sorted \in Seq(Ids) /\ edge \in Nat \ {0}
  BY DEF Types, Id, NoId
<1>1. ASSUME BeginSort PROVE Types'
  <2>1. queue' \in SetToSeqs({m \in Ids : Degree(m) = 0})
    BY <1>1 DEF BeginSort
  <2>2. IsFiniteSet({m \in Ids : Degree(m) = 0})
    <3>1. IsFiniteSet(Ids)
      BY FS_Interval DEF Types, Ids
    <3> QED BY <3>1, FS_Subset
  <2>3. Cardinality({m \in Ids : Degree(m) = 0}) \in Nat
    BY <2>2, FS_CardinalityType
  <2>4. queue' \in Seq(Ids)
    BY <2>1, <2>3 DEF SetToSeqs
  <2> QED BY <1>1, <2>4 DEF BeginSort, Types, files, registry, search, Ids
<1>2. ASSUME PopModule PROVE Types'
  <2>1. queue' \in Seq(Ids) /\ sorted' \in Seq(Ids) /\ edge' \in Id
    BY <1>0, <1>2, TailElements, AppendElements DEF PopModule, Id, NoId
  <2> QED BY <1>2, <2>1 DEF PopModule, Types, files, registry, search, Ids
<1>3. ASSUME Release PROVE Types'
  <2> DEFINE dep == dependencies[Last(sorted)][edge]
  <2>1. /\ dependencies \in [Ids -> Seq(Ids)] /\ sorted # <<>>
        /\ edge <= Len(dependencies[Last(sorted)])
    BY <1>3 DEF Release, Releasing, Types
  <2>2. dependencies[Last(sorted)] \in Seq(Ids)
    BY <1>0, <2>1, FrontElements
  <2>3. dep \in Ids
    <3>1. edge \in 1 .. Len(dependencies[Last(sorted)])
      BY <1>0, <2>1, <2>2
    <3> QED BY <2>2, <3>1, ElementsType
  <2>4. queue' = IF in_degree[dep] = 1 THEN Append(queue, dep) ELSE queue
    BY <1>3 DEF Release
  <2> HIDE DEF dep
  <2>5. queue' \in Seq(Ids) /\ edge' \in Id
    BY <1>0, <1>3, <2>3, <2>4, AppendElements DEF Release, Id, NoId
  <2> QED BY <1>3, <2>5 DEF Release, Types, files, registry, search, Ids
<1>4. ASSUME EndSort PROVE Types'
  <2>1. Reverse(sorted) \in Seq(Ids)
    <3>1. \A i \in 1 .. Len(sorted) : Len(sorted) - i + 1 \in 1 .. Len(sorted)
      BY <1>0, ElementsType
    <3> QED BY <1>0, <3>1, ElementsType DEF Reverse
  <2>2. sorted' \in Seq(Ids) /\ phase' \in {"sorted", "rejected"} /\ errors' \in BOOLEAN
    BY <1>0, <1>4, <2>1 DEF EndSort, Ordered, Types
  <2> QED BY <1>4, <2>2 DEF EndSort, Types, files, registry, search, Ids
<1> QED BY <1>1, <1>2, <1>3, <1>4

LEMMA TypesStep ==
  ASSUME Types, Fresh, [Next]_vars
  PROVE  Types'
<1>1. ASSUME NEW f \in Files, SkipFile(f) PROVE Types'
  <2>1. to_process' \in Seq(Files)
    BY <1>1, TailElements DEF SkipFile, Loading, Types
  <2> QED BY <1>1, <2>1 DEF SkipFile, Types, files, registry, search, kahn, Ids
<1>2. ASSUME NEW f \in Files, RejectFile(f) PROVE Types'
  <2>1. to_process' \in Seq(Files)
    BY <1>2, TailElements DEF RejectFile, Loading, Types
  <2> QED BY <1>2, <2>1 DEF RejectFile, Types, files, registry, search, kahn, Ids
<1>3. ASSUME NEW f \in Files, LoadFile(f) PROVE Types'
  BY <1>3, TypesLoad
<1>4. ASSUME Link PROVE Types'
  <2>1. dependencies' \in [Ids -> Seq(Ids)]
    BY <1>4, EdgesType DEF Link
  <2> QED BY <1>4, <2>1 DEF Link, Types, files, search, kahn, Ids
<1>5. CASE UNCHANGED vars
  BY <1>5 DEF vars, files, registry, search, kahn, Types, Ids
<1> QED BY <1>1, <1>2, <1>3, <1>4, <1>5, TypesSearch, TypesSort DEF Next

-----------------------------------------------------------------------------
(* The worklist, the names and the edges.                                  *)

\* The steps after the loading leave the files and the registry alone, and an
\* error is never forgotten.
LoadStep == \E f \in Files : SkipFile(f) \/ RejectFile(f) \/ LoadFile(f)

LaterStep ==
  /\ phase # "load" /\ phase' # "load"
  /\ UNCHANGED <<files, to_process, processed, registry>>
  /\ errors => errors'

LEMMA StepKinds ==
  ASSUME Types, [Next]_vars
  PROVE  \/ LoadStep
         \/ Link
         \/ UNCHANGED vars
         \/ LaterStep
<1>1. \A m \in Ids : Root(m) => LaterStep
  BY DEF Root, LaterStep
<1>2. Descend \/ PassVisited \/ FindCycle \/ Return => LaterStep
  BY DEF Descend, PassVisited, FindCycle, Return, Searching, LaterStep
<1>3. BeginSort \/ PopModule \/ Release \/ EndSort => LaterStep
  <2>1. BeginSort \/ PopModule \/ Release => LaterStep
    BY DEF BeginSort, PopModule, Release, LaterStep
  <2>2. EndSort => LaterStep
    BY DEF EndSort, LaterStep
  <2> QED BY <2>1, <2>2
<1> QED BY <1>1, <1>2, <1>3 DEF Next, LoadStep

LEMMA FreshStep ==
  ASSUME Types, Fresh, [Next]_vars
  PROVE  Fresh'
<1>1. ASSUME NEW f \in Files, SkipFile(f) \/ RejectFile(f) \/ LoadFile(f) PROVE Fresh'
  <2>1. phase = "load" /\ phase' = phase /\ UNCHANGED <<search, kahn>>
    BY <1>1 DEF SkipFile, RejectFile, LoadFile, Loading
  <2> QED BY <2>1 DEF Fresh, search, kahn
<1>2. ASSUME Link PROVE Fresh'
  BY <1>2 DEF Link, Fresh, search, kahn
<1>3. ASSUME NEW m \in Ids, Root(m) PROVE Fresh'
  BY <1>3 DEF Root, Fresh, kahn
<1>4. ASSUME Descend \/ PassVisited \/ FindCycle \/ Return PROVE Fresh'
  BY <1>4 DEF Descend, PassVisited, FindCycle, Return, Searching, Fresh, kahn
<1>5. ASSUME BeginSort \/ PopModule \/ Release PROVE Fresh'
  BY <1>5 DEF BeginSort, PopModule, Release, Fresh, search, registry, Ids
<1>6. ASSUME EndSort PROVE Fresh'
  BY <1>6 DEF EndSort, Fresh, search, registry, Ids
<1>7. CASE UNCHANGED vars
  BY <1>7 DEF vars, search, kahn, registry, Fresh, Ids
<1> QED BY <1>1, <1>2, <1>3, <1>4, <1>5, <1>6, <1>7 DEF Next

\* What a file that is loaded adds.
LEMMA LoadAdds ==
  ASSUME Types, Worklist, NEW f \in Files, LoadFile(f)
  PROVE  /\ to_process # <<>> /\ f = Head(to_process) /\ f \notin Loaded
         /\ modules' = Append(modules, f) /\ Loaded' = Loaded \cup {f}
         /\ IsInjective(modules') /\ DOMAIN modules' = 1 .. Len(modules) + 1
         /\ \A i \in Ids : modules'[i] = modules[i]
         /\ modules'[Len(modules) + 1] = f
         /\ name_to_id' = [name_to_id EXCEPT ![stem[f]] = Len(modules) + 1]
         /\ ToSet(to_process') =
              ToSet(Tail(to_process)) \cup (ToSet(imports[f]) \cap Existing)
<1>1. /\ to_process # <<>> /\ f = Head(to_process) /\ f \notin processed
      /\ to_process' = Queued(f)
      /\ f \notin ToSet(modules) =>
           /\ modules' = Append(modules, f)
           /\ name_to_id' = [name_to_id EXCEPT ![stem[f]] = Len(modules) + 1]
  BY DEF LoadFile, Loading, Seen
<1>2. f \notin Loaded
  BY <1>1 DEF Worklist
<1>3. modules \in Seq(Files) /\ to_process \in Seq(Files) /\ imports[f] \in Seq(Files)
  BY DEF Types
<1>4. modules' = Append(modules, f) /\ name_to_id' = [name_to_id EXCEPT ![stem[f]] = Len(modules) + 1]
  BY <1>1, <1>2 DEF Loaded
<1>5. /\ Loaded' = Loaded \cup {f} /\ IsInjective(modules') /\ DOMAIN modules' = 1 .. Len(modules) + 1
      /\ \A i \in Ids : modules'[i] = modules[i]
      /\ modules'[Len(modules) + 1] = f
  BY <1>2, <1>3, <1>4, AppendElements, ElementsType DEF Loaded, Worklist, Ids
<1>6. ToSet(to_process') = ToSet(Tail(to_process)) \cup (ToSet(imports[f]) \cap Existing)
  <2> DEFINE t == Tail(to_process)  k == Kept(imports[f], Existing)
  <2>1. t \in Seq(Files) /\ k \in Seq(Files) /\ ToSet(k) = ToSet(imports[f]) \cap Existing
    BY <1>1, <1>3, TailElements, KeptElements
  <2>2. to_process' = t \o k
    BY <1>1 DEF Queued
  <2> HIDE DEF t, k
  <2>3. ToSet(to_process') = ToSet(t) \cup ToSet(k)
    BY <2>1, <2>2, ConcatElements
  <2> QED BY <2>1, <2>3 DEF t
<1> QED BY <1>1, <1>2, <1>4, <1>5, <1>6

LEMMA WorklistStep ==
  ASSUME Types, Fresh, Worklist, [Next]_vars
  PROVE  Worklist'
<1>1. ASSUME NEW f \in Files, to_process # <<>>, f = Head(to_process)
      PROVE  ToSet(to_process) = {f} \cup ToSet(Tail(to_process))
  BY <1>1, TailElements DEF Types
<1>2. ASSUME NEW f \in Files, SkipFile(f) PROVE Worklist'
  <2>1. /\ to_process # <<>> /\ f = Head(to_process) /\ f \in processed
        /\ to_process' = Tail(to_process)
        /\ UNCHANGED <<files, processed, errors, modules>>
    BY <1>2 DEF SkipFile, Loading, Seen, registry
  <2> QED BY <1>1, <2>1 DEF Worklist, files, Loaded, Closed
<1>3. ASSUME NEW f \in Files, RejectFile(f) PROVE Worklist'
  <2>1. /\ to_process # <<>> /\ f = Head(to_process) /\ errors' = TRUE
        /\ to_process' = Tail(to_process) /\ processed' = processed \cup {f}
        /\ UNCHANGED <<files, modules>>
    BY <1>3 DEF RejectFile, Loading, registry
  <2> QED BY <1>1, <2>1 DEF Worklist, files, Loaded, Closed
<1>4. ASSUME NEW f \in Files, LoadFile(f) PROVE Worklist'
  <2>1. /\ to_process # <<>> /\ f = Head(to_process) /\ f \notin Loaded
        /\ Loaded' = Loaded \cup {f} /\ IsInjective(modules')
        /\ ToSet(to_process') = ToSet(Tail(to_process)) \cup (ToSet(imports[f]) \cap Existing)
    BY <1>4, LoadAdds
  <2>2. /\ content[f] = "good" /\ ~errors /\ processed' = processed \cup {f}
        /\ errors' = (\E i \in DOMAIN imports[f] : imports[f][i] \notin Existing)
        /\ UNCHANGED <<content, imports, inputs>>
    BY <1>4 DEF LoadFile, files
  <2>3. ToSet(to_process) = {f} \cup ToSet(Tail(to_process))
    BY <1>1, <2>1
  <2>4. ~errors' => ToSet(imports[f]) \subseteq Existing
    BY <2>2 DEF ToSet
  <2>5. \A g \in Loaded' : content'[g] = "good" /\ g \in processed'
    BY <2>1, <2>2 DEF Worklist
  <2>6. ~errors' =>
          /\ processed' \subseteq Loaded'
          /\ ToSet(inputs') \subseteq processed' \cup ToSet(to_process')
          /\ \A g \in Loaded' : ToSet(imports'[g]) \subseteq processed' \cup ToSet(to_process')
    BY <2>1, <2>2, <2>3, <2>4 DEF Worklist
  <2>7. ASSUME NEW S \in SUBSET Files, ToSet(inputs') \subseteq S, Closed(S)'
        PROVE  Loaded' \cup ToSet(to_process') \subseteq S
    <3>1. Closed(S) /\ ToSet(inputs) \subseteq S
      BY <2>2, <2>7 DEF Closed
    <3>2. Loaded \cup ToSet(to_process) \subseteq S
      BY <3>1 DEF Worklist
    <3>3. ToSet(imports[f]) \subseteq S
      BY <2>3, <3>1, <3>2 DEF Closed
    <3> QED BY <2>1, <2>3, <3>2, <3>3
  <2> QED BY <2>1, <2>5, <2>6, <2>7 DEF Worklist
<1>5. ASSUME UNCHANGED <<files, to_process, processed, modules>>, errors => errors' PROVE Worklist'
  BY <1>5 DEF Worklist, files, Loaded, Closed
<1>6. CASE Link
  BY <1>5, <1>6 DEF Link
<1>7. CASE LaterStep
  BY <1>5, <1>7 DEF LaterStep, registry
<1>8. CASE UNCHANGED vars
  BY <1>5, <1>8 DEF vars, registry
<1> QED BY <1>2, <1>3, <1>4, <1>6, <1>7, <1>8, StepKinds DEF LoadStep

LEMMA NamedStep ==
  ASSUME Types, Fresh, Worklist, Named, [Next]_vars
  PROVE  Named'
<1>1. ASSUME UNCHANGED <<stem, modules, name_to_id>> PROVE Named'
  BY <1>1 DEF Named, Loaded, Ids
<1>2. ASSUME NEW f \in Files, LoadFile(f) PROVE Named'
  <2> SUFFICES ASSUME ~SameStem, NEW g \in Files
               PROVE  /\ stem'[g] = g
                      /\ IF g \in Loaded' THEN name_to_id'[g] \in Ids' /\ modules'[name_to_id'[g]] = g
                                          ELSE name_to_id'[g] = NoId
    BY DEF Named
  <2>1. /\ f \notin Loaded /\ Loaded' = Loaded \cup {f}
        /\ DOMAIN modules' = 1 .. Len(modules) + 1
        /\ \A i \in Ids : modules'[i] = modules[i]
        /\ modules'[Len(modules) + 1] = f
        /\ name_to_id' = [name_to_id EXCEPT ![stem[f]] = Len(modules) + 1]
    BY <1>2, LoadAdds
  <2>2. stem' = stem /\ stem[f] = f /\ stem[g] = g
    BY <1>2 DEF LoadFile, files, Named
  <2>3. Len(modules) \in Nat /\ Ids = 1 .. Len(modules) /\ name_to_id \in [Files -> Ids \cup {NoId}]
    BY DEF Types, Ids
  <2>4. Ids \subseteq Ids' /\ Len(modules) + 1 \in Ids'
    <3>1. Ids' = 1 .. Len(modules) + 1
      BY <2>1 DEF Ids
    <3> QED BY <2>3, <3>1
  <2>5. CASE g = f
    <3>1. name_to_id'[g] = Len(modules) + 1
      BY <2>1, <2>2, <2>3, <2>5
    <3> QED BY <2>1, <2>2, <2>4, <2>5, <3>1
  <2>6. CASE g # f
    <3>1. name_to_id'[g] = name_to_id[g]
      BY <2>1, <2>2, <2>3, <2>6
    <3> QED BY <2>1, <2>2, <2>4, <2>6, <3>1 DEF Named
  <2> QED BY <2>5, <2>6
<1>3. ASSUME NEW f \in Files, SkipFile(f) \/ RejectFile(f) PROVE Named'
  BY <1>1, <1>3 DEF SkipFile, RejectFile, files, registry
<1>4. CASE Link
  BY <1>1, <1>4 DEF Link, files
<1>5. CASE LaterStep
  BY <1>1, <1>5 DEF LaterStep, files, registry
<1>6. CASE UNCHANGED vars
  BY <1>1, <1>6 DEF vars, files, registry
<1> QED BY <1>2, <1>3, <1>4, <1>5, <1>6, StepKinds DEF LoadStep

LEMMA EdgesStep ==
  ASSUME Types, Fresh, Worklist, Named, EdgesAreImports, [Next]_vars
  PROVE  EdgesAreImports'
<1>1. ASSUME Link PROVE EdgesAreImports'
  <2> SUFFICES ASSUME ~SameStem, NEW m \in Ids
               PROVE  /\ \A n \in Deps(m)' : modules[n] \in ToSet(imports[modules[m]])
                      /\ ~errors => \A f \in ToSet(imports[modules[m]]) :
                                      \E n \in Deps(m)' : modules[n] = f
    BY <1>1 DEF EdgesAreImports, Link, files, Ids
  <2>1. modules[m] \in Files /\ ToSet(imports[modules[m]]) \subseteq Files /\ modules[m] \in Loaded
    BY ElementsType DEF Types, Ids, Loaded
  <2>2. Deps(m)' = ToSet(Edges(modules[m]))
    BY <1>1 DEF Deps, Link
  <2>3. Deps(m)' = {name_to_id[g] : g \in {h \in ToSet(imports[modules[m]]) : name_to_id[h] # NoId}}
    <3> DEFINE I == ToSet(imports[modules[m]])
    <3>1. \A g \in I : stem[g] = g
      BY <2>1 DEF Named
    <3>2. Deps(m)' = {name_to_id[stem[g]] : g \in {h \in I : name_to_id[stem[h]] # NoId}}
      BY <2>2, EdgesType
    <3> HIDE DEF I
    <3> QED BY <3>1, <3>2 DEF I
  <2>4. \A n \in Deps(m)' : modules[n] \in ToSet(imports[modules[m]])
    BY <2>1, <2>3 DEF Named
  <2>5. ASSUME ~errors, NEW f \in ToSet(imports[modules[m]])
        PROVE  \E n \in Deps(m)' : modules[n] = f
    <3>1. f \in Loaded /\ f \in Files
      <4>1. ToSet(to_process) = {}
        BY <1>1 DEF Link, ToSet
      <4> QED BY <2>1, <2>5, <4>1 DEF Worklist
    <3>2. name_to_id[f] \in Ids /\ modules[name_to_id[f]] = f /\ name_to_id[f] # NoId
      BY <3>1 DEF Named, Types, Ids, NoId
    <3> QED BY <2>3, <2>5, <3>2
  <2> QED BY <2>4, <2>5
<1>2. ASSUME phase' # "load" => phase # "load",
             UNCHANGED <<imports, modules, dependencies>>, errors => errors'
      PROVE  EdgesAreImports'
  BY <1>2 DEF EdgesAreImports, Deps, Ids
<1>3. CASE LoadStep
  <2>1. phase' = "load"
    BY <1>3 DEF LoadStep, SkipFile, RejectFile, LoadFile, Loading
  <2> QED BY <2>1 DEF EdgesAreImports
<1>4. CASE LaterStep
  BY <1>2, <1>4 DEF LaterStep, files, registry
<1>5. CASE UNCHANGED vars
  BY <1>2, <1>5 DEF vars, files, registry
<1> QED BY <1>1, <1>3, <1>4, <1>5, StepKinds

-----------------------------------------------------------------------------
(* The search for cycles.                                                  *)

\* The innermost call, and the stack after it has taken its next import.
LEMMA CallFacts ==
  ASSUME Types, calls # <<>>
  PROVE  LET n == Len(calls) IN
         /\ n \in Nat \ {0} /\ DOMAIN calls = 1 .. n
         /\ \A i \in 1 .. n : calls[i].id \in Ids /\ calls[i].next \in Nat \ {0}
         /\ Call = calls[n]
         /\ Advanced \in Seq([id : Ids, next : Id]) /\ Len(Advanced) = n
         /\ DOMAIN Advanced = 1 .. n
         /\ \A i \in 1 .. n - 1 : Advanced[i] = calls[i]
         /\ Advanced[n].id = calls[n].id /\ Advanced[n].next = calls[n].next + 1
<1> DEFINE n == Len(calls)  C == [id : Ids, next : Id]
<1>1. calls \in Seq(C) /\ n \in Nat \ {0} /\ DOMAIN calls = 1 .. n /\ \A i \in 1 .. n : calls[i] \in C
  <2>1. calls \in Seq(C)
    BY DEF Types
  <2> HIDE DEF C
  <2> QED BY <2>1, EmptySeq, ElementsType
<1>2. \A c \in C : c.id \in Ids /\ c.next \in Nat \ {0}
  BY DEF Id, NoId
<1>3. Advanced = [calls EXCEPT ![n] = [calls[n] EXCEPT !.next = @ + 1]]
  BY <1>1 DEF Advanced
<1>4. [calls[n] EXCEPT !.next = @ + 1] \in C
  BY <1>1 DEF Id, NoId
<1>5. /\ [calls[n] EXCEPT !.next = @ + 1].id = calls[n].id
      /\ [calls[n] EXCEPT !.next = @ + 1].next = calls[n].next + 1
  BY <1>1
<1>6. /\ Advanced \in Seq(C) /\ Len(Advanced) = n /\ DOMAIN Advanced = 1 .. n
      /\ \A i \in 1 .. n : Advanced[i] = IF i = n THEN [calls[n] EXCEPT !.next = @ + 1] ELSE calls[i]
  BY <1>1, <1>3, <1>4, ExceptSeq
<1>7. Call = calls[n]
  BY DEF Call, Last
<1> HIDE DEF n
<1>8. n \in 1 .. n /\ \A i \in 1 .. n - 1 : i \in 1 .. n /\ i # n
  BY <1>1
<1> QED BY <1>1, <1>2, <1>5, <1>6, <1>7, <1>8 DEF n

LEMMA DepFacts ==
  ASSUME Types, Searching, HasDep
  PROVE  /\ dependencies[Call.id] \in Seq(Ids)
         /\ Call.next \in 1 .. Len(dependencies[Call.id])
         /\ Dep = dependencies[Call.id][Call.next]
         /\ Dep \in Ids /\ Dep \in Deps(Call.id)
<1>1. calls # <<>> /\ dependencies \in [Ids -> Seq(Ids)]
  BY DEF Searching, Types
<1>2. Call.id \in Ids /\ Call.next \in Nat \ {0}
  BY <1>1, CallFacts
<1>3. dependencies[Call.id] \in Seq(Ids) /\ Call.next <= Len(dependencies[Call.id])
  BY <1>1, <1>2 DEF HasDep
<1>4. Call.next \in 1 .. Len(dependencies[Call.id])
  BY <1>2, <1>3
<1> QED BY <1>3, <1>4, ElementsType DEF Dep, Deps

\* The parts of SearchPath.
PathOnce ==
  /\ visiting = {calls[i].id : i \in DOMAIN calls}
  /\ visiting \cap visited = {}
  /\ \A i, j \in DOMAIN calls : calls[i].id = calls[j].id => i = j

Behind(i) ==
  /\ calls[i].next <= Len(dependencies[calls[i].id]) + 1
  /\ \A k \in 1 .. calls[i].next - 1 :
       \/ dependencies[calls[i].id][k] \in visited
       \/ i < Len(calls) /\ dependencies[calls[i].id][k] = calls[i + 1].id
  /\ i < Len(calls) => calls[i + 1].id \in Deps(calls[i].id)

LEMMA PathParts ==
  SearchPath <=> (phase = "cycles" => PathOnce /\ \A i \in DOMAIN calls : Behind(i))
BY DEF SearchPath, PathOnce, Behind

LEMMA PathDescends ==
  ASSUME Types, PathOnce, \A i \in DOMAIN calls : Behind(i), Descend
  PROVE  PathOnce' /\ \A i \in DOMAIN calls' : Behind(i)'
<1>0. PICK n : n = Len(calls)
  OBVIOUS
<1> DEFINE last == [id |-> Dep, next |-> 1]
<1>1. calls # <<>> /\ Searching /\ HasDep /\ Dep \notin visiting \cup visited
      /\ calls' = Append(Advanced, last) /\ visiting' = visiting \cup {Dep}
      /\ UNCHANGED <<dependencies, visited>>
  BY DEF Descend, Searching, registry
<1>2. /\ n \in Nat \ {0} /\ DOMAIN calls = 1 .. n
      /\ \A i \in 1 .. n : calls[i].id \in Ids /\ calls[i].next \in Nat \ {0}
      /\ Call = calls[n]
      /\ Advanced \in Seq([id : Ids, next : Id]) /\ Len(Advanced) = n
      /\ \A i \in 1 .. n - 1 : Advanced[i] = calls[i]
      /\ Advanced[n].id = calls[n].id /\ Advanced[n].next = calls[n].next + 1
  BY <1>0, <1>1, CallFacts
<1>3. /\ dependencies[Call.id] \in Seq(Ids)
      /\ Call.next \in 1 .. Len(dependencies[Call.id])
      /\ Dep = dependencies[Call.id][Call.next] /\ Dep \in Ids /\ Dep \in Deps(Call.id)
  BY <1>1, DepFacts
<1>4. last \in [id : Ids, next : Id]
  BY <1>3 DEF Id, NoId
<1>5. /\ DOMAIN calls' = 1 .. n + 1 /\ Len(calls') = n + 1
      /\ \A i \in 1 .. n - 1 : calls'[i] = calls[i]
      /\ calls'[n].id = calls[n].id /\ calls'[n].next = calls[n].next + 1
      /\ calls'[n + 1].id = Dep /\ calls'[n + 1].next = 1
  <2>1. /\ DOMAIN calls' = 1 .. n + 1 /\ Len(calls') = n + 1
        /\ \A i \in 1 .. n : calls'[i] = Advanced[i]
        /\ calls'[n + 1] = last
    BY <1>1, <1>2, <1>4, AppendElements
  <2>2. \A i \in 1 .. n - 1 : i \in 1 .. n
    BY <1>2
  <2> QED BY <1>2, <2>1, <2>2
<1> HIDE DEF last
<1>6. \A i \in 1 .. n : calls'[i].id = calls[i].id
  <2> TAKE i \in 1 .. n
  <2>1. i \in 1 .. n - 1 \/ i = n
    BY <1>2
  <2> QED BY <1>5, <2>1
<1>7. \A i \in 1 .. n + 1 : i \in 1 .. n \/ i = n + 1
  BY <1>2
<1>8. PathOnce'
  <2>1. visiting' = {calls'[i].id : i \in 1 .. n + 1}
    <3>1. n + 1 \in 1 .. n + 1 /\ \A i \in 1 .. n : i \in 1 .. n + 1
      BY <1>2
    <3>2. {calls'[i].id : i \in 1 .. n + 1} = {calls[i].id : i \in 1 .. n} \cup {Dep}
      BY <1>5, <1>6, <1>7, <3>1
    <3> QED BY <1>1, <1>2, <3>2 DEF PathOnce
  <2>2. visiting' \cap visited' = {}
    BY <1>1 DEF PathOnce
  <2>3. \A i, j \in 1 .. n + 1 : calls'[i].id = calls'[j].id => i = j
    <3>1. \A i \in 1 .. n : calls[i].id # Dep
      BY <1>1, <1>2 DEF PathOnce
    <3> QED BY <1>2, <1>5, <1>6, <1>7, <3>1 DEF PathOnce
  <2> QED BY <1>5, <2>1, <2>2, <2>3 DEF PathOnce
<1>9. ASSUME NEW i \in 1 .. n - 1 PROVE Behind(i)'
  <2>1. /\ i \in 1 .. n /\ i + 1 \in 1 .. n /\ i < n /\ i < n + 1
    BY <1>2
  <2>2. calls'[i] = calls[i] /\ calls'[i + 1].id = calls[i + 1].id
    BY <1>5, <1>6, <2>1
  <2>3. Behind(i)
    BY <1>2, <2>1
  <2> QED BY <1>0, <1>1, <1>5, <2>1, <2>2, <2>3 DEF Behind, Deps
<1>10. Behind(n)'
  <2>1. n \in 1 .. n /\ ~(n < n) /\ n < n + 1
    BY <1>2
  <2>2. Behind(n)
    BY <1>2, <2>1
  <2>3. \A k \in 1 .. calls[n].next - 1 : dependencies[calls[n].id][k] \in visited
    BY <1>0, <2>1, <2>2 DEF Behind
  <2>4. calls'[n].next <= Len(dependencies[calls[n].id]) + 1
    BY <1>2, <1>3, <1>5, <2>1
  <2>5. \A k \in 1 .. calls'[n].next - 1 : k \in 1 .. calls[n].next - 1 \/ k = calls[n].next
    BY <1>2, <1>5, <2>1
  <2>6. calls'[n + 1].id \in Deps(calls'[n].id)
    BY <1>2, <1>3, <1>5
  <2>7. \A k \in 1 .. calls'[n].next - 1 :
          \/ dependencies[calls[n].id][k] \in visited
          \/ dependencies[calls[n].id][k] = calls'[n + 1].id
    BY <1>2, <1>3, <1>5, <2>3, <2>5
  <2> QED BY <1>0, <1>1, <1>5, <2>1, <2>4, <2>6, <2>7 DEF Behind, Deps
<1>11. Behind(n + 1)'
  <2>1. dependencies[Dep] \in Seq(Ids)
    BY <1>1, <1>3 DEF Types, Searching
  <2>2. Len(dependencies[Dep]) \in Nat
    BY <2>1
  <2>3. ~(n + 1 < n + 1) /\ 1 .. 1 - 1 = {}
    BY <1>2
  <2> QED BY <1>1, <1>5, <2>2, <2>3 DEF Behind
<1>12. \A i \in 1 .. n + 1 : i \in 1 .. n - 1 \/ i = n \/ i = n + 1
  BY <1>2
<1> QED BY <1>5, <1>8, <1>9, <1>10, <1>11, <1>12

LEMMA PathPasses ==
  ASSUME Types, PathOnce, \A i \in DOMAIN calls : Behind(i), PassVisited
  PROVE  PathOnce' /\ \A i \in DOMAIN calls' : Behind(i)'
<1>0. PICK n : n = Len(calls)
  OBVIOUS
<1>1. calls # <<>> /\ Searching /\ HasDep /\ Dep \in visited
      /\ calls' = Advanced /\ UNCHANGED <<dependencies, visited, visiting>>
  BY DEF PassVisited, Searching, registry
<1>2. /\ n \in Nat \ {0} /\ DOMAIN calls = 1 .. n
      /\ \A i \in 1 .. n : calls[i].id \in Ids /\ calls[i].next \in Nat \ {0}
      /\ Call = calls[n]
      /\ Len(calls') = n /\ DOMAIN calls' = 1 .. n
      /\ \A i \in 1 .. n - 1 : calls'[i] = calls[i]
      /\ calls'[n].id = calls[n].id /\ calls'[n].next = calls[n].next + 1
  BY <1>0, <1>1, CallFacts
<1>3. /\ Call.next \in 1 .. Len(dependencies[Call.id])
      /\ Dep = dependencies[Call.id][Call.next] /\ dependencies[Call.id] \in Seq(Ids)
  BY <1>1, DepFacts
<1>4. \A i \in 1 .. n : calls'[i].id = calls[i].id
  <2> TAKE i \in 1 .. n
  <2>1. i \in 1 .. n - 1 \/ i = n
    BY <1>2
  <2> QED BY <1>2, <2>1
<1>5. PathOnce'
  <2>1. {calls'[i].id : i \in 1 .. n} = {calls[i].id : i \in 1 .. n}
    BY <1>4
  <2> QED BY <1>1, <1>2, <1>4, <2>1 DEF PathOnce
<1>6. ASSUME NEW i \in 1 .. n - 1 PROVE Behind(i)'
  <2>1. i \in 1 .. n /\ i + 1 \in 1 .. n /\ i < n
    BY <1>2
  <2>2. calls'[i] = calls[i] /\ calls'[i + 1].id = calls[i + 1].id
    BY <1>2, <1>4, <2>1
  <2>3. Behind(i)
    BY <1>2, <2>1
  <2> QED BY <1>0, <1>1, <1>2, <2>1, <2>2, <2>3 DEF Behind, Deps
<1>7. Behind(n)'
  <2>1. n \in 1 .. n /\ ~(n < n)
    BY <1>2
  <2>2. Behind(n)
    BY <1>2, <2>1
  <2>3. \A k \in 1 .. calls[n].next - 1 : dependencies[calls[n].id][k] \in visited
    BY <1>0, <2>1, <2>2 DEF Behind
  <2>4. calls'[n].next <= Len(dependencies[calls[n].id]) + 1
    BY <1>2, <1>3, <2>1
  <2>5. \A k \in 1 .. calls'[n].next - 1 : k \in 1 .. calls[n].next - 1 \/ k = calls[n].next
    BY <1>2, <2>1
  <2>6. \A k \in 1 .. calls'[n].next - 1 : dependencies[calls[n].id][k] \in visited
    BY <1>1, <1>2, <1>3, <2>3, <2>5
  <2> QED BY <1>1, <1>2, <2>1, <2>4, <2>6 DEF Behind
<1>8. \A i \in 1 .. n : i \in 1 .. n - 1 \/ i = n
  BY <1>2
<1> QED BY <1>2, <1>5, <1>6, <1>7, <1>8

LEMMA PathReturns ==
  ASSUME Types, PathOnce, \A i \in DOMAIN calls : Behind(i), Return
  PROVE  PathOnce' /\ \A i \in DOMAIN calls' : Behind(i)'
<1>0. PICK n : n = Len(calls)
  OBVIOUS
<1>1. calls # <<>> /\ Searching /\ ~HasDep
      /\ calls' = Front(calls) /\ visiting' = visiting \ {Call.id}
      /\ visited' = visited \cup {Call.id} /\ UNCHANGED dependencies
  BY DEF Return, Returned, Searching, registry
<1>2. /\ n \in Nat \ {0} /\ DOMAIN calls = 1 .. n
      /\ \A i \in 1 .. n : calls[i].id \in Ids /\ calls[i].next \in Nat \ {0}
      /\ Call = calls[n]
  BY <1>0, <1>1, CallFacts
<1>3. /\ Len(calls') = n - 1 /\ DOMAIN calls' = 1 .. n - 1
      /\ \A i \in 1 .. n - 1 : calls'[i] = calls[i]
  BY <1>0, <1>1, FrontElements DEF Types
<1>4. \A i \in 1 .. n - 1 : i \in 1 .. n /\ i # n /\ i + 1 \in 1 .. n /\ i < n
  BY <1>2
<1>5. n \in 1 .. n /\ \A i \in 1 .. n : i \in 1 .. n - 1 \/ i = n
  BY <1>2
<1>6. PathOnce'
  <2>1. \A i \in 1 .. n - 1 : calls[i].id # calls[n].id
    BY <1>2, <1>4, <1>5 DEF PathOnce
  <2>2. visiting' = {calls'[i].id : i \in 1 .. n - 1}
    <3>1. visiting = {calls[i].id : i \in 1 .. n}
      BY <1>2 DEF PathOnce
    <3>2. {calls[i].id : i \in 1 .. n} = {calls[i].id : i \in 1 .. n - 1} \cup {calls[n].id}
      BY <1>4, <1>5
    <3>3. \A i \in 1 .. n - 1 : calls'[i].id = calls[i].id
      BY <1>3
    <3>4. {calls'[i].id : i \in 1 .. n - 1} = {calls[i].id : i \in 1 .. n - 1}
      BY <3>3
    <3>5. calls[n].id \notin {calls[i].id : i \in 1 .. n - 1}
      BY <2>1
    <3> QED BY <1>1, <1>2, <3>1, <3>2, <3>4, <3>5
  <2>3. visiting' \cap visited' = {}
    BY <1>1 DEF PathOnce
  <2> QED BY <1>2, <1>3, <1>4, <2>2, <2>3 DEF PathOnce
<1>7. ASSUME NEW i \in 1 .. n - 1 PROVE Behind(i)'
  <2>1. Behind(i) /\ i < n
    BY <1>2, <1>4
  <2>2. calls'[i] = calls[i] /\ visited \subseteq visited' /\ calls[n].id \in visited'
    BY <1>1, <1>2, <1>3
  <2>3. i < n - 1 => calls'[i + 1] = calls[i + 1]
    <3> HAVE i < n - 1
    <3>1. i + 1 \in 1 .. n - 1
      BY <1>2
    <3> QED BY <1>3, <3>1
  <2>4. ~(i < n - 1) => calls[i + 1].id \in visited'
    <3> HAVE ~(i < n - 1)
    <3>1. i + 1 = n
      BY <1>2
    <3> QED BY <2>2, <3>1
  <2> QED BY <1>0, <1>1, <1>3, <2>1, <2>2, <2>3, <2>4 DEF Behind, Deps
<1> QED BY <1>3, <1>6, <1>7

LEMMA PathStep ==
  ASSUME Types, Fresh, SearchPath, [Next]_vars
  PROVE  SearchPath'
<1>1. CASE phase = "cycles" /\ phase' = "cycles"
  <2>1. PathOnce /\ \A i \in DOMAIN calls : Behind(i)
    BY <1>1, PathParts
  <2>2. ASSUME UNCHANGED <<calls, visiting, visited, dependencies>> PROVE SearchPath'
    BY <1>1, <2>2 DEF SearchPath, Deps
  <2>3. ASSUME NEW m \in Ids, Root(m) PROVE PathOnce' /\ \A i \in DOMAIN calls' : Behind(i)'
    <3>1. /\ m \notin visited /\ calls = <<>> /\ calls' = <<[id |-> m, next |-> 1]>>
          /\ visiting' = visiting \cup {m} /\ UNCHANGED <<visited, dependencies>>
      BY <2>3 DEF Root, registry
    <3>2. visiting = {}
      BY <2>1, <3>1 DEF PathOnce
    <3>3. DOMAIN calls' = {1} /\ Len(calls') = 1 /\ calls'[1].id = m /\ calls'[1].next = 1
      BY <3>1
    <3>4. PathOnce'
      BY <3>1, <3>2, <3>3 DEF PathOnce
    <3>5. Len(dependencies[m]) \in Nat
      BY <1>1 DEF Types
    <3>6. Behind(1)'
      BY <3>1, <3>3, <3>5 DEF Behind
    <3> QED BY <3>3, <3>4, <3>6
  <2>4. CASE UNCHANGED vars
    BY <2>2, <2>4 DEF vars, search, registry
  <2>5. ~LoadStep /\ ~Link
    BY <1>1 DEF LoadStep, SkipFile, RejectFile, LoadFile, Loading, Link
  <2>6. ~FindCycle /\ ~BeginSort /\ ~PopModule /\ ~Release /\ ~EndSort
    BY <1>1 DEF FindCycle, BeginSort, PopModule, Release, EndSort
  <2>7. (\E m \in Ids : Root(m)) \/ Descend \/ PassVisited \/ Return \/ UNCHANGED vars
    BY <2>5, <2>6 DEF Next, LoadStep
  <2>8. (Descend \/ PassVisited \/ Return) => PathOnce' /\ \A i \in DOMAIN calls' : Behind(i)'
    BY <2>1, PathDescends, PathPasses, PathReturns
  <2>9. (PathOnce' /\ \A i \in DOMAIN calls' : Behind(i)') => SearchPath'
    BY DEF SearchPath, PathOnce, Behind
  <2> QED BY <2>3, <2>4, <2>7, <2>8, <2>9
<1>2. CASE phase # "cycles" /\ phase' = "cycles"
  <2>1. Link
    BY <1>2 DEF Next, vars, SkipFile, RejectFile, LoadFile, Loading, Root, Descend, PassVisited,
       FindCycle, Return, Searching, BeginSort, PopModule, Release, EndSort
  <2>2. calls' = <<>> /\ visiting' = {} /\ visited' = {}
    BY <2>1 DEF Link, Fresh, search
  <2> QED BY <2>2 DEF SearchPath
<1> QED BY <1>1, <1>2 DEF SearchPath

-----------------------------------------------------------------------------
(* What was visited has no cycle, and what is rejected has one.            *)

LEMMA AcyclicStep ==
  ASSUME Types, Fresh, SearchPath, VisitedAcyclic, [Next]_vars
  PROVE  VisitedAcyclic'
<1>1. ASSUME phase' \in {"cycles", "sort", "sorted"} => phase \in {"cycles", "sort", "sorted"},
             UNCHANGED <<visited, dependencies>>
      PROVE  VisitedAcyclic'
  BY <1>1 DEF VisitedAcyclic, Deps
<1>2. CASE LoadStep
  <2>1. phase' = "load"
    BY <1>2 DEF LoadStep, SkipFile, RejectFile, LoadFile, Loading
  <2> QED BY <2>1 DEF VisitedAcyclic
<1>3. CASE Link
  <2>1. visited' = {}
    BY <1>3 DEF Link, Fresh, search
  <2> QED BY <2>1 DEF VisitedAcyclic
<1>4. ASSUME NEW m \in Ids, Root(m) PROVE VisitedAcyclic'
  BY <1>1, <1>4 DEF Root, registry
<1>5. CASE Descend \/ PassVisited \/ FindCycle
  BY <1>1, <1>5 DEF Descend, PassVisited, FindCycle, Searching, registry
<1>6. CASE BeginSort \/ PopModule \/ Release \/ EndSort
  BY <1>1, <1>6 DEF BeginSort, PopModule, Release, EndSort, registry, search
<1>7. CASE UNCHANGED vars
  BY <1>1, <1>7 DEF vars, registry, search
<1>8. CASE Return
  <2> DEFINE c == Call.id
  <2>1. /\ phase = "cycles" /\ calls # <<>> /\ ~HasDep
        /\ visited' = visited \cup {c} /\ UNCHANGED dependencies
    BY <1>8 DEF Return, Searching, registry
  <2>2. /\ Len(calls) \in 1 .. Len(calls) /\ DOMAIN calls = 1 .. Len(calls)
        /\ Call = calls[Len(calls)] /\ c \in Ids /\ Call.next \in Nat \ {0}
    BY <2>1, CallFacts
  <2>3. PathOnce /\ Behind(Len(calls))
    BY <2>1, <2>2, PathParts
  <2>4. dependencies[c] \in Seq(Ids)
    BY <2>1, <2>2 DEF Types
  <2>5. c \notin visited
    BY <2>2, <2>3 DEF PathOnce
  <2>6. Deps(c) \subseteq visited
    <3> DEFINE d == dependencies[c]
    <3>1. Call.next = Len(d) + 1
      BY <2>1, <2>2, <2>3, <2>4 DEF HasDep, Behind
    <3>2. ASSUME NEW k \in 1 .. Len(d) PROVE d[k] \in visited
      <4>1. k \in 1 .. Call.next - 1
        BY <2>4, <3>1
      <4> QED BY <2>2, <2>3, <4>1 DEF Behind
    <3> QED BY <2>4, <3>2, ElementsType DEF Deps
  <2> HIDE DEF c
  <2>7. \A m \in visited : Deps(m) \subseteq visited
    BY <2>1 DEF VisitedAcyclic
  <2>8. \A m \in visited' : Deps(m)' \subseteq visited'
    BY <2>1, <2>6, <2>7 DEF Deps
  <2>9. ASSUME NEW S \in SUBSET visited', S # {}
        PROVE  /\ \E m \in S : \A n \in S : m \notin Deps(n)
               /\ \E m \in S : Deps(m) \cap S = {}
    <3>1. CASE c \notin S
      <4>1. S \in SUBSET visited
        BY <2>1, <3>1
      <4> QED BY <2>1, <2>9, <4>1 DEF VisitedAcyclic
    <3>2. CASE c \in S
      <4>1. \A n \in S : c \notin Deps(n)
        BY <2>1, <2>5, <2>6, <2>7
      <4>2. CASE S = {c}
        BY <2>5, <2>6, <3>2, <4>1, <4>2
      <4>3. CASE S # {c}
        <5>1. S \ {c} \in SUBSET visited /\ S \ {c} # {}
          BY <2>1, <3>2, <4>3
        <5>2. PICK m \in S \ {c} : Deps(m) \cap (S \ {c}) = {}
          BY <2>1, <5>1 DEF VisitedAcyclic
        <5>3. Deps(m) \cap S = {}
          BY <4>1, <5>2
        <5> QED BY <3>2, <4>1, <5>3
      <4> QED BY <4>2, <4>3
    <3> QED BY <3>1, <3>2
  <2>10. \A m : Deps(m)' = Deps(m)
    BY <2>1 DEF Deps
  <2> QED BY <2>8, <2>9, <2>10 DEF VisitedAcyclic
<1> QED BY <1>2, <1>3, <1>4, <1>5, <1>6, <1>7, <1>8 DEF Next, LoadStep

\* Imported is closed, and holds what it starts from.
LEMMA ImportedClosed ==
  ASSUME Types, NEW A \in SUBSET Files
  PROVE  A \subseteq Imported(A) /\ Imported(A) \in SUBSET Files /\ Closed(Imported(A))
<1>1. ASSUME NEW f \in Imported(A), NEW g \in ToSet(imports[f]) PROVE g \in Imported(A)
  <2>1. f \in Files /\ g \in Files
    BY <1>1, ElementsType DEF Imported, Types
  <2>2. ASSUME NEW S \in SUBSET Files, A \subseteq S, Closed(S) PROVE g \in S
    <3>1. f \in S
      BY <1>1, <2>2 DEF Imported
    <3> QED BY <1>1, <2>2, <3>1 DEF Closed
  <2> QED BY <2>1, <2>2 DEF Imported
<1> QED BY <1>1 DEF Imported, Closed

\* What is imported is one of the files at the start or imported by one of them.
LEMMA ImportedThrough ==
  ASSUME Types, NEW A \in SUBSET Files, NEW f \in Imported(A)
  PROVE  f \in A \/ \E a \in A : f \in Imported(ToSet(imports[a]))
<1> DEFINE U == A \cup UNION {Imported(ToSet(imports[a])) : a \in A}
<1>1. \A a \in Files : ToSet(imports[a]) \in SUBSET Files
  BY ElementsType DEF Types
<1>2. U \in SUBSET Files
  BY DEF Imported
<1>3. ASSUME NEW g \in U PROVE ToSet(imports[g]) \subseteq U
  <2>1. CASE g \in A
    BY <1>1, <2>1, ImportedClosed
  <2>2. CASE g \notin A
    <3>1. PICK a \in A : g \in Imported(ToSet(imports[a]))
      BY <2>2
    <3>2. ToSet(imports[g]) \subseteq Imported(ToSet(imports[a]))
      BY <1>1, <3>1, ImportedClosed DEF Closed
    <3> QED BY <3>2
  <2> QED BY <2>1, <2>2
<1>4. f \in U
  <2>1. A \subseteq U /\ Closed(U)
    BY <1>3 DEF Closed
  <2> HIDE DEF U
  <2> QED BY <1>2, <2>1 DEF Imported
<1> QED BY <1>4

\* On the path of the search from a module back to itself every file is imported.
LEMMA FoundIsCycle ==
  ASSUME Types, Worklist, EdgesAreImports, SearchPath, ~SameStem, FindCycle
  PROVE  \E f \in Loaded : OnCycle(f)
<1>0. PICK n : n = Len(calls)
  OBVIOUS
<1>1. calls # <<>> /\ Searching /\ HasDep /\ Dep \in visiting /\ phase = "cycles"
  BY DEF FindCycle, Searching
<1>2. /\ n \in Nat \ {0} /\ DOMAIN calls = 1 .. n
      /\ \A i \in 1 .. n : calls[i].id \in Ids /\ calls[i].next \in Nat \ {0}
      /\ Call = calls[n] /\ Dep \in Ids /\ Dep \in Deps(Call.id)
  BY <1>0, <1>1, CallFacts, DepFacts
<1>3. PathOnce /\ \A i \in 1 .. n : Behind(i)
  BY <1>1, <1>2, PathParts
<1>4. PICK k \in 1 .. n : calls[k].id = Dep
  BY <1>1, <1>2, <1>3 DEF PathOnce
<1> DEFINE f == modules[Dep]
           imp(i) == ToSet(imports[modules[calls[i].id]])
<1>5. \A m \in Ids : \A d \in Deps(m) : modules[d] \in ToSet(imports[modules[m]])
  BY <1>1 DEF EdgesAreImports
<1>6. f \in Files /\ f \in Loaded
  BY <1>2, ElementsType DEF Types, Ids, Loaded
<1>7. ASSUME NEW S \in SUBSET Files, ToSet(imports[f]) \subseteq S, Closed(S)
      PROVE  f \in S
  <2> DEFINE B == {j \in 0 .. n - k : imp(k + j) \subseteq S}
  <2>1. n - k \in Nat
    BY <1>2
  <2>2. 0 \in B
    <3>1. k + 0 = k
      BY <1>2
    <3> QED BY <1>4, <1>7, <2>1, <3>1
  <2>3. ASSUME NEW j \in 0 .. (n - k) - 1, j \in B PROVE j + 1 \in B
    <3>1. k + j \in 1 .. n /\ k + j < n /\ (k + j) + 1 \in 1 .. n /\ k + (j + 1) = (k + j) + 1
          /\ j + 1 \in 0 .. n - k
      BY <1>2
    <3> DEFINE i == k + j
    <3>2. i \in 1 .. n /\ i < n /\ i + 1 \in 1 .. n
      BY <3>1
    <3>3. imp(i) \subseteq S
      BY <2>3
    <3> HIDE DEF i
    <3>4. calls[i + 1].id \in Deps(calls[i].id) /\ calls[i].id \in Ids
      BY <1>0, <1>2, <1>3, <3>2 DEF Behind
    <3>5. modules[calls[i + 1].id] \in S
      BY <1>5, <3>3, <3>4
    <3>6. imp(i + 1) \subseteq S
      BY <1>7, <3>5 DEF Closed
    <3> HIDE DEF imp
    <3> QED BY <3>1, <3>6 DEF i
  <2>4. B \in SUBSET (0 .. n - k)
    OBVIOUS
  <2> HIDE DEF B
  <2>5. B = 0 .. n - k
    BY <2>1, <2>2, <2>3, <2>4, UpTo
  <2>6. imp(n) \subseteq S
    <3>1. n - k \in B /\ k + (n - k) = n
      BY <1>2, <2>1, <2>5
    <3> HIDE DEF imp
    <3> QED BY <3>1 DEF B
  <2>7. f \in imp(n)
    <3>1. n \in 1 .. n
      BY <1>2
    <3> QED BY <1>2, <1>5, <3>1
  <2> QED BY <2>6, <2>7
<1> HIDE DEF f
<1>8. OnCycle(f)
  BY <1>6, <1>7 DEF OnCycle, Imported
<1> QED BY <1>6, <1>8

LEMMA CycleStep ==
  ASSUME Types, Fresh, Worklist, EdgesAreImports, SearchPath, CycleIsCycle, [Next]_vars
  PROVE  CycleIsCycle'
<1>1. ASSUME UNCHANGED <<files, modules, cycle>> PROVE CycleIsCycle'
  BY <1>1 DEF CycleIsCycle, files, OnCycle, Imported, Closed, Loaded
<1>2. CASE LoadStep
  <2>1. phase = "load" /\ cycle' = cycle
    BY <1>2 DEF LoadStep, SkipFile, RejectFile, LoadFile, Loading, search
  <2> QED BY <2>1 DEF CycleIsCycle, Fresh
<1>3. CASE Link
  BY <1>1, <1>3 DEF Link, search
<1>4. CASE FindCycle
  <2>1. UNCHANGED <<files, modules>>
    BY <1>4 DEF FindCycle, registry
  <2>2. ~SameStem => \E f \in Loaded : OnCycle(f)
    BY <1>4, FoundIsCycle
  <2> QED BY <2>1, <2>2 DEF CycleIsCycle, files, OnCycle, Imported, Closed, Loaded
<1>5. ASSUME NEW m \in Ids, Root(m) PROVE CycleIsCycle'
  BY <1>1, <1>5 DEF Root, registry
<1>6. CASE Descend \/ PassVisited \/ Return
  BY <1>1, <1>6 DEF Descend, PassVisited, Return, registry
<1>7. CASE BeginSort \/ PopModule \/ Release \/ EndSort
  BY <1>1, <1>7 DEF BeginSort, PopModule, Release, EndSort, registry, search
<1>8. CASE UNCHANGED vars
  BY <1>1, <1>8 DEF vars, registry, search
<1> QED BY <1>2, <1>3, <1>4, <1>5, <1>6, <1>7, <1>8 DEF Next, LoadStep

-----------------------------------------------------------------------------
(* The order of compilation.                                               *)

\* There are finitely many edges.
LEMMA EdgeFinite ==
  ASSUME Types, phase # "load"
  PROVE  IsFiniteSet(Edge)
<1> DEFINE out == [n \in Ids |-> {<<n, i>> : i \in DOMAIN dependencies[n]}]
           all == {{<<n, i>> : i \in DOMAIN dependencies[n]} : n \in Ids}
<1>1. IsFiniteSet(Ids) /\ dependencies \in [Ids -> Seq(Ids)]
  BY FS_Interval DEF Types, Ids
<1>2. out \in Surjection(Ids, all)
  BY DEF Surjection
<1>3. ASSUME NEW n \in Ids PROVE IsFiniteSet({<<n, i>> : i \in DOMAIN dependencies[n]})
  <2> DEFINE D == DOMAIN dependencies[n]  P == {<<n, i>> : i \in D}  f == [i \in D |-> <<n, i>>]
  <2>1. IsFiniteSet(D)
    <3>1. PICK k \in Nat : D = 1 .. k
      BY <1>1
    <3>2. 1 \in Int /\ k \in Int
      OBVIOUS
    <3> HIDE DEF D
    <3> QED BY <3>1, <3>2, FS_Interval
  <2>2. f \in Surjection(D, P)
    BY DEF Surjection
  <2> HIDE DEF D, P, f
  <2>3. IsFiniteSet(P)
    BY <2>1, <2>2, FS_Surjection
  <2> QED BY <2>3 DEF P, D
<1>4. \A T \in all : IsFiniteSet(T)
  BY <1>3
<1> HIDE DEF out, all
<1>5. IsFiniteSet(all)
  BY <1>1, <1>2, FS_Surjection
<1>6. IsFiniteSet(UNION all)
  BY <1>4, <1>5, FS_UNION
<1> QED BY <1>6 DEF Edge, all

\* What an edge is.
LEMMA EdgeFacts ==
  ASSUME Types, phase # "load"
  PROVE  /\ \A e \in Edge : /\ e[1] \in Ids /\ e[2] \in 1 .. Len(dependencies[e[1]])
                            /\ e = <<e[1], e[2]>> /\ dependencies[e[1]][e[2]] \in Deps(e[1])
         /\ \A n \in Ids : \A i \in 1 .. Len(dependencies[n]) :
              /\ <<n, i>> \in Edge /\ <<n, i>>[1] = n /\ <<n, i>>[2] = i
              /\ dependencies[n][i] \in Ids
         /\ \A n \in Ids : \A m \in Deps(n) :
              \E i \in 1 .. Len(dependencies[n]) : dependencies[n][i] = m
         /\ \A n \in Ids : Len(dependencies[n]) \in Nat /\ Deps(n) \in SUBSET Ids
<1>1. \A n \in Ids : dependencies[n] \in Seq(Ids)
  BY DEF Types
<1>2. \A n \in Ids :
        /\ Len(dependencies[n]) \in Nat /\ DOMAIN dependencies[n] = 1 .. Len(dependencies[n])
        /\ \A i \in 1 .. Len(dependencies[n]) :
             dependencies[n][i] \in Ids /\ dependencies[n][i] \in Deps(n)
        /\ \A m \in Deps(n) : \E i \in 1 .. Len(dependencies[n]) : dependencies[n][i] = m
        /\ Deps(n) \in SUBSET Ids
  BY <1>1, ElementsType DEF Deps
<1>3. \A e \in Edge : \E n \in Ids : \E i \in 1 .. Len(dependencies[n]) : e = <<n, i>>
  BY <1>2 DEF Edge
<1>4. \A n \in Ids : \A i \in 1 .. Len(dependencies[n]) : <<n, i>> \in Edge
  BY <1>2 DEF Edge
<1> QED BY <1>2, <1>3, <1>4

\* The parts of Counting.
Counted ==
  /\ in_degree \in [Ids -> Nat]
  /\ \A m \in Ids : in_degree[m] = Cardinality(Into(m))

Waiting ==
  /\ IsInjective(sorted) /\ IsInjective(queue)
  /\ ToSet(sorted) \cap ToSet(queue) = {}
  /\ \A m \in Ids : m \in ToSet(sorted) \cup ToSet(queue) <=> in_degree[m] = 0

ImportersBefore ==
  \A i \in DOMAIN sorted : \A n \in Ids :
    sorted[i] \in Deps(n) => \E j \in 1 .. i - 1 : sorted[j] = n

LEMMA CountingParts ==
  Counting <=> (phase = "sort" => Counted /\ Waiting /\ ImportersBefore)
BY DEF Counting, Counted, Waiting, ImportersBefore

LEMMA CountingBegins ==
  ASSUME Types, Fresh, BeginSort
  PROVE  Counted' /\ Waiting' /\ ImportersBefore'
<1>1. /\ phase = "cycles" /\ sorted = <<>> /\ sorted' = <<>>
      /\ in_degree' = [m \in Ids |-> Degree(m)]
      /\ queue' \in SetToSeqs({m \in Ids : Degree(m) = 0})
      /\ UNCHANGED <<modules, dependencies>>
  BY DEF BeginSort, Fresh, registry
<1>2. IsFiniteSet(Edge) /\ IsFiniteSet(Ids)
  BY <1>1, EdgeFinite, FS_Interval DEF Types, Ids
<1>3. \A m \in Ids : Degree(m) \in Nat
  <2> TAKE m \in Ids
  <2>1. IsFiniteSet({e \in Edge : dependencies[e[1]][e[2]] = m})
    BY <1>2, FS_Subset
  <2> QED BY <2>1, FS_CardinalityType DEF Degree
<1>4. Edge' = Edge /\ Unreleased' = Edge
  <2>1. Edge' = Edge
    BY <1>1 DEF Edge, Ids
  <2>2. ToSet(sorted') = {}
    BY <1>1 DEF ToSet
  <2> QED BY <2>1, <2>2 DEF Unreleased
<1>5. \A m \in Ids : Cardinality(Into(m)') = Degree(m)
  BY <1>1, <1>4 DEF Into, Degree
<1>6. Counted'
  BY <1>1, <1>3, <1>5 DEF Counted, Ids
<1> DEFINE Z == {m \in Ids : Degree(m) = 0}
           q == queue'
           D == 1 .. Cardinality(Z)
<1>7. IsFiniteSet(Z) /\ Cardinality(Z) \in Nat
  <2>1. IsFiniteSet(Z)
    BY <1>2, FS_Subset
  <2> HIDE DEF Z
  <2> QED BY <2>1, FS_CardinalityType
<1>8. q \in [D -> Z] /\ \A i, j \in D : q[i] = q[j] => i = j
  BY <1>1 DEF SetToSeqs
<1>9. IsInjective(q) /\ ToSet(q) = Z
  <2> HIDE DEF Z, q
  <2>1. q \in Injection(D, Z)
    BY <1>8 DEF Injection, IsInjective
  <2>2. Cardinality(D) = Cardinality(Z)
    BY <1>7, FS_Interval
  <2> HIDE DEF D
  <2>3. q \in Surjection(D, Z)
    BY <1>7, <2>1, <2>2, FS_Injection
  <2> QED BY <1>8, <2>1, <2>3 DEF Injection, Surjection, ToSet
<1>10. Waiting'
  <2>1. ToSet(sorted') = {} /\ IsInjective(sorted')
    BY <1>1 DEF ToSet, IsInjective
  <2>2. \A m \in Ids : in_degree'[m] = 0 <=> m \in Z
    BY <1>1
  <2> HIDE DEF Z
  <2>3. Ids' = Ids
    BY <1>1 DEF Ids
  <2> QED BY <1>9, <2>1, <2>2, <2>3 DEF Waiting
<1>11. ImportersBefore'
  BY <1>1 DEF ImportersBefore
<1> QED BY <1>6, <1>10, <1>11

LEMMA CountingPops ==
  ASSUME Types, Counted, Waiting, ImportersBefore, PopModule
  PROVE  Counted' /\ Waiting' /\ ImportersBefore'
<1>0. PICK L : L = Len(sorted)
  OBVIOUS
<1>1. PICK m : m = Head(queue)
  OBVIOUS
<1>2. /\ phase = "sort" /\ ~Releasing /\ queue # <<>>
      /\ sorted' = Append(sorted, m) /\ queue' = Tail(queue) /\ edge' = 1
      /\ UNCHANGED <<modules, dependencies, in_degree>>
  BY <1>1 DEF PopModule, registry
<1>3. sorted \in Seq(Ids) /\ queue \in Seq(Ids) /\ edge \in Nat
  BY DEF Types, Id
<1>4. /\ m \in Ids /\ ToSet(queue) = {m} \cup ToSet(queue')
      /\ IsInjective(queue') /\ m \notin ToSet(queue')
  BY <1>1, <1>2, <1>3, TailElements DEF Waiting
<1>5. m \notin ToSet(sorted)
  BY <1>4 DEF Waiting
<1>6. /\ L \in Nat /\ DOMAIN sorted = 1 .. L /\ DOMAIN sorted' = 1 .. L + 1
      /\ \A i \in 1 .. L : sorted'[i] = sorted[i]
      /\ sorted'[L + 1] = m /\ Last(sorted') = m
      /\ ToSet(sorted') = ToSet(sorted) \cup {m} /\ IsInjective(sorted')
  BY <1>0, <1>2, <1>3, <1>4, <1>5, AppendElements, ElementsType DEF Waiting
<1>7. \A e \in Edge : /\ e[1] \in Ids /\ e[2] \in 1 .. Len(dependencies[e[1]])
                      /\ Len(dependencies[e[1]]) \in Nat
  BY <1>2, EdgeFacts
<1>8. ASSUME NEW e \in Edge PROVE e \in Unreleased <=> e[1] \notin ToSet(sorted)
  <2>1. CASE sorted = <<>>
    <3>1. ToSet(sorted) = {}
      BY <2>1 DEF ToSet
    <3> QED BY <3>1 DEF Unreleased
  <2>2. CASE sorted # <<>>
    <3>1. ~(edge <= Len(dependencies[Last(sorted)]))
      BY <1>2, <2>2 DEF Releasing
    <3>2. ~(e[1] = Last(sorted) /\ edge <= e[2])
      BY <1>3, <1>7, <3>1
    <3> QED BY <3>2 DEF Unreleased
  <2> QED BY <2>1, <2>2
<1>9. Edge' = Edge
  BY <1>2 DEF Edge, Ids
<1>10. Unreleased' = Unreleased
  <2>1. \A e \in Edge : e[1] = m => 1 <= e[2]
    BY <1>7
  <2>2. \A e \in Edge : e \in Unreleased' <=> e[1] \notin ToSet(sorted)
    BY <1>2, <1>5, <1>6, <1>9, <2>1 DEF Unreleased
  <2>3. Unreleased' \subseteq Edge /\ Unreleased \subseteq Edge
    BY <1>9 DEF Unreleased
  <2> QED BY <1>8, <2>2, <2>3
<1>11. Counted'
  BY <1>2, <1>10 DEF Counted, Into, Ids
<1>12. Waiting'
  BY <1>2, <1>4, <1>5, <1>6 DEF Waiting, Ids
<1>13. ASSUME NEW n \in Ids, m \in Deps(n) PROVE \E j \in 1 .. L : sorted[j] = n
  <2>1. PICK i \in 1 .. Len(dependencies[n]) : dependencies[n][i] = m
    BY <1>2, <1>13, EdgeFacts
  <2>2. <<n, i>> \in Edge /\ <<n, i>>[1] = n /\ <<n, i>>[2] = i
    BY <1>2, EdgeFacts
  <2>3. Into(m) = {}
    <3>1. in_degree[m] = 0
      BY <1>4 DEF Waiting
    <3>2. Cardinality(Into(m)) = 0
      BY <1>4, <3>1 DEF Counted
    <3>3. IsFiniteSet(Into(m))
      BY <1>2, EdgeFinite, FS_Subset DEF Into, Unreleased
    <3> HIDE DEF Into
    <3> QED BY <3>2, <3>3, FS_EmptySet
  <2>4. <<n, i>> \notin Unreleased
    BY <2>1, <2>2, <2>3 DEF Into
  <2>5. n \in ToSet(sorted)
    BY <1>8, <2>2, <2>4
  <2> QED BY <1>6, <2>5 DEF ToSet
<1>14. ImportersBefore'
  <2> SUFFICES ASSUME NEW i \in 1 .. L + 1, NEW n \in Ids, sorted'[i] \in Deps(n)
               PROVE  \E j \in 1 .. i - 1 : sorted'[j] = n
    BY <1>2, <1>6 DEF ImportersBefore, Ids, Deps
  <2>1. CASE i \in 1 .. L
    <3>1. PICK j \in 1 .. i - 1 : sorted[j] = n
      BY <1>6, <2>1 DEF ImportersBefore
    <3>2. j \in 1 .. L
      BY <1>6, <2>1
    <3> QED BY <1>6, <3>1, <3>2
  <2>2. CASE i = L + 1
    <3>1. PICK j \in 1 .. L : sorted[j] = n
      BY <1>6, <1>13, <2>2
    <3>2. j \in 1 .. i - 1
      BY <1>6, <2>2
    <3> QED BY <1>6, <3>1, <3>2
  <2> QED BY <1>6, <2>1, <2>2
<1> QED BY <1>11, <1>12, <1>14


LEMMA CountingReleases ==
  ASSUME Types, Counted, Waiting, ImportersBefore, Release
  PROVE  Counted' /\ Waiting' /\ ImportersBefore'
<1>1. PICK m : m = Last(sorted)
  OBVIOUS
<1>2. PICK dep : dep = dependencies[m][edge]
  OBVIOUS
<1>3. PICK r : r = <<m, edge>>
  OBVIOUS
<1>4. /\ phase = "sort" /\ sorted # <<>> /\ edge <= Len(dependencies[m]) /\ edge' = edge + 1
      /\ in_degree' = [in_degree EXCEPT ![dep] = @ - 1]
      /\ queue' = IF in_degree[dep] = 1 THEN Append(queue, dep) ELSE queue
      /\ UNCHANGED <<sorted, modules, dependencies>>
  BY <1>1, <1>2 DEF Release, Releasing, registry
<1>5. sorted \in Seq(Ids) /\ queue \in Seq(Ids) /\ edge \in Nat \ {0}
  BY DEF Types, Id, NoId
<1>6. m \in Ids /\ m \in ToSet(sorted)
  BY <1>1, <1>4, <1>5, FrontElements, ElementsType
<1>7. /\ edge \in 1 .. Len(dependencies[m]) /\ dep \in Ids
      /\ r \in Edge /\ r[1] = m /\ r[2] = edge
  <2>1. edge \in 1 .. Len(dependencies[m])
    BY <1>4, <1>5, <1>6, EdgeFacts
  <2> QED BY <1>2, <1>3, <1>4, <1>6, <2>1, EdgeFacts
<1>8. \A e \in Edge : /\ e[1] \in Ids /\ e[2] \in Nat /\ e = <<e[1], e[2]>>
  <2> TAKE e \in Edge
  <2>1. e[2] \in 1 .. Len(dependencies[e[1]]) /\ e[1] \in Ids /\ e = <<e[1], e[2]>>
    BY <1>4, EdgeFacts
  <2> QED BY <2>1
<1>9. Unreleased' = Unreleased \ {r} /\ r \in Unreleased
  <2>1. Edge' = Edge
    BY <1>4 DEF Edge, Ids
  <2>2. r \in Unreleased
    BY <1>1, <1>5, <1>7 DEF Unreleased
  <2>3. ASSUME NEW e \in Edge PROVE e \in Unreleased' <=> e \in Unreleased /\ e # r
    <3>1. Last(sorted') = m
      BY <1>1, <1>4
    <3>2. e \in Unreleased' <=> e[1] \notin ToSet(sorted) \/ (e[1] = m /\ edge + 1 <= e[2])
      BY <1>4, <2>1, <3>1 DEF Unreleased
    <3>3. e \in Unreleased <=> e[1] \notin ToSet(sorted) \/ (e[1] = m /\ edge <= e[2])
      BY <1>1 DEF Unreleased
    <3>4. e = r <=> e[1] = m /\ e[2] = edge
      BY <1>3, <1>8
    <3>5. edge + 1 <= e[2] <=> edge <= e[2] /\ e[2] # edge
      BY <1>5, <1>8
    <3> QED BY <1>6, <3>2, <3>3, <3>4, <3>5
  <2>4. Unreleased' \subseteq Edge /\ Unreleased \subseteq Edge
    BY <2>1 DEF Unreleased
  <2> QED BY <2>2, <2>3, <2>4
<1>10. \A d \in Ids : IsFiniteSet(Into(d)) /\ Cardinality(Into(d)) \in Nat
  <2> TAKE d \in Ids
  <2>1. IsFiniteSet(Edge) /\ Into(d) \in SUBSET Edge
    BY <1>4, EdgeFinite DEF Into, Unreleased
  <2>2. IsFiniteSet(Into(d))
    BY <2>1, FS_Subset
  <2> HIDE DEF Into
  <2> QED BY <2>2, FS_CardinalityType
<1>11. r \in Into(dep) /\ Into(dep)' = Into(dep) \ {r}
  BY <1>2, <1>4, <1>7, <1>9 DEF Into
<1>12. \A d \in Ids : d # dep => Into(d)' = Into(d)
  BY <1>2, <1>4, <1>7, <1>9 DEF Into
<1>13. /\ Cardinality(Into(dep)') = Cardinality(Into(dep)) - 1
       /\ Cardinality(Into(dep)') \in Nat
  <2> DEFINE S == Into(dep)
  <2>1. IsFiniteSet(S) /\ Cardinality(S) \in Nat /\ r \in S /\ Into(dep)' = S \ {r}
    BY <1>7, <1>10, <1>11
  <2> HIDE DEF S
  <2>2. IsFiniteSet(S \ {r}) /\ Cardinality(S \ {r}) = Cardinality(S) - 1
    BY <2>1, FS_RemoveElement
  <2>3. Cardinality(S \ {r}) \in Nat
    BY <2>2, FS_CardinalityType
  <2>4. Into(dep)' = S \ {r}
    BY <2>1
  <2>5. Cardinality(Into(dep)') = Cardinality(S \ {r})
    BY <2>4
  <2> QED BY <2>2, <2>3, <2>5 DEF S
<1>14. in_degree \in [Ids -> Nat] /\ in_degree[dep] = Cardinality(Into(dep))
  BY <1>7 DEF Counted
<1>15. in_degree'[dep] = in_degree[dep] - 1 /\ in_degree'[dep] \in Nat /\ in_degree[dep] # 0
  BY <1>4, <1>7, <1>13, <1>14
<1>16. \A d \in Ids : d # dep => in_degree'[d] = in_degree[d]
  BY <1>4, <1>14
<1>17. Counted'
  <2>1. in_degree' \in [Ids -> Nat]
    BY <1>4, <1>7, <1>14, <1>15
  <2>2. \A d \in Ids : in_degree'[d] = Cardinality(Into(d)')
    <3> TAKE d \in Ids
    <3>1. CASE d = dep
      BY <1>13, <1>14, <1>15, <3>1
    <3>2. CASE d # dep
      BY <1>12, <1>16, <3>2 DEF Counted
    <3> QED BY <3>1, <3>2
  <2> QED BY <1>4, <2>1, <2>2 DEF Counted, Ids
<1>18. dep \notin ToSet(sorted) \cup ToSet(queue)
  BY <1>7, <1>15 DEF Waiting
<1>19. Waiting'
  <2>1. CASE in_degree[dep] = 1
    <3>1. queue' = Append(queue, dep)
      BY <1>4, <2>1
    <3>2. ToSet(queue') = ToSet(queue) \cup {dep} /\ IsInjective(queue')
      BY <1>5, <1>7, <1>18, <3>1, AppendElements DEF Waiting
    <3>3. in_degree'[dep] = 0
      BY <1>15, <2>1
    <3>4. \A d \in Ids : d \in ToSet(sorted) \cup ToSet(queue') <=> in_degree'[d] = 0
      BY <1>16, <3>2, <3>3 DEF Waiting
    <3> QED BY <1>4, <1>18, <3>2, <3>4 DEF Waiting, Ids
  <2>2. CASE in_degree[dep] # 1
    <3>1. in_degree'[dep] # 0
      BY <1>14, <1>7, <1>15, <2>2
    <3>2. queue' = queue
      BY <1>4, <2>2
    <3>3. \A d \in Ids : d \in ToSet(sorted) \cup ToSet(queue) <=> in_degree'[d] = 0
      BY <1>16, <1>18, <3>1 DEF Waiting
    <3> QED BY <1>4, <3>2, <3>3 DEF Waiting, Ids
  <2> QED BY <2>1, <2>2
<1>20. ImportersBefore'
  BY <1>4 DEF ImportersBefore, Ids, Deps
<1> QED BY <1>17, <1>19, <1>20

LEMMA CountingStep ==
  ASSUME Types, Fresh, Counting, [Next]_vars
  PROVE  Counting'
<1>1. CASE phase # "sort" /\ phase' = "sort"
  <2>1. BeginSort
    BY <1>1 DEF Next, vars, SkipFile, RejectFile, LoadFile, Loading, Link, Root, Descend,
       PassVisited, FindCycle, Return, Searching, PopModule, Release, EndSort
  <2>2. Counted' /\ Waiting' /\ ImportersBefore'
    BY <2>1, CountingBegins
  <2> QED BY <2>2 DEF Counting, Counted, Waiting, ImportersBefore
<1>2. CASE phase = "sort" /\ phase' = "sort"
  <2>1. Counted /\ Waiting /\ ImportersBefore
    BY <1>2, CountingParts
  <2>2. PopModule \/ Release \/ UNCHANGED vars
    BY <1>2 DEF Next, SkipFile, RejectFile, LoadFile, Loading, Link, Root, Descend,
       PassVisited, FindCycle, Return, Searching, BeginSort, EndSort
  <2>3. CASE PopModule \/ Release
    <3>1. Counted' /\ Waiting' /\ ImportersBefore'
      BY <2>1, <2>3, CountingPops, CountingReleases
    <3> QED BY <3>1 DEF Counting, Counted, Waiting, ImportersBefore
  <2>4. CASE UNCHANGED vars
    BY <2>4 DEF vars, registry, kahn, Counting, Into, Unreleased, Edge, Ids, Deps
  <2> QED BY <2>2, <2>3, <2>4
<1> QED BY <1>1, <1>2 DEF Counting

\* When the queue is empty every module was taken from it, once.
LEMMA QueueEmpty ==
  ASSUME Types, Fresh, VisitedAcyclic, Counting, EndSort
  PROVE  ToSet(sorted) = Ids /\ Len(sorted) = Len(modules)
<1>1. phase = "sort" /\ ~Releasing /\ queue = <<>> /\ visited = Ids
  BY DEF EndSort, Fresh
<1>2. Counted /\ Waiting
  BY <1>1, CountingParts
<1>3. sorted \in Seq(Ids) /\ edge \in Nat
  BY DEF Types, Id
<1>4. ToSet(queue) = {} /\ ToSet(sorted) \subseteq Ids
  BY <1>1, <1>3, ElementsType DEF ToSet
<1>5. Ids \subseteq ToSet(sorted)
  <2> SUFFICES ASSUME Ids \ ToSet(sorted) # {} PROVE FALSE
    OBVIOUS
  <2> DEFINE U == Ids \ ToSet(sorted)
  <2>1. PICK m \in U : \A n \in U : m \notin Deps(n)
    BY <1>1 DEF VisitedAcyclic
  <2>2. ASSUME NEW e \in Into(m) PROVE FALSE
    <3>1. e \in Edge /\ e \in Unreleased /\ dependencies[e[1]][e[2]] = m
      BY <2>2 DEF Into, Unreleased
    <3>2. /\ e[1] \in Ids /\ e[2] \in 1 .. Len(dependencies[e[1]]) /\ m \in Deps(e[1])
          /\ Len(dependencies[e[1]]) \in Nat
      BY <1>1, <3>1, EdgeFacts
    <3>3. e[1] \in ToSet(sorted)
      BY <2>1, <3>2
    <3>4. sorted # <<>>
      BY <3>3 DEF ToSet
    <3>5. ~(edge <= Len(dependencies[Last(sorted)]))
      BY <1>1, <3>4 DEF Releasing
    <3>6. e[1] = Last(sorted) /\ edge <= e[2]
      BY <3>1, <3>3 DEF Unreleased
    <3> QED BY <1>3, <3>2, <3>5, <3>6
  <2>3. in_degree[m] = 0
    <3>1. Into(m) = {}
      BY <2>2
    <3>2. in_degree[m] = Cardinality(Into(m))
      BY <1>2 DEF Counted
    <3> QED BY <3>1, <3>2, FS_EmptySet
  <2> QED BY <1>2, <1>4, <2>1, <2>3 DEF Waiting
<1>6. Len(sorted) = Len(modules)
  <2>1. PICK n, k \in Nat : n = Len(sorted) /\ k = Len(modules) /\ Ids = 1 .. k
    BY <1>3 DEF Types, Ids
  <2>2. /\ DOMAIN sorted = 1 .. n /\ \A i \in 1 .. n : sorted[i] \in Ids
        /\ \A x \in Ids : \E i \in 1 .. n : sorted[i] = x
    BY <1>3, <1>5, <2>1, ElementsType
  <2>3. sorted \in Injection(1 .. n, Ids) /\ sorted \in Surjection(1 .. n, Ids)
    <3>1. sorted \in [1 .. n -> Ids]
      BY <1>3, <2>1, <2>2
    <3> QED BY <1>2, <2>2, <3>1 DEF Injection, Surjection, Waiting
  <2>4. IsFiniteSet(Ids) /\ Cardinality(Ids) = k /\ Cardinality(1 .. n) = n
    <3>1. ASSUME NEW j \in Nat PROVE IsFiniteSet(1 .. j) /\ Cardinality(1 .. j) = j
      <4>1. 1 \in Int /\ j \in Int /\ (IF 1 > j THEN 0 ELSE j - 1 + 1) = j
        OBVIOUS
      <4>2. IsFiniteSet(1 .. j) /\ Cardinality(1 .. j) = IF 1 > j THEN 0 ELSE j - 1 + 1
        BY <4>1, FS_Interval
      <4> QED BY <4>1, <4>2
    <3> QED BY <2>1, <3>1
  <2>5. Cardinality(1 .. n) = Cardinality(Ids)
    BY <2>3, <2>4, FS_Injection
  <2> QED BY <2>1, <2>4, <2>5
<1> QED BY <1>4, <1>5, <1>6

LEMMA OrderStep ==
  ASSUME Types, Fresh, VisitedAcyclic, Counting, SortedOrder, [Next]_vars
  PROVE  SortedOrder'
<1>1. CASE phase = "sorted" /\ phase' = "sorted"
  <2>1. UNCHANGED vars
    BY <1>1 DEF Next, SkipFile, RejectFile, LoadFile, Loading, Link, Root, Descend,
       PassVisited, FindCycle, Return, Searching, BeginSort, PopModule, Release, EndSort
  <2> QED BY <2>1 DEF vars, registry, kahn, SortedOrder, Ids, Deps
<1>2. CASE phase # "sorted" /\ phase' = "sorted"
  <2>1. EndSort
    BY <1>2 DEF Next, vars, SkipFile, RejectFile, LoadFile, Loading, Link, Root, Descend,
       PassVisited, FindCycle, Return, Searching, BeginSort, PopModule, Release
  <2>2. PICK n \in Nat : n = Len(sorted) /\ DOMAIN sorted = 1 .. n
    BY DEF Types
  <2>3. phase = "sort" /\ sorted' = Reverse(sorted) /\ UNCHANGED <<modules, dependencies>>
    BY <1>2, <2>1 DEF EndSort, Ordered, registry
  <2>4. n = Len(modules) /\ ToSet(sorted) = Ids
    BY <2>1, <2>2, QueueEmpty
  <2>5. /\ Len(sorted') = n /\ DOMAIN sorted' = 1 .. n
        /\ \A i \in 1 .. n : sorted'[i] = sorted[(n - i) + 1]
    BY <2>2, <2>3 DEF Reverse
  <2>6. \A i \in 1 .. n : (n - i) + 1 \in 1 .. n /\ (n - ((n - i) + 1)) + 1 = i
    OBVIOUS
  <2>7. ToSet(sorted') = Ids
    <3>1. \A i \in 1 .. n : \E j \in 1 .. n : sorted'[j] = sorted[i]
      BY <2>5, <2>6
    <3>2. \A i \in 1 .. n : \E j \in 1 .. n : sorted'[i] = sorted[j]
      BY <2>5, <2>6
    <3>3. ToSet(sorted') = ToSet(sorted)
      <4> DEFINE t == sorted'
      <4>1. DOMAIN t = 1 .. n /\ \A i \in 1 .. n : \E j \in 1 .. n : t[j] = sorted[i]
        BY <2>5, <3>1
      <4>2. \A i \in 1 .. n : \E j \in 1 .. n : t[i] = sorted[j]
        BY <3>2
      <4> HIDE DEF t
      <4>3. ToSet(t) = {t[i] : i \in 1 .. n} /\ ToSet(sorted) = {sorted[i] : i \in 1 .. n}
        BY <2>2, <4>1 DEF ToSet
      <4>4. ToSet(t) = ToSet(sorted)
        BY <4>1, <4>2, <4>3
      <4> QED BY <4>4 DEF t
    <3> QED BY <2>4, <3>3
  <2>8. ASSUME NEW i \in 1 .. n, NEW j \in 1 .. n, sorted'[j] \in Deps(sorted'[i])
        PROVE  j < i
    <3>1. PICK p, q \in 1 .. n : p = (n - j) + 1 /\ q = (n - i) + 1
      BY <2>6
    <3>2. sorted[p] \in Deps(sorted[q]) /\ sorted[q] \in Ids
      BY <2>2, <2>4, <2>5, <2>8, <3>1 DEF ToSet
    <3>3. PICK s \in 1 .. p - 1 : sorted[s] = sorted[q]
      BY <2>2, <2>3, <3>2, CountingParts DEF ImportersBefore
    <3>4. s \in 1 .. n
      BY <3>1, <3>3
    <3>5. s = q
      BY <2>2, <2>3, <3>3, <3>4, CountingParts DEF Waiting, IsInjective
    <3> QED BY <3>1, <3>3, <3>5
  <2>9. in_degree' \in [Ids -> Nat]
    BY <2>1, <2>3, CountingParts DEF Counted, EndSort
  <2> QED BY <2>2, <2>3, <2>4, <2>5, <2>7, <2>8, <2>9 DEF SortedOrder, Ids, Deps
<1> QED BY <1>1, <1>2 DEF SortedOrder

\* Once the search is over nothing is rejected.
LEMMA NeverFailsStep ==
  ASSUME Types, Fresh, VisitedAcyclic, Counting, SortNeverFails, [Next]_vars
  PROVE  SortNeverFails'
<1>1. CASE phase = "rejected"
  <2>1. UNCHANGED vars
    BY <1>1 DEF Next, SkipFile, RejectFile, LoadFile, Loading, Link, Root, Descend,
       PassVisited, FindCycle, Return, Searching, BeginSort, PopModule, Release, EndSort
  <2> QED BY <2>1 DEF vars, search, kahn, SortNeverFails
<1>2. CASE phase # "rejected" /\ phase' = "rejected"
  <2>1. Link \/ FindCycle \/ EndSort
    BY <1>2 DEF Next, vars, SkipFile, RejectFile, LoadFile, Loading, Root, Descend,
       PassVisited, Return, Searching, BeginSort, PopModule, Release
  <2>2. CASE Link
    BY <2>2 DEF Link, Fresh, search, kahn, SortNeverFails
  <2>3. CASE FindCycle
    <3>1. cycle' = Unwound(Dep) /\ cycle' \in Seq(Ids')
      BY <2>3, TypesSearch DEF FindCycle, Types
    <3>2. calls \in Seq([id : Ids, next : Id])
      BY DEF Types
    <3>3. cycle' # <<>>
      <4> DEFINE ids == [i \in DOMAIN calls |-> calls[i].id]
                 k == Kept(Reverse(ids), Ids \ {Dep})
      <4>1. ids \in Seq(Ids)
        <5>1. DOMAIN calls = 1 .. Len(calls) /\ Len(calls) \in Nat
              /\ \A i \in 1 .. Len(calls) : calls[i].id \in Ids
          BY <2>3, CallFacts DEF FindCycle, Searching
        <5> QED BY <5>1
      <4>2. Reverse(ids) \in Seq(Ids)
        <5> HIDE DEF ids
        <5>1. \A i \in 1 .. Len(ids) : (Len(ids) - i) + 1 \in 1 .. Len(ids)
          BY <4>1, ElementsType
        <5> QED BY <4>1, <5>1, ElementsType DEF Reverse
      <4>3. Unwound(Dep) = <<Dep>> \o k
        BY DEF Unwound
      <4> HIDE DEF ids
      <4>4. k \in Seq(Ids)
        BY <4>2, KeptElements
      <4> HIDE DEF k
      <4>5. Dep \in Ids
        BY <2>3, DepFacts DEF FindCycle
      <4>6. Len(<<Dep>> \o k) = 1 + Len(k) /\ Len(k) \in Nat
        BY <4>4, <4>5
      <4> QED BY <3>1, <4>3, <4>6
    <3> QED BY <3>3 DEF SortNeverFails
  <2>4. CASE EndSort
    <3>1. Len(sorted) = Len(modules)
      BY <2>4, QueueEmpty
    <3> QED BY <1>2, <2>4, <3>1 DEF EndSort
  <2> QED BY <2>1, <2>2, <2>3, <2>4
<1>3. CASE phase' # "rejected"
  BY <1>3 DEF SortNeverFails
<1> QED BY <1>1, <1>2, <1>3

-----------------------------------------------------------------------------
(* The invariant, and what follows from it.                                *)

LEMMA GraphInit == Init => GraphInv
<1> SUFFICES ASSUME Init PROVE GraphInv
  OBVIOUS
<1>1. Types
  BY TypesInit
<1>2. /\ phase = "load" /\ calls = <<>> /\ visiting = {} /\ visited = {} /\ cycle = <<>>
      /\ queue = <<>> /\ sorted = <<>> /\ edge = 1 /\ modules = <<>>
      /\ processed = {} /\ to_process = inputs /\ name_to_id = [s \in Files |-> NoId]
  BY DEF Init
<1>3. Fresh
  BY <1>2 DEF Fresh
<1>4. Loaded = {}
  BY <1>2 DEF Loaded, ToSet
<1>5. IsInjective(modules)
  BY <1>2 DEF IsInjective
<1>6. Worklist
  BY <1>2, <1>4, <1>5 DEF Worklist
<1>7. ~SameStem => \A f \in Files : stem[f] = f
  BY DEF Init
<1>8. Named
  BY <1>2, <1>4, <1>7 DEF Named
<1>9. EdgesAreImports /\ SearchPath /\ VisitedAcyclic /\ CycleIsCycle
      /\ Counting /\ SortedOrder /\ SortNeverFails
  BY <1>2 DEF EdgesAreImports, SearchPath, VisitedAcyclic, CycleIsCycle, Counting, SortedOrder,
     SortNeverFails
<1> QED BY <1>1, <1>3, <1>6, <1>8, <1>9 DEF GraphInv

\* Every behaviour keeps the invariant.
THEOREM GraphInvariance == Spec => []GraphInv
<1>1. GraphInv /\ [Next]_vars => GraphInv'
  BY TypesStep, FreshStep, WorklistStep, NamedStep, EdgesStep, PathStep, AcyclicStep, CycleStep,
     CountingStep, OrderStep, NeverFailsStep DEF GraphInv
<1> QED BY <1>1, GraphInit, PTL DEF Spec

\* Every component has its type: an id in a map, a queue, the stack of the search
\* or an edge is always the id of a registered module (the code indexes with them).
THEOREM TypeCorrect == Spec => []TypeOK
<1>1. GraphInv => TypeOK
  BY DEF GraphInv, Types, Counting, SortedOrder, TypeOK
<1> QED BY <1>1, GraphInvariance, PTL

\* What is loaded is closed under imports.
LEMMA LoadedClosed ==
  ASSUME GraphInv, phase \notin {"load", "rejected"}
  PROVE  Loaded \in SUBSET Files /\ ToSet(inputs) \subseteq Loaded /\ Closed(Loaded) /\ ~errors
<1>1. Types /\ Fresh /\ Worklist
  BY DEF GraphInv
<1>2. ~errors /\ ToSet(to_process) = {}
  BY <1>1 DEF Fresh, ToSet
<1>3. Loaded \in SUBSET Files
  BY <1>1, ElementsType DEF Types, Loaded
<1> QED BY <1>1, <1>2, <1>3 DEF Worklist, Closed

\* However many files import each other in whatever way: the search for cycles
\* begins with exactly the files the inputs import, each of them once.
THEOREM LoadingIsComplete == Spec => []LoadsWhatIsImported
<1>1. GraphInv => LoadsWhatIsImported
  <2> SUFFICES ASSUME GraphInv, phase \notin {"load", "rejected"}
               PROVE  /\ IsInjective(modules)
                      /\ Loaded = Imported(ToSet(inputs))
                      /\ \A f \in Loaded : content[f] = "good"
    BY DEF LoadsWhatIsImported
  <2>1. Worklist
    BY DEF GraphInv
  <2>2. Imported(ToSet(inputs)) \subseteq Loaded
    BY LoadedClosed DEF Imported
  <2>3. Loaded \subseteq Imported(ToSet(inputs))
    BY <2>1, LoadedClosed DEF Worklist, Imported
  <2> QED BY <2>1, <2>2, <2>3 DEF Worklist
<1> QED BY <1>1, GraphInvariance, PTL

\* A module on a cycle would be in a set of modules that each import another one.
LEMMA NoCycleLeft ==
  ASSUME GraphInv, ~SameStem, phase \in {"sort", "sorted"}, NEW f \in Loaded
  PROVE  ~OnCycle(f)
<1> SUFFICES ASSUME OnCycle(f) PROVE FALSE
  OBVIOUS
<1>1. Types /\ Fresh /\ EdgesAreImports /\ VisitedAcyclic /\ visited = Ids
  BY DEF GraphInv, Fresh
<1>2. Loaded \in SUBSET Files /\ Closed(Loaded) /\ ~errors
  BY LoadedClosed
<1>3. \A g \in Files : ToSet(imports[g]) \in SUBSET Files
  BY <1>1, ElementsType DEF Types
<1> DEFINE A == Imported(ToSet(imports[f]))
           C == {g \in A : f \in Imported(ToSet(imports[g]))}
           M == {m \in Ids : modules[m] \in C}
<1>4. Closed(A) /\ A \subseteq Loaded /\ f \in C
  <2>1. Closed(A)
    BY <1>1, <1>2, <1>3, ImportedClosed
  <2>2. ToSet(imports[f]) \subseteq Loaded
    BY <1>2 DEF Closed
  <2>3. A \subseteq Loaded
    BY <1>2, <2>2 DEF Imported
  <2>4. f \in C
    BY DEF OnCycle
  <2> QED BY <2>1, <2>3, <2>4
<1> HIDE DEF A
<1>5. \A g \in Loaded : \E m \in Ids : modules[m] = g
  BY DEF Loaded, ToSet, Ids
<1>6. M # {}
  BY <1>4, <1>5
<1>7. PICK m \in M : Deps(m) \cap M = {}
  <2>1. M \in SUBSET visited
    BY <1>1
  <2> HIDE DEF M
  <2> QED BY <1>1, <1>6, <2>1 DEF VisitedAcyclic
<1> DEFINE g == modules[m]
<1>8. g \in A /\ g \in Files /\ f \in Imported(ToSet(imports[g])) /\ m \in Ids
  BY <1>2, <1>4
<1>9. PICK a \in ToSet(imports[g]) : a \in C
  <2>1. f \in ToSet(imports[g]) \/ \E a \in ToSet(imports[g]) : f \in Imported(ToSet(imports[a]))
    BY <1>1, <1>3, <1>8, ImportedThrough
  <2>2. ToSet(imports[g]) \subseteq A
    BY <1>4, <1>8 DEF Closed
  <2> QED BY <1>4, <2>1, <2>2
<1>10. PICK n \in Deps(m) : modules[n] = a
  BY <1>1, <1>2, <1>8, <1>9 DEF EdgesAreImports
<1>11. n \in Ids
  BY <1>1, <1>8, EdgeFacts
<1> QED BY <1>7, <1>9, <1>10, <1>11

\* If no two files have the same name: for every import graph, one with a cycle
\* never reaches the sort, what is rejected as circular is circular, and the sort
\* never fails, as main.rs:361 fears.
THEOREM CyclesRejected ==
  ASSUME ~SameStem
  PROVE  Spec => []CyclesAreRejected
<1>1. GraphInv => CyclesAreRejected
  <2> SUFFICES ASSUME GraphInv PROVE CyclesAreRejected
    OBVIOUS
  <2>1. phase \in {"sort", "sorted"} => \A f \in Loaded : ~OnCycle(f)
    BY NoCycleLeft
  <2>2. cycle # <<>> => \E f \in Loaded : OnCycle(f)
    BY DEF GraphInv, CycleIsCycle
  <2>3. phase = "rejected" /\ cycle = <<>> => sorted = <<>> /\ visited = {}
    BY DEF GraphInv, SortNeverFails
  <2> QED BY <2>1, <2>2, <2>3 DEF CyclesAreRejected
<1> QED BY <1>1, GraphInvariance, PTL

\* If no two files have the same name: every module is compiled once, and after
\* all that it imports.
THEOREM ImportsAreFirst ==
  ASSUME ~SameStem
  PROVE  Spec => []ImportsComeFirst
<1>1. GraphInv => ImportsComeFirst
  <2> SUFFICES ASSUME GraphInv, phase = "sorted" PROVE ImportsComeFirst
    BY DEF ImportsComeFirst
  <2>1. Types /\ Worklist /\ EdgesAreImports /\ SortedOrder /\ ~errors
    BY LoadedClosed DEF GraphInv
  <2>2. /\ DOMAIN sorted = 1 .. Len(sorted)
        /\ \A i \in 1 .. Len(sorted) : sorted[i] \in Ids
    BY <2>1, ElementsType DEF Types
  <2>3. ASSUME NEW i \in DOMAIN sorted, NEW j \in DOMAIN sorted,
               modules[sorted[j]] \in ToSet(imports[modules[sorted[i]]])
        PROVE  j < i
    <3>1. PICK n \in Deps(sorted[i]) : modules[n] = modules[sorted[j]]
      BY <2>1, <2>2, <2>3 DEF EdgesAreImports
    <3>2. n \in Ids
      BY <2>1, <2>2, EdgeFacts
    <3>3. n = sorted[j]
      BY <2>1, <2>2, <3>1, <3>2 DEF Worklist, IsInjective, Ids
    <3> QED BY <2>1, <3>1, <3>3 DEF SortedOrder
  <2> QED BY <2>1, <2>3 DEF SortedOrder, ImportsComeFirst
<1> QED BY <1>1, GraphInvariance, PTL
=============================================================================
