----------------------------- MODULE CallsProofs -----------------------------
(***************************************************************************)
(* In a program of one module, whatever it declares and uses: every use    *)
(* reaches the item its name means, and every function is defined once.    *)
(***************************************************************************)
EXTENDS Calls, SequenceFacts

\* What generating code declares in the module besides the program's functions.
RuntimeNames == {"printf", "puts", "kore_read_file", "strlen", "kore_write_file", "fprintf",
                 "kore_init_cmdline_args"}

-----------------------------------------------------------------------------
(* The source.                                                             *)

Func == [name : Names, uses : SUBSET (Names \cup BuiltinNames)]
Items == [func : Seq(Func), struct : Seq(Names)]

NamesOf(M) == {M.func[i].name : i \in DOMAIN M.func} \cup {M.struct[j] : j \in DOMAIN M.struct}

\* Each name is declared once, and what is used is declared.
Sound(M) ==
  /\ \A i, j \in DOMAIN M.func : M.func[i].name = M.func[j].name => i = j
  /\ \A i, j \in DOMAIN M.struct : M.struct[i] = M.struct[j] => i = j
  /\ \A i \in DOMAIN M.func, j \in DOMAIN M.struct : M.func[i].name # M.struct[j]
  /\ \A i \in DOMAIN M.func : M.func[i].uses \subseteq NamesOf(M) \cup BuiltinNames

SourceShape ==
  /\ source \in Seq(Items) /\ Len(source) <= MaxModules
  /\ \A m \in DOMAIN source : Sound(source[m])
  /\ phase # "source" => source # <<>>

\* What a module declares.
LEMMA DeclaredIs ==
  ASSUME NEW m \in DOMAIN source
  PROVE  Declared(m) = NamesOf(source[m])
BY DEF Declared, NamesOf, FuncNames, Range

\* The parts of a module's items.
LEMMA ItemParts ==
  ASSUME NEW M \in Items
  PROVE  /\ M.func \in Seq(Func) /\ Len(M.func) \in Nat /\ DOMAIN M.func = 1 .. Len(M.func)
         /\ M.struct \in Seq(Names) /\ Len(M.struct) \in Nat /\ DOMAIN M.struct = 1 .. Len(M.struct)
         /\ \A k \in DOMAIN M.func : /\ M.func[k] \in Func /\ M.func[k].name \in Names
                                     /\ M.func[k].uses \subseteq Names \cup BuiltinNames
         /\ \A k \in DOMAIN M.struct : M.struct[k] \in Names
<1>1. M.func \in Seq(Func) /\ M.struct \in Seq(Names)
  BY DEF Items
<1>2. \A k \in DOMAIN M.func : M.func[k] \in Func
  BY <1>1
<1>3. \A f \in Func : f.name \in Names /\ f.uses \subseteq Names \cup BuiltinNames
  BY DEF Func
<1> QED BY <1>1, <1>2, <1>3

\* One more function keeps a module sound.
LEMMA FuncAdded ==
  ASSUME NEW M \in Items, Sound(M), NEW name \in Names, name \notin NamesOf(M)
  PROVE  LET N == [M EXCEPT !.func = Append(@, [name |-> name, uses |-> {}])]
         IN  N \in Items /\ Sound(N)
<1> DEFINE f == [name |-> name, uses |-> {}]  fs == Append(M.func, f)  n == Len(M.func)
           N == [M EXCEPT !.func = fs]
<1>1. f \in Func /\ M.func \in Seq(Func) /\ M.struct \in Seq(Names) /\ n \in Nat /\ DOMAIN M.func = 1 .. n
  BY ItemParts DEF Func
<1>2. /\ fs \in Seq(Func) /\ DOMAIN fs = 1 .. n + 1 /\ fs[n + 1] = f
      /\ \A i \in 1 .. n : fs[i] = M.func[i]
  BY <1>1, AppendElements
<1>3. f.name = name /\ f.uses = {}
  OBVIOUS
<1> HIDE DEF f, fs, n
<1>4. N \in Items /\ N.func = fs /\ N.struct = M.struct
  BY <1>1, <1>2 DEF Items
<1> HIDE DEF N
<1>5. \A i \in 1 .. n + 1 : i \in 1 .. n \/ i = n + 1
  BY <1>1 DEF n
<1>6. \A i \in 1 .. n : i \in DOMAIN M.func /\ fs[i] = M.func[i] /\ i \in 1 .. n + 1
  BY <1>1, <1>2 DEF n
<1>7. NamesOf(M) \subseteq NamesOf(N)
  BY <1>1, <1>2, <1>4, <1>6 DEF NamesOf
<1>8. \A i, j \in 1 .. n + 1 : fs[i].name = fs[j].name => i = j
  BY <1>2, <1>3, <1>5, <1>6 DEF Sound, NamesOf
<1>9. \A i \in 1 .. n + 1, j \in DOMAIN M.struct : fs[i].name # M.struct[j]
  BY <1>2, <1>3, <1>5, <1>6 DEF Sound, NamesOf
<1>10. \A i \in 1 .. n + 1 : fs[i].uses \subseteq NamesOf(N) \cup BuiltinNames
  BY <1>2, <1>3, <1>5, <1>6, <1>7 DEF Sound
<1>11. Sound(N)
  BY <1>2, <1>4, <1>8, <1>9, <1>10 DEF Sound
<1> QED BY <1>4, <1>11 DEF N, fs, f

\* So does one more struct.
LEMMA StructAdded ==
  ASSUME NEW M \in Items, Sound(M), NEW name \in Names, name \notin NamesOf(M)
  PROVE  LET N == [M EXCEPT !.struct = Append(@, name)]
         IN  N \in Items /\ Sound(N)
<1> DEFINE ss == Append(M.struct, name)  n == Len(M.struct)  N == [M EXCEPT !.struct = ss]
<1>1. M.func \in Seq(Func) /\ M.struct \in Seq(Names) /\ n \in Nat /\ DOMAIN M.struct = 1 .. n
  BY ItemParts
<1>2. /\ ss \in Seq(Names) /\ DOMAIN ss = 1 .. n + 1 /\ ss[n + 1] = name
      /\ \A i \in 1 .. n : ss[i] = M.struct[i]
  BY <1>1, AppendElements
<1> HIDE DEF ss, n
<1>4. N \in Items /\ N.func = M.func /\ N.struct = ss
  BY <1>1, <1>2 DEF Items
<1> HIDE DEF N
<1>5. \A i \in 1 .. n + 1 : i \in 1 .. n \/ i = n + 1
  BY <1>1 DEF n
<1>6. \A i \in 1 .. n : i \in DOMAIN M.struct /\ ss[i] = M.struct[i] /\ i \in 1 .. n + 1
  BY <1>1, <1>2 DEF n
<1>7. NamesOf(M) \subseteq NamesOf(N)
  BY <1>1, <1>2, <1>4, <1>6 DEF NamesOf
<1>8. \A i, j \in 1 .. n + 1 : ss[i] = ss[j] => i = j
  BY <1>2, <1>5, <1>6 DEF Sound, NamesOf
<1>9. \A i \in DOMAIN M.func, j \in 1 .. n + 1 : M.func[i].name # ss[j]
  BY <1>2, <1>5, <1>6 DEF Sound, NamesOf
<1>10. \A i \in DOMAIN M.func : M.func[i].uses \subseteq NamesOf(N) \cup BuiltinNames
  BY <1>7 DEF Sound
<1>11. Sound(N)
  BY <1>2, <1>4, <1>8, <1>9, <1>10 DEF Sound
<1> QED BY <1>4, <1>11 DEF N, ss

\* And one more use of a name that is declared.
LEMMA UseAdded ==
  ASSUME NEW M \in Items, Sound(M), NEW i \in DOMAIN M.func, NEW name \in NamesOf(M) \cup BuiltinNames
  PROVE  LET N == [M EXCEPT !.func[i].uses = @ \cup {name}]
         IN  N \in Items /\ Sound(N)
<1> DEFINE g == [M.func[i] EXCEPT !.uses = @ \cup {name}]  fs == [M.func EXCEPT ![i] = g]
           N == [M EXCEPT !.func = fs]
<1>1. /\ M.func \in Seq(Func) /\ M.struct \in Seq(Names) /\ M.func[i] \in Func
      /\ name \in Names \cup BuiltinNames
  BY ItemParts DEF NamesOf
<1>2. g \in Func /\ g.name = M.func[i].name /\ g.uses = M.func[i].uses \cup {name}
  BY <1>1 DEF Func
<1> HIDE DEF g
<1>3. /\ fs \in Seq(Func) /\ DOMAIN fs = DOMAIN M.func /\ fs[i] = g
      /\ \A k \in DOMAIN M.func : k # i => fs[k] = M.func[k]
  BY <1>1, <1>2
<1>4. N \in Items /\ N.func = fs /\ N.struct = M.struct
  BY <1>1, <1>3 DEF Items
<1>5. N = [M EXCEPT !.func[i].uses = @ \cup {name}]
  BY DEF g, Items
<1> HIDE DEF N, fs
<1>6. \A k \in DOMAIN M.func : fs[k].name = M.func[k].name
  BY <1>2, <1>3
<1>7. NamesOf(N) = NamesOf(M)
  BY <1>3, <1>4, <1>6 DEF NamesOf
<1>8. \A k \in DOMAIN M.func : fs[k].uses \subseteq NamesOf(N) \cup BuiltinNames
  BY <1>2, <1>3, <1>7 DEF Sound
<1>9. Sound(N)
  BY <1>3, <1>4, <1>6, <1>8 DEF Sound
<1> QED BY <1>4, <1>5, <1>9

\* Items are added to the last module; nothing changes once lowering begins.
LEMMA SourceKept ==
  ASSUME SourceShape, Next
  PROVE  SourceShape'
<1> DEFINE n == Len(source)  M == source[n]
<1>1. source \in Seq(Items) /\ n \in Nat /\ DOMAIN source = 1 .. n /\ n <= MaxModules /\ MaxModules \in Nat
      /\ \A m \in DOMAIN source : source[m] \in Items /\ Sound(source[m])
  BY LenProperties, ElementOfSeq, BoundsAssumption DEF SourceShape
<1>2. source # <<>> => n \in DOMAIN source
  BY <1>1, EmptySeq
<1>3. ASSUME NEW m \in DOMAIN source, NEW N \in Items, Sound(N), source' = [source EXCEPT ![m] = N],
             phase' = phase
      PROVE  SourceShape'
  <2>1. /\ source' \in Seq(Items) /\ Len(source') = n /\ DOMAIN source' = DOMAIN source
        /\ \A k \in DOMAIN source : source'[k] = IF k = m THEN N ELSE source[k]
    BY <1>1, <1>3
  <2>2. source' # <<>>
    BY <1>3, <2>1
  <2> QED BY <1>1, <1>3, <2>1, <2>2 DEF SourceShape
<1>4. CASE AddModule
  <2> DEFINE N == [func |-> <<>>, struct |-> <<>>]
  <2>1. N \in Items /\ Sound(N)
    BY DEF Items, Sound
  <2>2. source' = Append(source, N) /\ n < MaxModules /\ phase' = phase
    BY <1>4 DEF AddModule
  <2> HIDE DEF N
  <2>3. /\ source' \in Seq(Items) /\ Len(source') = n + 1 /\ DOMAIN source' = 1 .. n + 1
        /\ source'[n + 1] = N /\ \A k \in 1 .. n : source'[k] = source[k]
        /\ source' # <<>>
    BY <1>1, <2>1, <2>2, AppendElements
  <2>4. \A k \in 1 .. n + 1 : k \in 1 .. n \/ k = n + 1
    BY <1>1
  <2>5. \A k \in DOMAIN source' : Sound(source'[k])
    BY <1>1, <2>1, <2>3, <2>4
  <2>6. n + 1 <= MaxModules
    BY <1>1, <2>2
  <2> QED BY <2>3, <2>5, <2>6 DEF SourceShape
<1>5. ASSUME NEW name \in Names, AddFunc(name) PROVE SourceShape'
  <2> DEFINE N == [M EXCEPT !.func = Append(@, [name |-> name, uses |-> {}])]
  <2>1. n \in DOMAIN source /\ name \notin NamesOf(M) /\ phase' = phase
    BY <1>2, <1>5, DeclaredIs DEF AddFunc, MayDeclare
  <2>2. source' = [source EXCEPT ![n] = N]
    BY <1>5 DEF AddFunc
  <2>3. N \in Items /\ Sound(N)
    BY <1>1, <2>1, FuncAdded
  <2> HIDE DEF N, n
  <2> QED BY <1>3, <2>1, <2>2, <2>3
<1>6. ASSUME NEW name \in Names, AddStruct(name) PROVE SourceShape'
  <2> DEFINE N == [M EXCEPT !.struct = Append(@, name)]
  <2>1. n \in DOMAIN source /\ name \notin NamesOf(M) /\ phase' = phase
    BY <1>2, <1>6, DeclaredIs DEF AddStruct, MayDeclare
  <2>2. source' = [source EXCEPT ![n] = N]
    BY <1>6 DEF AddStruct
  <2>3. N \in Items /\ Sound(N)
    BY <1>1, <2>1, StructAdded
  <2> HIDE DEF N, n
  <2> QED BY <1>3, <2>1, <2>2, <2>3
<1>7. ASSUME NEW m, NEW i, NEW name, AddUse(m, i, name) PROVE SourceShape'
  <2> DEFINE P == source[m]  N == [P EXCEPT !.func[i].uses = @ \cup {name}]
  <2>1. m \in DOMAIN source /\ i \in DOMAIN P.func /\ name \in NamesOf(P) \cup BuiltinNames /\ phase' = phase
    BY <1>7, DeclaredIs DEF AddUse
  <2>2. source' = [source EXCEPT ![m] = N]
    BY <1>7 DEF AddUse
  <2>3. N \in Items /\ Sound(N)
    BY <1>1, <2>1, UseAdded
  <2> HIDE DEF N
  <2> QED BY <1>3, <2>1, <2>2, <2>3
<1>8. CASE SourceEnd
  BY <1>8 DEF SourceEnd, SourceShape
<1>9. CASE MergeAll \/ RegisterFunctions \/ GenerateBody \/ Finish
  <2>1. source' = source /\ phase # "source"
    BY <1>9 DEF MergeAll, RegisterFunctions, GenerateBody, Finish
  <2> QED BY <2>1 DEF SourceShape
<1> QED BY <1>4, <1>5, <1>6, <1>7, <1>8, <1>9 DEF Next

-----------------------------------------------------------------------------
(* The merged module of a program of one module.                           *)

\* What a use has been lowered to, among nf functions and ns structs: a builtin,
\* a function or a struct.
Resolved(u, nf, ns) ==
  \/ u.kind = "func" /\ u.id \in 0 .. 5 /\ u.wanted = External
  \/ \E j \in 1 .. nf : u.kind = "func" /\ u.id = 5 + j /\ u.wanted = <<1, "func", j>>
  \/ \E j \in 1 .. ns : u.kind = "struct" /\ u.id = j - 1 /\ u.wanted = <<1, "struct", j>>

\* The builtins and then nf functions, all of different names, and ns structs.
Merged(h, nf, ns) ==
  /\ DOMAIN h.functions = 1 .. 6 + nf /\ DOMAIN h.structs = 1 .. ns
  /\ \A i \in 1 .. 6 : h.functions[i].body = FALSE /\ h.functions[i].name = Builtins[i]
  /\ \A i \in 1 .. nf :
       /\ h.functions[6 + i].body = TRUE /\ h.functions[6 + i].name \in Names
       /\ h.functions[6 + i].origin = <<1, "func", i>>
       /\ \A u \in h.functions[6 + i].uses : Resolved(u, nf, ns)
  /\ \A i, j \in 1 .. 6 + nf : h.functions[i].name = h.functions[j].name => i = j
  /\ \A i \in 1 .. ns : h.structs[i] = <<1, "struct", i>>

\* The builtins are numbered from 0 to 5.
LEMMA BuiltinPositions ==
  /\ Len(Builtins) = 6 /\ DOMAIN Builtins = 1 .. 6
  /\ \A i \in 1 .. 6 : Builtins[i] \in BuiltinNames
  /\ \A i, j \in 1 .. 6 : Builtins[i] = Builtins[j] => i = j
  /\ \A name \in BuiltinNames : Position(Builtins, name) \in 1 .. 6
                                /\ Builtins[Position(Builtins, name)] = name
<1>1. Len(Builtins) = 6 /\ DOMAIN Builtins = 1 .. 6
  BY DEF Builtins
<1>2. \A i, j \in 1 .. 6 : Builtins[i] = Builtins[j] => i = j
  <2>1. /\ Builtins[1] = "print" /\ Builtins[2] = "println" /\ Builtins[3] = "read_file"
        /\ Builtins[4] = "write_file" /\ Builtins[5] = "eprint" /\ Builtins[6] = "eprintln"
    BY DEF Builtins
  <2>2. \A i \in 1 .. 6 : i = 1 \/ i = 2 \/ i = 3 \/ i = 4 \/ i = 5 \/ i = 6
    OBVIOUS
  <2> QED BY <2>1, <2>2
<1>3. \A name \in BuiltinNames : \E i \in DOMAIN Builtins : Builtins[i] = name
  BY DEF BuiltinNames, Range
<1>4. \A i \in 1 .. 6 : Builtins[i] \in BuiltinNames
  BY <1>1 DEF BuiltinNames, Range
<1> QED BY <1>1, <1>2, <1>3, <1>4 DEF Position


\* Where the names of the only module are.
LEMMA Positions ==
  ASSUME SourceShape, Len(source) = 1
  PROVE  LET M == source[1] IN
         /\ 1 \in DOMAIN source /\ DOMAIN source = 1 .. 1 /\ M \in Items /\ Sound(M)
         /\ \A i \in DOMAIN M.func :
              /\ M.func[i].name \notin BuiltinNames /\ M.func[i].name \notin Range(M.struct)
              /\ Position(FuncNames(1), M.func[i].name) = i
         /\ \A j \in DOMAIN M.struct : /\ M.struct[j] \notin BuiltinNames
                                       /\ M.struct[j] \in Range(M.struct)
                                       /\ Position(M.struct, M.struct[j]) = j
<1> DEFINE M == source[1]
<1>1. source \in Seq(Items) /\ DOMAIN source = 1 .. 1 /\ 1 \in DOMAIN source
  BY LenProperties DEF SourceShape
<1>2. M \in Items /\ Sound(M)
  BY <1>1, ElementOfSeq DEF SourceShape
<1> HIDE DEF M
<1>3. /\ \A k \in DOMAIN M.func : M.func[k].name \in Names
      /\ \A k \in DOMAIN M.struct : M.struct[k] \in Names
  BY <1>2, ItemParts
<1>4. \A x \in Names : x \notin BuiltinNames
  BY NamesAssumption
<1>5. FuncNames(1) = [i \in DOMAIN M.func |-> M.func[i].name]
  BY DEF FuncNames, M
<1>6. ASSUME NEW i \in DOMAIN M.func
      PROVE  /\ M.func[i].name \notin BuiltinNames /\ M.func[i].name \notin Range(M.struct)
             /\ Position(FuncNames(1), M.func[i].name) = i
  <2>1. M.func[i].name \notin Range(M.struct)
    BY <1>2 DEF Sound, Range
  <2>2. \A k \in DOMAIN FuncNames(1) : FuncNames(1)[k] = M.func[i].name <=> k = i
    BY <1>2, <1>5 DEF Sound
  <2>3. i \in DOMAIN FuncNames(1)
    BY <1>5
  <2> QED BY <1>3, <1>4, <2>1, <2>2, <2>3 DEF Position
<1>7. ASSUME NEW j \in DOMAIN M.struct
      PROVE  /\ M.struct[j] \notin BuiltinNames /\ M.struct[j] \in Range(M.struct)
             /\ Position(M.struct, M.struct[j]) = j
  <2>1. \A k \in DOMAIN M.struct : M.struct[k] = M.struct[j] <=> k = j
    BY <1>2 DEF Sound
  <2> QED BY <1>3, <1>4, <2>1 DEF Position, Range
<1> QED BY <1>1, <1>2, <1>6, <1>7 DEF M

\* What the names of the only module are lowered to.
LEMMA NamesResolve ==
  ASSUME SourceShape, Len(source) = 1
  PROVE  LET M == source[1] IN
         /\ \A i \in DOMAIN M.func : Origin(1, M.func[i].name) = <<1, "func", i>>
         /\ \A j \in DOMAIN M.struct : Origin(1, M.struct[j]) = <<1, "struct", j>>
         /\ \A x \in NamesOf(M) \cup BuiltinNames :
              Resolved(LoweredUse(1, x), Len(M.func), Len(M.struct))
<1> DEFINE M == source[1]  nf == Len(M.func)  ns == Len(M.struct)
<1>1. /\ 1 \in DOMAIN source /\ M \in Items /\ Sound(M)
      /\ \A i \in DOMAIN M.func :
           /\ M.func[i].name \notin BuiltinNames /\ M.func[i].name \notin Range(M.struct)
           /\ Position(FuncNames(1), M.func[i].name) = i
      /\ \A j \in DOMAIN M.struct : /\ M.struct[j] \notin BuiltinNames
                                    /\ M.struct[j] \in Range(M.struct)
                                    /\ Position(M.struct, M.struct[j]) = j
  BY Positions
<1>2. nf \in Nat /\ ns \in Nat /\ DOMAIN M.func = 1 .. nf /\ DOMAIN M.struct = 1 .. ns
  BY <1>1, ItemParts
<1>3. ASSUME NEW i \in DOMAIN M.func
      PROVE  /\ Origin(1, M.func[i].name) = <<1, "func", i>>
             /\ Resolved(LoweredUse(1, M.func[i].name), nf, ns)
  <2> DEFINE u == LoweredUse(1, M.func[i].name)
  <2>1. Origin(1, M.func[i].name) = <<1, "func", i>>
    BY <1>1 DEF Origin
  <2>2. FuncIdOf(1, M.func[i].name) = 5 + i
    BY <1>1, <1>2, BuiltinPositions DEF FuncIdOf, FirstFuncId
  <2>3. u.kind = "func" /\ u.id = 5 + i /\ u.wanted = <<1, "func", i>>
    BY <1>1, <2>1, <2>2 DEF LoweredUse
  <2> HIDE DEF u, nf, ns
  <2> QED BY <1>2, <2>1, <2>3 DEF Resolved, u
<1>4. ASSUME NEW j \in DOMAIN M.struct
      PROVE  /\ Origin(1, M.struct[j]) = <<1, "struct", j>>
             /\ Resolved(LoweredUse(1, M.struct[j]), nf, ns)
  <2> DEFINE u == LoweredUse(1, M.struct[j])
  <2>1. Origin(1, M.struct[j]) = <<1, "struct", j>>
    BY <1>1 DEF Origin
  <2>2. u.kind = "struct" /\ u.id = j - 1 /\ u.wanted = <<1, "struct", j>>
    BY <1>1, <2>1 DEF LoweredUse, StructIdOf
  <2> HIDE DEF u, nf, ns
  <2> QED BY <1>2, <2>1, <2>2 DEF Resolved, u
<1>5. ASSUME NEW x \in BuiltinNames PROVE Resolved(LoweredUse(1, x), nf, ns)
  <2> DEFINE u == LoweredUse(1, x)
  <2>1. x \notin Range(M.struct)
    BY <1>1 DEF Range
  <2>2. FuncIdOf(1, x) \in 0 .. 5
    BY BuiltinPositions DEF FuncIdOf
  <2>3. u.kind = "func" /\ u.id \in 0 .. 5 /\ u.wanted = External
    BY <2>1, <2>2 DEF LoweredUse, Origin
  <2> HIDE DEF u
  <2> QED BY <2>3 DEF Resolved, u
<1>6. \A x \in NamesOf(M) : \/ \E i \in DOMAIN M.func : x = M.func[i].name
                            \/ \E j \in DOMAIN M.struct : x = M.struct[j]
  BY DEF NamesOf
<1> HIDE DEF M, nf, ns
<1>7. \A x \in NamesOf(M) \cup BuiltinNames : Resolved(LoweredUse(1, x), nf, ns)
  BY <1>3, <1>4, <1>5, <1>6
<1> QED BY <1>3, <1>4, <1>7 DEF M, nf, ns

\* lower_module and the merge of one module.
LEMMA MergeMakes ==
  ASSUME SourceShape, Len(source) = 1, MergeAll
  PROVE  Merged(hir', Len(source[1].func), Len(source[1].struct))
<1> DEFINE M == source[1]  nf == Len(M.func)  ns == Len(M.struct)
           bs == BuiltinFuncs  fs == LoweredFuncs(1)  all == bs \o fs  ss == LoweredStructs(1)
<1>1. /\ DOMAIN source = 1 .. 1 /\ M \in Items /\ Sound(M)
      /\ \A i \in DOMAIN M.func : M.func[i].name \notin BuiltinNames
  BY Positions
<1>2. /\ \A i \in DOMAIN M.func : Origin(1, M.func[i].name) = <<1, "func", i>>
      /\ \A j \in DOMAIN M.struct : Origin(1, M.struct[j]) = <<1, "struct", j>>
      /\ \A x \in NamesOf(M) \cup BuiltinNames : Resolved(LoweredUse(1, x), nf, ns)
  BY NamesResolve
<1>3. /\ nf \in Nat /\ ns \in Nat /\ DOMAIN M.func = 1 .. nf /\ DOMAIN M.struct = 1 .. ns
      /\ \A i \in 1 .. nf : M.func[i].name \in Names
  BY <1>1, ItemParts
<1>4. hir'.functions = all /\ hir'.structs = ss
  <2>1. FlattenSeq([m \in DOMAIN source |-> BuiltinFuncs \o LoweredFuncs(m)]) = all
    <3>1. [m \in DOMAIN source |-> BuiltinFuncs \o LoweredFuncs(m)] = [m \in 1 .. 1 |-> all]
      BY <1>1
    <3> HIDE DEF all
    <3> QED BY <3>1, FlattenOne
  <2>2. FlattenSeq([m \in DOMAIN source |-> LoweredStructs(m)]) = ss
    <3>1. [m \in DOMAIN source |-> LoweredStructs(m)] = [m \in 1 .. 1 |-> ss]
      BY <1>1
    <3> HIDE DEF ss
    <3> QED BY <3>1, FlattenOne
  <2> QED BY <2>1, <2>2 DEF MergeAll
<1> HIDE DEF M, nf, ns
<1>5. /\ bs \in Seq(Range(bs)) /\ Len(bs) = 6
      /\ \A i \in 1 .. 6 : bs[i].body = FALSE /\ bs[i].name = Builtins[i]
  BY BuiltinPositions DEF BuiltinFuncs, Range
<1>6. /\ fs \in Seq(Range(fs)) /\ Len(fs) = nf
      /\ \A i \in 1 .. nf : /\ fs[i].body = TRUE /\ fs[i].name = M.func[i].name
                            /\ fs[i].origin = <<1, "func", i>>
                            /\ fs[i].uses = {LoweredUse(1, x) : x \in M.func[i].uses}
  <2>1. fs = [i \in 1 .. nf |-> [name |-> M.func[i].name, origin |-> Origin(1, M.func[i].name),
                                 body |-> TRUE, uses |-> {LoweredUse(1, x) : x \in M.func[i].uses}]]
    BY <1>3 DEF LoweredFuncs, M
  <2>2. /\ DOMAIN fs = 1 .. nf
        /\ \A i \in 1 .. nf : /\ fs[i].body = TRUE /\ fs[i].name = M.func[i].name
                              /\ fs[i].origin = <<1, "func", i>>
                              /\ fs[i].uses = {LoweredUse(1, x) : x \in M.func[i].uses}
    BY <1>2, <1>3, <2>1
  <2>3. fs = [i \in 1 .. nf |-> fs[i]]
    BY <2>1
  <2> HIDE DEF fs
  <2>4. fs \in [1 .. nf -> Range(fs)]
    BY <2>2, <2>3 DEF Range
  <2> QED BY <1>3, <2>2, <2>4
<1>7. /\ DOMAIN ss = 1 .. ns /\ \A j \in 1 .. ns : ss[j] = <<1, "struct", j>>
  BY <1>2, <1>3 DEF LoweredStructs, M
<1> HIDE DEF bs, fs, ss
<1>8. /\ Len(all) = 6 + nf /\ DOMAIN all = 1 .. 6 + nf
      /\ \A i \in 1 .. 6 : all[i] = bs[i]
      /\ \A i \in 1 .. nf : all[6 + i] = fs[i]
  <2>1. bs \in Seq(Range(bs) \cup Range(fs)) /\ fs \in Seq(Range(bs) \cup Range(fs))
    BY <1>5, <1>6
  <2>2. /\ all \in Seq(Range(bs) \cup Range(fs)) /\ Len(all) = 6 + nf
        /\ \A i \in 1 .. 6 + nf : all[i] = IF i <= 6 THEN bs[i] ELSE fs[i - 6]
    <3>1. Len(bs) + Len(fs) = 6 + nf
      BY <1>5, <1>6
    <3>2. /\ all \in Seq(Range(bs) \cup Range(fs)) /\ Len(all) = Len(bs) + Len(fs)
          /\ \A i \in 1 .. Len(bs) + Len(fs) :
               all[i] = IF i <= Len(bs) THEN bs[i] ELSE fs[i - Len(bs)]
      BY <2>1, ConcatProperties
    <3> HIDE DEF all
    <3> QED BY <1>5, <3>1, <3>2
  <2>3. \A i \in 1 .. nf : 6 + i \in 1 .. 6 + nf /\ ~(6 + i <= 6) /\ 6 + i - 6 = i
    BY <1>3
  <2>4. \A i \in 1 .. 6 : i \in 1 .. 6 + nf /\ i <= 6
    BY <1>3
  <2> HIDE DEF all
  <2> QED BY <2>2, <2>3, <2>4, LenProperties
<1> HIDE DEF all
<1>9. \A i \in 1 .. nf : \A u \in fs[i].uses : Resolved(u, nf, ns)
  <2>1. \A i \in 1 .. nf : M.func[i].uses \subseteq NamesOf(M) \cup BuiltinNames
    BY <1>1, <1>3 DEF Sound
  <2> QED BY <1>2, <1>6, <2>1
<1>10. \A i, j \in 1 .. 6 + nf : all[i].name = all[j].name => i = j
  <2> TAKE i, j \in 1 .. 6 + nf
  <2>1. \A k \in 1 .. 6 + nf : k \in 1 .. 6 \/ (k - 6 \in 1 .. nf /\ 6 + (k - 6) = k)
    BY <1>3
  <2>2. \A k \in 1 .. 6 : all[k].name = Builtins[k] /\ Builtins[k] \in BuiltinNames
    BY <1>5, <1>8, BuiltinPositions
  <2>3. \A k \in 1 .. nf : all[6 + k].name = M.func[k].name /\ M.func[k].name \notin BuiltinNames
    BY <1>1, <1>3, <1>6, <1>8
  <2>4. CASE i \in 1 .. 6 /\ j \in 1 .. 6
    BY <2>2, <2>4, BuiltinPositions
  <2>5. CASE i - 6 \in 1 .. nf /\ j - 6 \in 1 .. nf
    <3>1. i - 6 = j - 6 => i = j
      BY <1>3
    <3>2. \A a, b \in 1 .. nf : M.func[a].name = M.func[b].name => a = b
      BY <1>1, <1>3 DEF Sound
    <3>3. all[i].name = M.func[i - 6].name /\ all[j].name = M.func[j - 6].name
      <4>1. 6 + (i - 6) = i /\ 6 + (j - 6) = j
        BY <1>3
      <4>2. /\ all[6 + (i - 6)].name = M.func[i - 6].name
            /\ all[6 + (j - 6)].name = M.func[j - 6].name
        BY <2>3, <2>5
      <4> QED BY <4>1, <4>2
    <3> QED BY <2>5, <3>1, <3>2, <3>3
  <2> QED BY <2>1, <2>2, <2>3, <2>4, <2>5
<1>11. \A i \in 1 .. nf : all[6 + i].name \in Names
  <2>1. \A i \in 1 .. nf : M.func[i].name \in Names
    BY <1>3
  <2> QED BY <1>6, <1>8, <2>1
<1>12. \A i \in 1 .. nf : \A u \in all[6 + i].uses : Resolved(u, nf, ns)
  BY <1>8, <1>9
<1>13. Merged(hir', nf, ns)
  BY <1>4, <1>5, <1>6, <1>7, <1>8, <1>10, <1>11, <1>12 DEF Merged
<1> QED BY <1>13 DEF M, nf, ns


-----------------------------------------------------------------------------
(* The functions of the runtime.                                           *)

\* There are finitely many of them, and none is the C main or the program's.
LEMMA RuntimeNamesAre ==
  /\ IsFiniteSet(RuntimeNames)
  /\ \A b : Runtime(b) \subseteq RuntimeNames
  /\ "kore_init_cmdline_args" \in RuntimeNames
  /\ {"main", "kore_main", "renamed"} \cap RuntimeNames = {}
<1>1. \A b : Runtime(b) \subseteq RuntimeNames
  <2> TAKE b
  <2>1. CASE b = "print"
    BY <2>1 DEF Runtime, RuntimeNames
  <2>2. CASE b = "println"
    BY <2>2 DEF Runtime, RuntimeNames
  <2>3. CASE b = "read_file"
    BY <2>3 DEF Runtime, RuntimeNames
  <2>4. CASE b = "write_file"
    BY <2>4 DEF Runtime, RuntimeNames
  <2>5. CASE b \notin {"print", "println", "read_file", "write_file"}
    BY <2>5 DEF Runtime, RuntimeNames
  <2> QED BY <2>1, <2>2, <2>3, <2>4, <2>5
<1>2. IsFiniteSet(RuntimeNames)
  <2>1. IsFiniteSet({"printf"})
    BY FS_Singleton
  <2>2. IsFiniteSet({"printf"} \cup {"puts"})
    BY <2>1, FS_AddElement
  <2>3. IsFiniteSet({"printf"} \cup {"puts"} \cup {"kore_read_file"})
    BY <2>2, FS_AddElement
  <2>4. IsFiniteSet({"printf"} \cup {"puts"} \cup {"kore_read_file"} \cup {"strlen"})
    BY <2>3, FS_AddElement
  <2> DEFINE S == {"printf"} \cup {"puts"} \cup {"kore_read_file"} \cup {"strlen"}
  <2>5. IsFiniteSet(S \cup {"kore_write_file"})
    BY <2>4, FS_AddElement
  <2>6. IsFiniteSet(S \cup {"kore_write_file"} \cup {"fprintf"})
    BY <2>5, FS_AddElement
  <2>7. IsFiniteSet(S \cup {"kore_write_file"} \cup {"fprintf"} \cup {"kore_init_cmdline_args"})
    BY <2>6, FS_AddElement
  <2>8. RuntimeNames = S \cup {"kore_write_file"} \cup {"fprintf"} \cup {"kore_init_cmdline_args"}
    BY DEF RuntimeNames
  <2> HIDE DEF S
  <2> QED BY <2>7, <2>8
<1>3. {"main", "kore_main", "renamed"} \cap RuntimeNames = {}
  BY DEF RuntimeNames
<1>4. "kore_init_cmdline_args" \in RuntimeNames
  BY DEF RuntimeNames
<1> QED BY <1>1, <1>2, <1>3, <1>4

Body == {1} \X {"func"} \X Nat \cup {0} \X {"main"} \X Nat
Symbol == [name : Names \cup BuiltinNames \cup RuntimeNames \cup {"main", "kore_main", "renamed"},
           bodies : SUBSET Body]

\* The sequence of a finite set's elements.
LEMMA SetToSeqElements ==
  ASSUME NEW S, IsFiniteSet(S)
  PROVE  SetToSeq(S) \in Seq(S)
<1>1. Cardinality(S) \in Nat /\ ExistsBijection(1 .. Cardinality(S), S)
  BY FS_CardinalityType
<1>2. PICK f \in [1 .. Cardinality(S) -> S] :
        \A a, b \in 1 .. Cardinality(S) : f[a] = f[b] => a = b
  <2>1. PICK f : f \in Bijection(1 .. Cardinality(S), S)
    BY <1>1 DEF ExistsBijection
  <2>2. f \in Injection(1 .. Cardinality(S), S)
    BY <2>1 DEF Bijection
  <2> QED BY <2>2 DEF Injection, IsInjective
<1>3. IsInjective(f)
  BY <1>2 DEF IsInjective
<1>4. SetToSeq(S) \in [1 .. Cardinality(S) -> S]
  BY <1>2, <1>3 DEF SetToSeq
<1> QED BY <1>1, <1>4

\* Declarations of the runtime's functions come last and have no bodies.
LEMMA RuntimeDeclared ==
  ASSUME NEW syms \in Seq(Symbol), NEW fns \in SUBSET RuntimeNames
  PROVE  LET res == WithRuntime(syms, fns) IN
         /\ res \in Seq(Symbol) /\ Len(res) >= Len(syms)
         /\ \A i \in 1 .. Len(syms) : res[i] = syms[i]
         /\ \A i \in Len(syms) + 1 .. Len(res) : res[i].name \in RuntimeNames /\ res[i].bodies = {}
<1> DEFINE missing == SetToSeq(fns \ SymbolNames(syms))
           t == [i \in DOMAIN missing |-> Added(missing[i], {})]
           m == Len(syms)  n == Len(missing)  res == syms \o t
<1>1. WithRuntime(syms, fns) = res
  BY DEF WithRuntime
<1>2. missing \in Seq(RuntimeNames) /\ n \in Nat /\ DOMAIN missing = 1 .. n
  <2>1. IsFiniteSet(fns \ SymbolNames(syms))
    BY RuntimeNamesAre, FS_Subset
  <2>2. missing \in Seq(fns \ SymbolNames(syms))
    BY <2>1, SetToSeqElements
  <2> HIDE DEF missing
  <2> QED BY <2>2, LenProperties
<1> HIDE DEF missing
<1>3. \A i \in 1 .. n : missing[i] \in RuntimeNames
  BY <1>2
<1>4. \A x \in RuntimeNames : /\ Added(x, {}) \in Symbol /\ Added(x, {}).name = x
                              /\ Added(x, {}).bodies = {}
  BY DEF Added, Symbol
<1>5. /\ t \in Seq(Symbol) /\ Len(t) = n
      /\ \A i \in 1 .. n : t[i].name \in RuntimeNames /\ t[i].bodies = {}
  BY <1>2, <1>3, <1>4
<1> HIDE DEF t
<1>6. /\ res \in Seq(Symbol) /\ Len(res) = m + n /\ m \in Nat
      /\ \A i \in 1 .. m + n : res[i] = IF i <= m THEN syms[i] ELSE t[i - m]
  <2>1. /\ res \in Seq(Symbol) /\ Len(res) = m + Len(t)
        /\ \A i \in 1 .. m + Len(t) : res[i] = IF i <= m THEN syms[i] ELSE t[i - m]
    BY <1>5, ConcatProperties
  <2> HIDE DEF res, n
  <2> QED BY <1>5, <2>1, LenProperties
<1> HIDE DEF res, m, n
<1>7. \A i \in 1 .. m : res[i] = syms[i]
  <2>1. \A i \in 1 .. m : i \in 1 .. m + n /\ i <= m
    BY <1>2, <1>6
  <2> QED BY <1>6, <2>1
<1>8. \A i \in m + 1 .. m + n : res[i].name \in RuntimeNames /\ res[i].bodies = {}
  <2> TAKE i \in m + 1 .. m + n
  <2>1. i \in 1 .. m + n /\ ~(i <= m) /\ i - m \in 1 .. n
    BY <1>2, <1>6
  <2> QED BY <1>5, <1>6, <2>1
<1>9. Len(res) >= m
  BY <1>2, <1>6
<1> QED BY <1>1, <1>6, <1>7, <1>8, <1>9 DEF m


-----------------------------------------------------------------------------
(* The LLVM module.                                                        *)

nf == Len(source[1].func)
ns == Len(source[1].struct)

\* Nobody in the program takes the name of a function of the runtime.
NoClash == Names \cap RuntimeNames = {}

\* The name table leads to the functions, in their order.
Table(h, table) ==
  /\ DOMAIN table = {h.functions[i].name : i \in DOMAIN h.functions}
  /\ \A i \in DOMAIN h.functions : table[h.functions[i].name] = i

\* A function has no body but its own, and no name that others have to find.
Declarations(syms, n) ==
  /\ syms \in Seq(Symbol) /\ Len(syms) >= 6 + n
  /\ \A i \in 1 .. 6 : syms[i].bodies = {}
  /\ \A i \in 1 .. n : /\ syms[6 + i].bodies \subseteq {<<1, "func", i>>}
                       /\ syms[6 + i].name \notin RuntimeNames
  /\ \A i \in 1 .. 6 + n : syms[i].name # "main"

\* Behind the functions come those of the runtime.
OnlyRuntime(syms, n) ==
  \A i \in 6 + n + 1 .. Len(syms) : syms[i].name \in RuntimeNames /\ syms[i].bodies = {}

\* Every function has its body; behind them is the C main, if there is a main.
Finished(syms, table, n) ==
  /\ \A i \in 1 .. n : syms[6 + i].bodies = {<<1, "func", i>>}
  /\ \A i \in 6 + n + 1 .. Len(syms) :
       \/ syms[i].name \in RuntimeNames /\ syms[i].bodies = {}
       \/ /\ "main" \in DOMAIN table
          /\ syms[i].name = "main" /\ syms[i].bodies = {MainBody(table["main"])}
  /\ "main" \in DOMAIN table => \E i \in 6 + n + 1 .. Len(syms) : syms[i].name = "main"

\* What has been generated for a use is what it was lowered for.
Kept(es, n, m) ==
  \A e \in es :
    \/ e.kind = "type" /\ e.at \in 1 .. m /\ e.wanted = <<1, "struct", e.at>>
    \/ e.kind = "call" /\ e.at = 0 /\ e.wanted = External /\ e.runtime \subseteq RuntimeNames
    \/ e.kind = "call" /\ \E j \in 1 .. n : e.at = 6 + j /\ e.wanted = <<1, "func", j>>

CallShape ==
  /\ phase \in {"source", "lower", "declare", "generate", "done"}
  /\ phase \in {"source", "lower"} => symbols = <<>> /\ named = <<>> /\ emitted = {}
  /\ phase = "declare" => symbols = <<>> /\ named = <<>> /\ emitted = {}
  /\ phase \in {"declare", "generate", "done"} => Merged(hir, nf, ns)
  /\ phase \in {"generate", "done"} =>
       Table(hir, named) /\ Declarations(symbols, nf) /\ Kept(emitted, nf, ns)
  /\ phase = "generate" => OnlyRuntime(symbols, nf)
  /\ phase = "done" => Finished(symbols, named, nf)

\* The numbers of a program of one module.
LEMMA Numbers ==
  ASSUME SourceShape, MaxModules <= 1, phase # "source"
  PROVE  Len(source) = 1 /\ nf \in Nat /\ ns \in Nat
<1>1. source \in Seq(Items) /\ source # <<>> /\ Len(source) \in Nat /\ Len(source) <= 1
  BY LenProperties, BoundsAssumption DEF SourceShape
<1>2. Len(source) = 1
  <2>1. Len(source) # 0
    BY <1>1, EmptySeq
  <2>2. \A k \in Nat : k <= 1 /\ k # 0 => k = 1
    OBVIOUS
  <2> QED BY <1>1, <2>1, <2>2
<1>3. source[1] \in Items
  BY <1>1, <1>2, ElementOfSeq
<1> QED BY <1>2, <1>3, ItemParts DEF nf, ns

\* The functions of the merged module, one by one.
LEMMA Functions ==
  ASSUME NEW h, NEW n \in Nat, NEW m \in Nat, Merged(h, n, m)
  PROVE  /\ DOMAIN h.functions = 1 .. 6 + n
         /\ \A i \in 1 .. 6 + n : i \in 1 .. 6 \/ \E k \in 1 .. n : i = 6 + k
         /\ \A k \in 1 .. n : 6 + k \in 1 .. 6 + n
         /\ \A i \in 1 .. 6 : i \in 1 .. 6 + n
<1>1. \A i \in 1 .. 6 + n : i \in 1 .. 6 \/ (i - 6 \in 1 .. n /\ i = 6 + (i - 6))
  OBVIOUS
<1>2. \A k \in 1 .. n : 6 + k \in 1 .. 6 + n
  OBVIOUS
<1>3. \A i \in 1 .. 6 : i \in 1 .. 6 + n
  OBVIOUS
<1> QED BY <1>1, <1>2, <1>3 DEF Merged

\* register_functions: no name is taken, so each function gets the symbol of its own.
LEMMA RegisterMakes ==
  ASSUME NEW n \in Nat, NEW m \in Nat, Merged(hir, n, m), NoClash, RegisterFunctions
  PROVE  Table(hir, named') /\ Declarations(symbols', n) /\ OnlyRuntime(symbols', n)
<1> DEFINE fs == hir.functions
           name(i) == SymbolName(fs[i].name)
           others(i) == {name(j) : j \in 1 .. i - 1}
           syms == [i \in DOMAIN fs |-> Added(name(i), others(i))]
<1>1. /\ DOMAIN fs = 1 .. 6 + n
      /\ \A i \in 1 .. 6 + n : i \in 1 .. 6 \/ \E k \in 1 .. n : i = 6 + k
      /\ \A k \in 1 .. n : 6 + k \in 1 .. 6 + n
      /\ \A i \in 1 .. 6 : i \in 1 .. 6 + n
  BY Functions
<1>2. symbols' = syms
  BY DEF RegisterFunctions
<1>3. /\ \A i \in 1 .. 6 : fs[i].name \in BuiltinNames
      /\ \A k \in 1 .. n : fs[6 + k].name \in Names
      /\ \A i, j \in 1 .. 6 + n : fs[i].name = fs[j].name => i = j
  BY BuiltinPositions DEF Merged
<1>4. \A i \in 1 .. 6 + n : fs[i].name \in Names \cup BuiltinNames
  BY <1>1, <1>3
<1>5. \A x \in Names \cup BuiltinNames :
        SymbolName(x) \in Names \cup BuiltinNames \cup {"kore_main"} /\ SymbolName(x) # "main"
  BY DEF SymbolName
<1>6. \A x \in Names : SymbolName(x) \notin RuntimeNames
  BY RuntimeNamesAre DEF SymbolName, NoClash
<1>7. \A x, ts : /\ Added(x, ts).bodies = {}
                 /\ Added(x, ts).name \in {x, "renamed"}
                 /\ x \in Names \cup BuiltinNames \cup {"kore_main"} => Added(x, ts) \in Symbol
  BY DEF Added, Symbol
<1>8. /\ DOMAIN syms = 1 .. 6 + n
      /\ \A i \in 1 .. 6 + n : /\ syms[i] \in Symbol /\ syms[i].bodies = {}
                               /\ syms[i].name \in {SymbolName(fs[i].name), "renamed"}
  <2> HIDE DEF fs
  <2>1. \A i \in 1 .. 6 + n : syms[i] = Added(SymbolName(fs[i].name), others(i))
    BY <1>1
  <2> HIDE DEF others, syms
  <2>2. ASSUME NEW i \in 1 .. 6 + n
        PROVE  /\ syms[i] \in Symbol /\ syms[i].bodies = {}
               /\ syms[i].name \in {SymbolName(fs[i].name), "renamed"}
    BY <1>4, <1>5, <1>7, <2>1
  <2>3. DOMAIN syms = 1 .. 6 + n
    BY <1>1 DEF syms
  <2> QED BY <2>2, <2>3
<1>9. syms \in Seq(Symbol) /\ Len(syms) = 6 + n
  <2>1. syms = [i \in 1 .. 6 + n |-> syms[i]]
    BY <1>1
  <2> HIDE DEF syms
  <2> QED BY <1>8, <2>1
<1> HIDE DEF fs, syms
<1>10. Declarations(syms, n)
  <2>1. \A i \in 1 .. 6 + n : syms[i].name # "main"
    BY <1>4, <1>5, <1>8
  <2>2. \A i \in 1 .. n : syms[6 + i].name \notin RuntimeNames
    BY <1>1, <1>3, <1>6, <1>8, RuntimeNamesAre
  <2>3. \A i \in 1 .. n : syms[6 + i].bodies \subseteq {<<1, "func", i>>}
    BY <1>1, <1>8
  <2>4. \A i \in 1 .. 6 : syms[i].bodies = {}
    BY <1>1, <1>8
  <2>5. Len(syms) >= 6 + n
    BY <1>9
  <2> QED BY <1>9, <2>1, <2>2, <2>3, <2>4, <2>5 DEF Declarations
<1>11. OnlyRuntime(syms, n)
  BY <1>9 DEF OnlyRuntime
<1>12. Table(hir, named')
  <2>1. named' = [x \in {f.name : f \in Range(fs)} |->
                   CHOOSE i \in DOMAIN fs : /\ fs[i].name = x
                                            /\ \A j \in DOMAIN fs : fs[j].name = x => j <= i]
    BY DEF RegisterFunctions, fs
  <2>2. {f.name : f \in Range(fs)} = {fs[i].name : i \in DOMAIN fs}
    BY DEF Range
  <2>3. ASSUME NEW i \in DOMAIN fs PROVE named'[fs[i].name] = i
    <3>1. \A j \in DOMAIN fs : fs[j].name = fs[i].name <=> j = i
      BY <1>1, <1>3
    <3>2. i <= i
      BY <1>1
    <3> QED BY <2>1, <2>2, <3>1, <3>2
  <2> QED BY <2>1, <2>2, <2>3 DEF Table, fs
<1> QED BY <1>2, <1>10, <1>11, <1>12


\* Declaring functions of the runtime disturbs no symbol that is there.
LEMMA DeclaresMore ==
  ASSUME NEW n \in Nat, NEW syms, Declarations(syms, n), OnlyRuntime(syms, n),
         NEW fns \in SUBSET RuntimeNames
  PROVE  LET res == WithRuntime(syms, fns) IN
         /\ Declarations(res, n) /\ OnlyRuntime(res, n) /\ Len(res) >= Len(syms)
         /\ \A i \in 1 .. Len(syms) : res[i] = syms[i]
<1> DEFINE res == WithRuntime(syms, fns)
<1>1. syms \in Seq(Symbol) /\ Len(syms) \in Nat /\ Len(syms) >= 6 + n
  BY LenProperties DEF Declarations
<1>2. /\ res \in Seq(Symbol) /\ Len(res) >= Len(syms) /\ Len(res) \in Nat
      /\ \A i \in 1 .. Len(syms) : res[i] = syms[i]
      /\ \A i \in Len(syms) + 1 .. Len(res) : res[i].name \in RuntimeNames /\ res[i].bodies = {}
  BY <1>1, RuntimeDeclared, LenProperties
<1> HIDE DEF res
<1>3. \A i \in 1 .. 6 + n : i \in 1 .. Len(syms)
  BY <1>1
<1>4. /\ \A i \in 1 .. 6 : i \in 1 .. 6 + n
      /\ \A i \in 1 .. n : 6 + i \in 1 .. 6 + n
  OBVIOUS
<1>5. Len(res) >= 6 + n
  BY <1>1, <1>2
<1>6. Declarations(res, n)
  BY <1>2, <1>3, <1>4, <1>5 DEF Declarations
<1>7. \A i \in 6 + n + 1 .. Len(res) : \/ i \in 6 + n + 1 .. Len(syms) /\ i \in 1 .. Len(syms)
                                       \/ i \in Len(syms) + 1 .. Len(res)
  BY <1>1, <1>2
<1>8. OnlyRuntime(res, n)
  BY <1>2, <1>7 DEF OnlyRuntime
<1> QED BY <1>2, <1>6, <1>8 DEF res

\* codegen_function_body: a function gets its own body, its calls go where they should.
LEMMA GenerateKeeps ==
  ASSUME NEW n \in Nat, NEW m \in Nat, Merged(hir, n, m), Table(hir, named), GenerateBody,
         Declarations(symbols, n), OnlyRuntime(symbols, n), Kept(emitted, n, m)
  PROVE  Declarations(symbols', n) /\ OnlyRuntime(symbols', n) /\ Kept(emitted', n, m)
<1> DEFINE fs == hir.functions  i == NextBody  f == fs[i]
           calls == {u \in f.uses : u.kind = "func"}
           builtins == {u \in calls : u.id < Len(Builtins)}
           own == [symbols EXCEPT ![named[f.name]].bodies = @ \cup {f.origin}]
           fns == UNION {Runtime(Builtins[u.id + 1]) : u \in builtins}
<1>1. /\ symbols' = WithRuntime(own, fns)
      /\ emitted' = emitted
           \cup {[kind |-> "call", wanted |-> u.wanted, at |-> Callee(u.id), runtime |-> {}] :
                    u \in calls \ builtins}
           \cup {[kind |-> "call", wanted |-> u.wanted, at |-> 0,
                  runtime |-> Runtime(Builtins[u.id + 1])] : u \in builtins}
           \cup {[kind |-> "type", wanted |-> u.wanted, at |-> u.id + 1, runtime |-> {}] :
                    u \in f.uses \ calls}
  BY DEF GenerateBody
<1>2. /\ DOMAIN fs = 1 .. 6 + n
      /\ \A k \in 1 .. 6 + n : k \in 1 .. 6 \/ \E j \in 1 .. n : k = 6 + j
      /\ \A k \in 1 .. n : 6 + k \in 1 .. 6 + n
      /\ \A k \in 1 .. 6 : k \in 1 .. 6 + n
  BY Functions
<1>3. i \in Waiting
  <2>1. Waiting # {}
    BY DEF GenerateBody
  <2>2. Waiting \in SUBSET Nat
    BY <1>2 DEF Waiting
  <2>3. \E x \in Waiting : \A j \in Waiting : x <= j
    BY <2>1, <2>2, LeastNumber
  <2> QED BY <2>3 DEF NextBody
<1>4. PICK k \in 1 .. n : i = 6 + k
  <2>1. i \in 1 .. 6 + n /\ fs[i].body
    BY <1>2, <1>3 DEF Waiting
  <2>2. \A j \in 1 .. 6 : fs[j].body = FALSE
    BY DEF Merged
  <2> QED BY <1>2, <2>1, <2>2
<1> HIDE DEF i
<1>5. f.origin = <<1, "func", k>> /\ \A u \in f.uses : Resolved(u, n, m)
  BY <1>4 DEF Merged
<1>6. named[f.name] = 6 + k
  BY <1>2, <1>4 DEF Table
<1> HIDE DEF fs, f
<1>7. Declarations(own, n) /\ OnlyRuntime(own, n)
  <2>1. /\ symbols \in Seq(Symbol) /\ Len(symbols) \in Nat /\ Len(symbols) >= 6 + n
        /\ DOMAIN symbols = 1 .. Len(symbols) /\ 6 + k \in 1 .. Len(symbols)
    <3>1. symbols \in Seq(Symbol) /\ Len(symbols) >= 6 + n
      BY DEF Declarations
    <3> QED BY <3>1, LenProperties
  <2> DEFINE s == symbols[6 + k]  t == [s EXCEPT !.bodies = @ \cup {f.origin}]
  <2>2. s \in Symbol /\ f.origin \in Body
    BY <1>5, <2>1 DEF Body
  <2>3. t \in Symbol /\ t.name = s.name /\ t.bodies = s.bodies \cup {f.origin}
    BY <2>2 DEF Symbol
  <2>4. own = [symbols EXCEPT ![6 + k] = t]
    BY <1>6
  <2> HIDE DEF t, own
  <2>5. /\ own \in Seq(Symbol) /\ Len(own) = Len(symbols) /\ own[6 + k] = t
        /\ \A j \in 1 .. Len(symbols) : j # 6 + k => own[j] = symbols[j]
    BY <2>1, <2>3, <2>4
  <2>6. \A j \in 1 .. Len(symbols) : own[j].name = symbols[j].name
    BY <2>3, <2>5
  <2>7. \A j \in 1 .. n : own[6 + j].bodies \subseteq {<<1, "func", j>>}
    <3> TAKE j \in 1 .. n
    <3>1. symbols[6 + j].bodies \subseteq {<<1, "func", j>>}
      BY DEF Declarations
    <3>2. CASE j = k
      BY <1>5, <2>3, <2>5, <3>1, <3>2
    <3>3. CASE j # k
      <4>1. 6 + j # 6 + k /\ 6 + j \in 1 .. Len(symbols)
        BY <2>1, <3>3
      <4> QED BY <2>5, <3>1, <4>1
    <3> QED BY <3>2, <3>3
  <2>8. \A j \in 1 .. 6 : own[j].bodies = {}
    <3>1. \A j \in 1 .. 6 : j # 6 + k /\ j \in 1 .. Len(symbols)
      BY <2>1
    <3> QED BY <2>5, <3>1 DEF Declarations
  <2>9. /\ \A j \in 1 .. 6 + n : j \in 1 .. Len(symbols)
        /\ \A j \in 1 .. n : 6 + j \in 1 .. Len(symbols)
        /\ \A j \in 6 + n + 1 .. Len(symbols) : j \in 1 .. Len(symbols) /\ j # 6 + k
    BY <2>1
  <2>10. Declarations(own, n)
    BY <2>1, <2>5, <2>6, <2>7, <2>8, <2>9 DEF Declarations
  <2>11. OnlyRuntime(own, n)
    BY <2>5, <2>9 DEF OnlyRuntime
  <2> QED BY <2>10, <2>11
<1>8. fns \subseteq RuntimeNames
  BY RuntimeNamesAre
<1> HIDE DEF own, fns
<1>9. Declarations(symbols', n) /\ OnlyRuntime(symbols', n)
  BY <1>1, <1>7, <1>8, DeclaresMore
<1>10. \A u \in calls \ builtins :
         \E j \in 1 .. n : Callee(u.id) = 6 + j /\ u.wanted = <<1, "func", j>>
  <2> TAKE u \in calls \ builtins
  <2>1. u \in f.uses /\ u.kind = "func" /\ ~(u.id < 6) /\ Resolved(u, n, m)
    BY <1>5, BuiltinPositions
  <2>2. PICK j \in 1 .. n : u.id = 5 + j /\ u.wanted = <<1, "func", j>>
    BY <2>1 DEF Resolved
  <2>3. u.id + 1 = 6 + j
    BY <2>2
  <2>4. Callee(u.id) = 6 + j
    BY <1>2, <2>3 DEF Callee, Table, fs
  <2> QED BY <2>2, <2>4
<1>11. \A u \in builtins : u.wanted = External
  <2> TAKE u \in builtins
  <2>1. u \in f.uses /\ u.kind = "func" /\ u.id < 6 /\ Resolved(u, n, m)
    BY <1>5, BuiltinPositions
  <2>2. \A j \in 1 .. n : ~(5 + j < 6)
    OBVIOUS
  <2> QED BY <2>1, <2>2 DEF Resolved
<1>12. \A u \in f.uses \ calls : u.id + 1 \in 1 .. m /\ u.wanted = <<1, "struct", u.id + 1>>
  <2> TAKE u \in f.uses \ calls
  <2>1. u.kind # "func" /\ Resolved(u, n, m)
    BY <1>5
  <2>2. PICK j \in 1 .. m : u.id = j - 1 /\ u.wanted = <<1, "struct", j>>
    BY <2>1 DEF Resolved
  <2>3. u.id + 1 = j
    BY <2>2
  <2> QED BY <2>2, <2>3
<1> HIDE DEF calls, builtins
<1>13. ASSUME NEW e \in emitted', e \notin emitted
       PROVE  \/ e.kind = "type" /\ e.at \in 1 .. m /\ e.wanted = <<1, "struct", e.at>>
              \/ e.kind = "call" /\ e.at = 0 /\ e.wanted = External /\ e.runtime \subseteq RuntimeNames
              \/ e.kind = "call" /\ \E j \in 1 .. n : e.at = 6 + j /\ e.wanted = <<1, "func", j>>
  <2>1. CASE \E u \in calls \ builtins :
               e = [kind |-> "call", wanted |-> u.wanted, at |-> Callee(u.id), runtime |-> {}]
    BY <1>10, <2>1
  <2>2. CASE \E u \in builtins : e = [kind |-> "call", wanted |-> u.wanted, at |-> 0,
                                      runtime |-> Runtime(Builtins[u.id + 1])]
    BY <1>11, <2>2, RuntimeNamesAre
  <2>3. CASE \E u \in f.uses \ calls :
               e = [kind |-> "type", wanted |-> u.wanted, at |-> u.id + 1, runtime |-> {}]
    BY <1>12, <2>3
  <2> QED BY <1>1, <1>13, <2>1, <2>2, <2>3
<1>14. Kept(emitted', n, m)
  BY <1>13 DEF Kept
<1> QED BY <1>9, <1>14

\* generate_main_wrapper: all bodies are there, and the C main's name is free.
LEMMA FinishMakes ==
  ASSUME NEW n \in Nat, NEW m \in Nat, Merged(hir, n, m), Table(hir, named), Finish,
         Declarations(symbols, n), OnlyRuntime(symbols, n)
  PROVE  Declarations(symbols', n) /\ Finished(symbols', named, n)
<1> DEFINE fs == hir.functions
           init == WithRuntime(symbols, {"kore_init_cmdline_args"})
           main == [Added("main", SymbolNames(init)) EXCEPT !.bodies = {MainBody(named["main"])}]
<1>1. /\ DOMAIN fs = 1 .. 6 + n
      /\ \A i \in 1 .. 6 + n : i \in 1 .. 6 \/ \E k \in 1 .. n : i = 6 + k
      /\ \A k \in 1 .. n : 6 + k \in 1 .. 6 + n
  BY Functions
<1>2. /\ symbols \in Seq(Symbol) /\ Len(symbols) \in Nat /\ Len(symbols) >= 6 + n
      /\ DOMAIN symbols = 1 .. Len(symbols)
  <2>1. symbols \in Seq(Symbol) /\ Len(symbols) >= 6 + n
    BY DEF Declarations
  <2> QED BY <2>1, LenProperties
<1>3. \A k \in 1 .. n : symbols[6 + k].bodies = {<<1, "func", k>>}
  <2> TAKE k \in 1 .. n
  <2>1. fs[6 + k].body = TRUE /\ fs[6 + k].origin = <<1, "func", k>>
    BY DEF Merged
  <2>2. <<1, "func", k>> \in Started
    BY <1>1, <2>1 DEF Finish, Waiting
  <2>3. PICK j \in 1 .. Len(symbols) : <<1, "func", k>> \in symbols[j].bodies
    BY <1>2, <2>2 DEF Started, Range
  <2>4. j \in 1 .. 6 + n
    <3>1. j \in 1 .. 6 + n \/ j \in 6 + n + 1 .. Len(symbols)
      BY <1>2
    <3>2. \A i \in 6 + n + 1 .. Len(symbols) : symbols[i].bodies = {}
      BY DEF OnlyRuntime
    <3> QED BY <2>3, <3>1, <3>2
  <2>5. \A i \in 1 .. 6 : symbols[i].bodies = {}
    BY DEF Declarations
  <2>6. PICK l \in 1 .. n : j = 6 + l
    BY <1>1, <2>3, <2>4, <2>5
  <2>7. symbols[6 + l].bodies \subseteq {<<1, "func", l>>}
    BY DEF Declarations
  <2>8. k = l
    BY <2>3, <2>6, <2>7
  <2> QED BY <2>3, <2>6, <2>7, <2>8
<1>4. CASE "main" \notin DOMAIN named
  <2>1. symbols' = symbols
    BY <1>4 DEF Finish
  <2>2. Finished(symbols, named, n)
    BY <1>3, <1>4 DEF Finished, OnlyRuntime
  <2> QED BY <2>1, <2>2
<1>5. CASE "main" \in DOMAIN named
  <2>1. symbols' = Append(init, main)
    BY <1>5 DEF Finish
  <2>2. /\ Declarations(init, n) /\ OnlyRuntime(init, n) /\ Len(init) >= Len(symbols)
        /\ \A i \in 1 .. Len(symbols) : init[i] = symbols[i]
    <3>1. {"kore_init_cmdline_args"} \in SUBSET RuntimeNames
      BY RuntimeNamesAre
    <3> QED BY <3>1, DeclaresMore
  <2> HIDE DEF init
  <2> DEFINE l == Len(init)
  <2>3. init \in Seq(Symbol) /\ l \in Nat /\ DOMAIN init = 1 .. l /\ l >= 6 + n
    <3>1. init \in Seq(Symbol) /\ l >= 6 + n
      BY <2>2 DEF Declarations
    <3> QED BY <3>1, LenProperties
  <2>4. "main" \notin SymbolNames(init)
    <3>1. \A i \in 1 .. l : i \in 1 .. 6 + n \/ i \in 6 + n + 1 .. l
      BY <2>3
    <3>2. \A i \in 1 .. 6 + n : init[i].name # "main"
      BY <2>2 DEF Declarations
    <3>3. \A i \in 6 + n + 1 .. l : init[i].name # "main"
      BY <2>2, RuntimeNamesAre DEF OnlyRuntime
    <3>4. \A i \in 1 .. l : init[i].name # "main"
      BY <3>1, <3>2, <3>3
    <3> QED BY <2>3, <3>4 DEF SymbolNames, Range
  <2>5. named["main"] \in Nat
    <3>1. PICK i \in 1 .. 6 + n : fs[i].name = "main"
      BY <1>1, <1>5 DEF Table
    <3>2. named["main"] = i
      BY <1>1, <3>1 DEF Table
    <3> QED BY <3>2
  <2>6. main.name = "main" /\ main.bodies = {MainBody(named["main"])} /\ main \in Symbol
    <3>1. main = [name |-> "main", bodies |-> {MainBody(named["main"])}]
      BY <2>4 DEF Added
    <3>2. MainBody(named["main"]) \in Body
      BY <2>5 DEF MainBody, Body
    <3> QED BY <3>1, <3>2 DEF Symbol
  <2> HIDE DEF main
  <2> DEFINE res == Append(init, main)
  <2>7. /\ res \in Seq(Symbol) /\ Len(res) = l + 1 /\ res[l + 1] = main
        /\ \A i \in 1 .. l : res[i] = init[i]
    BY <2>3, <2>6, AppendElements
  <2> HIDE DEF res
  <2>8. /\ \A i \in 1 .. 6 + n : i \in 1 .. l
        /\ \A i \in 1 .. n : 6 + i \in 1 .. l
        /\ \A i \in 1 .. 6 : i \in 1 .. l
        /\ \A i \in 6 + n + 1 .. l + 1 :
             i = l + 1 \/ (i \in 6 + n + 1 .. l /\ i \in 1 .. l)
        /\ l + 1 \in 6 + n + 1 .. l + 1
        /\ l + 1 >= 6 + n
    BY <2>3
  <2> HIDE DEF l
  <2>9. Declarations(res, n)
    BY <2>2, <2>7, <2>8 DEF Declarations
  <2>10. \A i \in 1 .. n : res[6 + i].bodies = {<<1, "func", i>>}
    <3>1. \A i \in 1 .. n : 6 + i \in 1 .. Len(symbols)
      BY <1>2
    <3> QED BY <1>3, <2>2, <2>7, <2>8, <3>1
  <2>11. \A i \in 6 + n + 1 .. l + 1 :
           \/ res[i].name \in RuntimeNames /\ res[i].bodies = {}
           \/ res[i].name = "main" /\ res[i].bodies = {MainBody(named["main"])}
    BY <2>2, <2>6, <2>7, <2>8 DEF OnlyRuntime, l
  <2>12. \E i \in 6 + n + 1 .. l + 1 : res[i].name = "main"
    BY <2>6, <2>7, <2>8
  <2>13. Finished(res, named, n)
    BY <1>5, <2>7, <2>10, <2>11, <2>12 DEF Finished
  <2> QED BY <2>1, <2>9, <2>13 DEF res
<1> QED BY <1>4, <1>5

-----------------------------------------------------------------------------
(* The program of one module, from its source to its symbols.              *)

\* A step of the pipeline keeps the shape of what it has made so far.
LEMMA CallShapeKept ==
  ASSUME SourceShape, CallShape, MaxModules <= 1, NoClash, Next
  PROVE  CallShape'
<1>1. phase # "source" => Len(source) = 1 /\ nf \in Nat /\ ns \in Nat
  BY Numbers
<1>2. ASSUME phase = "source", phase' \in {"source", "lower"}, UNCHANGED <<hir, symbols, named, emitted>>
      PROVE  CallShape'
  BY <1>2 DEF CallShape
<1>3. CASE AddModule \/ SourceEnd \/ \E name \in Names : AddFunc(name) \/ AddStruct(name)
  BY <1>2, <1>3 DEF AddModule, SourceEnd, AddFunc, AddStruct, MayDeclare
<1>4. ASSUME NEW m, NEW i, NEW name, AddUse(m, i, name) PROVE CallShape'
  BY <1>2, <1>4 DEF AddUse
<1>5. ASSUME phase # "source", source' = source PROVE nf' = nf /\ ns' = ns
  BY <1>5 DEF nf, ns
<1>6. CASE MergeAll
  <2>1. /\ phase = "lower" /\ phase' = "declare" /\ source' = source
        /\ UNCHANGED <<symbols, named, emitted>>
    BY <1>6 DEF MergeAll
  <2>2. nf' = nf /\ ns' = ns
    BY <1>5, <2>1
  <2>3. Merged(hir', nf, ns)
    <3>1. Len(source) = 1
      BY <1>1, <2>1
    <3> QED BY <1>6, <3>1, MergeMakes DEF nf, ns
  <2> HIDE DEF nf, ns
  <2>4. symbols = <<>> /\ named = <<>> /\ emitted = {}
    BY <2>1 DEF CallShape
  <2> QED BY <2>1, <2>2, <2>3, <2>4 DEF CallShape
<1>7. CASE RegisterFunctions
  <2>1. /\ phase = "declare" /\ phase' = "generate" /\ source' = source
        /\ hir' = hir /\ emitted' = emitted
    BY <1>7 DEF RegisterFunctions
  <2>2. nf' = nf /\ ns' = ns /\ nf \in Nat /\ ns \in Nat
    BY <1>1, <1>5, <2>1
  <2>3. Merged(hir, nf, ns) /\ emitted = {}
    BY <2>1 DEF CallShape
  <2>4. Table(hir, named') /\ Declarations(symbols', nf) /\ OnlyRuntime(symbols', nf)
    BY <1>7, <2>2, <2>3, RegisterMakes
  <2>5. Kept(emitted', nf, ns)
    BY <2>1, <2>3 DEF Kept
  <2> QED BY <2>1, <2>2, <2>3, <2>4, <2>5 DEF CallShape
<1>8. CASE GenerateBody
  <2>1. phase = "generate" /\ phase' = "generate" /\ source' = source /\ hir' = hir /\ named' = named
    BY <1>8 DEF GenerateBody
  <2>2. nf' = nf /\ ns' = ns /\ nf \in Nat /\ ns \in Nat
    BY <1>1, <1>5, <2>1
  <2>3. /\ Merged(hir, nf, ns) /\ Table(hir, named) /\ Declarations(symbols, nf)
        /\ OnlyRuntime(symbols, nf) /\ Kept(emitted, nf, ns)
    BY <2>1 DEF CallShape
  <2>4. Declarations(symbols', nf) /\ OnlyRuntime(symbols', nf) /\ Kept(emitted', nf, ns)
    BY <1>8, <2>2, <2>3, GenerateKeeps
  <2> QED BY <2>1, <2>2, <2>3, <2>4 DEF CallShape
<1>9. CASE Finish
  <2>1. /\ phase = "generate" /\ phase' = "done" /\ source' = source /\ hir' = hir /\ named' = named
        /\ emitted' = emitted
    BY <1>9 DEF Finish
  <2>2. nf' = nf /\ ns' = ns /\ nf \in Nat /\ ns \in Nat
    BY <1>1, <1>5, <2>1
  <2>3. /\ Merged(hir, nf, ns) /\ Table(hir, named) /\ Declarations(symbols, nf)
        /\ OnlyRuntime(symbols, nf) /\ Kept(emitted, nf, ns)
    BY <2>1 DEF CallShape
  <2>4. Declarations(symbols', nf) /\ Finished(symbols', named, nf)
    BY <1>9, <2>2, <2>3, FinishMakes
  <2> QED BY <2>1, <2>2, <2>3, <2>4 DEF CallShape
<1> QED BY <1>3, <1>4, <1>6, <1>7, <1>8, <1>9 DEF Next

\* What has been made at any time: a sound source, its functions and structs in
\* the merged module, a symbol for each function, and uses that know their item.
THEOREM CallsInvariance ==
  ASSUME MaxModules <= 1, NoClash
  PROVE  Spec => [](SourceShape /\ CallShape)
<1>1. Init => SourceShape /\ CallShape
  <2> SUFFICES ASSUME Init PROVE SourceShape /\ CallShape
    OBVIOUS
  <2>1. phase = "source" /\ source = <<>> /\ symbols = <<>> /\ named = <<>> /\ emitted = {}
    BY DEF Init
  <2>2. source \in Seq(Items) /\ Len(source) = 0 /\ DOMAIN source = {}
    BY <2>1
  <2>3. 0 <= MaxModules
    BY BoundsAssumption
  <2> QED BY <2>1, <2>2, <2>3 DEF SourceShape, CallShape
<1>2. SourceShape /\ CallShape /\ [Next]_vars => SourceShape' /\ CallShape'
  <2>1. CASE UNCHANGED vars
    BY <2>1 DEF vars, SourceShape, CallShape, nf, ns
  <2> QED BY <2>1, SourceKept, CallShapeKept
<1> QED BY <1>1, <1>2, PTL DEF Spec

\* The name table leads to symbols; only the program's functions and the C main have bodies.
THEOREM CallsTypes ==
  ASSUME MaxModules <= 1, NoClash
  PROVE  Spec => []TypeOK
<1>1. SourceShape /\ CallShape => TypeOK
  <2> SUFFICES ASSUME SourceShape, CallShape PROVE TypeOK
    OBVIOUS
  <2>1. CASE phase \in {"source", "lower", "declare"}
    <3>1. symbols = <<>> /\ named = <<>>
      BY <2>1 DEF CallShape
    <3> QED BY <2>1, <3>1 DEF TypeOK, Range
  <2>2. CASE phase \in {"generate", "done"}
    <3> DEFINE fs == hir.functions  l == Len(symbols)
               Fine(i) == \A b \in symbols[i].bodies :
                            b[2] = "main" \/ \E f \in Range(fs) : f.body /\ f.origin = b
    <3>1. nf \in Nat /\ ns \in Nat
      BY <2>2, Numbers
    <3>2. /\ Merged(hir, nf, ns) /\ Table(hir, named) /\ Declarations(symbols, nf)
          /\ OnlyRuntime(symbols, nf) \/ Finished(symbols, named, nf)
      BY <2>2 DEF CallShape
    <3> HIDE DEF nf, ns
    <3>3. DOMAIN fs = 1 .. 6 + nf /\ \A k \in 1 .. nf : 6 + k \in 1 .. 6 + nf
      BY <3>1, <3>2, Functions
    <3>4. l \in Nat /\ DOMAIN symbols = 1 .. l /\ l >= 6 + nf
      <4>1. symbols \in Seq(Symbol) /\ l >= 6 + nf
        BY <3>2 DEF Declarations
      <4> QED BY <4>1, LenProperties
    <3> HIDE DEF l
    <3>5. \A i \in 1 .. l : i \in 1 .. 6 \/ (\E k \in 1 .. nf : i = 6 + k) \/ i \in 6 + nf + 1 .. l
      <4>1. \A i \in 1 .. l : \/ i \in 1 .. 6
                              \/ i - 6 \in 1 .. nf /\ i = 6 + (i - 6)
                              \/ i \in 6 + nf + 1 .. l
        BY <3>1, <3>4
      <4> QED BY <4>1
    <3>6. \A i \in 1 .. 6 : Fine(i)
      BY <3>2 DEF Declarations
    <3>7. \A k \in 1 .. nf : Fine(6 + k)
      <4> TAKE k \in 1 .. nf
      <4>1. fs[6 + k].body = TRUE /\ fs[6 + k].origin = <<1, "func", k>> /\ fs[6 + k] \in Range(fs)
        BY <3>2, <3>3 DEF Merged, Range
      <4>2. symbols[6 + k].bodies \subseteq {<<1, "func", k>>}
        BY <3>2 DEF Declarations
      <4> QED BY <4>1, <4>2
    <3>8. \A i \in 6 + nf + 1 .. l : Fine(i)
      BY <3>2 DEF OnlyRuntime, Finished, MainBody, l
    <3> HIDE DEF Fine
    <3>9. \A i \in 1 .. l : Fine(i)
      BY <3>5, <3>6, <3>7, <3>8
    <3>10. \A x \in DOMAIN named : named[x] \in DOMAIN symbols
      <4>1. \A i \in 1 .. 6 + nf : i \in 1 .. l
        BY <3>1, <3>4
      <4> QED BY <3>2, <3>3, <3>4, <4>1 DEF Table
    <3>11. \A s \in Range(symbols) :
             \A b \in s.bodies : b[2] = "main" \/ \E f \in Range(fs) : f.body /\ f.origin = b
      BY <3>4, <3>9 DEF Fine, Range
    <3> QED BY <2>2, <3>10, <3>11 DEF TypeOK
  <2> QED BY <2>1, <2>2 DEF CallShape
<1> QED BY <1>1, CallsInvariance, PTL

\* In a program of one module whose functions leave the runtime's names alone, a
\* call reaches the function its name means, a call of a builtin the runtime, and
\* the mention of a struct its layout: the numbers of lower_module, the name table
\* of register_functions and get_function agree.
THEOREM UsesReachItems ==
  ASSUME MaxModules <= 1, NoClash
  PROVE  Spec => []UsesReachTheirItem
<1>1. SourceShape /\ CallShape => UsesReachTheirItem
  <2> SUFFICES ASSUME SourceShape, CallShape, phase = "done", NEW e \in emitted
               PROVE  IF e.kind = "type" THEN hir.structs[e.at] = e.wanted
                      ELSE Reached(e) = IF e.wanted = External THEN {} ELSE {e.wanted}
    BY DEF UsesReachTheirItem
  <2>1. nf \in Nat /\ ns \in Nat
    BY Numbers
  <2>2. /\ Merged(hir, nf, ns) /\ Table(hir, named) /\ Declarations(symbols, nf)
        /\ Kept(emitted, nf, ns) /\ Finished(symbols, named, nf)
    BY DEF CallShape
  <2> HIDE DEF nf, ns
  <2>3. CASE e.kind = "type" /\ e.at \in 1 .. ns /\ e.wanted = <<1, "struct", e.at>>
    BY <2>2, <2>3 DEF Merged
  <2>4. CASE e.kind = "call" /\ e.at = 0 /\ e.wanted = External /\ e.runtime \subseteq RuntimeNames
    <3>1. symbols \in Seq(Symbol) /\ Len(symbols) \in Nat /\ DOMAIN symbols = 1 .. Len(symbols)
      <4>1. symbols \in Seq(Symbol)
        BY <2>2 DEF Declarations
      <4> QED BY <4>1, LenProperties
    <3>2. \A i \in 1 .. Len(symbols) : \/ i \in 1 .. 6
                                       \/ \E k \in 1 .. nf : i = 6 + k
                                       \/ i \in 6 + nf + 1 .. Len(symbols)
      <4>1. \A i \in 1 .. Len(symbols) : \/ i \in 1 .. 6
                                         \/ i - 6 \in 1 .. nf /\ i = 6 + (i - 6)
                                         \/ i \in 6 + nf + 1 .. Len(symbols)
        BY <2>1, <3>1
      <4> QED BY <4>1
    <3>3. \A i \in 1 .. Len(symbols) : symbols[i].name \in RuntimeNames => symbols[i].bodies = {}
      <4> SUFFICES ASSUME NEW i \in 1 .. Len(symbols), symbols[i].name \in RuntimeNames
                   PROVE  symbols[i].bodies = {}
        OBVIOUS
      <4>1. CASE i \in 1 .. 6
        BY <2>2, <4>1 DEF Declarations
      <4>2. CASE \E k \in 1 .. nf : i = 6 + k
        BY <2>2, <4>2 DEF Declarations
      <4>3. CASE i \in 6 + nf + 1 .. Len(symbols)
        BY <2>2, <4>3, RuntimeNamesAre DEF Finished
      <4> QED BY <3>2, <4>1, <4>2, <4>3
    <3>4. \A s \in Range(symbols) : s.name \in e.runtime => s.bodies = {}
      BY <2>4, <3>1, <3>3 DEF Range
    <3>5. Reached(e) = {}
      BY <2>4, <3>4 DEF Reached
    <3> QED BY <2>4, <3>5
  <2>5. CASE e.kind = "call" /\ \E j \in 1 .. nf : e.at = 6 + j /\ e.wanted = <<1, "func", j>>
    <3>1. PICK j \in 1 .. nf : e.at = 6 + j /\ e.wanted = <<1, "func", j>>
      BY <2>5
    <3>2. e.at # 0
      BY <3>1
    <3>3. Reached(e) = {<<1, "func", j>>}
      BY <2>2, <3>1, <3>2 DEF Reached, Finished
    <3>4. e.wanted # External
      BY <3>1 DEF External
    <3> QED BY <2>5, <3>1, <3>3, <3>4
  <2> QED BY <2>2, <2>3, <2>4, <2>5 DEF Kept
<1> QED BY <1>1, CallsInvariance, PTL

\* In such a program every function is defined by exactly one symbol, no symbol has
\* two bodies, and the C main calls the function named main (generate_main_wrapper).
THEOREM FunctionsDefinedOnce ==
  ASSUME MaxModules <= 1, NoClash
  PROVE  Spec => []EveryFunctionIsDefined
<1>1. SourceShape /\ CallShape => EveryFunctionIsDefined
  <2> SUFFICES ASSUME SourceShape, CallShape, phase = "done"
               PROVE  EveryFunctionIsDefined
    BY DEF EveryFunctionIsDefined
  <2> DEFINE fs == hir.functions  l == Len(symbols)
  <2>1. nf \in Nat /\ ns \in Nat
    BY Numbers
  <2>2. /\ Merged(hir, nf, ns) /\ Table(hir, named) /\ Declarations(symbols, nf)
        /\ Finished(symbols, named, nf)
    BY DEF CallShape
  <2> HIDE DEF nf, ns
  <2>3. /\ DOMAIN fs = 1 .. 6 + nf
        /\ \A i \in 1 .. 6 + nf : i \in 1 .. 6 \/ \E k \in 1 .. nf : i = 6 + k
        /\ \A k \in 1 .. nf : 6 + k \in 1 .. 6 + nf
    BY <2>1, <2>2, Functions
  <2>4. l \in Nat /\ DOMAIN symbols = 1 .. l /\ l >= 6 + nf
    <3>1. symbols \in Seq(Symbol) /\ l >= 6 + nf
      BY <2>2 DEF Declarations
    <3> QED BY <3>1, LenProperties
  <2> HIDE DEF l
  <2>5. /\ \A i \in 1 .. l : i \in 1 .. 6 \/ (\E k \in 1 .. nf : i = 6 + k) \/ i \in 6 + nf + 1 .. l
        /\ \A k \in 1 .. nf : 6 + k \in 1 .. l
        /\ \A i \in 6 + nf + 1 .. l : i \in 1 .. l
    <3>1. \A i \in 1 .. l : \/ i \in 1 .. 6
                            \/ i - 6 \in 1 .. nf /\ i = 6 + (i - 6)
                            \/ i \in 6 + nf + 1 .. l
      BY <2>1, <2>4
    <3>2. /\ \A k \in 1 .. nf : 6 + k \in 1 .. l
          /\ \A i \in 6 + nf + 1 .. l : i \in 1 .. l
      BY <2>1, <2>4
    <3> QED BY <3>1, <3>2
  \* The bodies of the symbols, one kind after the other.
  <2>6. /\ \A i \in 1 .. 6 : symbols[i].bodies = {}
        /\ \A k \in 1 .. nf : symbols[6 + k].bodies = {<<1, "func", k>>}
        /\ \A i \in 6 + nf + 1 .. l : \/ symbols[i].bodies = {}
                                      \/ /\ "main" \in DOMAIN named /\ symbols[i].name = "main"
                                         /\ symbols[i].bodies = {MainBody(named["main"])}
    BY <2>2 DEF Declarations, Finished, l
  <2>7. ASSUME NEW k \in 1 .. nf
        PROVE  {i \in DOMAIN symbols : <<1, "func", k>> \in symbols[i].bodies} = {6 + k}
    <3> DEFINE o == <<1, "func", k>>
    <3>1. \A i \in 1 .. 6 : o \notin symbols[i].bodies
      BY <2>6
    <3>2. \A j \in 1 .. nf : o \in symbols[6 + j].bodies => j = k
      BY <2>6
    <3>3. \A i \in 6 + nf + 1 .. l : o \notin symbols[i].bodies
      BY <2>6 DEF MainBody
    <3>4. o \in symbols[6 + k].bodies
      BY <2>6
    <3> HIDE DEF o
    <3>5. \A i \in 1 .. l : o \in symbols[i].bodies => i = 6 + k
      BY <2>5, <3>1, <3>2, <3>3
    <3>6. {i \in DOMAIN symbols : o \in symbols[i].bodies} = {6 + k}
      BY <2>4, <2>5, <3>4, <3>5
    <3> QED BY <3>6 DEF o
  <2>8. ASSUME NEW i \in DOMAIN fs, fs[i].body
        PROVE  Cardinality({j \in DOMAIN symbols : fs[i].origin \in symbols[j].bodies}) = 1
    <3>1. PICK k \in 1 .. nf : i = 6 + k
      BY <2>2, <2>3, <2>8 DEF Merged
    <3>2. fs[i].origin = <<1, "func", k>>
      BY <2>2, <3>1 DEF Merged
    <3>3. {j \in DOMAIN symbols : fs[i].origin \in symbols[j].bodies} = {6 + k}
      BY <2>7, <3>2
    <3> QED BY <3>3, FS_Singleton
  <2>9. \A s \in Range(symbols) : Cardinality(s.bodies) <= 1
    <3> SUFFICES ASSUME NEW i \in 1 .. l PROVE Cardinality(symbols[i].bodies) <= 1
      BY <2>4 DEF Range
    <3>1. symbols[i].bodies = {} \/ \E b : symbols[i].bodies = {b}
      BY <2>5, <2>6
    <3>2. CASE symbols[i].bodies = {}
      <4>1. Cardinality(symbols[i].bodies) = 0
        BY <3>2, FS_EmptySet
      <4> QED BY <4>1
    <3>3. CASE \E b : symbols[i].bodies = {b}
      <4>1. Cardinality(symbols[i].bodies) = 1
        BY <3>3, FS_Singleton
      <4> QED BY <4>1
    <3> QED BY <3>1, <3>2, <3>3
  <2>10. ASSUME NEW i \in DOMAIN fs, fs[i].name = "main"
         PROVE  \E s \in Range(symbols) :
                  /\ s.name = "main" /\ s.bodies # {}
                  /\ \A b \in s.bodies : b[2] = "main" /\ symbols[b[3]].bodies = {fs[i].origin}
    <3>1. "main" \in DOMAIN named /\ named["main"] = i
      BY <2>2, <2>10 DEF Table
    <3>2. PICK j \in 6 + nf + 1 .. l : symbols[j].name = "main"
      BY <2>2, <3>1 DEF Finished, l
    <3>3. symbols[j].bodies = {MainBody(i)}
      BY <2>2, <3>1, <3>2, RuntimeNamesAre DEF Finished, l
    <3>4. PICK k \in 1 .. nf : i = 6 + k
      <4>1. \A k \in 1 .. 6 : fs[k].name # "main"
        <5>1. \A k \in 1 .. 6 : fs[k].name \in BuiltinNames
          BY <2>2, BuiltinPositions DEF Merged
        <5>2. "main" \notin BuiltinNames
          BY DEF BuiltinNames, Builtins, Range
        <5> QED BY <5>1, <5>2
      <4> QED BY <2>3, <2>10, <4>1
    <3>5. fs[i].origin = <<1, "func", k>> /\ symbols[i].bodies = {<<1, "func", k>>}
      BY <2>2, <2>6, <3>4 DEF Merged
    <3>6. symbols[j] \in Range(symbols)
      BY <2>4, <2>5, <3>2 DEF Range
    <3>7. \A b \in symbols[j].bodies : b[2] = "main" /\ b[3] = i
      BY <3>3 DEF MainBody
    <3> QED BY <3>2, <3>3, <3>5, <3>6, <3>7
  <2>11. /\ \A f \in Range(fs) : f.body =>
              Cardinality({i \in DOMAIN symbols : f.origin \in symbols[i].bodies}) = 1
         /\ \A f \in Range(fs) : f.name = "main" =>
              \E s \in Range(symbols) :
                s.name = "main" /\ s.bodies # {} /\
                \A b \in s.bodies : b[2] = "main" /\ symbols[b[3]].bodies = {f.origin}
    BY <2>8, <2>10 DEF Range
  <2> QED BY <2>9, <2>11 DEF EveryFunctionIsDefined
<1> QED BY <1>1, CallsInvariance, PTL

=============================================================================
