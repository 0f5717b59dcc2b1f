----------------------------- MODULE NamesProofs -----------------------------
(***************************************************************************)
(* For any names, any number of items and statements and any nesting of    *)
(* blocks and arms: the resolver reports what ADR 004 forbids, a name      *)
(* means its declaration for the resolver and for the lowering, and what   *)
(* a module keeps private stays so.                                        *)
(***************************************************************************)
EXTENDS Names, SequenceFacts

-----------------------------------------------------------------------------
(* The inductive invariant, part by part.                                  *)

Symbols == [name : Names, kind : {"item", "module", "param", "local"}, is_public : BOOLEAN]

\* Bindings of names to positions in a table of n symbols.
Bindings(n) == UNION {[D -> 1 .. n] : D \in SUBSET Names}

Types ==
  /\ registry \in BOOLEAN /\ current \in {1, 2}
  /\ phase \in {"collect", "locals", "body", "done"}
  /\ table \in Seq(Symbols)
  /\ module_scope \in Bindings(Len(table)) /\ OverBuiltins \in Bindings(Len(table))
  /\ local_map \in Bindings(Len(table))
  /\ scopes \in Seq(Bindings(Len(table))) /\ truth \in Seq(Bindings(Len(table)))
  /\ frames \in Seq({"func", "block", "arm"})

\* Where the resolver stands: scopes are there within the function only, whose
\* frame is the first.
Begun ==
  /\ phase # "body" => scopes = <<>> /\ truth = <<>> /\ frames = <<>>
  /\ phase \in {"collect", "locals"} => local_map = Nothing /\ used = {}
  /\ phase \in {"body", "done"} => current = 2
  /\ phase = "body" => frames # <<>> /\ frames[1] = "func"

\* What the ids stand for: the name `m` alone may be a module, and what is in
\* a scope is a parameter or a local.
Local(tab, f) == \A x \in DOMAIN f : tab[f[x]].kind \in {"param", "local"}

LocalsIn(tab, stack) == \A i \in DOMAIN stack : Local(tab, stack[i])

ItemsIn(tab, module) ==
  \A x \in DOMAIN module :
    \/ tab[module[x]].kind = "item"
    \/ tab[module[x]].kind = "module" /\ x = ModuleName

Kinds ==
  /\ ItemsIn(table, module_scope) /\ ItemsIn(table, OverBuiltins)
  /\ LocalsIn(table, scopes) /\ LocalsIn(table, truth)

\* The items: one name is bound in both, and to the same unless it is reported.
\* Only of a built-in function's name is there something to report by mistake.
ItemsAgree ==
  /\ Builtin \in module_spans
  /\ module_spans \subseteq DOMAIN module_scope
  /\ DOMAIN module_scope = DOMAIN OverBuiltins
  /\ phase \in {"collect", "locals"} => /\ faults \subseteq errors /\ errors \subseteq {"E4003"}
                                        /\ ~BuiltinHidden => errors = faults
  /\ Clean => module_scope = OverBuiltins

\* The imported module: its table holds one item of each name, public if it
\* is declared so first, and this is what it publishes.
Publishes(tab) ==
  /\ \A i \in DOMAIN tab : tab[i].is_public <=> tab[i].name \in public \ {Builtin}
  /\ \A i, j \in DOMAIN tab : tab[i].name = tab[j].name => i = j
  /\ \A x \in public : \E i \in DOMAIN tab : tab[i].name = x

Exported ==
  /\ current = 1 => /\ \A i \in DOMAIN table : table[i].kind = "item"
                    /\ {table[i].name : i \in DOMAIN table} = DOMAIN OverBuiltins
                    /\ module_spans = DOMAIN OverBuiltins
                    /\ Publishes(table)
  /\ registry /\ (current = 2 \/ phase = "locals") =>
       DOMAIN exports \in SUBSET Nat /\ Publishes(exports)

\* The scopes of the resolver among those of ADR 004: at[i] is the frame of
\* the scope i; the frames of arms have none.
Framed(at) ==
  /\ Len(at) = Len(scopes) /\ Len(frames) = Len(truth)
  /\ \A i \in 1 .. Len(at) : at[i] \in 1 .. Len(frames) /\ frames[at[i]] # "arm"
  /\ \A i, j \in 1 .. Len(at) : i < j => at[i] < at[j]
  /\ \A f \in 1 .. Len(frames) : frames[f] # "arm" => \E i \in 1 .. Len(at) : at[i] = f

\* A name of an arm that the resolver has put into the scope i.
Leaked(at, i) == DOMAIN scopes[i] \ DOMAIN truth[at[i]]

\* A block's or function's scope means what its frame means,
Shared(at) ==
  \A i \in 1 .. Len(at) : \A x \in DOMAIN truth[at[i]] :
    x \in DOMAIN scopes[i] /\ scopes[i][x] = truth[at[i]][x]

\* and has besides only names that arms bind;
LeaksAreArms(at) ==
  \A i \in 1 .. Len(at) :
    /\ DOMAIN scopes[i] \subseteq DOMAIN local_map
    /\ ModuleName \notin Leaked(at, i)
    /\ "arm" \notin used => Leaked(at, i) = {}

\* these are of that scope alone as long as no arm reuses one,
LeaksApart(at) ==
  "armReuse" \notin used =>
    \A i \in 1 .. Len(at) :
      /\ \A j \in 1 .. Len(at) : i # j => Leaked(at, i) \cap DOMAIN scopes[j] = {}
      /\ Leaked(at, i) \cap DOMAIN OverBuiltins = {}

\* and what an arm binds is then found in a scope around it.
ArmHeld(at, f) ==
  /\ ModuleName \notin DOMAIN truth[f]
  /\ "arm" \notin used => DOMAIN truth[f] = {}
  /\ "armReuse" \notin used => \A x \in DOMAIN truth[f] :
       \E i \in 1 .. Len(at) : at[i] < f /\ x \in Leaked(at, i) /\ scopes[i][x] = truth[f][x]

ArmsHeld(at) == \A f \in 1 .. Len(frames) : frames[f] = "arm" => ArmHeld(at, f)

Paired(at) == Shared(at) /\ LeaksAreArms(at) /\ LeaksApart(at) /\ ArmsHeld(at)

ScopesAgree == \E at \in Seq(Nat) : Framed(at) /\ (Clean => Paired(at))

\* The map of the lowering: as long as nothing is shadowed a name is in one
\* place only, and the map has it from there.
MapAgrees ==
  "shadow" \notin used =>
    /\ DOMAIN local_map \cap DOMAIN module_scope = {}
    /\ \A i \in DOMAIN scopes : \A x \in DOMAIN scopes[i] :
         /\ x \in DOMAIN local_map /\ local_map[x] = scopes[i][x]
         /\ \A j \in DOMAIN scopes : x \in DOMAIN scopes[j] => j = i

NeverMisread == "shadow" \notin used => "misread" \notin used

\* A function that breaks no rule is accepted.
NothingInvented ==
  (registry /\ "armReuse" \notin used /\ faults = {} /\ ~BuiltinHidden) => errors = {}

\* What the names of a module are and where they stand.
Base == Types /\ Begun /\ Kinds /\ ItemsAgree /\ Exported

\* What is reported.
Verdicts == ReportsExactly /\ NothingInvented /\ PrivateStaysPrivate

NamesInv == Base /\ ScopesAgree /\ MapAgrees /\ NeverMisread /\ Verdicts

-----------------------------------------------------------------------------
(* Names and what they are bound to.                                       *)

\* Of numbers up to n there is a greatest one.
LEMMA GreatestNumber ==
  ASSUME NEW n \in Nat, NEW S \in SUBSET (1 .. n), S # {}
  PROVE  \E m \in S : \A i \in S : i <= m
<1> DEFINE T == {n - i : i \in S}
<1>1. T \in SUBSET Nat /\ T # {}
  <2>1. \A i \in S : i \in 1 .. n
    OBVIOUS
  <2>2. \A i \in 1 .. n : n - i \in Nat
    OBVIOUS
  <2>3. \A i \in S : n - i \in Nat
    BY <2>1, <2>2
  <2> QED BY <2>3
<1>2. \A i \in S : n - i \in T
  OBVIOUS
<1>3. \A t \in T : \E i \in S : t = n - i
  OBVIOUS
<1> HIDE DEF T
<1>4. Min(T) \in T /\ \A t \in T : Min(T) <= t
  BY <1>1, LeastNumber
<1>5. PICK m \in S : Min(T) = n - m
  BY <1>3, <1>4
<1>6. \A i \in S : n - m <= n - i
  BY <1>2, <1>4, <1>5
<1> QED BY <1>6

\* What a set of bindings is.
LEMMA BindingsAre ==
  ASSUME NEW n \in Nat, NEW f \in Bindings(n)
  PROVE  /\ DOMAIN f \subseteq Names
         /\ \A x \in DOMAIN f : f[x] \in 1 .. n /\ f[x] # 0
         /\ \A m \in Nat : n <= m => f \in Bindings(m)
<1>1. PICK D \in SUBSET Names : f \in [D -> 1 .. n]
  BY DEF Bindings
<1>2. ASSUME NEW m \in Nat, n <= m PROVE f \in Bindings(m)
  <2>1. f \in [D -> 1 .. m]
    BY <1>1, <1>2
  <2> QED BY <2>1 DEF Bindings
<1> QED BY <1>1, <1>2

\* No name is bound.
LEMMA NothingBinds == DOMAIN Nothing = {} /\ \A n \in Nat : Nothing \in Bindings(n)
<1>1. DOMAIN Nothing = {}
  BY DEF Nothing
<1>2. ASSUME NEW n \in Nat PROVE Nothing \in Bindings(n)
  <2>1. Nothing \in [{} -> 1 .. n]
    BY DEF Nothing
  <2> QED BY <2>1 DEF Bindings
<1> QED BY <1>1, <1>2

\* One more name.
LEMMA PutBinds ==
  ASSUME NEW n \in Nat, NEW f \in Bindings(n), NEW x \in Names, NEW v \in 1 .. n
  PROVE  /\ Put(f, x, v) \in Bindings(n)
         /\ \A y : y \in DOMAIN Put(f, x, v) <=> y = x \/ y \in DOMAIN f
         /\ Put(f, x, v)[x] = v
         /\ \A y \in DOMAIN f : y # x => Put(f, x, v)[y] = f[y]
<1>1. DOMAIN f \subseteq Names /\ \A y \in DOMAIN f : f[y] \in 1 .. n
  BY BindingsAre
<1>2. /\ DOMAIN Put(f, x, v) = DOMAIN f \cup {x}
      /\ Put(f, x, v)[x] = v
      /\ \A y \in DOMAIN f : y # x => Put(f, x, v)[y] = f[y]
  BY DEF Put
<1>3. Put(f, x, v) \in [DOMAIN f \cup {x} -> 1 .. n]
  BY <1>1 DEF Put
<1> QED BY <1>1, <1>2, <1>3 DEF Bindings

\* Scopes over a longer table.
LEMMA StacksGrow ==
  ASSUME NEW n \in Nat, NEW m \in Nat, n <= m, NEW s \in Seq(Bindings(n))
  PROVE  s \in Seq(Bindings(m))
<1>1. \A f \in Bindings(n) : f \in Bindings(m)
  BY BindingsAre
<1> QED BY <1>1

\* A name that is defined in the innermost scope.
LEMMA DefineBinds ==
  ASSUME NEW n \in Nat, NEW s \in Seq(Bindings(n)), s # <<>>, NEW x \in Names, NEW v \in 1 .. n
  PROVE  LET t == DefineIn(s, x, v) IN
         /\ t \in Seq(Bindings(n))
         /\ Len(t) = Len(s) /\ DOMAIN t = 1 .. Len(s) /\ Len(s) \in 1 .. Len(s)
         /\ \A i \in 1 .. Len(s) : i # Len(s) => t[i] = s[i]
         /\ \A y : y \in DOMAIN t[Len(s)] <=> y = x \/ y \in DOMAIN s[Len(s)]
         /\ t[Len(s)][x] = v
         /\ \A y \in DOMAIN s[Len(s)] : y # x => t[Len(s)][y] = s[Len(s)][y]
<1> DEFINE k == Len(s)
           p == Put(s[k], x, v)
           t == DefineIn(s, x, v)
<1>1. k \in Nat \ {0} /\ DOMAIN s = 1 .. k /\ \A i \in 1 .. k : s[i] \in Bindings(n)
  BY EmptySeq
<1>2. t = [s EXCEPT ![k] = p]
  BY DEF DefineIn
<1> HIDE DEF k
<1>3. PICK f \in Bindings(n) : f = s[k]
  BY <1>1
<1>4. p = Put(f, x, v)
  BY <1>3
<1> HIDE DEF p, t
<1>5. /\ p \in Bindings(n) /\ p[x] = v
      /\ \A y : y \in DOMAIN p <=> y = x \/ y \in DOMAIN s[k]
      /\ \A y \in DOMAIN s[k] : y # x => p[y] = s[k][y]
  <2>1. /\ p \in Bindings(n) /\ p[x] = v
        /\ \A y : y \in DOMAIN p <=> y = x \/ y \in DOMAIN f
        /\ \A y \in DOMAIN f : y # x => p[y] = f[y]
    BY <1>4, PutBinds
  <2> QED BY <1>3, <2>1
<1>6. DOMAIN t = 1 .. k /\ t[k] = p /\ \A i \in 1 .. k : i # k => t[i] = s[i]
  BY <1>1, <1>2
<1>7. t = [i \in 1 .. k |-> t[i]]
  BY <1>1, <1>2
<1>8. \A i \in 1 .. k : t[i] \in Bindings(n)
  BY <1>1, <1>5, <1>6
<1>9. t \in Seq(Bindings(n)) /\ Len(t) = k
  BY <1>1, <1>7, <1>8
<1>10. k \in 1 .. k
  BY <1>1
<1>11. /\ t[k][x] = v /\ \A y : y \in DOMAIN t[k] <=> y = x \/ y \in DOMAIN s[k]
       /\ \A y \in DOMAIN s[k] : y # x => t[k][y] = s[k][y]
  BY <1>5, <1>6
<1> QED BY <1>6, <1>9, <1>10, <1>11 DEF k, t

\* The innermost scope that has the name, or the module.
LEMMA FindIs ==
  ASSUME NEW stack, NEW n \in Nat, DOMAIN stack = 1 .. n, NEW module, NEW x
  PROVE  \/ /\ \A i \in 1 .. n : x \notin DOMAIN stack[i]
            /\ Find(stack, module, x) = IF x \in DOMAIN module THEN module[x] ELSE 0
         \/ \E i \in 1 .. n :
              /\ x \in DOMAIN stack[i] /\ Find(stack, module, x) = stack[i][x]
              /\ \A j \in 1 .. n : x \in DOMAIN stack[j] => j <= i
<1> DEFINE holds == {i \in DOMAIN stack : x \in DOMAIN stack[i]}
           top == CHOOSE i \in holds : \A j \in holds : j <= i
<1>1. Find(stack, module, x) = IF holds # {} THEN stack[top][x]
                               ELSE IF x \in DOMAIN module THEN module[x] ELSE 0
  BY DEF Find
<1>2. \A i \in 1 .. n : i \in holds <=> x \in DOMAIN stack[i]
  OBVIOUS
<1>3. holds \in SUBSET (1 .. n)
  OBVIOUS
<1> HIDE DEF holds
<1>4. ASSUME holds # {} PROVE top \in holds /\ \A j \in holds : j <= top
  <2>1. \E i \in holds : \A j \in holds : j <= i
    BY <1>3, <1>4, GreatestNumber
  <2> QED BY <2>1
<1> HIDE DEF top
<1>5. CASE holds = {}
  BY <1>1, <1>2, <1>5
<1>6. CASE holds # {}
  <2>1. top \in 1 .. n /\ x \in DOMAIN stack[top]
    BY <1>2, <1>3, <1>4, <1>6
  <2>2. \A j \in 1 .. n : x \in DOMAIN stack[j] => j <= top
    BY <1>2, <1>4, <1>6
  <2>3. Find(stack, module, x) = stack[top][x]
    BY <1>1, <1>6
  <2> QED BY <2>1, <2>2, <2>3
<1> QED BY <1>5, <1>6

\* A name is found in the last of the scopes that have it.
LEMMA FoundInnermost ==
  ASSUME NEW stack, NEW n \in Nat, DOMAIN stack = 1 .. n, NEW module, NEW x,
         NEW i \in 1 .. n, x \in DOMAIN stack[i],
         \A j \in 1 .. n : x \in DOMAIN stack[j] => j <= i
  PROVE  Find(stack, module, x) = stack[i][x]
<1>1. PICK j \in 1 .. n : /\ x \in DOMAIN stack[j] /\ Find(stack, module, x) = stack[j][x]
                          /\ \A l \in 1 .. n : x \in DOMAIN stack[l] => l <= j
  BY FindIs
<1>2. j = i
  BY <1>1
<1> QED BY <1>1, <1>2

-----------------------------------------------------------------------------
(* Looking names up.                                                       *)

\* Sizes and domains, for what follows.
LEMMA Shapes ==
  ASSUME Types, NEW at \in Seq(Nat), Framed(at)
  PROVE  /\ Len(at) \in Nat /\ DOMAIN at = 1 .. Len(at) /\ DOMAIN scopes = 1 .. Len(at)
         /\ Len(frames) \in Nat /\ DOMAIN frames = 1 .. Len(frames)
         /\ DOMAIN truth = 1 .. Len(frames)
         /\ \A i \in 1 .. Len(at) : at[i] \in 1 .. Len(frames)
         /\ \A i, j \in 1 .. Len(at) : at[j] <= at[i] => j <= i
<1>1. /\ scopes \in Seq(Bindings(Len(table))) /\ truth \in Seq(Bindings(Len(table)))
      /\ frames \in Seq({"func", "block", "arm"})
  BY DEF Types
<1>2. Len(at) = Len(scopes) /\ Len(frames) = Len(truth)
  BY DEF Framed
<1>3. /\ Len(at) \in Nat /\ DOMAIN at = 1 .. Len(at) /\ DOMAIN scopes = 1 .. Len(at)
      /\ Len(frames) \in Nat /\ DOMAIN frames = 1 .. Len(frames)
      /\ DOMAIN truth = 1 .. Len(frames)
  BY <1>1, <1>2
<1>4. ASSUME NEW i \in 1 .. Len(at), NEW j \in 1 .. Len(at), at[j] <= at[i] PROVE j <= i
  <2>1. i < j => at[i] < at[j]
    BY DEF Framed
  <2>2. at[i] \in Nat /\ at[j] \in Nat
    BY <1>3
  <2> QED BY <1>3, <1>4, <2>1, <2>2
<1> QED BY <1>3, <1>4 DEF Framed

\* A name that no arm has to do with is found where it is meant.
LEMMA FoundAsMeant ==
  ASSUME Types, module_scope = OverBuiltins, NEW at \in Seq(Nat), Framed(at), Paired(at), NEW x,
         \A i \in 1 .. Len(at) : x \notin Leaked(at, i),
         \A f \in 1 .. Len(frames) : frames[f] = "arm" => x \notin DOMAIN truth[f]
  PROVE  Lookup(x) = Meant(x)
<1> DEFINE n == Len(at)  k == Len(frames)
<1>1. /\ n \in Nat /\ DOMAIN scopes = 1 .. n /\ k \in Nat /\ DOMAIN truth = 1 .. k
      /\ \A i \in 1 .. n : at[i] \in 1 .. k
      /\ \A i, j \in 1 .. n : at[j] <= at[i] => j <= i
  BY Shapes
<1>2. \A i \in 1 .. n : x \in DOMAIN scopes[i] <=> x \in DOMAIN truth[at[i]]
  BY DEF Paired, Shared, Leaked
<1>3. \A i \in 1 .. n : x \in DOMAIN scopes[i] => scopes[i][x] = truth[at[i]][x]
  BY <1>2 DEF Paired, Shared
<1>4. \A f \in 1 .. k : x \in DOMAIN truth[f] => \E i \in 1 .. n : at[i] = f
  BY DEF Framed
<1>5. CASE \E f \in 1 .. k : /\ x \in DOMAIN truth[f] /\ Meant(x) = truth[f][x]
                             /\ \A g \in 1 .. k : x \in DOMAIN truth[g] => g <= f
  <2>1. PICK f \in 1 .. k : /\ x \in DOMAIN truth[f] /\ Meant(x) = truth[f][x]
                            /\ \A g \in 1 .. k : x \in DOMAIN truth[g] => g <= f
    BY <1>5
  <2>2. PICK i \in 1 .. n : at[i] = f
    BY <1>4, <2>1
  <2>3. x \in DOMAIN scopes[i]
    BY <1>2, <2>1, <2>2
  <2>4. \A j \in 1 .. n : x \in DOMAIN scopes[j] => j <= i
    BY <1>1, <1>2, <2>1, <2>2
  <2> HIDE DEF n, k
  <2>5. Lookup(x) = scopes[i][x]
    BY <1>1, <2>3, <2>4, FoundInnermost DEF Lookup
  <2> QED BY <1>3, <2>1, <2>2, <2>3, <2>5
<1>6. CASE /\ \A f \in 1 .. k : x \notin DOMAIN truth[f]
           /\ Meant(x) = IF x \in DOMAIN OverBuiltins THEN OverBuiltins[x] ELSE 0
  <2>1. \A i \in 1 .. n : x \notin DOMAIN scopes[i]
    BY <1>1, <1>2, <1>6
  <2> HIDE DEF n, k
  <2>2. Lookup(x) = IF x \in DOMAIN module_scope THEN module_scope[x] ELSE 0
    BY <1>1, <2>1, FindIs DEF Lookup
  <2> QED BY <1>6, <2>2
<1> HIDE DEF n, k
<1>7. \/ /\ \A f \in 1 .. k : x \notin DOMAIN truth[f]
         /\ Meant(x) = IF x \in DOMAIN OverBuiltins THEN OverBuiltins[x] ELSE 0
      \/ \E f \in 1 .. k : /\ x \in DOMAIN truth[f] /\ Meant(x) = truth[f][x]
                          /\ \A g \in 1 .. k : x \in DOMAIN truth[g] => g <= f
  <2>1. k \in Nat /\ DOMAIN truth = 1 .. k
    BY <1>1
  <2> QED BY <2>1, FindIs DEF Meant
<1> QED BY <1>5, <1>6, <1>7

\* What a name means is what the resolver finds, if no arm reuses a name.
LEMMA MeaningFound ==
  ASSUME Types, module_scope = OverBuiltins, NEW at \in Seq(Nat), Framed(at), Paired(at), NEW x,
         "armReuse" \notin used, Meant(x) # 0
  PROVE  Lookup(x) = Meant(x)
<1> DEFINE n == Len(at)  k == Len(frames)
<1>1. /\ n \in Nat /\ DOMAIN scopes = 1 .. n /\ k \in Nat /\ DOMAIN truth = 1 .. k
      /\ \A i \in 1 .. n : at[i] \in 1 .. k
      /\ \A i, j \in 1 .. n : at[j] <= at[i] => j <= i
  BY Shapes
<1>2. \A i \in 1 .. n : x \in DOMAIN scopes[i] => x \in DOMAIN truth[at[i]] \/ x \in Leaked(at, i)
  BY DEF Leaked
<1>3. \A i, j \in 1 .. n : x \in Leaked(at, i) /\ x \in DOMAIN scopes[j] => i = j
  BY DEF Paired, LeaksApart
<1>4. ASSUME NEW i \in 1 .. n, x \in DOMAIN scopes[i], scopes[i][x] = Meant(x),
             \A j \in 1 .. n : x \in DOMAIN scopes[j] => j <= i
      PROVE  Lookup(x) = Meant(x)
  <2> HIDE DEF n, k
  <2>1. n \in Nat /\ DOMAIN scopes = 1 .. n
    BY <1>1
  <2>2. Lookup(x) = scopes[i][x]
    BY <1>4, <2>1, FoundInnermost DEF Lookup
  <2> QED BY <1>4, <2>2
<1>5. CASE \E f \in 1 .. k : /\ x \in DOMAIN truth[f] /\ Meant(x) = truth[f][x]
                             /\ \A g \in 1 .. k : x \in DOMAIN truth[g] => g <= f
  <2>1. PICK f \in 1 .. k : /\ x \in DOMAIN truth[f] /\ Meant(x) = truth[f][x]
                            /\ \A g \in 1 .. k : x \in DOMAIN truth[g] => g <= f
    BY <1>5
  <2>2. CASE frames[f] = "arm"
    <3>1. PICK i \in 1 .. n : x \in Leaked(at, i) /\ scopes[i][x] = truth[f][x]
      BY <2>1, <2>2 DEF Paired, ArmsHeld, ArmHeld
    <3>2. x \in DOMAIN scopes[i]
      BY <3>1 DEF Leaked
    <3>3. \A j \in 1 .. n : x \in DOMAIN scopes[j] => j <= i
      BY <1>1, <1>3, <3>1
    <3> QED BY <1>4, <2>1, <3>1, <3>2, <3>3
  <2>3. CASE frames[f] # "arm"
    <3>1. PICK i \in 1 .. n : at[i] = f
      BY <2>3 DEF Framed
    <3>2. x \in DOMAIN scopes[i] /\ scopes[i][x] = truth[f][x]
      BY <2>1, <3>1 DEF Paired, Shared
    <3>3. ASSUME NEW j \in 1 .. n, x \in DOMAIN scopes[j] PROVE j <= i
      <4>1. CASE x \in DOMAIN truth[at[j]]
        BY <1>1, <2>1, <3>1, <4>1
      <4>2. CASE x \in Leaked(at, j)
        <5>1. j = i
          BY <1>3, <3>2, <4>2
        <5> QED BY <1>1, <5>1
      <4> QED BY <1>2, <3>3, <4>1, <4>2
    <3> QED BY <1>4, <2>1, <3>2, <3>3
  <2> QED BY <2>2, <2>3
<1>6. CASE /\ \A f \in 1 .. k : x \notin DOMAIN truth[f]
           /\ Meant(x) = IF x \in DOMAIN OverBuiltins THEN OverBuiltins[x] ELSE 0
  <2>1. x \in DOMAIN OverBuiltins
    BY <1>6
  <2>2. \A i \in 1 .. n : x \notin DOMAIN scopes[i]
    <3> SUFFICES ASSUME NEW i \in 1 .. n, x \in DOMAIN scopes[i] PROVE FALSE
      OBVIOUS
    <3>1. x \in Leaked(at, i)
      BY <1>1, <1>2, <1>6
    <3> QED BY <2>1, <3>1 DEF Paired, LeaksApart
  <2> HIDE DEF n, k
  <2>3. Lookup(x) = IF x \in DOMAIN module_scope THEN module_scope[x] ELSE 0
    BY <1>1, <2>2, FindIs DEF Lookup
  <2> QED BY <1>6, <2>3
<1> HIDE DEF n, k
<1>7. \/ /\ \A f \in 1 .. k : x \notin DOMAIN truth[f]
         /\ Meant(x) = IF x \in DOMAIN OverBuiltins THEN OverBuiltins[x] ELSE 0
      \/ \E f \in 1 .. k : /\ x \in DOMAIN truth[f] /\ Meant(x) = truth[f][x]
                          /\ \A g \in 1 .. k : x \in DOMAIN truth[g] => g <= f
  <2>1. k \in Nat /\ DOMAIN truth = 1 .. k
    BY <1>1
  <2> QED BY <2>1, FindIs DEF Meant
<1> QED BY <1>5, <1>6, <1>7

\* A name means something if it is in a scope of ADR 004 or in the module.
LEMMA MeantBound ==
  ASSUME Types, NEW x
  PROVE  /\ Meant(x) = 0 =>
              x \notin DOMAIN OverBuiltins /\ \A f \in DOMAIN truth : x \notin DOMAIN truth[f]
         /\ Lookup(x) = 0 =>
              x \notin DOMAIN module_scope /\ \A i \in DOMAIN scopes : x \notin DOMAIN scopes[i]
<1>1. Len(table) \in Nat /\ scopes \in Seq(Bindings(Len(table)))
      /\ truth \in Seq(Bindings(Len(table)))
      /\ module_scope \in Bindings(Len(table)) /\ OverBuiltins \in Bindings(Len(table))
  BY DEF Types
<1>2. ASSUME NEW s \in Seq(Bindings(Len(table))), NEW m \in Bindings(Len(table)), Find(s, m, x) = 0
      PROVE  x \notin DOMAIN m /\ \A i \in DOMAIN s : x \notin DOMAIN s[i]
  <2>1. Len(s) \in Nat /\ DOMAIN s = 1 .. Len(s)
    OBVIOUS
  <2>2. \A i \in 1 .. Len(s) : \A y \in DOMAIN s[i] : s[i][y] # 0
    BY <1>1, <2>1, BindingsAre
  <2>3. \A y \in DOMAIN m : m[y] # 0
    BY <1>1, BindingsAre
  <2> QED BY <1>2, <2>1, <2>2, <2>3, FindIs
<1> QED BY <1>1, <1>2 DEF Meant, Lookup

-----------------------------------------------------------------------------
(* The types, and where the resolver stands.                               *)

\* The table with the parameters of a function.
LEMMA TablesJoin ==
  ASSUME NEW tab \in Seq(Symbols), NEW p \in Seq(Symbols)
  PROVE  /\ tab \o p \in Seq(Symbols)
         /\ Len(tab \o p) = Len(tab) + Len(p) /\ Len(tab) \in Nat
         /\ \A i \in 1 .. Len(tab) : (tab \o p)[i] = tab[i]
         /\ \A i \in 1 .. Len(p) : (tab \o p)[Len(tab) + i] = p[i]
  OBVIOUS

\* The names there are.
LEMMA NamesAre ==
  /\ Idents \subseteq Names /\ ModuleName \in Names /\ Builtin \in Names
  /\ ModuleName \notin Idents /\ Builtin \notin Idents /\ ModuleName # Builtin
  BY NamesAssumption DEF Names, ModuleName, Builtin

\* What is bound stays bound over a longer table.
LEMMA OldBindings ==
  ASSUME Types, NEW m \in Nat, Len(table) <= m
  PROVE  /\ Len(table) \in Nat
         /\ module_scope \in Bindings(m) /\ OverBuiltins \in Bindings(m) /\ local_map \in Bindings(m)
         /\ scopes \in Seq(Bindings(m)) /\ truth \in Seq(Bindings(m))
<1>1. Len(table) \in Nat
  BY DEF Types
<1>2. \A f \in Bindings(Len(table)) : f \in Bindings(m)
  BY <1>1, BindingsAre
<1>3. \A s \in Seq(Bindings(Len(table))) : s \in Seq(Bindings(m))
  BY <1>1, StacksGrow
<1> QED BY <1>1, <1>2, <1>3 DEF Types

\* The module of a new resolver: its table holds one built-in function.
LEMMA FreshTable ==
  LET tab == <<Symbol(Builtin, "item", FALSE)>>
      mod == Put(Nothing, Builtin, 1)
  IN /\ tab \in Seq(Symbols) /\ Len(tab) = 1 /\ DOMAIN tab = {1}
     /\ tab[1].name = Builtin /\ tab[1].kind = "item" /\ tab[1].is_public = FALSE
     /\ mod \in Bindings(Len(tab)) /\ DOMAIN mod = {Builtin} /\ mod[Builtin] = 1
<1> DEFINE s == Symbol(Builtin, "item", FALSE)
           mod == Put(Nothing, Builtin, 1)
<1>1. s \in Symbols /\ s.name = Builtin /\ s.kind = "item" /\ s.is_public = FALSE
  <2>1. Builtin \in Names
    BY NamesAre
  <2> QED BY <2>1 DEF Symbol, Symbols
<1>2. \A y : y \in DOMAIN mod <=> y = Builtin
  BY NothingBinds DEF Put
<1>3. mod[Builtin] = 1 /\ DOMAIN mod = {Builtin}
  BY <1>2 DEF Put
<1>4. mod \in Bindings(1)
  <2>1. 1 \in Nat /\ 1 \in 1 .. 1 /\ Builtin \in Names /\ Nothing \in Bindings(1)
    BY NamesAre, NothingBinds
  <2> QED BY <2>1, PutBinds
<1> HIDE DEF s, mod
<1>5. <<s>> \in Seq(Symbols) /\ Len(<<s>>) = 1 /\ DOMAIN <<s>> = {1} /\ <<s>>[1] = s
  BY <1>1
<1> QED BY <1>1, <1>3, <1>4, <1>5 DEF s, mod

\* The symbols of the parameters.
LEMMA ParametersAre ==
  ASSUME NEW n \in Nat, NEW params \in [1 .. n -> Idents]
  PROVE  LET p == [i \in DOMAIN params |-> Symbol(params[i], "param", FALSE)]
         IN /\ p \in Seq(Symbols) /\ Len(p) = n
            /\ \A i \in 1 .. n : p[i].kind = "param"
<1> DEFINE p == [i \in DOMAIN params |-> Symbol(params[i], "param", FALSE)]
<1>1. DOMAIN params = 1 .. n /\ \A i \in 1 .. n : params[i] \in Names
  BY NamesAre
<1>2. \A i \in 1 .. n : p[i] = Symbol(params[i], "param", FALSE)
  BY <1>1
<1>3. p = [i \in 1 .. n |-> p[i]]
  BY <1>1
<1> HIDE DEF p
<1>4. \A i \in 1 .. n : p[i] \in Symbols /\ p[i].kind = "param"
  <2> SUFFICES ASSUME NEW i \in 1 .. n PROVE p[i] \in Symbols /\ p[i].kind = "param"
    OBVIOUS
  <2> DEFINE x == params[i]
  <2>1. x \in Names /\ p[i] = Symbol(x, "param", FALSE)
    BY <1>1, <1>2
  <2> HIDE DEF x
  <2> QED BY <2>1 DEF Symbol, Symbols
<1>5. p \in Seq(Symbols) /\ Len(p) = n
  BY <1>3, <1>4
<1> QED BY <1>4, <1>5 DEF p

\* The parameters, the last of each name.
LEMMA ParametersBind ==
  ASSUME NEW n \in Nat, NEW params \in [1 .. n -> Idents], table \in Seq(Symbols)
  PROVE  LET tab == table \o [i \in DOMAIN params |-> Symbol(params[i], "param", FALSE)]
             ids == ParamIds(params)
         IN /\ tab \in Seq(Symbols) /\ Len(tab) = Len(table) + n /\ Len(table) \in Nat
            /\ \A i \in 1 .. Len(table) : tab[i] = table[i]
            /\ ids \in Bindings(Len(tab)) /\ DOMAIN ids = ToSet(params)
            /\ ToSet(params) \subseteq Idents
            /\ \A x \in ToSet(params) : tab[ids[x]].kind = "param"
<1> DEFINE p == [i \in DOMAIN params |-> Symbol(params[i], "param", FALSE)]
           tab == table \o p
           ids == ParamIds(params)
<1>1. p \in Seq(Symbols) /\ Len(p) = n /\ \A i \in 1 .. n : p[i].kind = "param"
  BY ParametersAre
<1> HIDE DEF p
<1>2. /\ tab \in Seq(Symbols) /\ Len(tab) = Len(table) + n /\ Len(table) \in Nat
      /\ \A i \in 1 .. Len(table) : tab[i] = table[i]
      /\ \A i \in 1 .. n : tab[Len(table) + i] = p[i]
  BY <1>1, TablesJoin
<1> HIDE DEF tab
<1>3. ASSUME NEW x \in ToSet(params)
      PROVE  \E i \in 1 .. n : ids[x] = Len(table) + i
  <2> DEFINE S == {i \in 1 .. n : params[i] = x}
  <2>1. S \in SUBSET (1 .. n) /\ S # {}
    BY DEF ToSet
  <2> HIDE DEF S
  <2>2. PICK m \in S : \A i \in S : i <= m
    BY <2>1, GreatestNumber
  <2> USE DEF S
  <2>3. \E i \in DOMAIN params : params[i] = x /\ \A j \in DOMAIN params : params[j] = x => j <= i
    BY <2>2
  <2>4. PICK i \in DOMAIN params : ids[x] = Len(table) + i
    BY <2>3 DEF ParamIds
  <2> QED BY <2>4
<1>4. DOMAIN ids = ToSet(params) /\ ToSet(params) \subseteq Idents
  BY DEF ToSet, ParamIds
<1>5. ids = [x \in DOMAIN ids |-> ids[x]]
  BY DEF ParamIds
<1> HIDE DEF ids
<1>6. \A x \in DOMAIN ids : ids[x] \in 1 .. Len(tab) /\ tab[ids[x]].kind = "param"
  <2> SUFFICES ASSUME NEW x \in DOMAIN ids
               PROVE  ids[x] \in 1 .. Len(tab) /\ tab[ids[x]].kind = "param"
    OBVIOUS
  <2>1. x \in ToSet(params)
    BY <1>4
  <2>2. PICK i \in 1 .. n : ids[x] = Len(table) + i
    BY <1>3, <2>1
  <2>3. ids[x] \in 1 .. Len(tab)
    BY <1>2, <2>2
  <2>4. tab[ids[x]] = p[i] /\ p[i].kind = "param"
    BY <1>1, <1>2, <2>2
  <2> QED BY <2>3, <2>4
<1>7. ids \in Bindings(Len(tab))
  <2>1. DOMAIN ids \in SUBSET Names
    BY <1>4, NamesAre
  <2>2. ids \in [DOMAIN ids -> 1 .. Len(tab)]
    BY <1>5, <1>6
  <2> QED BY <2>1, <2>2 DEF Bindings
<1> QED BY <1>2, <1>4, <1>6, <1>7 DEF ids, tab, p

\* What a name stands for is not changed by new symbols.
LEMMA KindsGrow ==
  ASSUME NEW n \in Nat, NEW tab, NEW tab2, \A i \in 1 .. n : tab2[i] = tab[i]
  PROVE  /\ \A s \in Seq(Bindings(n)) : LocalsIn(tab, s) => LocalsIn(tab2, s)
         /\ \A m \in Bindings(n) : ItemsIn(tab, m) => ItemsIn(tab2, m)
<1>1. ASSUME NEW s \in Seq(Bindings(n)), LocalsIn(tab, s) PROVE LocalsIn(tab2, s)
  <2> SUFFICES ASSUME NEW i \in DOMAIN s, NEW x \in DOMAIN s[i]
               PROVE  tab2[s[i][x]].kind \in {"param", "local"}
    BY DEF LocalsIn, Local
  <2>1. s[i] \in Bindings(n)
    OBVIOUS
  <2>2. s[i][x] \in 1 .. n
    BY <2>1, BindingsAre
  <2>3. tab[s[i][x]].kind \in {"param", "local"}
    BY <1>1 DEF LocalsIn, Local
  <2> QED BY <2>2, <2>3
<1>2. ASSUME NEW m \in Bindings(n), ItemsIn(tab, m) PROVE ItemsIn(tab2, m)
  <2> SUFFICES ASSUME NEW x \in DOMAIN m
               PROVE  \/ tab2[m[x]].kind = "item"
                      \/ tab2[m[x]].kind = "module" /\ x = ModuleName
    BY DEF ItemsIn
  <2>1. m[x] \in 1 .. n
    BY BindingsAre
  <2> QED BY <1>2, <2>1 DEF ItemsIn
<1> QED BY <1>1, <1>2

\* The scopes when one is opened, gets a name or is left.
LEMMA LocalsStay ==
  ASSUME NEW n \in Nat, NEW s \in Seq(Bindings(n)), NEW tab, LocalsIn(tab, s)
  PROVE  /\ \A f \in Bindings(n) : Local(tab, f) => LocalsIn(tab, Append(s, f))
         /\ s # <<>> => LocalsIn(tab, Front(s))
         /\ s # <<>> => \A x \in Names, v \in 1 .. n :
              tab[v].kind = "local" => LocalsIn(tab, DefineIn(s, x, v))
<1>1. Len(s) \in Nat /\ DOMAIN s = 1 .. Len(s) /\ \A i \in 1 .. Len(s) : Local(tab, s[i])
  BY DEF LocalsIn
<1>2. ASSUME NEW f \in Bindings(n), Local(tab, f) PROVE LocalsIn(tab, Append(s, f))
  <2>1. /\ DOMAIN Append(s, f) = 1 .. Len(s) + 1
        /\ \A i \in 1 .. Len(s) : Append(s, f)[i] = s[i]
        /\ Append(s, f)[Len(s) + 1] = f
    BY AppendElements
  <2> QED BY <1>1, <1>2, <2>1 DEF LocalsIn
<1>3. ASSUME s # <<>> PROVE LocalsIn(tab, Front(s))
  <2>1. DOMAIN Front(s) = 1 .. Len(s) - 1 /\ \A i \in 1 .. Len(s) - 1 : Front(s)[i] = s[i]
    BY <1>3, FrontElements
  <2> QED BY <1>1, <2>1 DEF LocalsIn
<1>4. ASSUME s # <<>>, NEW x \in Names, NEW v \in 1 .. n, tab[v].kind = "local"
      PROVE  LocalsIn(tab, DefineIn(s, x, v))
  <2> DEFINE t == DefineIn(s, x, v)
             k == Len(s)
  <2>1. /\ DOMAIN t = 1 .. k /\ k \in 1 .. k
        /\ \A i \in 1 .. k : i # k => t[i] = s[i]
        /\ \A y : y \in DOMAIN t[k] <=> y = x \/ y \in DOMAIN s[k]
        /\ t[k][x] = v
        /\ \A y \in DOMAIN s[k] : y # x => t[k][y] = s[k][y]
    BY <1>4, DefineBinds
  <2> HIDE DEF t
  <2>2. Local(tab, t[k])
    BY <1>1, <1>4, <2>1 DEF Local
  <2>3. \A i \in 1 .. k : Local(tab, t[i])
    BY <1>1, <2>1, <2>2
  <2>4. LocalsIn(tab, t)
    BY <2>1, <2>3 DEF LocalsIn
  <2> QED BY <2>4 DEF t
<1> QED BY <1>2, <1>3, <1>4

\* Outside of the function there is no scope.
LEMMA NoScopes ==
  ASSUME Base, phase # "body"
  PROVE  scopes = <<>> /\ truth = <<>> /\ frames = <<>>
  BY DEF Base, Begun

\* One more item.
LEMMA ItemsPut ==
  ASSUME NEW n \in Nat, NEW f \in Bindings(n), NEW x \in Names, NEW v \in 1 .. n, NEW tab,
         ItemsIn(tab, f), tab[v].kind = "item" \/ (tab[v].kind = "module" /\ x = ModuleName)
  PROVE  ItemsIn(tab, Put(f, x, v))
<1> DEFINE g == Put(f, x, v)
<1>1. /\ g[x] = v /\ \A y : y \in DOMAIN g <=> y = x \/ y \in DOMAIN f
      /\ \A y \in DOMAIN f : y # x => g[y] = f[y]
  BY PutBinds
<1> HIDE DEF g
<1>2. ASSUME NEW y \in DOMAIN g
      PROVE  tab[g[y]].kind = "item" \/ (tab[g[y]].kind = "module" /\ y = ModuleName)
  <2>1. CASE y = x
    BY <1>1, <2>1
  <2>2. CASE y # x
    BY <1>1, <1>2, <2>2 DEF ItemsIn
  <2> QED BY <2>1, <2>2
<1>3. ItemsIn(tab, g)
  BY <1>2 DEF ItemsIn
<1> QED BY <1>3 DEF g

\* What is declared stays declared outside of the module as well.
LEMMA OuterStays ==
  ASSUME UNCHANGED <<true_module, public>>
  PROVE  UNCHANGED <<OverBuiltins, BuiltinHidden>>
  BY DEF OverBuiltins, BuiltinHidden

\* A name of an item, unless it is a built-in function's: what it is declared as.
DeclaredOver(x, id) ==
  /\ OverBuiltins' = IF x \in DOMAIN OverBuiltins THEN OverBuiltins ELSE Put(OverBuiltins, x, id)
  /\ faults' = faults \cup Report("E4003", x \in DOMAIN OverBuiltins)

LEMMA DeclaredIs ==
  ASSUME NEW x, NEW id, x # Builtin, Declared(x, id)
  PROVE  DeclaredOver(x, id)
<1>1. x \in DOMAIN OverBuiltins <=> x \in DOMAIN true_module
  BY DEF OverBuiltins
<1>2. CASE x \in DOMAIN true_module
  <2>1. true_module' = true_module
    BY <1>2 DEF Declared
  <2>2. OverBuiltins' = OverBuiltins
    BY <2>1 DEF OverBuiltins
  <2> QED BY <1>1, <1>2, <2>2 DEF Declared, DeclaredOver
<1>3. CASE x \notin DOMAIN true_module
  <2>1. true_module' = Put(true_module, x, id)
    BY <1>3 DEF Declared
  <2>2. OverBuiltins' = Put(OverBuiltins, x, id)
    BY <1>1, <1>3, <2>1 DEF OverBuiltins, Put
  <2> QED BY <1>1, <1>3, <2>2 DEF Declared, DeclaredOver
<1> QED BY <1>2, <1>3

\* An item that is met a second time.
LEMMA CollectAgain ==
  ASSUME Base, NEW x \in Names, NEW pub \in BOOLEAN, Collect(x, pub), x \in module_spans, x # Builtin
  PROVE  Base'
<1>1. x \in DOMAIN module_scope /\ x \in DOMAIN OverBuiltins
  BY DEF Base, ItemsAgree
<1>2. /\ UNCHANGED <<table, module_scope, module_spans, true_module, public>>
      /\ errors' = errors \cup {"E4003"} /\ faults' = faults \cup {"E4003"}
      /\ phase = "collect"
      /\ UNCHANGED <<registry, current, phase, scopes, exports, local_map, frames, truth, used>>
  <2>1. x \in DOMAIN true_module
    BY <1>1 DEF OverBuiltins
  <2> QED BY <2>1 DEF Collect, Define, Declared, Report
<1>3. UNCHANGED <<OverBuiltins, BuiltinHidden>>
  BY <1>2, OuterStays
<1>4. Types' /\ Begun' /\ Kinds'
  BY <1>2, <1>3 DEF Base, Types, Begun, Kinds, LocalsIn, ItemsIn, Local
<1>5. ItemsAgree'
  BY <1>2, <1>3 DEF Base, ItemsAgree, Clean
<1>6. Exported'
  BY <1>2, <1>3 DEF Base, Exported, Publishes
<1> QED BY <1>4, <1>5, <1>6 DEF Base

\* An item with the name of a built-in function, which the resolver reports.
LEMMA CollectBuiltin ==
  ASSUME Base, NEW pub \in BOOLEAN, Collect(Builtin, pub)
  PROVE  Base'
<1> DEFINE n == Len(table)
           v == module_scope[Builtin]
<1>1. /\ UNCHANGED <<table, module_scope, module_spans>>
      /\ errors' = errors \cup {"E4003"} /\ faults' \subseteq faults \cup {"E4003"}
      /\ true_module' = IF Builtin \in DOMAIN true_module THEN true_module
                        ELSE Put(true_module, Builtin, v)
      /\ phase = "collect" /\ public \subseteq public' /\ public' \subseteq public \cup {Builtin}
      /\ current = 2 => public' = public
      /\ UNCHANGED <<registry, current, phase, scopes, exports, local_map, frames, truth, used>>
  BY DEF Base, ItemsAgree, Collect, Define, Declared, Report, v
<1>2. /\ n \in Nat /\ module_scope \in Bindings(n) /\ Builtin \in DOMAIN module_scope
      /\ OverBuiltins \in Bindings(n) /\ Builtin \in DOMAIN OverBuiltins
      /\ ItemsIn(table, module_scope) /\ ItemsIn(table, OverBuiltins)
  BY DEF Base, Types, Kinds, ItemsAgree, n
<1>3. v \in 1 .. n
  BY <1>2, BindingsAre
<1>4. BuiltinHidden'
  BY <1>1 DEF BuiltinHidden, Put
<1>5. table[v].kind = "item" \/ (table[v].kind = "module" /\ Builtin = ModuleName)
  BY <1>2 DEF ItemsIn
<1>6. Builtin \in Names
  BY NamesAre
<1> HIDE DEF n, v
<1>7. OverBuiltins' = OverBuiltins \/ OverBuiltins' = Put(OverBuiltins, Builtin, v)
  <2>1. CASE Builtin \in DOMAIN true_module
    BY <1>1, <2>1 DEF OverBuiltins
  <2>2. CASE Builtin \notin DOMAIN true_module
    <3>1. true_module' = Put(true_module, Builtin, v)
      BY <1>1, <2>2
    <3> QED BY <3>1 DEF OverBuiltins, Put
  <2> QED BY <2>1, <2>2
<1>8. /\ OverBuiltins' \in Bindings(n) /\ DOMAIN OverBuiltins' = DOMAIN OverBuiltins
      /\ ItemsIn(table, OverBuiltins')
  <2>1. CASE OverBuiltins' = OverBuiltins
    BY <1>2, <2>1
  <2>2. CASE OverBuiltins' = Put(OverBuiltins, Builtin, v)
    <3>1. DOMAIN OverBuiltins' = DOMAIN OverBuiltins
      BY <1>2, <2>2 DEF Put
    <3>2. OverBuiltins' \in Bindings(n)
      BY <1>2, <1>3, <1>6, <2>2, PutBinds
    <3>3. ItemsIn(table, OverBuiltins')
      BY <1>2, <1>3, <1>5, <1>6, <2>2, ItemsPut
    <3> QED BY <3>1, <3>2, <3>3
  <2> QED BY <1>7, <2>1, <2>2
<1>9. Types' /\ Begun'
  BY <1>1, <1>8 DEF Base, Types, Begun, n
<1>10. Kinds'
  BY <1>1, <1>8 DEF Base, Kinds, ItemsIn, LocalsIn, Local
<1>11. ItemsAgree'
  BY <1>1, <1>4, <1>8 DEF Base, ItemsAgree, Clean
<1>12. Exported'
  <2>1. CASE current = 1
    <3>1. /\ \A i \in DOMAIN table : table[i].kind = "item"
          /\ {table[i].name : i \in DOMAIN table} = DOMAIN OverBuiltins
          /\ module_spans = DOMAIN OverBuiltins
          /\ Publishes(table)
      BY <2>1 DEF Base, Exported
    <3>2. \E i \in DOMAIN table : table[i].name = Builtin
      BY <1>2, <3>1
    <3>3. Publishes(table)'
      BY <1>1, <3>1, <3>2 DEF Publishes
    <3> QED BY <1>1, <1>8, <2>1, <3>1, <3>3 DEF Exported
  <2>2. CASE current = 2
    BY <1>1, <2>2 DEF Base, Exported, Publishes
  <2> QED BY <2>1, <2>2 DEF Base, Types
<1> QED BY <1>9, <1>10, <1>11, <1>12 DEF Base

\* One more symbol for the module: an item, or the imported module.
LEMMA ModuleGrows ==
  ASSUME Base, NEW x \in Names, NEW kind \in {"item", "module"}, NEW pub \in BOOLEAN,
         kind = "item" \/ x = ModuleName,
         table' = Append(table, Symbol(x, kind, pub)),
         module_scope' = Put(module_scope, x, Len(table')),
         DeclaredOver(x, Len(table')), BuiltinHidden' = BuiltinHidden,
         errors' = errors \cup Report("E4003", x \in DOMAIN module_scope),
         module_spans \subseteq module_spans', module_spans' \subseteq module_spans \cup {x},
         phase = "collect",
         UNCHANGED <<registry, current, phase, scopes, local_map, frames, truth, used>>
  PROVE  /\ Types' /\ Begun' /\ Kinds' /\ ItemsAgree'
         /\ Len(table') = Len(table) + 1 /\ Len(table) \in Nat
         /\ table'[Len(table) + 1] = Symbol(x, kind, pub)
         /\ \A i \in 1 .. Len(table) : table'[i] = table[i]
<1> DEFINE s == Symbol(x, kind, pub)
           n == Len(table)
           m == Len(table')
<1>1. s \in Symbols /\ s.kind = kind
  BY DEF Symbol, Symbols
<1> HIDE DEF s
<1>2. /\ table' \in Seq(Symbols) /\ m = n + 1 /\ n \in Nat /\ table'[m] = s
      /\ \A i \in 1 .. n : table'[i] = table[i]
  BY <1>1, AppendElements DEF Base, Types, s
<1>3. m \in Nat /\ n <= m /\ m \in 1 .. m
  BY <1>2
<1>4. /\ module_scope \in Bindings(m) /\ OverBuiltins \in Bindings(m) /\ local_map \in Bindings(m)
      /\ scopes \in Seq(Bindings(m)) /\ truth \in Seq(Bindings(m))
  BY <1>3, OldBindings DEF Base
<1>5. module_scope' = Put(module_scope, x, m)
  OBVIOUS
<1> HIDE DEF m
<1>6. /\ module_scope' \in Bindings(m) /\ module_scope'[x] = m
      /\ \A y : y \in DOMAIN module_scope' <=> y = x \/ y \in DOMAIN module_scope
      /\ \A y \in DOMAIN module_scope : y # x => module_scope'[y] = module_scope[y]
  BY <1>3, <1>4, <1>5, PutBinds
<1>7. table'[m].kind = "item" \/ (table'[m].kind = "module" /\ x = ModuleName)
  BY <1>1, <1>2
<1>8. CASE x \in DOMAIN OverBuiltins
  <2>1. OverBuiltins' = OverBuiltins /\ faults' = faults \cup {"E4003"}
    BY <1>8 DEF DeclaredOver, Report
  <2>2. x \in DOMAIN module_scope /\ errors' = errors \cup {"E4003"}
    BY <1>8 DEF Base, ItemsAgree, Report
  <2>3. Types'
    BY <1>2, <1>4, <1>6, <2>1 DEF Base, Types, m
  <2>4. Begun'
    BY DEF Base, Begun
  <2>5. ItemsIn(table', module_scope) /\ ItemsIn(table', OverBuiltins)
    BY <1>2, KindsGrow DEF Base, Kinds, Types, n
  <2>6. ItemsIn(table', module_scope')
    BY <1>3, <1>4, <1>7, <1>5, <2>5, ItemsPut
  <2>7. scopes' = <<>> /\ truth' = <<>>
    BY NoScopes
  <2>8. Kinds'
    BY <2>1, <2>5, <2>6, <2>7 DEF Kinds, LocalsIn
  <2>9. ItemsAgree'
    BY <1>6, <2>1, <2>2 DEF Base, ItemsAgree, Clean
  <2> QED BY <1>2, <2>3, <2>4, <2>8, <2>9 DEF s, m
<1>9. CASE x \notin DOMAIN OverBuiltins
  <2>1. OverBuiltins' = Put(OverBuiltins, x, m) /\ faults' = faults
    BY <1>9 DEF DeclaredOver, Report, m
  <2>2. x \notin DOMAIN module_scope /\ errors' = errors
    BY <1>9 DEF Base, ItemsAgree, Report
  <2>3. /\ OverBuiltins' \in Bindings(m) /\ OverBuiltins'[x] = m
        /\ \A y : y \in DOMAIN OverBuiltins' <=> y = x \/ y \in DOMAIN OverBuiltins
        /\ \A y \in DOMAIN OverBuiltins : y # x => OverBuiltins'[y] = OverBuiltins[y]
    BY <1>3, <1>4, <2>1, PutBinds
  <2>4. Types'
    BY <1>2, <1>4, <1>6, <2>3 DEF Base, Types, m
  <2>5. Begun'
    BY DEF Base, Begun
  <2>6. ItemsIn(table', module_scope) /\ ItemsIn(table', OverBuiltins)
    BY <1>2, KindsGrow DEF Base, Kinds, Types, n
  <2>7. ItemsIn(table', module_scope') /\ ItemsIn(table', OverBuiltins')
    <3>1. ItemsIn(table', module_scope')
      BY <1>3, <1>4, <1>7, <1>5, <2>6, ItemsPut
    <3>2. ItemsIn(table', OverBuiltins')
      BY <1>3, <1>4, <1>7, <2>1, <2>6, ItemsPut
    <3> QED BY <3>1, <3>2
  <2>8. scopes' = <<>> /\ truth' = <<>>
    BY NoScopes
  <2>9. Kinds'
    BY <2>7, <2>8 DEF Kinds, LocalsIn
  <2>10. Clean' => module_scope' = OverBuiltins'
    BY <2>1, <2>2 DEF Base, ItemsAgree, Clean, m
  <2>11. DOMAIN module_scope' = DOMAIN OverBuiltins'
    BY <1>6, <2>3 DEF Base, ItemsAgree
  <2>12. ItemsAgree'
    BY <1>6, <2>1, <2>2, <2>10, <2>11 DEF Base, ItemsAgree
  <2> QED BY <1>2, <2>4, <2>5, <2>9, <2>12 DEF s, m
<1> QED BY <1>8, <1>9

\* A new item, of either module.
LEMMA CollectNew ==
  ASSUME Base, NEW x \in Names, NEW pub \in BOOLEAN, Collect(x, pub), x \notin module_spans
  PROVE  Base'
<1>1. /\ table' = Append(table, Symbol(x, "item", pub))
      /\ module_spans' = module_spans \cup {x}
      /\ module_scope' = Put(module_scope, x, Len(table'))
      /\ errors' = errors \cup Report("E4003", x \in DOMAIN module_scope)
      /\ DeclaredOver(x, Len(table')) /\ BuiltinHidden' = BuiltinHidden
      /\ phase = "collect"
      /\ UNCHANGED <<registry, current, phase, scopes, exports, local_map, frames, truth, used>>
      /\ public' = IF current = 1 /\ pub /\ x \notin DOMAIN OverBuiltins
                     THEN public \cup {x} ELSE public
  <2>1. /\ table' = Append(table, Symbol(x, "item", pub))
        /\ module_spans' = module_spans \cup {x}
        /\ module_scope' = Put(module_scope, x, Len(table'))
        /\ errors' = errors \cup Report("E4003", x \in DOMAIN module_scope)
        /\ Declared(x, module_scope'[x])
        /\ phase = "collect"
        /\ UNCHANGED <<registry, current, phase, scopes, exports, local_map, frames, truth, used>>
        /\ public' = IF current = 1 /\ pub /\ x \notin DOMAIN true_module
                       THEN public \cup {x} ELSE public
    BY DEF Collect, Define
  <2>2. x # Builtin
    BY DEF Base, ItemsAgree
  <2>3. module_scope'[x] = Len(table')
    BY <2>1 DEF Put
  <2>4. Declared(x, Len(table'))
    BY <2>1, <2>3
  <2>5. DeclaredOver(x, Len(table'))
    BY <2>2, <2>4, DeclaredIs
  <2>6. BuiltinHidden' = BuiltinHidden
    BY <2>1, <2>2 DEF BuiltinHidden, Declared, Put
  <2>7. x \in DOMAIN true_module <=> x \in DOMAIN OverBuiltins
    BY <2>2 DEF OverBuiltins
  <2> QED BY <2>1, <2>5, <2>6, <2>7
<1>2. /\ Types' /\ Begun' /\ Kinds' /\ ItemsAgree'
      /\ Len(table') = Len(table) + 1 /\ Len(table) \in Nat
      /\ table'[Len(table) + 1] = Symbol(x, "item", pub)
      /\ \A i \in 1 .. Len(table) : table'[i] = table[i]
  <2> "item" \in {"item", "module"}
    OBVIOUS
  <2> QED BY <1>1, ModuleGrows
<1>3. CASE current = 2
  <2>1. public' = public
    BY <1>1, <1>3
  <2> QED BY <1>1, <1>2, <1>3, <2>1 DEF Base, Exported, Publishes
<1>4. CASE current = 1
  <2> DEFINE n == Len(table)
             s == Symbol(x, "item", pub)
  <2>1. /\ \A i \in DOMAIN table : table[i].kind = "item"
        /\ {table[i].name : i \in DOMAIN table} = DOMAIN OverBuiltins
        /\ module_spans = DOMAIN OverBuiltins
        /\ Publishes(table)
    BY <1>4 DEF Base, Exported
  <2>2. x \notin DOMAIN OverBuiltins
    BY <2>1
  <2>3. s.name = x /\ s.kind = "item" /\ s.is_public = pub
    BY DEF Symbol
  <2> HIDE DEF s
  <2>4. DOMAIN table = 1 .. n /\ DOMAIN table' = 1 .. n + 1 /\ n \in Nat
    BY <1>2 DEF Base, Types
  <2>5. table'[n + 1] = s /\ \A i \in 1 .. n : table'[i] = table[i]
    BY <1>2 DEF s
  <2> HIDE DEF n
  <2>6. \A i \in 1 .. n + 1 : i = n + 1 \/ i \in 1 .. n
    BY <2>4
  <2>7. \A i \in 1 .. n : table[i].name # x
    BY <2>1, <2>2, <2>4
  <2>8. public' = IF pub THEN public \cup {x} ELSE public
    BY <1>1, <1>4, <2>2
  <2>9. x \notin public
    BY <2>1, <2>4, <2>7 DEF Publishes
  <2>10. \A i \in DOMAIN table' : table'[i].kind = "item"
    BY <2>1, <2>3, <2>4, <2>5, <2>6
  <2>11. n + 1 \in 1 .. n + 1 /\ \A i \in 1 .. n : i \in 1 .. n + 1
    BY <2>4
  <2>12. DOMAIN OverBuiltins' = DOMAIN OverBuiltins \cup {x}
    BY <1>1, <2>2 DEF DeclaredOver, Put
  <2>13. \A y : y \in DOMAIN OverBuiltins <=> \E i \in 1 .. n : table[i].name = y
    BY <2>1, <2>4
  <2>14. \A y : y \in DOMAIN OverBuiltins' <=> \E i \in 1 .. n + 1 : table'[i].name = y
    <3> SUFFICES ASSUME NEW y
                 PROVE  y \in DOMAIN OverBuiltins' <=> \E i \in 1 .. n + 1 : table'[i].name = y
      OBVIOUS
    <3>1. CASE y = x
      BY <2>3, <2>5, <2>11, <2>12, <3>1
    <3>2. CASE y # x
      BY <2>3, <2>5, <2>6, <2>11, <2>12, <2>13, <3>2
    <3> QED BY <3>1, <3>2
  <2>15. {table'[i].name : i \in DOMAIN table'} = DOMAIN OverBuiltins'
    BY <2>4, <2>14
  <2>16. module_spans' = DOMAIN OverBuiltins'
    BY <1>1, <2>1, <2>12
  <2>19. x # Builtin
    BY DEF Base, ItemsAgree
  <2>17. Publishes(table)'
    <3>1. \A i \in 1 .. n : /\ table[i].is_public <=> table[i].name \in public \ {Builtin}
                            /\ \A j \in 1 .. n : table[i].name = table[j].name => i = j
      BY <2>1, <2>4 DEF Publishes
    <3>2. \A i \in 1 .. n : table[i].is_public <=> table[i].name \in public' \ {Builtin}
      BY <2>7, <2>8, <3>1
    <3>3. s.is_public <=> s.name \in public' \ {Builtin}
      BY <2>3, <2>8, <2>9, <2>19
    <3>4. \A i \in DOMAIN table' : table'[i].is_public <=> table'[i].name \in public' \ {Builtin}
      BY <2>4, <2>5, <2>6, <3>2, <3>3
    <3>5. \A i, j \in DOMAIN table' : table'[i].name = table'[j].name => i = j
      <4> SUFFICES ASSUME NEW i \in 1 .. n + 1, NEW j \in 1 .. n + 1, table'[i].name = table'[j].name
                   PROVE  i = j
        BY <2>4
      <4>1. CASE i = n + 1 /\ j \in 1 .. n
        BY <2>3, <2>5, <2>7, <4>1
      <4>2. CASE j = n + 1 /\ i \in 1 .. n
        BY <2>3, <2>5, <2>7, <4>2
      <4>3. CASE i \in 1 .. n /\ j \in 1 .. n
        BY <2>5, <3>1, <4>3
      <4> QED BY <2>6, <4>1, <4>2, <4>3
    <3>6. \A y \in public' : \E i \in DOMAIN table' : table'[i].name = y
      <4> SUFFICES ASSUME NEW y \in public' PROVE \E i \in 1 .. n + 1 : table'[i].name = y
        BY <2>4
      <4>1. CASE y = x
        BY <2>3, <2>5, <2>11, <4>1
      <4>2. CASE y \in public
        BY <2>1, <2>4, <2>5, <2>11, <4>2 DEF Publishes
      <4> QED BY <2>8, <4>1, <4>2
    <3> QED BY <3>4, <3>5, <3>6 DEF Publishes
  <2>18. Exported'
    <3>1. current' = 1 /\ phase' = "collect"
      BY <1>1, <1>4
    <3> QED BY <2>10, <2>15, <2>16, <2>17, <3>1 DEF Exported
  <2> QED BY <1>2, <2>18 DEF Base
<1> QED BY <1>3, <1>4 DEF Base, Types

\* An import.
LEMMA UseStep ==
  ASSUME Base, Use
  PROVE  Base'
<1>1. CASE registry
  <2>1. /\ table' = Append(table, Symbol(ModuleName, "module", FALSE))
        /\ module_scope' = Put(module_scope, ModuleName, Len(table'))
        /\ errors' = errors \cup Report("E4003", ModuleName \in DOMAIN module_scope)
        /\ DeclaredOver(ModuleName, Len(table')) /\ BuiltinHidden' = BuiltinHidden
        /\ module_spans \subseteq module_spans' /\ module_spans' \subseteq module_spans \cup {ModuleName}
        /\ phase = "collect" /\ current = 2
        /\ UNCHANGED <<registry, current, phase, scopes, exports, local_map, frames, truth, public,
                       used>>
    <3>1. Declared(ModuleName, Len(table')) /\ UNCHANGED public
      BY <1>1 DEF Use
    <3>2. ModuleName # Builtin
      BY DEF ModuleName, Builtin
    <3>3. BuiltinHidden' = BuiltinHidden
      BY <3>1, <3>2 DEF BuiltinHidden, Declared, Put
    <3> QED BY <1>1, <3>1, <3>2, <3>3, DeclaredIs DEF Use
  <2>2. Types' /\ Begun' /\ Kinds' /\ ItemsAgree'
    <3> "module" \in {"item", "module"} /\ ModuleName \in Names /\ FALSE \in BOOLEAN
      BY NamesAre
    <3> QED BY <2>1, ModuleGrows
  <2> QED BY <2>1, <2>2 DEF Base, Exported, Publishes
<1>2. CASE ~ registry
  <2>1. /\ UNCHANGED <<table, module_scope, errors, OverBuiltins, BuiltinHidden, faults>>
        /\ UNCHANGED <<registry, current, phase, module_spans, scopes, exports, local_map, frames,
                       truth, public, used>>
    BY <1>2, OuterStays DEF Use
  <2> QED BY <2>1 DEF Base, Types, Begun, Kinds, LocalsIn, ItemsIn, Local, ItemsAgree, Clean,
             Exported, Publishes
<1> QED BY <1>1, <1>2

\* The first pass is over, and the items are published.
LEMMA EndCollectStep ==
  ASSUME Base, EndCollect
  PROVE  Base'
<1>1. /\ phase = "collect" /\ phase' = "locals"
      /\ exports' = IF registry /\ current = 1 THEN Published ELSE exports
      /\ UNCHANGED <<registry, current, table, module_scope, module_spans, scopes, local_map, errors,
                     frames, truth, OverBuiltins, BuiltinHidden, public, faults, used>>
  BY OuterStays DEF EndCollect, ghosts
<1>2. Types' /\ Begun' /\ Kinds' /\ ItemsAgree'
  BY <1>1 DEF Base, Types, Begun, Kinds, LocalsIn, ItemsIn, Local, ItemsAgree, Clean
<1>3. CASE current = 1
  <2>1. /\ \A i \in DOMAIN table : table[i].kind = "item"
        /\ Publishes(table)
    BY <1>3 DEF Base, Exported
  <2>2. DOMAIN table \in SUBSET Nat
    BY DEF Base, Types
  <2>3. ASSUME registry PROVE DOMAIN exports' \in SUBSET Nat /\ Publishes(exports)'
    <3>1. exports' = Published
      BY <1>1, <1>3, <2>3
    <3>2. DOMAIN exports' = DOMAIN table /\ \A i \in DOMAIN table : exports'[i] = table[i]
      BY <2>1, <3>1 DEF Published, Restrict
    <3> QED BY <1>1, <2>1, <2>2, <3>2 DEF Publishes
  <2> QED BY <1>1, <1>2, <1>3, <2>3 DEF Base, Exported, Publishes
<1>4. CASE current = 2
  BY <1>1, <1>2, <1>4 DEF Base, Exported, Publishes
<1> QED BY <1>3, <1>4 DEF Base, Types

\* The next module, with a table of its own.
LEMMA NextModuleStep ==
  ASSUME Base, NextModule
  PROVE  Base'
<1>1. /\ phase = "locals" /\ current = 1 /\ current' = 2 /\ phase' = "collect"
      /\ table' = <<Symbol(Builtin, "item", FALSE)>>
      /\ module_scope' = Put(Nothing, Builtin, 1) /\ OverBuiltins' = Put(Nothing, Builtin, 1)
      /\ module_spans' = {Builtin} /\ errors' = {} /\ faults' = {}
      /\ UNCHANGED <<registry, scopes, exports, local_map, frames, truth, public, used>>
  BY DEF NextModule, OverBuiltins, Put, Nothing
<1>2. /\ table' \in Seq(Symbols) /\ Len(table') = 1
      /\ table'[1].kind = "item"
      /\ module_scope' \in Bindings(Len(table')) /\ OverBuiltins' \in Bindings(Len(table'))
      /\ DOMAIN module_scope' = {Builtin} /\ module_scope'[Builtin] = 1
      /\ module_scope' = OverBuiltins'
  BY <1>1, FreshTable
<1>3. scopes' = <<>> /\ truth' = <<>> /\ frames' = <<>> /\ local_map' = Nothing
  BY <1>1 DEF Base, Begun
<1>4. Types'
  <2>1. Nothing \in Bindings(Len(table'))
    BY <1>2, NothingBinds
  <2>2. <<>> \in Seq(Bindings(Len(table'))) /\ <<>> \in Seq({"func", "block", "arm"})
    OBVIOUS
  <2> QED BY <1>1, <1>2, <1>3, <2>1, <2>2 DEF Base, Types
<1>5. Begun'
  BY <1>1 DEF Base, Begun
<1>6. Kinds'
  BY <1>2, <1>3 DEF Kinds, LocalsIn, ItemsIn
<1>7. ItemsAgree'
  BY <1>1, <1>2 DEF ItemsAgree
<1>8. Exported'
  BY <1>1 DEF Base, Exported, Publishes
<1> QED BY <1>4, <1>5, <1>6, <1>7, <1>8 DEF Base

\* In the function the items and the exports stay as they are.
LEMMA ItemsStay ==
  ASSUME Base, phase \notin {"collect", "locals"} \/ (phase = "locals" /\ current = 2),
         phase' \in {"body", "done"},
         UNCHANGED <<registry, current, module_scope, module_spans, exports, OverBuiltins,
                     BuiltinHidden, public>>,
         errors \subseteq errors', faults \subseteq faults'
  PROVE  ItemsAgree' /\ Exported' /\ current = 2
<1>1. current = 2
  BY DEF Base, Begun, Types
<1>2. ItemsAgree'
  BY DEF Base, ItemsAgree, Clean
<1>3. Exported'
  BY <1>1 DEF Base, Exported, Publishes
<1> QED BY <1>1, <1>2, <1>3

\* The function and its parameters.
LEMMA EnterFuncStep ==
  ASSUME Base, NEW n \in Nat, NEW params \in [1 .. n -> Idents], EnterFunc(params)
  PROVE  Base'
<1> DEFINE ids == ParamIds(params)
<1>1. /\ phase = "locals" /\ current = 2 /\ phase' = "body" /\ frames' = <<"func">>
      /\ table' = table \o [i \in DOMAIN params |-> Symbol(params[i], "param", FALSE)]
      /\ scopes' = <<ids>> /\ truth' = <<ids>> /\ local_map' = ids
      /\ errors \subseteq errors' /\ faults \subseteq faults'
      /\ UNCHANGED <<registry, current, module_scope, module_spans, exports, OverBuiltins,
                     BuiltinHidden, public>>
  BY OuterStays DEF EnterFunc
<1>2. /\ table' \in Seq(Symbols) /\ Len(table) \in Nat
      /\ Len(table') = Len(table) + n
      /\ \A i \in 1 .. Len(table) : table'[i] = table[i]
      /\ ids \in Bindings(Len(table')) /\ DOMAIN ids = ToSet(params)
      /\ \A x \in ToSet(params) : table'[ids[x]].kind = "param"
  BY <1>1, ParametersBind DEF Base, Types
<1> HIDE DEF ids
<1>3. Len(table') \in Nat /\ Len(table) <= Len(table')
  BY <1>2
<1>4. module_scope \in Bindings(Len(table')) /\ OverBuiltins \in Bindings(Len(table'))
  BY <1>3, OldBindings DEF Base
<1>5. Types'
  <2>1. <<ids>> \in Seq(Bindings(Len(table'))) /\ <<"func">> \in Seq({"func", "block", "arm"})
    BY <1>2
  <2> QED BY <1>1, <1>2, <1>4, <2>1 DEF Base, Types
<1>6. Begun'
  <2>1. <<"func">> # <<>> /\ <<"func">>[1] = "func"
    OBVIOUS
  <2> QED BY <1>1, <2>1 DEF Begun
<1>7. Kinds'
  <2>1. ItemsIn(table', module_scope) /\ ItemsIn(table', OverBuiltins)
    BY <1>2, KindsGrow DEF Base, Kinds, Types
  <2>2. DOMAIN <<ids>> = {1} /\ <<ids>>[1] = ids
    OBVIOUS
  <2>3. LocalsIn(table', <<ids>>)
    BY <1>2, <2>2 DEF LocalsIn, Local
  <2> QED BY <1>1, <2>1, <2>3 DEF Kinds
<1>8. ItemsAgree' /\ Exported'
  BY <1>1, ItemsStay
<1> QED BY <1>5, <1>6, <1>7, <1>8 DEF Base

\* A use of a name.
LEMMA QuietStep ==
  ASSUME Base, phase = "body", errors \subseteq errors', faults \subseteq faults',
         UNCHANGED <<registry, current, phase, table, module_scope, module_spans, scopes, exports,
                     local_map, frames, truth, OverBuiltins, BuiltinHidden, public>>
  PROVE  Base'
<1>1. Types' /\ Begun' /\ Kinds'
  BY DEF Base, Types, Begun, Kinds, LocalsIn, ItemsIn, Local
<1>2. ItemsAgree' /\ Exported'
  BY ItemsStay
<1> QED BY <1>1, <1>2 DEF Base

\* In the function there is a scope, and a frame on top.
LEMMA InTheFunction ==
  ASSUME Base, ScopesAgree, phase = "body"
  PROVE  /\ scopes # <<>> /\ truth # <<>> /\ frames # <<>> /\ current = 2
         /\ Len(truth) = Len(frames) /\ Len(frames) \in Nat \ {0}
         /\ frames[1] = "func" /\ Last(frames) = frames[Len(frames)]
<1>1. frames # <<>> /\ frames[1] = "func" /\ current = 2
  BY DEF Base, Begun
<1>2. frames \in Seq({"func", "block", "arm"}) /\ Types
  BY DEF Base, Types
<1>3. Len(frames) \in Nat \ {0} /\ DOMAIN frames = 1 .. Len(frames) /\ Last(frames) = frames[Len(frames)]
  BY <1>1, <1>2, EmptySeq DEF Last
<1>4. PICK at \in Seq(Nat) : Framed(at)
  BY DEF ScopesAgree
<1>5. PICK i \in 1 .. Len(at) : at[i] = 1
  BY <1>1, <1>3, <1>4 DEF Framed
<1>6. Len(scopes) # 0 /\ Len(truth) = Len(frames)
  BY <1>4, <1>5 DEF Framed
<1> QED BY <1>1, <1>3, <1>6

\* A local: a new symbol, which the innermost scope and the map of the lowering get.
LEMMA LocalStep ==
  ASSUME Base, ScopesAgree, NEW x \in Names, phase = "body", errors \subseteq errors', faults \subseteq faults',
         table' = Append(table, Symbol(x, "local", FALSE)),
         scopes' = DefineIn(scopes, x, Len(table) + 1),
         local_map' = Put(local_map, x, Len(table) + 1),
         UNCHANGED <<registry, current, phase, module_scope, module_spans, exports, OverBuiltins,
                     BuiltinHidden, public>>
  PROVE  /\ Len(table') = Len(table) + 1 /\ Len(table') \in Nat
         /\ table' \in Seq(Symbols) /\ table'[Len(table')].kind = "local"
         /\ \A i \in 1 .. Len(table) : table'[i] = table[i]
         /\ module_scope' \in Bindings(Len(table')) /\ OverBuiltins' \in Bindings(Len(table'))
         /\ local_map' \in Bindings(Len(table')) /\ scopes' \in Seq(Bindings(Len(table')))
         /\ truth \in Seq(Bindings(Len(table')))
         /\ ItemsIn(table', module_scope') /\ ItemsIn(table', OverBuiltins')
         /\ LocalsIn(table', scopes') /\ LocalsIn(table', truth)
         /\ ItemsAgree' /\ Exported'
<1> DEFINE s == Symbol(x, "local", FALSE)
           n == Len(table)
           m == Len(table')
<1>1. s \in Symbols /\ s.kind = "local"
  BY DEF Symbol, Symbols
<1> HIDE DEF s
<1>2. /\ table' \in Seq(Symbols) /\ m = n + 1 /\ n \in Nat /\ table'[m] = s
      /\ \A i \in 1 .. n : table'[i] = table[i]
  <2>1. table \in Seq(Symbols) /\ table' = Append(table, s)
    BY DEF Base, Types, s
  <2>2. /\ Append(table, s) \in Seq(Symbols) /\ Len(Append(table, s)) = n + 1 /\ n \in Nat
        /\ Append(table, s)[n + 1] = s /\ \A i \in 1 .. n : Append(table, s)[i] = table[i]
    BY <1>1, <2>1, AppendElements
  <2> QED BY <2>1, <2>2
<1>3. m \in Nat /\ n <= m /\ m \in 1 .. m
  BY <1>2
<1>4. /\ module_scope \in Bindings(m) /\ OverBuiltins \in Bindings(m) /\ local_map \in Bindings(m)
      /\ scopes \in Seq(Bindings(m)) /\ truth \in Seq(Bindings(m))
  BY <1>3, OldBindings DEF Base
<1>5. /\ ItemsIn(table', module_scope) /\ ItemsIn(table', OverBuiltins)
      /\ LocalsIn(table', scopes) /\ LocalsIn(table', truth)
  <2>1. /\ scopes \in Seq(Bindings(n)) /\ truth \in Seq(Bindings(n))
        /\ module_scope \in Bindings(n) /\ OverBuiltins \in Bindings(n)
    BY DEF Base, Types, n
  <2>2. /\ ItemsIn(table, module_scope) /\ ItemsIn(table, OverBuiltins)
        /\ LocalsIn(table, scopes) /\ LocalsIn(table, truth)
    BY DEF Base, Kinds
  <2>3. n \in Nat /\ \A i \in 1 .. n : table'[i] = table[i]
    BY <1>2
  <2> HIDE DEF n
  <2> QED BY <2>1, <2>2, <2>3, KindsGrow
<1>6. scopes' = DefineIn(scopes, x, m) /\ local_map' = Put(local_map, x, m)
  BY <1>2
<1>7. scopes # <<>>
  BY InTheFunction
<1> HIDE DEF n, m
<1>8. local_map' \in Bindings(m)
  BY <1>3, <1>4, <1>6, PutBinds
<1>9. scopes' \in Seq(Bindings(m))
  BY <1>3, <1>4, <1>6, <1>7, DefineBinds
<1>10. LocalsIn(table', scopes')
  <2>1. table'[m].kind = "local"
    BY <1>1, <1>2
  <2> QED BY <1>3, <1>4, <1>5, <1>6, <1>7, <2>1, LocalsStay
<1>11. ItemsAgree' /\ Exported'
  BY ItemsStay
<1> QED BY <1>1, <1>2, <1>3, <1>4, <1>5, <1>8, <1>9, <1>10, <1>11 DEF n, m

\* A variable.
LEMMA LetBase ==
  ASSUME Base, ScopesAgree, NEW x \in Names, NEW y, Let(x, y)
  PROVE  Base'
<1>1. /\ phase = "body" /\ errors \subseteq errors' /\ faults \subseteq faults'
      /\ table' = Append(table, Symbol(x, "local", FALSE))
      /\ scopes' = DefineIn(scopes, x, Len(table'))
      /\ truth' = DefineIn(truth, x, Len(table'))
      /\ local_map' = Put(local_map, x, Len(table) + 1)
      /\ UNCHANGED <<registry, current, phase, module_scope, module_spans, exports, frames, OverBuiltins,
                     BuiltinHidden, public>>
  BY OuterStays DEF Let, InBody, Register
<1>2. Len(table') = Len(table) + 1
  BY <1>1, AppendElements DEF Base, Types, Symbols, Symbol
<1> DEFINE m == Len(table')
<1>3. /\ m \in Nat /\ table' \in Seq(Symbols) /\ table'[m].kind = "local"
      /\ module_scope' \in Bindings(m) /\ OverBuiltins' \in Bindings(m)
      /\ local_map' \in Bindings(m) /\ scopes' \in Seq(Bindings(m)) /\ truth \in Seq(Bindings(m))
      /\ ItemsIn(table', module_scope') /\ ItemsIn(table', OverBuiltins')
      /\ LocalsIn(table', scopes') /\ LocalsIn(table', truth)
      /\ ItemsAgree' /\ Exported'
  BY <1>1, <1>2, LocalStep
<1>4. truth # <<>> /\ m \in 1 .. m /\ truth' = DefineIn(truth, x, m)
  BY <1>1, <1>2, InTheFunction DEF Base, Types
<1> HIDE DEF m
<1>5. truth' \in Seq(Bindings(m))
  BY <1>3, <1>4, DefineBinds
<1>6. LocalsIn(table', truth')
  BY <1>3, <1>4, LocalsStay
<1>7. Types'
  BY <1>1, <1>3, <1>5 DEF Base, Types, m
<1>8. Begun'
  <2>1. scopes' # <<>> => phase' = "body"
    BY <1>1
  <2> QED BY <1>1 DEF Base, Begun
<1> QED BY <1>3, <1>6, <1>7, <1>8 DEF Base, Kinds

\* An arm that binds a name.
LEMMA EnterArmBase ==
  ASSUME Base, ScopesAgree, NEW x \in Names, EnterArm(x)
  PROVE  Base'
<1>1. /\ phase = "body" /\ errors \subseteq errors' /\ faults \subseteq faults'
      /\ table' = Append(table, Symbol(x, "local", FALSE))
      /\ scopes' = DefineIn(scopes, x, Len(table) + 1)
      /\ truth' = Append(truth, Put(Nothing, x, Len(table) + 1))
      /\ local_map' = Put(local_map, x, Len(table) + 1)
      /\ frames' = Append(frames, "arm")
      /\ UNCHANGED <<registry, current, phase, module_scope, module_spans, exports, OverBuiltins,
                     BuiltinHidden, public>>
  BY OuterStays DEF EnterArm, InBody, Register
<1> DEFINE m == Len(table')
           f == Put(Nothing, x, m)
<1>2. /\ m = Len(table) + 1 /\ m \in Nat /\ table' \in Seq(Symbols) /\ table'[m].kind = "local"
      /\ module_scope' \in Bindings(m) /\ OverBuiltins' \in Bindings(m)
      /\ local_map' \in Bindings(m) /\ scopes' \in Seq(Bindings(m)) /\ truth \in Seq(Bindings(m))
      /\ ItemsIn(table', module_scope') /\ ItemsIn(table', OverBuiltins')
      /\ LocalsIn(table', scopes') /\ LocalsIn(table', truth)
      /\ ItemsAgree' /\ Exported'
  BY <1>1, LocalStep
<1>3. truth' = Append(truth, f) /\ m \in 1 .. m
  BY <1>1, <1>2 DEF Base, Types
<1> HIDE DEF m
<1>4. f \in Bindings(m) /\ f[x] = m /\ \A y : y \in DOMAIN f <=> y = x
  <2>1. Nothing \in Bindings(m) /\ DOMAIN Nothing = {}
    BY <1>2, NothingBinds
  <2> QED BY <1>2, <1>3, <2>1, PutBinds
<1> HIDE DEF f
<1>5. truth' \in Seq(Bindings(m))
  BY <1>2, <1>3, <1>4, AppendElements
<1>6. LocalsIn(table', truth')
  <2>1. Local(table', f)
    BY <1>2, <1>4 DEF Local
  <2> QED BY <1>2, <1>3, <1>4, <2>1, LocalsStay
<1>7. frames' \in Seq({"func", "block", "arm"}) /\ frames' # <<>> /\ frames'[1] = "func"
  <2>1. frames \in Seq({"func", "block", "arm"}) /\ "arm" \in {"func", "block", "arm"}
    BY DEF Base, Types
  <2>2. Len(frames) \in Nat \ {0} /\ frames[1] = "func"
    BY <1>1, InTheFunction
  <2> QED BY <1>1, <2>1, <2>2, AppendElements
<1>8. Types'
  BY <1>1, <1>2, <1>5, <1>7 DEF Base, Types, m
<1>9. Begun'
  BY <1>1, <1>7 DEF Base, Begun
<1> QED BY <1>2, <1>6, <1>8, <1>9 DEF Base, Kinds

\* An arm without a name, and a block.
LEMMA OpenStep ==
  ASSUME Base, ScopesAgree, phase = "body", NEW kind \in {"block", "arm"},
         frames' = Append(frames, kind), truth' = Append(truth, Nothing),
         scopes' = Append(scopes, Nothing) \/ scopes' = scopes,
         UNCHANGED <<registry, current, phase, table, module_scope, module_spans, exports, local_map,
                     errors, OverBuiltins, BuiltinHidden, public, faults>>
  PROVE  Base'
<1>1. /\ Len(table) \in Nat /\ truth \in Seq(Bindings(Len(table)))
      /\ scopes \in Seq(Bindings(Len(table))) /\ LocalsIn(table, truth) /\ LocalsIn(table, scopes)
      /\ frames \in Seq({"func", "block", "arm"}) /\ kind \in {"func", "block", "arm"}
  BY DEF Base, Types, Kinds
<1>2. Nothing \in Bindings(Len(table)) /\ Local(table, Nothing)
  BY <1>1, NothingBinds DEF Local
<1>3. /\ Append(truth, Nothing) \in Seq(Bindings(Len(table)))
      /\ Append(scopes, Nothing) \in Seq(Bindings(Len(table)))
      /\ LocalsIn(table, Append(truth, Nothing)) /\ LocalsIn(table, Append(scopes, Nothing))
  BY <1>1, <1>2, AppendElements, LocalsStay
<1>4. frames' \in Seq({"func", "block", "arm"}) /\ frames' # <<>> /\ frames'[1] = "func"
  <2>1. Len(frames) \in Nat \ {0} /\ frames[1] = "func"
    BY InTheFunction
  <2> QED BY <1>1, <2>1, AppendElements
<1>5. Types'
  BY <1>1, <1>3, <1>4 DEF Base, Types
<1>6. Begun'
  BY <1>4 DEF Base, Begun
<1>7. Kinds'
  <2>1. LocalsIn(table, truth') /\ LocalsIn(table, scopes')
    BY <1>1, <1>3
  <2>2. ItemsIn(table, module_scope') /\ ItemsIn(table, OverBuiltins')
    BY DEF Base, Kinds
  <2> QED BY <2>1, <2>2 DEF Kinds
<1>8. ItemsAgree' /\ Exported'
  BY ItemsStay
<1> QED BY <1>5, <1>6, <1>7, <1>8 DEF Base

\* The end of a block, an arm or the function.
LEMMA CloseStep ==
  ASSUME Base, ScopesAgree, phase = "body",
         frames' = Front(frames), truth' = Front(truth),
         scopes' = Front(scopes) \/ scopes' = scopes,
         \/ phase' = "body" /\ Last(frames) # "func"
         \/ phase' = "done" /\ frames' = <<>> /\ truth' = <<>> /\ scopes' = <<>>,
         UNCHANGED <<registry, current, table, module_scope, module_spans, exports, local_map,
                     errors, OverBuiltins, BuiltinHidden, public, faults>>
  PROVE  Base'
<1>1. /\ Len(table) \in Nat /\ truth \in Seq(Bindings(Len(table)))
      /\ scopes \in Seq(Bindings(Len(table))) /\ LocalsIn(table, truth) /\ LocalsIn(table, scopes)
      /\ frames \in Seq({"func", "block", "arm"})
  BY DEF Base, Types, Kinds
<1>2. /\ scopes # <<>> /\ truth # <<>> /\ frames # <<>>
      /\ Len(frames) \in Nat \ {0} /\ frames[1] = "func" /\ Last(frames) = frames[Len(frames)]
  BY InTheFunction
<1>3. /\ Front(truth) \in Seq(Bindings(Len(table))) /\ Front(scopes) \in Seq(Bindings(Len(table)))
      /\ LocalsIn(table, Front(truth)) /\ LocalsIn(table, Front(scopes))
      /\ Front(frames) \in Seq({"func", "block", "arm"})
  BY <1>1, <1>2, FrontElements, LocalsStay
<1>4. Types'
  BY <1>1, <1>3 DEF Base, Types
<1>5. ASSUME phase' = "body" PROVE frames' # <<>> /\ frames'[1] = "func"
  <2>1. Len(frames) # 1
    BY <1>2, <1>5
  <2>2. 1 \in 1 .. Len(frames) - 1
    <3>1. PICK k \in Nat \ {0} : k = Len(frames)
      BY <1>2
    <3>2. 1 \in 1 .. k - 1
      BY <2>1, <3>1
    <3> QED BY <3>1, <3>2
  <2>3. /\ DOMAIN Front(frames) = 1 .. Len(frames) - 1
        /\ \A i \in 1 .. Len(frames) - 1 : Front(frames)[i] = frames[i]
    BY <1>1, <1>2, FrontElements
  <2> QED BY <1>2, <2>2, <2>3
<1>6. Begun'
  BY <1>5 DEF Base, Begun
<1>7. Kinds'
  <2>1. LocalsIn(table, truth') /\ LocalsIn(table, scopes')
    BY <1>1, <1>3
  <2>2. ItemsIn(table, module_scope') /\ ItemsIn(table, OverBuiltins')
    BY DEF Base, Kinds
  <2> QED BY <2>1, <2>2 DEF Kinds
<1>8. ItemsAgree' /\ Exported'
  <2>1. errors \subseteq errors' /\ faults \subseteq faults'
    OBVIOUS
  <2>2. phase' \in {"body", "done"}
    OBVIOUS
  <2> QED BY <2>1, <2>2, ItemsStay
<1> QED BY <1>4, <1>6, <1>7, <1>8 DEF Base

-----------------------------------------------------------------------------
(* The scopes of the resolver and those of ADR 004.                        *)

\* Outside of the function there are none.
LEMMA EmptyScopes ==
  ASSUME scopes' = <<>>, truth' = <<>>, frames' = <<>>
  PROVE  ScopesAgree'
<1>1. <<>> \in Seq(Nat) /\ Len(<<>>) = 0 /\ \A i \in 1 .. 0 : FALSE
  OBVIOUS
<1>2. Framed(<<>>)'
  BY <1>1 DEF Framed
<1>3. Paired(<<>>)'
  BY <1>1 DEF Paired, Shared, LeaksAreArms, LeaksApart, ArmsHeld
<1> QED BY <1>1, <1>2, <1>3 DEF ScopesAgree

\* A frame on top that is none of an arm is the one of the innermost scope.
LEMMA TopFrame ==
  ASSUME Types, NEW at \in Seq(Nat), Framed(at), Len(frames) # 0, frames[Len(frames)] # "arm"
  PROVE  /\ Len(at) \in 1 .. Len(at) /\ at[Len(at)] = Len(frames)
         /\ \A i \in 1 .. Len(at) : i # Len(at) => at[i] \in 1 .. Len(frames) - 1
<1> DEFINE n == Len(at)  k == Len(frames)
<1>1. /\ n \in Nat /\ k \in Nat /\ k # 0
      /\ \A i \in 1 .. n : at[i] \in 1 .. k
      /\ \A i, j \in 1 .. n : i < j => at[i] < at[j]
  BY Shapes DEF Framed
<1>2. PICK i \in 1 .. n : at[i] = k
  <2>1. k \in 1 .. k
    BY <1>1
  <2> QED BY <2>1 DEF Framed
<1> HIDE DEF n, k
<1>3. n \in 1 .. n
  BY <1>1, <1>2
<1>4. i = n
  <2> SUFFICES ASSUME i # n PROVE FALSE
    OBVIOUS
  <2>1. i < n
    BY <1>1, <1>2
  <2>2. at[i] < at[n] /\ at[n] \in 1 .. k
    BY <1>1, <1>3, <2>1
  <2> QED BY <1>1, <1>2, <2>2
<1>5. ASSUME NEW j \in 1 .. n, j # n PROVE at[j] \in 1 .. k - 1
  <2>1. j < n
    BY <1>1, <1>5
  <2>2. at[j] < at[n] /\ at[j] \in 1 .. k
    BY <1>1, <1>3, <2>1
  <2> QED BY <1>1, <1>2, <1>4, <2>2
<1> QED BY <1>2, <1>3, <1>4, <1>5 DEF n, k

\* The function: one frame, one scope.
LEMMA EnterFuncScopes ==
  ASSUME Base, NEW n \in Nat, NEW params \in [1 .. n -> Idents], EnterFunc(params)
  PROVE  ScopesAgree'
<1> DEFINE ids == ParamIds(params)
           at == <<1>>
<1>1. frames' = <<"func">> /\ scopes' = <<ids>> /\ truth' = <<ids>> /\ local_map' = ids
  BY OuterStays DEF EnterFunc
<1> HIDE DEF ids
<1>2. /\ at \in Seq(Nat) /\ Len(at) = 1 /\ at[1] = 1
      /\ Len(frames') = 1 /\ frames'[1] = "func"
      /\ Len(scopes') = 1 /\ Len(truth') = 1
      /\ scopes'[1] = ids /\ truth'[1] = ids
      /\ \A i \in 1 .. 1 : i = 1
  BY <1>1
<1> HIDE DEF at
<1>3. Framed(at)'
  BY <1>2 DEF Framed
<1>4. \A i \in 1 .. 1 : Leaked(at, i)' = {}
  BY <1>2 DEF Leaked
<1>5. Paired(at)'
  BY <1>1, <1>2, <1>4 DEF Paired, Shared, LeaksAreArms, LeaksApart, ArmsHeld
<1> QED BY <1>2, <1>3, <1>5 DEF ScopesAgree

\* Scopes that stay, with the frames that they are paired with.
LEMMA PairsStay ==
  ASSUME NEW at, NEW to, Len(to) \in Nat,
         \A i \in 1 .. Len(to) : /\ i \in 1 .. Len(at) /\ to[i] = at[i]
                                 /\ scopes'[i] = scopes[i] /\ truth'[at[i]] = truth[at[i]],
         UNCHANGED <<local_map, OverBuiltins>>, used \subseteq used',
         Paired(at)
  PROVE  /\ Shared(to)' /\ LeaksAreArms(to)' /\ LeaksApart(to)'
         /\ \A f : ArmHeld(at, f) /\ truth'[f] = truth[f]
                   /\ (\A i \in 1 .. Len(at) : at[i] < f => i \in 1 .. Len(to))
                   => ArmHeld(to, f)'
<1> DEFINE n == Len(to)  m == Len(at)
<1>1. \A i \in 1 .. n : Leaked(to, i)' = Leaked(at, i)
  BY DEF Leaked
<1>2. \A i \in 1 .. n : i \in 1 .. m /\ to[i] = at[i] /\ scopes'[i] = scopes[i] /\ truth'[to[i]] = truth[at[i]]
  OBVIOUS
<1>3. Shared(to)'
  <2>1. \A i \in 1 .. m : \A x \in DOMAIN truth[at[i]] :
           x \in DOMAIN scopes[i] /\ scopes[i][x] = truth[at[i]][x]
    BY DEF Paired, Shared
  <2> QED BY <1>2, <2>1 DEF Shared
<1>4. LeaksAreArms(to)'
  <2>1. \A i \in 1 .. m : /\ DOMAIN scopes[i] \subseteq DOMAIN local_map
                          /\ ModuleName \notin Leaked(at, i)
                          /\ "arm" \notin used => Leaked(at, i) = {}
    BY DEF Paired, LeaksAreArms
  <2>2. \A i \in 1 .. n : /\ DOMAIN scopes'[i] \subseteq DOMAIN local_map'
                          /\ ModuleName \notin Leaked(to, i)'
                          /\ "arm" \notin used' => Leaked(to, i)' = {}
    BY <1>1, <1>2, <2>1
  <2> QED BY <2>2 DEF LeaksAreArms
<1>5. LeaksApart(to)'
  <2> SUFFICES ASSUME "armReuse" \notin used', NEW i \in 1 .. n
               PROVE  /\ \A j \in 1 .. n : i # j => Leaked(to, i)' \cap DOMAIN scopes'[j] = {}
                      /\ Leaked(to, i)' \cap DOMAIN OverBuiltins' = {}
    BY DEF LeaksApart
  <2>1. /\ \A j \in 1 .. m : i # j => Leaked(at, i) \cap DOMAIN scopes[j] = {}
        /\ Leaked(at, i) \cap DOMAIN OverBuiltins = {}
    BY <1>2 DEF Paired, LeaksApart
  <2> QED BY <1>1, <1>2, <2>1
<1>6. ASSUME NEW f, ArmHeld(at, f), truth'[f] = truth[f],
             \A i \in 1 .. m : at[i] < f => i \in 1 .. n
      PROVE  ArmHeld(to, f)'
  <2>1. ModuleName \notin DOMAIN truth'[f] /\ ("arm" \notin used' => DOMAIN truth'[f] = {})
    BY <1>6 DEF ArmHeld
  <2>2. ASSUME "armReuse" \notin used', NEW x \in DOMAIN truth'[f]
        PROVE  \E i \in 1 .. n : to[i] < f /\ x \in Leaked(to, i)' /\ scopes'[i][x] = truth'[f][x]
    <3>1. PICK i \in 1 .. m : at[i] < f /\ x \in Leaked(at, i) /\ scopes[i][x] = truth[f][x]
      BY <1>6, <2>2 DEF ArmHeld
    <3>2. i \in 1 .. n
      BY <1>6, <3>1
    <3> QED BY <1>1, <1>2, <1>6, <3>1, <3>2
  <2> QED BY <2>1, <2>2 DEF ArmHeld
<1> QED BY <1>3, <1>4, <1>5, <1>6

\* A use of a name.
LEMMA QuietScopes ==
  ASSUME Base, ScopesAgree, UNCHANGED <<scopes, truth, frames, local_map, OverBuiltins>>,
         errors \subseteq errors', faults \subseteq faults', used \subseteq used'
  PROVE  ScopesAgree'
<1>1. PICK at \in Seq(Nat) : Framed(at) /\ (Clean => Paired(at))
  BY DEF ScopesAgree
<1>2. Framed(at)'
  BY <1>1 DEF Framed
<1>3. ASSUME Clean' PROVE Paired(at)'
  <2>1. Paired(at) /\ Len(at) \in Nat
    BY <1>1, <1>3 DEF Clean
  <2>2. /\ Shared(at)' /\ LeaksAreArms(at)' /\ LeaksApart(at)'
        /\ \A f : ArmHeld(at, f) => ArmHeld(at, f)'
    BY <2>1, PairsStay
  <2>3. ArmsHeld(at)'
    BY <2>1, <2>2 DEF Paired, ArmsHeld
  <2> QED BY <2>2, <2>3 DEF Paired
<1> QED BY <1>2, <1>3 DEF ScopesAgree

\* An arm that binds no name.
LEMMA PlainArmScopes ==
  ASSUME Base, ScopesAgree, EnterPlainArm
  PROVE  ScopesAgree'
<1>1. /\ frames' = Append(frames, "arm") /\ truth' = Append(truth, Nothing)
      /\ UNCHANGED <<scopes, local_map, OverBuiltins, errors, faults, used>>
  BY OuterStays DEF EnterPlainArm
<1>2. PICK at \in Seq(Nat) : Framed(at) /\ (Clean => Paired(at))
  BY DEF ScopesAgree
<1>3. PICK n \in Nat, k \in Nat : n = Len(at) /\ k = Len(frames)
  BY <1>2, Shapes DEF Base
<1>4. /\ Len(truth) = k /\ Len(scopes) = n
      /\ \A i \in 1 .. n : at[i] \in 1 .. k
  BY <1>2, <1>3 DEF Framed
<1>5. /\ Len(frames') = k + 1 /\ frames'[k + 1] = "arm" /\ \A f \in 1 .. k : frames'[f] = frames[f]
      /\ Len(truth') = k + 1 /\ truth'[k + 1] = Nothing /\ \A f \in 1 .. k : truth'[f] = truth[f]
  <2>1. /\ frames \in Seq({"func", "block", "arm"}) /\ truth \in Seq(Bindings(Len(table)))
        /\ scopes \in Seq(Bindings(Len(table)))
    BY DEF Base, Types
  <2> QED BY <1>1, <1>3, <1>4, <2>1
<1>6. \A f \in 1 .. k + 1 : f = k + 1 \/ f \in 1 .. k
  BY <1>3
<1>7. \A f \in 1 .. k : f \in 1 .. k + 1
  BY <1>3
<1>8. Framed(at)'
  <2>1. \A i \in 1 .. n : at[i] \in 1 .. k + 1 /\ frames'[at[i]] # "arm"
    BY <1>2, <1>3, <1>5, <1>7 DEF Framed
  <2>2. \A f \in 1 .. k + 1 : frames'[f] # "arm" => \E i \in 1 .. n : at[i] = f
    BY <1>3, <1>2, <1>5, <1>6 DEF Framed
  <2> QED BY <1>1, <1>2, <1>3, <1>5, <2>1, <2>2 DEF Framed
<1>9. ASSUME Clean' PROVE Paired(at)'
  <2>1. Paired(at)
    BY <1>1, <1>2, <1>9 DEF Clean
  <2>2. /\ Shared(at)' /\ LeaksAreArms(at)' /\ LeaksApart(at)'
        /\ \A f : ArmHeld(at, f) /\ truth'[f] = truth[f] => ArmHeld(at, f)'
    <3>1. \A i \in 1 .. Len(at) : scopes'[i] = scopes[i] /\ truth'[at[i]] = truth[at[i]]
      BY <1>1, <1>3, <1>4, <1>5
    <3>2. used \subseteq used' /\ Len(at) \in Nat
      BY <1>1, <1>3
    <3> QED BY <1>1, <2>1, <3>1, <3>2, PairsStay
  <2>3. \A f \in 1 .. k : frames'[f] = "arm" => ArmHeld(at, f)'
    BY <1>3, <1>5, <2>1, <2>2 DEF Paired, ArmsHeld
  <2>4. ArmHeld(at, k + 1)'
    <3>1. DOMAIN truth'[k + 1] = {}
      BY <1>5, NothingBinds
    <3> QED BY <3>1 DEF ArmHeld
  <2>5. ArmsHeld(at)'
    <3>1. \A f \in 1 .. k + 1 : frames'[f] = "arm" => ArmHeld(at, f)'
      BY <1>6, <2>3, <2>4
    <3> QED BY <1>5, <3>1 DEF ArmsHeld
  <2> QED BY <2>2, <2>5 DEF Paired
<1> QED BY <1>8, <1>9 DEF ScopesAgree

\* A block, whose scope and frame are empty.
LEMMA EnterBlockScopes ==
  ASSUME Base, ScopesAgree, EnterBlock
  PROVE  ScopesAgree'
<1>1. /\ frames' = Append(frames, "block") /\ truth' = Append(truth, Nothing)
      /\ scopes' = Append(scopes, Nothing)
      /\ UNCHANGED <<local_map, OverBuiltins, errors, faults, used>>
  BY OuterStays DEF EnterBlock
<1>2. PICK at \in Seq(Nat) : Framed(at) /\ (Clean => Paired(at))
  BY DEF ScopesAgree
<1>3. PICK n \in Nat, k \in Nat : n = Len(at) /\ k = Len(frames)
  BY <1>2, Shapes DEF Base
<1>4. /\ Len(truth) = k /\ Len(scopes) = n
      /\ \A i \in 1 .. n : at[i] \in 1 .. k
  BY <1>2, <1>3 DEF Framed
<1>5. /\ Len(frames') = k + 1 /\ frames'[k + 1] = "block" /\ \A f \in 1 .. k : frames'[f] = frames[f]
      /\ Len(truth') = k + 1 /\ truth'[k + 1] = Nothing /\ \A f \in 1 .. k : truth'[f] = truth[f]
      /\ Len(scopes') = n + 1 /\ scopes'[n + 1] = Nothing
      /\ \A i \in 1 .. n : scopes'[i] = scopes[i]
  <2>1. /\ frames \in Seq({"func", "block", "arm"}) /\ truth \in Seq(Bindings(Len(table)))
        /\ scopes \in Seq(Bindings(Len(table)))
    BY DEF Base, Types
  <2> QED BY <1>1, <1>3, <1>4, <2>1
<1>6. PICK to \in Seq(Nat) : /\ Len(to) = n + 1 /\ to[n + 1] = k + 1
                             /\ \A i \in 1 .. n : to[i] = at[i]
  <2>1. k + 1 \in Nat
    OBVIOUS
  <2>2. /\ Append(at, k + 1) \in Seq(Nat) /\ Len(Append(at, k + 1)) = n + 1
        /\ Append(at, k + 1)[n + 1] = k + 1 /\ \A i \in 1 .. n : Append(at, k + 1)[i] = at[i]
    BY <1>3, <2>1, AppendElements
  <2> QED BY <2>2
<1>7. \A f \in 1 .. k + 1 : f = k + 1 \/ f \in 1 .. k
  BY <1>3
<1>8. \A i \in 1 .. n + 1 : i = n + 1 \/ i \in 1 .. n
  BY <1>3
<1>9. /\ \A f \in 1 .. k : f \in 1 .. k + 1 /\ f < k + 1
      /\ \A i \in 1 .. n : i \in 1 .. n + 1 /\ i < n + 1
      /\ k + 1 \in 1 .. k + 1 /\ n + 1 \in 1 .. n + 1
  BY <1>3
<1>10. Framed(to)'
  <2>1. \A i \in 1 .. n + 1 : to[i] \in 1 .. k + 1 /\ frames'[to[i]] # "arm"
    <3>1. \A i \in 1 .. n : to[i] \in 1 .. k + 1 /\ frames'[to[i]] # "arm"
      BY <1>2, <1>3, <1>5, <1>6, <1>9 DEF Framed
    <3> QED BY <1>5, <1>6, <1>8, <1>9, <3>1
  <2>2. \A f \in 1 .. k + 1 : frames'[f] # "arm" => \E i \in 1 .. n + 1 : to[i] = f
    <3> SUFFICES ASSUME NEW f \in 1 .. k + 1, frames'[f] # "arm" PROVE \E i \in 1 .. n + 1 : to[i] = f
      OBVIOUS
    <3>1. CASE f = k + 1
      BY <1>6, <1>9, <3>1
    <3>2. CASE f \in 1 .. k
      <4>1. PICK i \in 1 .. n : at[i] = f
        BY <1>3, <1>2, <1>5, <3>2 DEF Framed
      <4> QED BY <1>6, <1>9, <4>1
    <3> QED BY <1>7, <3>1, <3>2
  <2>3. \A i, j \in 1 .. n + 1 : i < j => to[i] < to[j]
    <3> SUFFICES ASSUME NEW i \in 1 .. n + 1, NEW j \in 1 .. n + 1, i < j PROVE to[i] < to[j]
      OBVIOUS
    <3>1. i \in 1 .. n
      BY <1>3
    <3>2. CASE j = n + 1
      <4>1. to[j] = k + 1 /\ to[i] = at[i] /\ at[i] \in 1 .. k
        BY <1>4, <1>6, <3>1, <3>2
      <4> QED BY <4>1
    <3>3. CASE j \in 1 .. n
      BY <1>3, <1>2, <1>6, <3>1, <3>3 DEF Framed
    <3> QED BY <1>8, <3>2, <3>3
  <2> QED BY <1>5, <1>6, <2>1, <2>2, <2>3 DEF Framed
<1>11. ASSUME Clean' PROVE Paired(to)'
  <2>1. Paired(at)
    BY <1>1, <1>2, <1>11 DEF Clean
  <2>2. /\ Shared(at)' /\ LeaksAreArms(at)' /\ LeaksApart(at)'
        /\ \A f : ArmHeld(at, f) /\ truth'[f] = truth[f] => ArmHeld(at, f)'
    <3>1. \A i \in 1 .. Len(at) : scopes'[i] = scopes[i] /\ truth'[at[i]] = truth[at[i]]
      BY <1>1, <1>3, <1>4, <1>5
    <3>2. used \subseteq used' /\ Len(at) \in Nat
      BY <1>1, <1>3
    <3> QED BY <1>1, <2>1, <3>1, <3>2, PairsStay
  <2>3. DOMAIN truth'[to[n + 1]] = {} /\ DOMAIN scopes'[n + 1] = {}
    BY <1>5, <1>6, NothingBinds
  <2>4. Leaked(to, n + 1)' = {} /\ \A i \in 1 .. n : Leaked(to, i)' = Leaked(at, i)'
    BY <1>6, <2>3 DEF Leaked
  <2>5. Shared(to)'
    <3>1. \A i \in 1 .. n : \A x \in DOMAIN truth'[at[i]] :
            x \in DOMAIN scopes'[i] /\ scopes'[i][x] = truth'[at[i]][x]
      BY <1>3, <2>2 DEF Shared
    <3>2. ASSUME NEW i \in 1 .. n + 1, NEW x \in DOMAIN truth'[to[i]]
          PROVE  x \in DOMAIN scopes'[i] /\ scopes'[i][x] = truth'[to[i]][x]
      <4>1. CASE i = n + 1
        BY <2>3, <3>2, <4>1
      <4>2. CASE i \in 1 .. n
        BY <1>6, <3>1, <3>2, <4>2
      <4> QED BY <1>8, <4>1, <4>2
    <3> QED BY <1>6, <3>2 DEF Shared
  <2>6. LeaksAreArms(to)'
    <3> SUFFICES ASSUME NEW i \in 1 .. n + 1
                 PROVE  /\ DOMAIN scopes'[i] \subseteq DOMAIN local_map'
                        /\ ModuleName \notin Leaked(to, i)'
                        /\ "arm" \notin used' => Leaked(to, i)' = {}
      BY <1>6 DEF LeaksAreArms
    <3>1. CASE i = n + 1
      BY <2>3, <2>4, <3>1
    <3>2. CASE i \in 1 .. n
      BY <1>3, <2>2, <2>4, <3>2 DEF LeaksAreArms
    <3> QED BY <1>8, <3>1, <3>2
  <2>7. LeaksApart(to)'
    <3> SUFFICES ASSUME "armReuse" \notin used', NEW i \in 1 .. n + 1
                 PROVE  /\ \A j \in 1 .. n + 1 : i # j => Leaked(to, i)' \cap DOMAIN scopes'[j] = {}
                        /\ Leaked(to, i)' \cap DOMAIN OverBuiltins' = {}
      BY <1>6 DEF LeaksApart
    <3>1. CASE i = n + 1
      BY <2>4, <3>1
    <3>2. CASE i \in 1 .. n
      <4>1. /\ \A j \in 1 .. n : i # j => Leaked(to, i)' \cap DOMAIN scopes'[j] = {}
            /\ Leaked(to, i)' \cap DOMAIN OverBuiltins' = {}
        BY <1>3, <2>2, <2>4, <3>2 DEF LeaksApart
      <4> QED BY <1>8, <2>3, <4>1
    <3> QED BY <1>8, <3>1, <3>2
  <2>8. ArmsHeld(to)'
    <3>1. ASSUME NEW f \in 1 .. k, frames'[f] = "arm" PROVE ArmHeld(to, f)'
      <4>1. ArmHeld(at, f)'
        BY <1>3, <1>5, <2>1, <2>2, <3>1 DEF Paired, ArmsHeld
      <4>2. ASSUME "armReuse" \notin used', NEW x \in DOMAIN truth'[f]
            PROVE  \E i \in 1 .. n + 1 : /\ to[i] < f /\ x \in Leaked(to, i)'
                                         /\ scopes'[i][x] = truth'[f][x]
        <5>1. PICK i \in 1 .. n : at[i] < f /\ x \in Leaked(at, i)' /\ scopes'[i][x] = truth'[f][x]
          BY <1>3, <4>1, <4>2 DEF ArmHeld
        <5> QED BY <1>6, <1>9, <2>4, <5>1
      <4> QED BY <1>6, <4>1, <4>2 DEF ArmHeld
    <3>2. \A f \in 1 .. k + 1 : frames'[f] = "arm" => ArmHeld(to, f)'
      BY <1>5, <1>7, <3>1
    <3> QED BY <1>5, <3>2 DEF ArmsHeld
  <2> QED BY <2>5, <2>6, <2>7, <2>8 DEF Paired
<1> QED BY <1>6, <1>10, <1>11 DEF ScopesAgree

\* The end of an arm: the resolver has no scope to leave.
LEMMA LeaveArmScopes ==
  ASSUME Base, ScopesAgree, LeaveArm
  PROVE  ScopesAgree'
<1>1. /\ phase = "body" /\ Last(frames) = "arm"
      /\ frames' = Front(frames) /\ truth' = Front(truth)
      /\ UNCHANGED <<scopes, local_map, OverBuiltins, errors, faults, used>>
  BY OuterStays DEF LeaveArm
<1>2. PICK at \in Seq(Nat) : Framed(at) /\ (Clean => Paired(at))
  BY DEF ScopesAgree
<1>3. PICK n \in Nat, k \in Nat : n = Len(at) /\ k = Len(frames)
  BY <1>2, Shapes DEF Base
<1>4. /\ Len(truth) = k /\ Len(scopes) = n /\ k # 0 /\ frames[k] = "arm"
      /\ frames # <<>> /\ truth # <<>>
      /\ \A i \in 1 .. n : at[i] \in 1 .. k
  BY <1>1, <1>2, <1>3, InTheFunction DEF Framed
<1>5. /\ Len(frames') = k - 1 /\ \A f \in 1 .. k - 1 : frames'[f] = frames[f]
      /\ Len(truth') = k - 1 /\ \A f \in 1 .. k - 1 : truth'[f] = truth[f]
  <2>1. frames \in Seq({"func", "block", "arm"}) /\ truth \in Seq(Bindings(Len(table)))
    BY DEF Base, Types
  <2> QED BY <1>1, <1>3, <1>4, <2>1, FrontElements
<1>6. \A i \in 1 .. n : at[i] \in 1 .. k - 1
  <2> SUFFICES ASSUME NEW i \in 1 .. n PROVE at[i] \in 1 .. k - 1
    OBVIOUS
  <2>1. at[i] \in 1 .. k /\ at[i] # k
    BY <1>2, <1>3, <1>4 DEF Framed
  <2> QED BY <2>1
<1>7. \A f \in 1 .. k - 1 : f \in 1 .. k
  BY <1>3
<1>8. Framed(at)'
  <2>1. \A i \in 1 .. n : at[i] \in 1 .. k - 1 /\ frames'[at[i]] # "arm"
    BY <1>2, <1>3, <1>5, <1>6 DEF Framed
  <2>2. \A f \in 1 .. k - 1 : frames'[f] # "arm" => \E i \in 1 .. n : at[i] = f
    BY <1>2, <1>3, <1>5, <1>7 DEF Framed
  <2> QED BY <1>1, <1>2, <1>3, <1>4, <1>5, <2>1, <2>2 DEF Framed
<1>9. ASSUME Clean' PROVE Paired(at)'
  <2>1. Paired(at)
    BY <1>1, <1>2, <1>9 DEF Clean
  <2>2. /\ Shared(at)' /\ LeaksAreArms(at)' /\ LeaksApart(at)'
        /\ \A f : ArmHeld(at, f) /\ truth'[f] = truth[f] => ArmHeld(at, f)'
    <3>1. \A i \in 1 .. Len(at) : scopes'[i] = scopes[i] /\ truth'[at[i]] = truth[at[i]]
      BY <1>1, <1>3, <1>5, <1>6
    <3>2. used \subseteq used' /\ Len(at) \in Nat
      BY <1>1, <1>3
    <3> QED BY <1>1, <2>1, <3>1, <3>2, PairsStay
  <2>3. \A f \in 1 .. k - 1 : frames'[f] = "arm" => ArmHeld(at, f)'
    BY <1>3, <1>5, <1>7, <2>1, <2>2 DEF Paired, ArmsHeld
  <2>4. ArmsHeld(at)'
    BY <1>5, <2>3 DEF ArmsHeld
  <2> QED BY <2>2, <2>4 DEF Paired
<1> QED BY <1>8, <1>9 DEF ScopesAgree

\* The end of a block.
LEMMA LeaveBlockScopes ==
  ASSUME Base, ScopesAgree, LeaveBlock
  PROVE  ScopesAgree'
<1>1. /\ phase = "body" /\ Last(frames) = "block"
      /\ frames' = Front(frames) /\ truth' = Front(truth) /\ scopes' = Front(scopes)
      /\ UNCHANGED <<local_map, OverBuiltins, errors, faults, used>>
  BY OuterStays DEF LeaveBlock
<1>2. PICK at \in Seq(Nat) : Framed(at) /\ (Clean => Paired(at))
  BY DEF ScopesAgree
<1>3. PICK n \in Nat, k \in Nat : n = Len(at) /\ k = Len(frames)
  BY <1>2, Shapes DEF Base
<1>4. /\ Len(truth) = k /\ Len(scopes) = n /\ k # 0 /\ frames[k] = "block"
      /\ frames # <<>> /\ truth # <<>> /\ scopes # <<>>
  BY <1>1, <1>2, <1>3, InTheFunction DEF Framed
<1>5. /\ n \in 1 .. n /\ at[n] = k
      /\ \A i \in 1 .. n : i # n => at[i] \in 1 .. k - 1
  BY <1>2, <1>3, <1>4, TopFrame DEF Base
<1>6. /\ Len(frames') = k - 1 /\ \A f \in 1 .. k - 1 : frames'[f] = frames[f]
      /\ Len(truth') = k - 1 /\ \A f \in 1 .. k - 1 : truth'[f] = truth[f]
      /\ Len(scopes') = n - 1 /\ \A i \in 1 .. n - 1 : scopes'[i] = scopes[i]
  <2>1. /\ frames \in Seq({"func", "block", "arm"}) /\ truth \in Seq(Bindings(Len(table)))
        /\ scopes \in Seq(Bindings(Len(table)))
    BY DEF Base, Types
  <2> QED BY <1>1, <1>3, <1>4, <2>1, FrontElements
<1>7. PICK to \in Seq(Nat) : Len(to) = n - 1 /\ \A i \in 1 .. n - 1 : to[i] = at[i]
  <2>1. at # <<>>
    BY <1>3, <1>5
  <2>2. Front(at) \in Seq(Nat) /\ Len(Front(at)) = n - 1 /\ \A i \in 1 .. n - 1 : Front(at)[i] = at[i]
    BY <1>3, <2>1, FrontElements
  <2> QED BY <2>2
<1>8. /\ \A f \in 1 .. k - 1 : f \in 1 .. k /\ f # k /\ f < k
      /\ \A i \in 1 .. n - 1 : i \in 1 .. n /\ i # n
      /\ \A i \in 1 .. n : i = n \/ i \in 1 .. n - 1
      /\ n - 1 \in Nat
  BY <1>3, <1>5
<1>9. Framed(to)'
  <2>1. \A i \in 1 .. n - 1 : to[i] \in 1 .. k - 1 /\ frames'[to[i]] # "arm"
    <3> SUFFICES ASSUME NEW i \in 1 .. n - 1 PROVE to[i] \in 1 .. k - 1 /\ frames'[to[i]] # "arm"
      OBVIOUS
    <3>1. i \in 1 .. n /\ to[i] = at[i] /\ at[i] \in 1 .. k - 1
      BY <1>5, <1>7, <1>8
    <3>2. frames[at[i]] # "arm" /\ frames'[at[i]] = frames[at[i]]
      BY <1>2, <1>3, <1>6, <3>1 DEF Framed
    <3> QED BY <3>1, <3>2
  <2>2. \A f \in 1 .. k - 1 : frames'[f] # "arm" => \E i \in 1 .. n - 1 : to[i] = f
    <3> SUFFICES ASSUME NEW f \in 1 .. k - 1, frames'[f] # "arm" PROVE \E i \in 1 .. n - 1 : to[i] = f
      OBVIOUS
    <3>1. PICK i \in 1 .. n : at[i] = f
      BY <1>2, <1>3, <1>6, <1>8 DEF Framed
    <3>2. i \in 1 .. n - 1
      BY <1>5, <1>8, <3>1
    <3> QED BY <1>7, <3>1, <3>2
  <2>3. \A i, j \in 1 .. n - 1 : i < j => to[i] < to[j]
    BY <1>2, <1>3, <1>7, <1>8 DEF Framed
  <2> QED BY <1>6, <1>7, <2>1, <2>2, <2>3 DEF Framed
<1>10. ASSUME Clean' PROVE Paired(to)'
  <2>1. Paired(at)
    BY <1>1, <1>2, <1>10 DEF Clean
  <2>2. /\ Shared(to)' /\ LeaksAreArms(to)' /\ LeaksApart(to)'
        /\ \A f : ArmHeld(at, f) /\ truth'[f] = truth[f]
                  /\ (\A i \in 1 .. Len(at) : at[i] < f => i \in 1 .. Len(to)) => ArmHeld(to, f)'
    <3>1. \A i \in 1 .. Len(to) : /\ i \in 1 .. Len(at) /\ to[i] = at[i]
                                  /\ scopes'[i] = scopes[i] /\ truth'[at[i]] = truth[at[i]]
      BY <1>3, <1>5, <1>6, <1>7, <1>8
    <3>2. used \subseteq used' /\ Len(to) \in Nat
      BY <1>1, <1>7, <1>8
    <3> QED BY <1>1, <2>1, <3>1, <3>2, PairsStay
  <2>3. \A f \in 1 .. k - 1 : frames'[f] = "arm" => ArmHeld(to, f)'
    <3> SUFFICES ASSUME NEW f \in 1 .. k - 1, frames'[f] = "arm" PROVE ArmHeld(to, f)'
      OBVIOUS
    <3>1. ArmHeld(at, f) /\ truth'[f] = truth[f]
      BY <1>3, <1>6, <1>8, <2>1 DEF Paired, ArmsHeld
    <3>2. ~ (k < f)
      BY <1>8
    <3>3. \A i \in 1 .. Len(at) : at[i] < f => i \in 1 .. Len(to)
      BY <1>3, <1>5, <1>7, <1>8, <3>2
    <3> QED BY <2>2, <3>1, <3>3
  <2>4. ArmsHeld(to)'
    BY <1>6, <2>3 DEF ArmsHeld
  <2> QED BY <2>2, <2>4 DEF Paired
<1> QED BY <1>7, <1>9, <1>10 DEF ScopesAgree

\* The scopes t are s with x in the innermost one, the k-th.
OnTop(s, t, k, x, v) ==
  /\ k \in Nat \ {0} /\ Len(t) = k
  /\ \A i \in 1 .. k : i # k => t[i] = s[i]
  /\ \A i \in 1 .. k : \A y : y \in DOMAIN t[i] <=> y \in DOMAIN s[i] \/ (i = k /\ y = x)
  /\ t[k][x] = v
  /\ \A i \in 1 .. k : \A y \in DOMAIN s[i] : (i = k /\ y = x) \/ t[i][y] = s[i][y]

\* So are the scopes after a definition.
LEMMA DefinedOnTop ==
  ASSUME NEW n \in Nat, NEW s \in Seq(Bindings(n)), s # <<>>, NEW x \in Names
  PROVE  OnTop(s, DefineIn(s, x, n + 1), Len(s), x, n + 1)
<1>1. n + 1 \in Nat /\ n <= n + 1 /\ n + 1 \in 1 .. n + 1
  OBVIOUS
<1>2. s \in Seq(Bindings(n + 1))
  BY <1>1, StacksGrow
<1> DEFINE t == DefineIn(s, x, n + 1)
           k == Len(s)
<1>3. /\ Len(t) = k /\ DOMAIN t = 1 .. k /\ k \in 1 .. k
      /\ \A i \in 1 .. k : i # k => t[i] = s[i]
      /\ \A y : y \in DOMAIN t[k] <=> y = x \/ y \in DOMAIN s[k]
      /\ t[k][x] = n + 1
      /\ \A y \in DOMAIN s[k] : y # x => t[k][y] = s[k][y]
  BY <1>1, <1>2, DefineBinds
<1> HIDE DEF t, k
<1>4. ASSUME NEW i \in 1 .. k
      PROVE  /\ \A y : y \in DOMAIN t[i] <=> y \in DOMAIN s[i] \/ (i = k /\ y = x)
             /\ \A y \in DOMAIN s[i] : (i = k /\ y = x) \/ t[i][y] = s[i][y]
  <2>1. CASE i = k
    BY <1>3, <2>1
  <2>2. CASE i # k
    BY <1>3, <2>2
  <2> QED BY <2>1, <2>2
<1>5. OnTop(s, t, k, x, n + 1)
  BY <1>3, <1>4 DEF OnTop
<1> QED BY <1>5 DEF t, k

\* A variable.
LEMMA LetScopes ==
  ASSUME Base, ScopesAgree, NEW x \in Names, NEW y, Let(x, y)
  PROVE  ScopesAgree'
<1>1. /\ phase = "body" /\ Last(frames) = "block" /\ frames # <<>>
      /\ table' = Append(table, Symbol(x, "local", FALSE))
      /\ scopes' = DefineIn(scopes, x, Len(table'))
      /\ truth' = DefineIn(truth, x, Len(table'))
      /\ local_map' = Put(local_map, x, Len(table) + 1)
      /\ errors \subseteq errors' /\ faults \subseteq faults' /\ used \subseteq used'
      /\ "arm" \in used /\ x \in DOMAIN local_map => "armReuse" \in used'
      /\ UNCHANGED <<OverBuiltins, frames>>
  BY OuterStays DEF Let, InBody, InBlock, Register, Report
<1>2. PICK at \in Seq(Nat) : Framed(at) /\ (Clean => Paired(at))
  BY DEF ScopesAgree
<1>3. PICK n \in Nat, k \in Nat, m \in Nat : n = Len(at) /\ k = Len(frames) /\ m = Len(table)
  <2>1. Len(table) \in Nat
    BY DEF Base, Types
  <2> QED BY <1>2, <2>1, Shapes DEF Base
<1>4. /\ Len(truth) = k /\ Len(scopes) = n /\ k # 0 /\ frames[k] = "block"
      /\ truth # <<>> /\ scopes # <<>>
      /\ \A i \in 1 .. n : at[i] \in 1 .. k
  BY <1>1, <1>2, <1>3, InTheFunction DEF Framed
<1>5. /\ n \in 1 .. n /\ at[n] = k
      /\ \A i \in 1 .. n : i # n => at[i] # k
  <2>1. /\ n \in 1 .. n /\ at[n] = k
        /\ \A i \in 1 .. n : i # n => at[i] \in 1 .. k - 1
    BY <1>2, <1>3, <1>4, TopFrame DEF Base
  <2>2. \A f \in 1 .. k - 1 : f # k
    BY <1>3
  <2> QED BY <2>1, <2>2
<1>6. /\ scopes \in Seq(Bindings(m)) /\ truth \in Seq(Bindings(m)) /\ Len(table') = m + 1
  <2>1. Symbol(x, "local", FALSE) \in Symbols
    BY DEF Symbol, Symbols
  <2> QED BY <1>1, <1>3, <2>1, AppendElements DEF Base, Types
<1>7. /\ Len(scopes') = n
      /\ \A i \in 1 .. n : \A z : z \in DOMAIN scopes'[i] <=> z \in DOMAIN scopes[i] \/ (i = n /\ z = x)
      /\ scopes'[n][x] = m + 1
      /\ \A i \in 1 .. n : \A z \in DOMAIN scopes[i] : (i = n /\ z = x) \/ scopes'[i][z] = scopes[i][z]
  <2>1. scopes' = DefineIn(scopes, x, m + 1)
    BY <1>1, <1>6
  <2>2. OnTop(scopes, scopes', n, x, m + 1)
    BY <1>4, <1>6, <2>1, DefinedOnTop
  <2> QED BY <2>2 DEF OnTop
<1>8. /\ Len(truth') = k
      /\ \A f \in 1 .. k : f # k => truth'[f] = truth[f]
      /\ \A f \in 1 .. k : \A z : z \in DOMAIN truth'[f] <=> z \in DOMAIN truth[f] \/ (f = k /\ z = x)
      /\ truth'[k][x] = m + 1
      /\ \A f \in 1 .. k : \A z \in DOMAIN truth[f] : (f = k /\ z = x) \/ truth'[f][z] = truth[f][z]
  <2>1. truth' = DefineIn(truth, x, m + 1)
    BY <1>1, <1>6
  <2>2. OnTop(truth, truth', k, x, m + 1)
    BY <1>4, <1>6, <2>1, DefinedOnTop
  <2> QED BY <2>2 DEF OnTop
<1>9. Framed(at)'
  BY <1>1, <1>2, <1>3, <1>4, <1>7, <1>8 DEF Framed
<1>10. ASSUME Clean' PROVE Paired(at)'
  <2>1. Paired(at)
    BY <1>1, <1>2, <1>10 DEF Clean
  <2>2. \A i \in 1 .. n : Leaked(at, i)' \subseteq Leaked(at, i) /\ (i # n => Leaked(at, i)' = Leaked(at, i))
    BY <1>4, <1>5, <1>7, <1>8 DEF Leaked
  <2>3. Shared(at)'
    <3>1. \A i \in 1 .. n : \A z \in DOMAIN truth[at[i]] :
            z \in DOMAIN scopes[i] /\ scopes[i][z] = truth[at[i]][z]
      BY <1>3, <2>1 DEF Paired, Shared
    <3>2. ASSUME NEW i \in 1 .. n, NEW z \in DOMAIN truth'[at[i]]
          PROVE  z \in DOMAIN scopes'[i] /\ scopes'[i][z] = truth'[at[i]][z]
      <4>1. CASE i = n /\ z = x
        BY <1>5, <1>7, <1>8, <4>1
      <4>2. CASE ~ (i = n /\ z = x)
        <5>1. at[i] \in 1 .. k /\ ~ (at[i] = k /\ z = x)
          BY <1>4, <1>5, <4>2
        <5>2. z \in DOMAIN truth[at[i]] /\ truth'[at[i]][z] = truth[at[i]][z]
          BY <1>8, <3>2, <5>1
        <5>3. z \in DOMAIN scopes[i] /\ scopes[i][z] = truth[at[i]][z]
          BY <3>1, <5>2
        <5>4. z \in DOMAIN scopes'[i] /\ scopes'[i][z] = scopes[i][z]
          BY <1>7, <4>2, <5>3
        <5> QED BY <5>2, <5>3, <5>4
      <4> QED BY <4>1, <4>2
    <3> QED BY <1>3, <3>2 DEF Shared
  <2>4. LeaksAreArms(at)'
    <3>1. DOMAIN local_map' = DOMAIN local_map \cup {x}
      BY <1>1 DEF Put
    <3>2. ASSUME NEW i \in 1 .. n
          PROVE  /\ DOMAIN scopes'[i] \subseteq DOMAIN local_map'
                 /\ ModuleName \notin Leaked(at, i)'
                 /\ "arm" \notin used' => Leaked(at, i)' = {}
      <4>1. /\ DOMAIN scopes[i] \subseteq DOMAIN local_map
            /\ ModuleName \notin Leaked(at, i)
            /\ "arm" \notin used => Leaked(at, i) = {}
        BY <1>3, <2>1 DEF Paired, LeaksAreArms
      <4>2. DOMAIN scopes'[i] \subseteq DOMAIN local_map'
        BY <1>7, <3>1, <4>1
      <4> QED BY <1>1, <2>2, <4>1, <4>2
    <3> QED BY <1>3, <3>2 DEF LeaksAreArms
  <2>5. LeaksApart(at)'
    <3> SUFFICES ASSUME "armReuse" \notin used', NEW i \in 1 .. n
                 PROVE  /\ \A j \in 1 .. n : i # j => Leaked(at, i)' \cap DOMAIN scopes'[j] = {}
                        /\ Leaked(at, i)' \cap DOMAIN OverBuiltins' = {}
      BY <1>3 DEF LeaksApart
    <3>1. /\ \A j \in 1 .. n : i # j => Leaked(at, i) \cap DOMAIN scopes[j] = {}
          /\ Leaked(at, i) \cap DOMAIN OverBuiltins = {}
      BY <1>1, <1>3, <2>1 DEF Paired, LeaksApart
    <3>2. x \notin Leaked(at, i)
      <4>1. /\ DOMAIN scopes[i] \subseteq DOMAIN local_map
            /\ "arm" \notin used => Leaked(at, i) = {}
        BY <1>3, <2>1 DEF Paired, LeaksAreArms
      <4> QED BY <1>1, <4>1 DEF Leaked
    <3>3. ASSUME NEW j \in 1 .. n, i # j, NEW z \in Leaked(at, i)', z \in DOMAIN scopes'[j] PROVE FALSE
      <4>1. z \in Leaked(at, i)
        BY <2>2, <3>3
      <4>2. z \in DOMAIN scopes[j]
        BY <1>7, <3>2, <3>3, <4>1
      <4> QED BY <3>1, <3>3, <4>1, <4>2
    <3> QED BY <1>1, <2>2, <3>1, <3>3
  <2>6. ArmsHeld(at)'
    <3> SUFFICES ASSUME NEW f \in 1 .. k, frames[f] = "arm" PROVE ArmHeld(at, f)'
      BY <1>1, <1>3 DEF ArmsHeld
    <3>1. f # k /\ truth'[f] = truth[f]
      BY <1>4, <1>8
    <3>2. ArmHeld(at, f)
      BY <1>3, <2>1 DEF Paired, ArmsHeld
    <3>3. ASSUME "armReuse" \notin used', NEW z \in DOMAIN truth'[f]
          PROVE  \E i \in 1 .. n : at[i] < f /\ z \in Leaked(at, i)' /\ scopes'[i][z] = truth'[f][z]
      <4>1. PICK i \in 1 .. n : at[i] < f /\ z \in Leaked(at, i) /\ scopes[i][z] = truth[f][z]
        BY <1>1, <1>3, <3>1, <3>2, <3>3 DEF ArmHeld
      <4>2. i # n
        BY <1>3, <1>5, <4>1
      <4>3. z \in Leaked(at, i)' /\ z \in DOMAIN scopes[i]
        BY <2>2, <4>1, <4>2 DEF Leaked
      <4> QED BY <1>7, <3>1, <4>1, <4>2, <4>3
    <3> QED BY <1>1, <1>3, <3>1, <3>2, <3>3 DEF ArmHeld
  <2> QED BY <2>3, <2>4, <2>5, <2>6 DEF Paired
<1> QED BY <1>9, <1>10 DEF ScopesAgree

\* An arm that binds a name: the resolver puts it into the scope around.
LEMMA EnterArmScopes ==
  ASSUME Base, ScopesAgree, NEW x \in Idents, EnterArm(x)
  PROVE  ScopesAgree'
<1>1. /\ phase = "body"
      /\ table' = Append(table, Symbol(x, "local", FALSE))
      /\ scopes' = DefineIn(scopes, x, Len(table) + 1)
      /\ truth' = Append(truth, Put(Nothing, x, Len(table) + 1))
      /\ local_map' = Put(local_map, x, Len(table) + 1)
      /\ frames' = Append(frames, "arm")
      /\ errors' = errors \cup Report("E4003", Clashes(scopes, x))
      /\ faults' = faults /\ used \subseteq used' /\ "arm" \in used'
      /\ Meant(x) # 0 \/ x \in DOMAIN local_map => "armReuse" \in used'
      /\ UNCHANGED <<OverBuiltins>>
  BY OuterStays DEF EnterArm, InBody, Register, Report
<1>2. PICK at \in Seq(Nat) : Framed(at) /\ (Clean => Paired(at))
  BY DEF ScopesAgree
<1>3. PICK n \in Nat, k \in Nat, m \in Nat : n = Len(at) /\ k = Len(frames) /\ m = Len(table)
  <2>1. Len(table) \in Nat
    BY DEF Base, Types
  <2> QED BY <1>2, <2>1, Shapes DEF Base
<1>4. /\ Len(truth) = k /\ Len(scopes) = n
      /\ truth # <<>> /\ scopes # <<>> /\ x \in Names /\ x # ModuleName
      /\ scopes \in Seq(Bindings(m)) /\ truth \in Seq(Bindings(m))
      /\ frames \in Seq({"func", "block", "arm"})
      /\ \A i \in 1 .. n : at[i] \in 1 .. k
  BY <1>1, <1>2, <1>3, InTheFunction, NamesAre DEF Framed, Base, Types
<1>5. /\ n \in 1 .. n /\ Len(scopes') = n
      /\ \A i \in 1 .. n : \A z : z \in DOMAIN scopes'[i] <=> z \in DOMAIN scopes[i] \/ (i = n /\ z = x)
      /\ scopes'[n][x] = m + 1
      /\ \A i \in 1 .. n : \A z \in DOMAIN scopes[i] : (i = n /\ z = x) \/ scopes'[i][z] = scopes[i][z]
  <2>1. scopes' = DefineIn(scopes, x, m + 1)
    BY <1>1, <1>3
  <2>2. OnTop(scopes, scopes', n, x, m + 1)
    BY <1>4, <2>1, DefinedOnTop
  <2> QED BY <2>2 DEF OnTop
<1>6. PICK g : /\ truth' = Append(truth, g) /\ g[x] = m + 1 /\ \A z : z \in DOMAIN g <=> z = x
  <2> DEFINE g == Put(Nothing, x, Len(table) + 1)
  <2>1. g[x] = Len(table) + 1 /\ \A z : z \in DOMAIN g <=> z = x
    BY NothingBinds DEF Put
  <2> HIDE DEF g
  <2>2. truth' = Append(truth, g)
    BY <1>1 DEF g
  <2> QED BY <1>3, <2>1, <2>2
<1>7. /\ Len(truth') = k + 1 /\ truth'[k + 1] = g /\ \A f \in 1 .. k : truth'[f] = truth[f]
      /\ Len(frames') = k + 1 /\ frames'[k + 1] = "arm" /\ \A f \in 1 .. k : frames'[f] = frames[f]
  BY <1>1, <1>3, <1>4, <1>6
<1>8. /\ \A f \in 1 .. k + 1 : f = k + 1 \/ f \in 1 .. k
      /\ \A f \in 1 .. k : f \in 1 .. k + 1 /\ f < k + 1
      /\ k + 1 \in 1 .. k + 1
  BY <1>3
<1>9. Framed(at)'
  <2>1. \A i \in 1 .. n : at[i] \in 1 .. k + 1 /\ frames'[at[i]] # "arm"
    BY <1>2, <1>3, <1>4, <1>7, <1>8 DEF Framed
  <2>2. \A f \in 1 .. k + 1 : frames'[f] # "arm" => \E i \in 1 .. n : at[i] = f
    BY <1>2, <1>3, <1>7, <1>8 DEF Framed
  <2> QED BY <1>2, <1>3, <1>5, <1>7, <2>1, <2>2 DEF Framed
<1>10. ASSUME Clean' PROVE Paired(at)'
  <2>1. Paired(at)
    BY <1>1, <1>2, <1>10 DEF Clean
  <2>2. x \notin DOMAIN scopes[n]
    <3>1. "E4003" \notin errors'
      BY <1>10 DEF Clean
    <3>2. Last(scopes) = scopes[n]
      BY <1>4, FrontElements
    <3> QED BY <1>1, <3>1, <3>2 DEF Report, Clashes
  <2>3. /\ \A i \in 1 .. n : \A z \in DOMAIN truth[at[i]] :
             z \in DOMAIN scopes[i] /\ scopes[i][z] = truth[at[i]][z]
        /\ \A i \in 1 .. n : truth'[at[i]] = truth[at[i]]
    BY <1>3, <1>4, <1>7, <2>1 DEF Paired, Shared
  <2>4. \A i \in 1 .. n : \A z \in DOMAIN scopes[i] : scopes'[i][z] = scopes[i][z] /\ z \in DOMAIN scopes'[i]
    BY <1>5, <2>2
  <2>5. \A i \in 1 .. n : \A z : z \in Leaked(at, i)' <=> z \in Leaked(at, i) \/ (i = n /\ z = x)
    BY <1>5, <2>2, <2>3 DEF Leaked
  <2>6. Shared(at)'
    <3>1. \A i \in 1 .. n : \A z \in DOMAIN truth'[at[i]] :
            z \in DOMAIN scopes'[i] /\ scopes'[i][z] = truth'[at[i]][z]
      BY <2>3, <2>4
    <3> QED BY <1>3, <3>1 DEF Shared
  <2>7. \A i \in 1 .. n : /\ DOMAIN scopes[i] \subseteq DOMAIN local_map
                          /\ ModuleName \notin Leaked(at, i)
                          /\ Leaked(at, i) \subseteq DOMAIN scopes[i]
    BY <1>3, <2>1 DEF Paired, LeaksAreArms, Leaked
  <2>8. LeaksAreArms(at)'
    <3>1. DOMAIN local_map' = DOMAIN local_map \cup {x}
      BY <1>1 DEF Put
    <3>2. \A i \in 1 .. n : /\ DOMAIN scopes'[i] \subseteq DOMAIN local_map'
                            /\ ModuleName \notin Leaked(at, i)'
      BY <1>4, <1>5, <2>5, <2>7, <3>1
    <3> QED BY <1>1, <1>3, <3>2 DEF LeaksAreArms
  <2>9. LeaksApart(at)'
    <3> SUFFICES ASSUME "armReuse" \notin used', NEW i \in 1 .. n
                 PROVE  /\ \A j \in 1 .. n : i # j => Leaked(at, i)' \cap DOMAIN scopes'[j] = {}
                        /\ Leaked(at, i)' \cap DOMAIN OverBuiltins' = {}
      BY <1>3 DEF LeaksApart
    <3>1. /\ \A j \in 1 .. n : i # j => Leaked(at, i) \cap DOMAIN scopes[j] = {}
          /\ Leaked(at, i) \cap DOMAIN OverBuiltins = {}
      BY <1>1, <1>3, <2>1 DEF Paired, LeaksApart
    <3>2. x \notin DOMAIN local_map /\ x \notin DOMAIN OverBuiltins
      BY <1>1, MeantBound DEF Base
    <3>3. ASSUME NEW j \in 1 .. n, i # j, NEW z \in Leaked(at, i)', z \in DOMAIN scopes'[j] PROVE FALSE
      <4>1. CASE z = x
        <5>1. z \notin DOMAIN scopes[i] /\ z \notin DOMAIN scopes[j]
          BY <2>7, <3>2, <4>1
        <5>2. i = n /\ j = n
          BY <1>5, <2>5, <2>7, <3>3, <4>1, <5>1
        <5> QED BY <3>3, <5>2
      <4>2. CASE z # x
        BY <1>5, <2>5, <3>1, <3>3, <4>2
      <4> QED BY <4>1, <4>2
    <3>4. Leaked(at, i)' \cap DOMAIN OverBuiltins' = {}
      BY <1>1, <2>5, <3>1, <3>2
    <3> QED BY <3>3, <3>4
  <2>10. ASSUME NEW f \in 1 .. k, frames'[f] = "arm" PROVE ArmHeld(at, f)'
    <3>1. truth'[f] = truth[f] /\ frames[f] = "arm"
      BY <1>7, <2>10
    <3>2. ArmHeld(at, f)
      BY <1>3, <2>1, <3>1 DEF Paired, ArmsHeld
    <3>3. ASSUME "armReuse" \notin used', NEW z \in DOMAIN truth'[f]
          PROVE  \E i \in 1 .. n : at[i] < f /\ z \in Leaked(at, i)' /\ scopes'[i][z] = truth'[f][z]
      <4>1. PICK i \in 1 .. n : at[i] < f /\ z \in Leaked(at, i) /\ scopes[i][z] = truth[f][z]
        BY <1>1, <1>3, <3>1, <3>2, <3>3 DEF ArmHeld
      <4>2. z \in Leaked(at, i)' /\ z \in DOMAIN scopes[i]
        BY <2>5, <2>7, <4>1
      <4> QED BY <2>4, <3>1, <4>1, <4>2
    <3> QED BY <1>1, <1>3, <3>1, <3>2, <3>3 DEF ArmHeld
  <2>11. ArmHeld(at, k + 1)'
    <3>1. /\ at[n] \in 1 .. k /\ x \in Leaked(at, n)' /\ scopes'[n][x] = truth'[k + 1][x]
      BY <1>4, <1>5, <1>6, <1>7, <2>5
    <3>2. at[n] < k + 1
      BY <1>8, <3>1
    <3>3. \A z \in DOMAIN truth'[k + 1] : z = x
      BY <1>6, <1>7
    <3> QED BY <1>1, <1>3, <1>4, <1>5, <3>1, <3>2, <3>3 DEF ArmHeld
  <2>12. ArmsHeld(at)'
    BY <1>7, <1>8, <2>10, <2>11 DEF ArmsHeld
  <2> QED BY <2>6, <2>8, <2>9, <2>12 DEF Paired
<1> QED BY <1>9, <1>10 DEF ScopesAgree

-----------------------------------------------------------------------------
(* The map of the lowering.                                                *)

\* Nothing shadowed, the lowering reads what the resolver finds.
LEMMA ReadAsFound ==
  ASSUME Base, MapAgrees, "shadow" \notin used, NEW x, Lookup(x) # 0
  PROVE  Lowered(local_map, x) = IF IsLocal(Lookup(x)) THEN Lookup(x) ELSE 0
<1>1. Len(scopes) \in Nat /\ DOMAIN scopes = 1 .. Len(scopes)
  BY DEF Base, Types
<1>2. CASE \E i \in 1 .. Len(scopes) : x \in DOMAIN scopes[i] /\ Lookup(x) = scopes[i][x]
  <2>1. PICK i \in 1 .. Len(scopes) : x \in DOMAIN scopes[i] /\ Lookup(x) = scopes[i][x]
    BY <1>2
  <2>2. x \in DOMAIN local_map /\ local_map[x] = scopes[i][x]
    BY <1>1, <2>1 DEF MapAgrees
  <2>3. table[scopes[i][x]].kind \in {"param", "local"}
    BY <1>1, <2>1 DEF Base, Kinds, LocalsIn, Local
  <2> QED BY <2>1, <2>2, <2>3 DEF Lowered, IsLocal
<1>3. CASE x \in DOMAIN module_scope /\ Lookup(x) = module_scope[x]
  <2>1. x \notin DOMAIN local_map
    BY <1>3 DEF MapAgrees
  <2>2. table[module_scope[x]].kind \in {"item", "module"}
    BY <1>3 DEF Base, Kinds, ItemsIn
  <2> QED BY <1>3, <2>1, <2>2 DEF Lowered, IsLocal
<1>4. \/ \E i \in 1 .. Len(scopes) : x \in DOMAIN scopes[i] /\ Lookup(x) = scopes[i][x]
      \/ Lookup(x) = IF x \in DOMAIN module_scope THEN module_scope[x] ELSE 0
  BY <1>1, FindIs DEF Lookup
<1> QED BY <1>2, <1>3, <1>4

\* The parameters.
LEMMA EnterFuncMap ==
  ASSUME Base, NEW n \in Nat, NEW params \in [1 .. n -> Idents], EnterFunc(params)
  PROVE  MapAgrees' /\ NeverMisread'
<1> DEFINE ids == ParamIds(params)
<1>1. /\ scopes' = <<ids>> /\ local_map' = ids /\ module_scope' = module_scope
      /\ used' = Report("shadow", \E x \in ToSet(params) : x \in DOMAIN module_scope)
  BY OuterStays DEF EnterFunc
<1>2. DOMAIN ids = ToSet(params)
  BY DEF ParamIds
<1> HIDE DEF ids
<1>3. DOMAIN scopes' = {1} /\ scopes'[1] = ids
  BY <1>1
<1>4. "shadow" \notin used' => DOMAIN local_map' \cap DOMAIN module_scope' = {}
  BY <1>1, <1>2 DEF Report
<1>5. MapAgrees'
  BY <1>1, <1>3, <1>4 DEF MapAgrees
<1>6. NeverMisread'
  BY <1>1 DEF Report, NeverMisread
<1> QED BY <1>5, <1>6

\* A name that is nowhere yet goes to the innermost scope and to the map.
LEMMA LocalMap ==
  ASSUME Base, ScopesAgree, MapAgrees, NEW x \in Names, phase = "body",
         scopes' = DefineIn(scopes, x, Len(table) + 1),
         local_map' = Put(local_map, x, Len(table) + 1),
         module_scope' = module_scope, used \subseteq used',
         Lookup(x) # 0 => "shadow" \in used'
  PROVE  MapAgrees'
<1> SUFFICES ASSUME "shadow" \notin used' PROVE MapAgrees'
  BY DEF MapAgrees
<1>1. PICK n \in Nat, m \in Nat : n = Len(scopes) /\ m = Len(table)
  BY DEF Base, Types
<1>2. scopes \in Seq(Bindings(m)) /\ scopes # <<>> /\ DOMAIN scopes = 1 .. n
  BY <1>1, InTheFunction DEF Base, Types
<1>3. x \notin DOMAIN module_scope /\ \A i \in 1 .. n : x \notin DOMAIN scopes[i]
  BY <1>2, MeantBound DEF Base
<1>4. OnTop(scopes, scopes', n, x, m + 1)
  BY <1>1, <1>2, DefinedOnTop
<1>5. /\ n \in 1 .. n /\ Len(scopes') = n
      /\ \A i \in 1 .. n : \A y : y \in DOMAIN scopes'[i] <=> y \in DOMAIN scopes[i] \/ (i = n /\ y = x)
      /\ scopes'[n][x] = m + 1
      /\ \A i \in 1 .. n : \A y \in DOMAIN scopes[i] : scopes'[i][y] = scopes[i][y]
  BY <1>3, <1>4 DEF OnTop
<1>6. /\ \A y : y \in DOMAIN local_map' <=> y = x \/ y \in DOMAIN local_map
      /\ local_map'[x] = m + 1
      /\ \A y \in DOMAIN local_map : y # x => local_map'[y] = local_map[y]
  BY <1>1 DEF Put
<1>7. /\ DOMAIN local_map \cap DOMAIN module_scope = {}
      /\ \A i \in 1 .. n : \A y \in DOMAIN scopes[i] :
           /\ y \in DOMAIN local_map /\ local_map[y] = scopes[i][y]
           /\ \A j \in 1 .. n : y \in DOMAIN scopes[j] => j = i
  BY <1>2 DEF MapAgrees
<1>8. DOMAIN local_map' \cap DOMAIN module_scope' = {}
  BY <1>3, <1>6, <1>7
<1>9. ASSUME NEW i \in 1 .. n, NEW y \in DOMAIN scopes'[i]
      PROVE  /\ y \in DOMAIN local_map' /\ local_map'[y] = scopes'[i][y]
             /\ \A j \in 1 .. n : y \in DOMAIN scopes'[j] => j = i
  <2>1. CASE y = x
    <3>1. i = n
      BY <1>3, <1>5, <1>9, <2>1
    <3>2. \A j \in 1 .. n : y \in DOMAIN scopes'[j] => j = n
      BY <1>3, <1>5, <2>1
    <3> QED BY <1>5, <1>6, <2>1, <3>1, <3>2
  <2>2. CASE y # x
    <3>1. y \in DOMAIN scopes[i]
      BY <1>5, <1>9, <2>2
    <3>2. \A j \in 1 .. n : y \in DOMAIN scopes'[j] => j = i
      BY <1>5, <1>7, <2>2, <3>1
    <3> QED BY <1>5, <1>6, <1>7, <2>2, <3>1, <3>2
  <2> QED BY <2>1, <2>2
<1>10. DOMAIN scopes' = 1 .. n
  <2>1. scopes' \in Seq(Bindings(m + 1))
    <3>1. m + 1 \in Nat /\ m <= m + 1 /\ m + 1 \in 1 .. m + 1
      OBVIOUS
    <3>2. scopes \in Seq(Bindings(m + 1))
      BY <1>2, <3>1, StacksGrow
    <3> QED BY <1>1, <1>2, <3>1, <3>2, DefineBinds
  <2> QED BY <1>5, <2>1
<1> QED BY <1>8, <1>9, <1>10 DEF MapAgrees

\* The map when scopes are opened and left, or nothing is defined.
LEMMA MapStays ==
  ASSUME Base, MapAgrees, UNCHANGED <<local_map, module_scope>>, used \subseteq used',
         \/ scopes' = scopes
         \/ scopes' = Append(scopes, Nothing)
         \/ scopes # <<>> /\ scopes' = Front(scopes)
  PROVE  MapAgrees'
<1> SUFFICES ASSUME "shadow" \notin used' PROVE MapAgrees'
  BY DEF MapAgrees
<1>1. PICK n \in Nat : n = Len(scopes)
  BY DEF Base, Types
<1>2. scopes \in Seq(Bindings(Len(table))) /\ DOMAIN scopes = 1 .. n
  BY <1>1 DEF Base, Types
<1>3. /\ DOMAIN local_map \cap DOMAIN module_scope = {}
      /\ \A i \in 1 .. n : \A y \in DOMAIN scopes[i] :
           /\ y \in DOMAIN local_map /\ local_map[y] = scopes[i][y]
           /\ \A j \in 1 .. n : y \in DOMAIN scopes[j] => j = i
  BY <1>2 DEF MapAgrees
<1>4. CASE scopes' = scopes
  BY <1>4 DEF MapAgrees
<1>5. CASE scopes' = Append(scopes, Nothing)
  <2>1. DOMAIN scopes' = 1 .. n + 1 /\ scopes'[n + 1] = Nothing /\ \A i \in 1 .. n : scopes'[i] = scopes[i]
    BY <1>1, <1>2, <1>5
  <2>2. \A i \in 1 .. n + 1 : i \in 1 .. n \/ i = n + 1
    BY <1>1
  <2>3. \A i \in DOMAIN scopes' : \A y \in DOMAIN scopes'[i] : i \in 1 .. n /\ y \in DOMAIN scopes[i]
    BY <2>1, <2>2, NothingBinds
  <2> QED BY <1>3, <2>1, <2>3 DEF MapAgrees
<1>6. CASE scopes # <<>> /\ scopes' = Front(scopes)
  <2>1. DOMAIN scopes' = 1 .. n - 1 /\ \A i \in 1 .. n - 1 : scopes'[i] = scopes[i]
    BY <1>1, <1>2, <1>6, FrontElements
  <2>2. \A i \in 1 .. n - 1 : i \in 1 .. n
    BY <1>1
  <2> QED BY <1>3, <2>1, <2>2 DEF MapAgrees
<1> QED BY <1>4, <1>5, <1>6

-----------------------------------------------------------------------------
(* What is reported.                                                       *)

\* A name in a function without a fault so far.
LEMMA Looked ==
  ASSUME Base, ScopesAgree, Clean, NEW x
  PROVE  /\ "arm" \notin used => Lookup(x) = Meant(x)
         /\ "armReuse" \notin used /\ Meant(x) # 0 => Lookup(x) = Meant(x)
         /\ Lookup(ModuleName) = Meant(ModuleName)
<1>1. PICK at \in Seq(Nat) : Framed(at) /\ Paired(at)
  BY DEF ScopesAgree
<1>2. Types /\ module_scope = OverBuiltins
  BY DEF Base, ItemsAgree
<1>3. ASSUME "arm" \notin used PROVE Lookup(x) = Meant(x)
  <2>1. \A i \in 1 .. Len(at) : x \notin Leaked(at, i)
    BY <1>1, <1>3 DEF Paired, LeaksAreArms
  <2>2. \A f \in 1 .. Len(frames) : frames[f] = "arm" => x \notin DOMAIN truth[f]
    BY <1>1, <1>3 DEF Paired, ArmsHeld, ArmHeld
  <2> QED BY <1>1, <1>2, <2>1, <2>2, FoundAsMeant
<1>4. ASSUME "armReuse" \notin used, Meant(x) # 0 PROVE Lookup(x) = Meant(x)
  BY <1>1, <1>2, <1>4, MeaningFound
<1>5. Lookup(ModuleName) = Meant(ModuleName)
  <2>1. \A i \in 1 .. Len(at) : ModuleName \notin Leaked(at, i)
    BY <1>1 DEF Paired, LeaksAreArms
  <2>2. \A f \in 1 .. Len(frames) : frames[f] = "arm" => ModuleName \notin DOMAIN truth[f]
    BY <1>1 DEF Paired, ArmsHeld, ArmHeld
  <2> QED BY <1>1, <1>2, <2>1, <2>2, FoundAsMeant
<1> QED BY <1>3, <1>4, <1>5

\* Only the name of the module means a module.
LEMMA ModulesAre ==
  ASSUME Base, ScopesAgree, NEW x, IsModule(Meant(x))
  PROVE  x = ModuleName
<1>1. Len(truth) \in Nat /\ DOMAIN truth = 1 .. Len(truth)
  BY DEF Base, Types
<1>2. \A f \in 1 .. Len(truth) : \A y \in DOMAIN truth[f] : table[truth[f][y]].kind \in {"param", "local"}
  BY <1>1 DEF Base, Kinds, LocalsIn, Local
<1>3. \A y \in DOMAIN OverBuiltins : IsModule(OverBuiltins[y]) => y = ModuleName
  BY DEF Base, Kinds, ItemsIn, IsModule
<1>4. \/ \E f \in 1 .. Len(truth) : x \in DOMAIN truth[f] /\ Meant(x) = truth[f][x]
      \/ Meant(x) = IF x \in DOMAIN OverBuiltins THEN OverBuiltins[x] ELSE 0
  BY <1>1, FindIs DEF Meant
<1> QED BY <1>2, <1>3, <1>4 DEF IsModule

\* What the other module gives is what it declares public.
LEMMA ExportsAre ==
  ASSUME Base, registry, current = 2, NEW x
  PROVE  Accessible(x) <=> x \in public \ {Builtin}
<1>1. DOMAIN exports \in SUBSET Nat /\ Publishes(exports)
  BY DEF Base, Exported
<1>2. ASSUME x \in public \ {Builtin} PROVE Accessible(x)
  <2>1. PICK i \in DOMAIN exports : exports[i].name = x
    BY <1>1, <1>2 DEF Publishes
  <2>2. exports[i].is_public
    BY <1>1, <1>2, <2>1 DEF Publishes
  <2>3. ASSUME NEW j \in DOMAIN exports, j < i PROVE exports[j].name # x
    <3>1. j # i
      BY <1>1, <2>3
    <3> QED BY <1>1, <2>1, <3>1 DEF Publishes
  <2> QED BY <2>1, <2>2, <2>3 DEF Accessible
<1>3. ASSUME Accessible(x) PROVE x \in public \ {Builtin}
  BY <1>1, <1>3 DEF Accessible, Publishes
<1> QED BY <1>2, <1>3

\* Reports that agree with what is forbidden.
LEMMA EqualReports ==
  ASSUME ~BuiltinHidden' => errors' = faults', faults' \subseteq {"E4003"}
  PROVE  Verdicts'
  BY DEF Verdicts, ReportsExactly, NothingInvented, PrivateStaysPrivate

\* And reports that stay.
LEMMA SameReports ==
  ASSUME Verdicts, UNCHANGED <<errors, faults, registry, BuiltinHidden>>, used \subseteq used'
  PROVE  Verdicts'
  BY DEF Verdicts, ReportsExactly, NothingInvented, PrivateStaysPrivate

\* A use of a name.
LEMMA PathVerdicts ==
  ASSUME Base, ScopesAgree, NEW x, Path(x)
  PROVE  Verdicts'
<1>1. /\ errors = {} /\ faults = {} /\ Clean /\ registry' = registry /\ used \subseteq used'
      /\ errors' = Report("E4002", Lookup(x) = 0)
      /\ faults' = Report("E4002", Meant(x) = 0)
  BY DEF Path, Clean
<1>2. /\ "arm" \notin used => Lookup(x) = Meant(x)
      /\ "armReuse" \notin used /\ Meant(x) # 0 => Lookup(x) = Meant(x)
  BY <1>1, Looked
<1>3. "arm" \notin used' => errors' = faults'
  BY <1>1, <1>2
<1>4. "armReuse" \notin used' /\ faults' = {} => errors' = {}
  BY <1>1, <1>2 DEF Report
<1>5. "Qualified" \notin faults'
  BY <1>1 DEF Report
<1> QED BY <1>1, <1>3, <1>4, <1>5 DEF Verdicts, ReportsExactly, NothingInvented, PrivateStaysPrivate

\* A symbol of another module, or a field.
LEMMA FieldVerdicts ==
  ASSUME Base, ScopesAgree, NEW x, NEW base, Field(base, x)
  PROVE  Verdicts'
<1>1. /\ phase = "body" /\ errors = {} /\ faults = {} /\ Clean /\ registry' = registry /\ used' = used
      /\ errors' = IF IsModule(Lookup(base)) THEN Report("Qualified", ~ Accessible(x))
                   ELSE Report("E4002", Lookup(base) = 0)
      /\ faults' = IF IsModule(Meant(base)) THEN Report("Qualified", x \notin public)
                   ELSE Report("E4002", Meant(base) = 0)
  BY DEF Field, Clean
<1>2. /\ "arm" \notin used => Lookup(base) = Meant(base)
      /\ "armReuse" \notin used /\ Meant(base) # 0 => Lookup(base) = Meant(base)
      /\ Lookup(ModuleName) = Meant(ModuleName)
  BY <1>1, Looked
<1>3. IsModule(Meant(base)) => base = ModuleName
  BY ModulesAre
<1>4. registry => (Accessible(x) <=> x \in public \ {Builtin})
  BY <1>1, ExportsAre, InTheFunction
<1>8. ~BuiltinHidden' => Builtin \notin public
  BY DEF BuiltinHidden, Field
<1>5. registry' /\ "arm" \notin used' /\ ~BuiltinHidden' => errors' = faults'
  BY <1>1, <1>2, <1>4, <1>8
<1>6. registry' /\ "armReuse" \notin used' /\ faults' = {} /\ ~BuiltinHidden' => errors' = {}
  <2> SUFFICES ASSUME registry, "armReuse" \notin used, faults' = {}, Builtin \notin public
               PROVE  errors' = {}
    BY <1>1, <1>8
  <2>1. Meant(base) # 0
    BY <1>1 DEF Report, IsModule
  <2>2. Lookup(base) = Meant(base)
    BY <1>2, <2>1
  <2>3. IsModule(Meant(base)) => x \in public
    BY <1>1 DEF Report
  <2> QED BY <1>1, <1>4, <2>1, <2>2, <2>3 DEF Report
<1>7. registry' /\ errors' = {} => "Qualified" \notin faults'
  <2> SUFFICES ASSUME registry, errors' = {}, "Qualified" \in faults' PROVE FALSE
    BY <1>1
  <2>1. IsModule(Meant(base)) /\ x \notin public
    BY <1>1 DEF Report
  <2>2. IsModule(Lookup(base))
    BY <1>2, <1>3, <2>1
  <2> QED BY <1>1, <1>4, <2>1, <2>2 DEF Report
<1> QED BY <1>5, <1>6, <1>7 DEF Verdicts, ReportsExactly, NothingInvented, PrivateStaysPrivate

\* A variable: what is read, and whether the name is free.
LEMMA LetVerdicts ==
  ASSUME Base, ScopesAgree, NEW x, NEW y, Let(x, y)
  PROVE  Verdicts'
<1>1. /\ phase = "body" /\ errors = {} /\ faults = {} /\ Clean /\ registry' = registry /\ used \subseteq used'
      /\ Last(frames) = "block"
      /\ errors' = Report("E4002", Lookup(y) = 0) \cup Report("E4003", x \in DOMAIN Last(scopes))
      /\ faults' = Report("E4002", Meant(y) = 0) \cup Report("E4003", x \in DOMAIN Last(truth))
      /\ "arm" \in used /\ x \in DOMAIN local_map => "armReuse" \in used'
  BY DEF Let, InBody, InBlock, Clean, Clashes, Report
<1>2. /\ "arm" \notin used => Lookup(y) = Meant(y)
      /\ "armReuse" \notin used /\ Meant(y) # 0 => Lookup(y) = Meant(y)
  BY <1>1, Looked
<1>3. PICK at \in Seq(Nat) : Framed(at) /\ Paired(at)
  BY <1>1 DEF ScopesAgree
<1>4. PICK n \in Nat, k \in Nat : n = Len(at) /\ k = Len(frames)
  BY <1>3, Shapes DEF Base
<1>5. /\ n \in 1 .. n /\ at[n] = k
      /\ Last(scopes) = scopes[n] /\ Last(truth) = truth[k]
  <2>1. /\ k # 0 /\ frames[k] = "block" /\ scopes # <<>> /\ truth # <<>>
        /\ Len(scopes) = n /\ Len(truth) = k
    BY <1>1, <1>3, <1>4, InTheFunction DEF Framed
  <2>2. n \in 1 .. n /\ at[n] = k
    BY <1>3, <1>4, <2>1, TopFrame DEF Base
  <2>3. scopes \in Seq(Bindings(Len(table))) /\ truth \in Seq(Bindings(Len(table)))
    BY DEF Base, Types
  <2> QED BY <2>1, <2>2, <2>3, FrontElements
<1>6. /\ x \in DOMAIN truth[k] => x \in DOMAIN scopes[n]
      /\ x \in DOMAIN scopes[n] => x \in DOMAIN truth[k] \/ x \in Leaked(at, n)
      /\ x \in Leaked(at, n) => x \in DOMAIN local_map /\ "arm" \in used
  BY <1>3, <1>4, <1>5 DEF Paired, Shared, LeaksAreArms, Leaked
<1>7. "arm" \notin used' => errors' = faults'
  BY <1>1, <1>2, <1>5, <1>6
<1>8. "armReuse" \notin used' /\ faults' = {} => errors' = {}
  <2> SUFFICES ASSUME "armReuse" \notin used', faults' = {} PROVE errors' = {}
    OBVIOUS
  <2>1. Meant(y) # 0 /\ x \notin DOMAIN truth[k]
    BY <1>1, <1>5 DEF Report
  <2>2. x \notin DOMAIN scopes[n]
    BY <1>1, <1>6, <2>1
  <2> QED BY <1>1, <1>2, <1>5, <2>1, <2>2 DEF Report
<1>9. "Qualified" \notin faults'
  BY <1>1 DEF Report
<1> QED BY <1>7, <1>8, <1>9 DEF Verdicts, ReportsExactly, NothingInvented, PrivateStaysPrivate

\* An arm that binds a name.
LEMMA EnterArmVerdicts ==
  ASSUME Base, ScopesAgree, NEW x \in Idents, EnterArm(x)
  PROVE  Verdicts'
<1>1. /\ phase = "body" /\ errors = {} /\ faults = {} /\ Clean /\ used \subseteq used'
      /\ errors' = Report("E4003", x \in DOMAIN Last(scopes))
      /\ faults' = {} /\ "arm" \in used'
      /\ x \in DOMAIN local_map => "armReuse" \in used'
  BY DEF EnterArm, InBody, Clean, Clashes, Report
<1>2. x \in DOMAIN Last(scopes) => x \in DOMAIN local_map
  <2>1. PICK at \in Seq(Nat) : Framed(at) /\ Paired(at)
    BY <1>1 DEF ScopesAgree
  <2>2. PICK n \in Nat : n = Len(scopes) /\ n = Len(at)
    BY <2>1 DEF Framed
  <2>3. n \in 1 .. n /\ Last(scopes) = scopes[n]
    BY <1>1, <2>2, InTheFunction, FrontElements DEF Base, Types
  <2> QED BY <2>1, <2>2, <2>3 DEF Paired, LeaksAreArms
<1>3. "armReuse" \notin used' => errors' = {}
  BY <1>1, <1>2 DEF Report
<1> QED BY <1>1, <1>3 DEF Verdicts, ReportsExactly, NothingInvented, PrivateStaysPrivate

-----------------------------------------------------------------------------
(* The invariant.                                                          *)

\* A new resolver, before the first item.
LEMMA InitHolds ==
  ASSUME Init
  PROVE  NamesInv
<1>1. /\ table = <<Symbol(Builtin, "item", FALSE)>> /\ module_scope = Put(Nothing, Builtin, 1)
      /\ module_spans = {Builtin} /\ OverBuiltins = Put(Nothing, Builtin, 1)
      /\ registry \in BOOLEAN /\ current = 1 /\ phase = "collect"
      /\ scopes = <<>> /\ truth = <<>> /\ frames = <<>> /\ local_map = Nothing
      /\ errors = {} /\ faults = {} /\ public = {} /\ used = {}
  BY DEF Init, Fresh, OverBuiltins, Put, Nothing
<1>2. /\ table \in Seq(Symbols) /\ Len(table) = 1 /\ DOMAIN table = {1}
      /\ table[1].name = Builtin /\ table[1].kind = "item" /\ table[1].is_public = FALSE
      /\ module_scope \in Bindings(Len(table)) /\ OverBuiltins \in Bindings(Len(table))
      /\ DOMAIN module_scope = {Builtin} /\ module_scope[Builtin] = 1
      /\ module_scope = OverBuiltins
  BY <1>1, FreshTable
<1>3. Types
  <2>1. Nothing \in Bindings(Len(table))
    BY <1>2, NothingBinds
  <2>2. <<>> \in Seq(Bindings(Len(table))) /\ <<>> \in Seq({"func", "block", "arm"})
    OBVIOUS
  <2> QED BY <1>1, <1>2, <2>1, <2>2 DEF Types
<1>4. Begun
  BY <1>1 DEF Begun
<1>5. /\ scopes = <<>> /\ truth = <<>> /\ current = 1 /\ phase = "collect" /\ public = {}
      /\ module_spans = {Builtin}
  BY <1>1
<1>6. Kinds
  BY <1>2, <1>5 DEF Kinds, LocalsIn, ItemsIn
<1>7. ItemsAgree
  BY <1>1, <1>2 DEF ItemsAgree
<1>8. Exported
  <2>1. {table[i].name : i \in DOMAIN table} = DOMAIN OverBuiltins
    BY <1>2
  <2>2. Publishes(table)
    BY <1>2, <1>5 DEF Publishes
  <2> QED BY <1>2, <1>5, <2>1, <2>2 DEF Exported
<1>9. ScopesAgree
  <2>1. <<>> \in Seq(Nat) /\ Len(<<>>) = 0 /\ \A i \in 1 .. 0 : FALSE
    OBVIOUS
  <2>2. Framed(<<>>)
    BY <1>1, <2>1 DEF Framed
  <2>3. Paired(<<>>)
    BY <1>1, <2>1 DEF Paired, Shared, LeaksAreArms, LeaksApart, ArmsHeld
  <2> QED BY <2>1, <2>2, <2>3 DEF ScopesAgree
<1>10. MapAgrees /\ NeverMisread
  BY <1>1, NothingBinds DEF MapAgrees, NeverMisread
<1>11. Verdicts
  BY <1>1 DEF Verdicts, ReportsExactly, NothingInvented, PrivateStaysPrivate
<1> QED BY <1>3, <1>4, <1>6, <1>7, <1>8, <1>9, <1>10, <1>11 DEF NamesInv, Base

\* In the first pass and between functions nothing is in scope, and what is
\* reported is what is forbidden.
LEMMA BetweenFunctions ==
  ASSUME Base', phase' \in {"collect", "locals"}
  PROVE  ScopesAgree' /\ MapAgrees' /\ NeverMisread' /\ Verdicts'
<1>1. /\ scopes' = <<>> /\ truth' = <<>> /\ frames' = <<>> /\ local_map' = Nothing /\ used' = {}
      /\ ~BuiltinHidden' => errors' = faults'
      /\ faults' \subseteq {"E4003"}
  BY DEF Base, Begun, ItemsAgree
<1>2. ScopesAgree'
  BY <1>1, EmptyScopes
<1>3. MapAgrees'
  BY <1>1, NothingBinds DEF MapAgrees
<1> QED BY <1>1, <1>2, <1>3, EqualReports DEF NeverMisread

\* Every step keeps it.
LEMMA StepHolds ==
  ASSUME NamesInv, [Next]_vars
  PROVE  NamesInv'
<1> USE DEF NamesInv
<1>1. ASSUME NEW x \in Names, NEW pub \in BOOLEAN, Collect(x, pub) PROVE NamesInv'
  <2>1. Base'
    BY <1>1, CollectAgain, CollectBuiltin, CollectNew
  <2>2. phase' = "collect"
    BY <1>1 DEF Collect
  <2> QED BY <2>1, <2>2, BetweenFunctions
<1>2. CASE Use
  <2>1. Base' /\ phase' = "collect"
    BY <1>2, UseStep DEF Use
  <2> QED BY <2>1, BetweenFunctions
<1>3. CASE EndCollect
  <2>1. Base' /\ phase' = "locals"
    BY <1>3, EndCollectStep DEF EndCollect
  <2> QED BY <2>1, BetweenFunctions
<1>4. CASE NextModule
  <2>1. Base' /\ phase' = "collect"
    BY <1>4, NextModuleStep DEF NextModule
  <2> QED BY <2>1, BetweenFunctions
<1>5. ASSUME NEW n \in 0 .. 2, NEW params \in [1 .. n -> Idents], EnterFunc(params) PROVE NamesInv'
  <2>1. n \in Nat
    OBVIOUS
  <2>2. Base' /\ ScopesAgree' /\ MapAgrees' /\ NeverMisread'
    BY <1>5, <2>1, EnterFuncStep, EnterFuncScopes, EnterFuncMap
  <2>3. (~BuiltinHidden' => errors' = faults') /\ faults' \subseteq {"E4003"}
    <3>1. (~BuiltinHidden => errors = faults) /\ faults \subseteq {"E4003"}
      BY <1>5 DEF EnterFunc, Base, ItemsAgree
    <3>2. BuiltinHidden' = BuiltinHidden
      BY <1>5, OuterStays DEF EnterFunc
    <3> QED BY <1>5, <3>1, <3>2 DEF EnterFunc, Report
  <2> QED BY <2>2, <2>3, EqualReports
<1>6. CASE LeaveFunc
  <2>1. /\ phase = "body" /\ frames = <<"func">> /\ phase' = "done"
        /\ frames' = <<>> /\ scopes' = Front(scopes) /\ truth' = Front(truth)
        /\ UNCHANGED <<registry, current, table, module_scope, module_spans, exports, local_map,
                       errors, OverBuiltins, BuiltinHidden, public, faults, used>>
    BY <1>6, OuterStays DEF LeaveFunc
  <2>2. frames' = Front(frames) /\ scopes' = <<>> /\ truth' = <<>> /\ scopes # <<>>
    <3>1. PICK at \in Seq(Nat) : Framed(at)
      BY DEF ScopesAgree
    <3>2. Len(frames) = 1 /\ Len(truth) = 1 /\ scopes # <<>> /\ truth # <<>>
      BY <2>1, InTheFunction
    <3>3. Len(scopes) = 1
      <4>1. frames[1] # "arm"
        BY <2>1
      <4>2. Len(at) \in 1 .. Len(at) /\ \A i \in 1 .. Len(at) : i # Len(at) => at[i] \in 1 .. 0
        BY <3>1, <3>2, <4>1, TopFrame DEF Base
      <4>3. PICK n \in Nat : n = Len(at)
        OBVIOUS
      <4>4. \A i \in 1 .. n : i = n
        BY <4>2, <4>3
      <4>5. n = 1
        BY <4>2, <4>3, <4>4
      <4> QED BY <3>1, <4>3, <4>5 DEF Framed
    <3>4. \A S : \A s \in Seq(S) : s # <<>> /\ Len(s) = 1 => Front(s) = <<>>
      <4> SUFFICES ASSUME NEW S, NEW s \in Seq(S), s # <<>>, Len(s) = 1 PROVE Front(s) = <<>>
        OBVIOUS
      <4>1. Front(s) \in Seq(S) /\ Len(Front(s)) = Len(s) - 1
        BY FrontElements
      <4> QED BY <4>1
    <3> QED BY <2>1, <3>2, <3>3, <3>4, InTheFunction DEF Base, Types
  <2>3. Base'
    BY <2>1, <2>2, CloseStep
  <2>4. ScopesAgree'
    BY <2>1, <2>2, EmptyScopes
  <2>5. MapAgrees' /\ NeverMisread' /\ Verdicts'
    BY <2>1, <2>2, MapStays, SameReports DEF NeverMisread
  <2> QED BY <2>3, <2>4, <2>5
<1>7. ASSUME NEW x \in Names, Path(x) PROVE NamesInv'
  <2>1. /\ phase = "body" /\ errors \subseteq errors' /\ faults \subseteq faults'
        /\ used' = used \cup Misread(x, local_map)
        /\ UNCHANGED <<registry, current, phase, table, module_scope, module_spans, scopes, exports,
                       local_map, frames, truth, OverBuiltins, BuiltinHidden, public>>
    BY <1>7, OuterStays DEF Path
  <2>2. Base' /\ ScopesAgree' /\ MapAgrees' /\ Verdicts'
    BY <1>7, <2>1, QuietStep, QuietScopes, MapStays, PathVerdicts
  <2>3. NeverMisread'
    BY <2>1, ReadAsFound DEF NeverMisread, Misread, Report
  <2> QED BY <2>2, <2>3
<1>8. ASSUME NEW x \in Names, NEW base \in {ModuleName} \cup Idents, Field(base, x) PROVE NamesInv'
  <2>1. /\ phase = "body" /\ errors \subseteq errors' /\ faults \subseteq faults'
        /\ UNCHANGED <<registry, current, phase, table, module_scope, module_spans, scopes, exports,
                       local_map, frames, truth, OverBuiltins, BuiltinHidden, public, used>>
    BY <1>8, OuterStays DEF Field
  <2>2. Base' /\ ScopesAgree' /\ MapAgrees' /\ Verdicts'
    BY <1>8, <2>1, QuietStep, QuietScopes, MapStays, FieldVerdicts
  <2>3. NeverMisread'
    BY <2>1 DEF NeverMisread
  <2> QED BY <2>2, <2>3
<1>9. ASSUME NEW x \in Idents \cup {ModuleName}, NEW y \in Idents \cup {ModuleName}, Let(x, y)
      PROVE  NamesInv'
  <2>1. x \in Names
    BY NamesAre
  <2>2. /\ phase = "body" /\ table' = Append(table, Symbol(x, "local", FALSE))
        /\ scopes' = DefineIn(scopes, x, Len(table'))
        /\ local_map' = Put(local_map, x, Len(table) + 1)
        /\ module_scope' = module_scope /\ used \subseteq used'
        /\ used' = used \cup Misread(y, Put(local_map, x, Len(table) + 1)) \cup Reuse(x)
                     \cup Report("armReuse", "arm" \in used /\ x \in DOMAIN local_map)
    BY <1>9 DEF Let, InBody, Register
  <2>3. Len(table') = Len(table) + 1
    BY <2>1, <2>2, AppendElements DEF Base, Types, Symbols, Symbol
  <2>4. Base' /\ ScopesAgree' /\ Verdicts'
    BY <1>9, <2>1, LetBase, LetScopes, LetVerdicts
  <2>5. Lookup(x) # 0 => "shadow" \in used'
    BY <2>2 DEF Reuse, Report
  <2>6. MapAgrees'
    BY <2>1, <2>2, <2>3, <2>5, LocalMap
  <2>7. NeverMisread'
    <3> SUFFICES ASSUME "shadow" \notin used' PROVE "misread" \notin used'
      BY DEF NeverMisread
    <3>1. "shadow" \notin used /\ "misread" \notin used /\ Lookup(x) = 0
      BY <2>2, <2>5 DEF NeverMisread
    <3>2. ASSUME Lookup(y) # 0
          PROVE  Lowered(Put(local_map, x, Len(table) + 1), y) = Lowered(local_map, y)
      BY <3>1, <3>2 DEF Lowered, Put
    <3>3. Misread(y, Put(local_map, x, Len(table) + 1)) = {}
      BY <3>1, <3>2, ReadAsFound DEF Misread, Report
    <3> QED BY <2>2, <3>1, <3>3 DEF Reuse, Report
  <2> QED BY <2>4, <2>6, <2>7
<1>10. CASE EnterBlock
  <2>1. /\ phase = "body" /\ frames' = Append(frames, "block") /\ truth' = Append(truth, Nothing)
        /\ scopes' = Append(scopes, Nothing)
        /\ UNCHANGED <<registry, current, phase, table, module_scope, module_spans, exports, local_map,
                       errors, OverBuiltins, BuiltinHidden, public, faults, used>>
    BY <1>10, OuterStays DEF EnterBlock, InBody
  <2>2. Base' /\ ScopesAgree'
    BY <1>10, <2>1, OpenStep, EnterBlockScopes
  <2>3. MapAgrees' /\ Verdicts' /\ NeverMisread'
    BY <2>1, MapStays, SameReports DEF NeverMisread
  <2> QED BY <2>2, <2>3
<1>11. CASE LeaveBlock
  <2>1. /\ phase = "body" /\ phase' = "body" /\ Last(frames) # "func"
        /\ frames' = Front(frames) /\ truth' = Front(truth) /\ scopes' = Front(scopes)
        /\ UNCHANGED <<registry, current, table, module_scope, module_spans, exports, local_map,
                       errors, OverBuiltins, BuiltinHidden, public, faults, used>>
    BY <1>11, OuterStays DEF LeaveBlock
  <2>2. Base' /\ ScopesAgree'
    BY <1>11, <2>1, CloseStep, LeaveBlockScopes
  <2>3. scopes # <<>>
    BY <2>1, InTheFunction
  <2>4. MapAgrees' /\ Verdicts' /\ NeverMisread'
    BY <2>1, <2>3, MapStays, SameReports DEF NeverMisread
  <2> QED BY <2>2, <2>4
<1>12. ASSUME NEW x \in Idents, EnterArm(x) PROVE NamesInv'
  <2>1. x \in Names
    BY NamesAre
  <2>2. /\ phase = "body"
        /\ scopes' = DefineIn(scopes, x, Len(table) + 1)
        /\ local_map' = Put(local_map, x, Len(table) + 1)
        /\ module_scope' = module_scope /\ used \subseteq used'
        /\ used' = used \cup {"arm"} \cup Reuse(x)
                     \cup Report("armReuse", Meant(x) # 0 \/ x \in DOMAIN local_map)
    BY <1>12 DEF EnterArm, InBody, Register
  <2>3. Base' /\ ScopesAgree' /\ Verdicts'
    BY <1>12, <2>1, EnterArmBase, EnterArmScopes, EnterArmVerdicts
  <2>4. Lookup(x) # 0 => "shadow" \in used'
    BY <2>2 DEF Reuse, Report
  <2>5. MapAgrees'
    BY <2>1, <2>2, <2>4, LocalMap
  <2>6. NeverMisread'
    BY <2>2 DEF NeverMisread, Reuse, Report
  <2> QED BY <2>3, <2>5, <2>6
<1>13. CASE EnterPlainArm
  <2>1. /\ phase = "body" /\ frames' = Append(frames, "arm") /\ truth' = Append(truth, Nothing)
        /\ scopes' = scopes
        /\ UNCHANGED <<registry, current, phase, table, module_scope, module_spans, exports, local_map,
                       errors, OverBuiltins, BuiltinHidden, public, faults, used>>
    BY <1>13, OuterStays DEF EnterPlainArm, InBody
  <2>2. Base' /\ ScopesAgree'
    BY <1>13, <2>1, OpenStep, PlainArmScopes
  <2>3. MapAgrees' /\ Verdicts' /\ NeverMisread'
    BY <2>1, MapStays, SameReports DEF NeverMisread
  <2> QED BY <2>2, <2>3
<1>14. CASE LeaveArm
  <2>1. /\ phase = "body" /\ phase' = "body" /\ Last(frames) # "func"
        /\ frames' = Front(frames) /\ truth' = Front(truth) /\ scopes' = scopes
        /\ UNCHANGED <<registry, current, table, module_scope, module_spans, exports, local_map,
                       errors, OverBuiltins, BuiltinHidden, public, faults, used>>
    BY <1>14, OuterStays DEF LeaveArm
  <2>2. Base' /\ ScopesAgree'
    BY <1>14, <2>1, CloseStep, LeaveArmScopes
  <2>3. MapAgrees' /\ Verdicts' /\ NeverMisread'
    BY <2>1, MapStays, SameReports DEF NeverMisread
  <2> QED BY <2>2, <2>3
<1>15. CASE UNCHANGED vars
  <2>1. UNCHANGED <<registry, current, phase, table, module_scope, module_spans, scopes, exports,
                    local_map, errors, frames, truth, OverBuiltins, BuiltinHidden, public, faults, used>>
    BY <1>15, OuterStays DEF vars
  <2>2. Base'
    BY <2>1 DEF Base, Types, Begun, Kinds, LocalsIn, ItemsIn, Local, ItemsAgree, Clean, Exported,
                Publishes
  <2>3. ScopesAgree' /\ MapAgrees' /\ NeverMisread' /\ Verdicts'
    BY <2>1, QuietScopes, MapStays, SameReports DEF NeverMisread
  <2> QED BY <2>2, <2>3
<1> QED BY <1>1, <1>2, <1>3, <1>4, <1>5, <1>6, <1>7, <1>8, <1>9, <1>10, <1>11, <1>12, <1>13, <1>14,
           <1>15 DEF Next

-----------------------------------------------------------------------------
(* The theorems.                                                           *)

\* Whatever is declared, shadowed and left: what is visible, what is reported
\* and what the lowering reads belong together, as the parts above say.
THEOREM NamesInvariance == Spec => []NamesInv
<1>1. Init => NamesInv
  BY InitHolds
<1>2. NamesInv /\ [Next]_vars => NamesInv'
  BY StepHolds
<1> QED BY <1>1, <1>2, PTL DEF Spec

\* Of a program whose arms bind nothing the resolver reports exactly what ADR
\* 004 forbids, up to the first name that is defined twice.
THEOREM ReportsAreExact == Spec => []ReportsExactly
<1>1. NamesInv => ReportsExactly
  BY DEF NamesInv, Verdicts
<1> QED BY <1>1, NamesInvariance, PTL

\* A function whose arms bind fresh names and that breaks no rule is accepted,
\* and each of its names is found where it is declared.
THEOREM NamesAreFound == Spec => []MeansWhatIsDeclared
<1>1. NamesInv => MeansWhatIsDeclared
  <2> SUFFICES ASSUME NamesInv, "armReuse" \notin used, faults = {}, registry, ~BuiltinHidden
               PROVE  errors = {} /\ \A x \in Names : Meant(x) # 0 => Lookup(x) = Meant(x)
    BY DEF MeansWhatIsDeclared
  <2>1. errors = {} /\ Clean
    BY DEF NamesInv, Verdicts, NothingInvented, Clean
  <2>2. \A x \in Names : Meant(x) # 0 => Lookup(x) = Meant(x)
    BY <2>1, Looked DEF NamesInv
  <2> QED BY <2>1, <2>2
<1> QED BY <1>1, NamesInvariance, PTL

\* As long as nothing is shadowed, the lowering's map without scopes gives the
\* local that the resolver found, and none for an item.
THEOREM LoweringAgrees == Spec => []LoweringMeansTheSame
<1>1. NamesInv => LoweringMeansTheSame
  BY DEF NamesInv, NeverMisread, LoweringMeansTheSame
<1> QED BY <1>1, NamesInvariance, PTL

\* An accepted function of the next module names nothing that the imported one
\* keeps private.
THEOREM NothingPrivateIsNamed == Spec => []PrivateStaysPrivate
<1>1. NamesInv => PrivateStaysPrivate
  BY DEF NamesInv, Verdicts
<1> QED BY <1>1, NamesInvariance, PTL
=============================================================================
