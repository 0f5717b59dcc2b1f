---------------------------- MODULE EscapeProofs ----------------------------
(***************************************************************************)
(* The move and escape checker: its state has its type, and what it        *)
(* reports is what the function deserves, for any names and any nesting of *)
(* blocks, loops and branches.                                             *)
(*                                                                         *)
(* The proof is about positions in the stack of scopes.  A snapshot speaks *)
(* of names; what makes it right is that it speaks of every own binding    *)
(* that was there when it was taken, and that a binding which is hidden    *)
(* inside the snapshot does not change until the snapshot is used.         *)
(***************************************************************************)
EXTENDS EscapeCheck, SequenceFacts

Scopes == Seq(Seq(Binding))

-----------------------------------------------------------------------------
(* The inductive invariant.                                                *)

\* The positions in the first i scopes, and those of them that a later binding of
\* these scopes hides.
Outer(ss, i) == {p \in Positions(ss) : p[1] <= i}
Hidden(ss, i, p) == \E q \in Outer(ss, i) : At(ss, q).name = At(ss, p).name /\ Below(p, q)

\* How frames and scopes lie on each other: the frame of an arm is directly above
\* that of its branch and brings two scopes, each other frame but a branch brings one.
Nesting(fs, ss) ==
  /\ fs # <<>> /\ fs[1].kind = "block"
  /\ \A i \in 1 .. Len(fs) - 1 : fs[i].kind = "branch" <=> fs[i + 1].kind = "arm"
  /\ Len(ss) = IF fs[Len(fs)].kind = "branch" THEN Len(fs) ELSE Len(fs) + 1

\* Variables are told apart by their numbers, and what the checker takes for an own
\* pointer is one.
Variables(ss, n) ==
  /\ \A p \in Positions(ss) : At(ss, p).id < n /\ (At(ss, p).kind = "own" => At(ss, p).is = "own")
  /\ \A p, q \in Positions(ss) : At(ss, p).id = At(ss, q).id => p = q

\* Every binding of a variable that may have been moved says so, hidden or not.
Remembering(ss, mv) ==
  \A p \in Positions(ss) : At(ss, p).id \in mv => At(ss, p).kind = "own" /\ At(ss, p).moved

\* No two bindings have one name, and only what may have been moved is marked.
Inventing(ss, mv) ==
  /\ \A p, q \in Positions(ss) : At(ss, p).name = At(ss, q).name => p = q
  /\ \A p \in Positions(ss) : At(ss, p).kind = "own" /\ At(ss, p).moved => At(ss, p).id \in mv

\* What the bindings say, as far as the function is without the gaps.
Truth(ss, mv, n, g) ==
  /\ Variables(ss, n)
  /\ "infer" \notin g => \A p \in Positions(ss) : At(ss, p).kind = At(ss, p).is
  /\ {"infer", "assign", "unwalked"} \cap g = {} => Remembering(ss, mv)
  /\ {"shadow", "lend"} \cap g = {} => Inventing(ss, mv)

\* A snapshot of the first i scopes: an entry for each own binding, and the entry
\* of a hidden one is still true.
Pictures(s, ss, i) ==
  /\ {e.at : e \in s} = Owning(ss) \cap Outer(ss, i)
  /\ \A e, o \in s : e.at = o.at => e = o
  /\ \A e \in s : /\ e.name = At(ss, e.at).name
                  /\ Hidden(ss, i, e.at) => e.moved = At(ss, e.at).moved

\* The snapshot says of every variable in the set that it is moved.
Covers(s, ss, i, mv) ==
  \A p \in Outer(ss, i) : At(ss, p).id \in mv => \E e \in s : e.at = p /\ e.moved

\* It says so of no other.
Within(s, ss, mv) == \A e \in s : e.moved => At(ss, e.at).id \in mv

\* An open branch, in frame i.
Branch(f, ss, i, g) ==
  /\ f.arms >= 1
  /\ f.snaps # <<>> => f.before \subseteq f.after
  /\ Pictures(f.base, ss, i) /\ \A k \in DOMAIN f.snaps : Pictures(f.snaps[k], ss, i)
  /\ {"infer", "assign", "unwalked"} \cap g = {} =>
       /\ Covers(f.base, ss, i, f.before)
       /\ Covers(UNION {f.snaps[k] : k \in DOMAIN f.snaps}, ss, i, f.after)
  /\ {"shadow", "lend"} \cap g = {} =>
       Within(f.base, ss, f.before) /\ \A k \in DOMAIN f.snaps : Within(f.snaps[k], ss, f.after)

Branches(fs) == {i \in DOMAIN fs : fs[i].kind = "branch"}

\* The open branches; none begins with less moved than one around it.
Open(fs, ss, mv, n, g) ==
  /\ \A i \in Branches(fs) : /\ Branch(fs[i], ss, i, g)
                             /\ fs[i].before \subseteq mv
                             /\ fs[i].after \subseteq 0 .. n - 1
  /\ \A i, j \in Branches(fs) : i < j => fs[i].before \subseteq fs[j].before
  /\ \A i \in DOMAIN fs : fs[i].kind = "loop" => "loop" \in g

\* What is reported is what is deserved.
Verdict ==
  /\ {"infer", "assign", "loop", "unwalked"} \cap gaps = {} /\ "E5001" \in faults => "E5001" \in errors
  /\ {"shadow", "lend"} \cap gaps = {} /\ "E5001" \in errors => "E5001" \in faults
  /\ {"infer", "value", "unwalked"} \cap gaps = {} => faults \cap {"E5002", "E5003"} \subseteq errors

EscapeShape ==
  /\ Verdict
  /\ phase = "walking" =>
       Nesting(frames, scopes) /\ Truth(scopes, moved, next_id, gaps)
       /\ Open(frames, scopes, moved, next_id, gaps)

-----------------------------------------------------------------------------
(* Positions.                                                              *)

\* A bounded set of numbers has a greatest one.
LEMMA Greatest ==
  ASSUME NEW n \in Nat, NEW S \in SUBSET (1 .. n), S # {}
  PROVE  \E m \in S : \A k \in S : k <= m
<1> SUFFICES ASSUME \A m \in S : \E k \in S : k > m PROVE FALSE
  OBVIOUS
<1> DEFINE B == {i \in 0 .. n : \E k \in S : k > i}
<1>1. 0 \in B
  <2>1. PICK k \in S : TRUE
    OBVIOUS
  <2>2. k > 0 /\ 0 \in 0 .. n
    OBVIOUS
  <2> QED BY <2>1, <2>2
<1>2. \A i \in 0 .. n - 1 : i \in B => i + 1 \in B
  OBVIOUS
<1>3. B \in SUBSET (0 .. n)
  OBVIOUS
<1> HIDE DEF B
<1>4. B = 0 .. n
  BY <1>1, <1>2, <1>3, UpTo
<1>5. n \in B
  BY <1>4
<1> QED BY <1>5 DEF B

\* A position is a pair of numbers within the bounds, with a binding.
LEMMA PositionType ==
  ASSUME NEW ss \in Scopes, NEW p \in Positions(ss)
  PROVE  /\ p = <<p[1], p[2]>> /\ p[1] \in Nat /\ p[2] \in Nat /\ Len(ss) \in Nat
         /\ p[1] \in 1 .. Len(ss) /\ p[2] \in 1 .. Len(ss[p[1]])
         /\ At(ss, p) \in Binding
<1>0. PICK i \in DOMAIN ss : \E j \in DOMAIN ss[i] : p = <<i, j>>
  BY DEF Positions
<1>1. PICK j \in DOMAIN ss[i] : p = <<i, j>>
  BY <1>0
<1>2. /\ Len(ss) \in Nat /\ i \in 1 .. Len(ss)
      /\ ss[i] \in Seq(Binding)
  BY <1>1, LenProperties, ElementOfSeq DEF Scopes
<1>3. j \in 1 .. Len(ss[i]) /\ ss[i][j] \in Binding
  BY <1>1, <1>2, LenProperties, ElementOfSeq
<1> QED BY <1>1, <1>2, <1>3 DEF At

\* What is a position.
LEMMA PositionOf ==
  ASSUME NEW ss, NEW i \in DOMAIN ss, NEW j \in DOMAIN ss[i]
  PROVE  <<i, j>> \in Positions(ss) /\ At(ss, <<i, j>>) = ss[i][j]
BY DEF Positions, At

\* Below is a strict order on positions, and total.
LEMMA BelowOrders ==
  ASSUME NEW ss \in Scopes, NEW p \in Positions(ss), NEW q \in Positions(ss)
  PROVE  /\ ~(Below(p, q) /\ Below(q, p))
         /\ p = q \/ Below(p, q) \/ Below(q, p)
<1>1. /\ p = <<p[1], p[2]>> /\ p[1] \in Nat /\ p[2] \in Nat
      /\ q = <<q[1], q[2]>> /\ q[1] \in Nat /\ q[2] \in Nat
  BY PositionType
<1>2. p[1] = q[1] /\ p[2] = q[2] => p = q
  BY <1>1
<1> QED BY <1>1, <1>2 DEF Below

\* Some positions have a latest one.
LEMMA LatestIs ==
  ASSUME NEW ss \in Scopes, NEW T \in SUBSET Positions(ss), T # {}
  PROVE  \E p \in T : \A q \in T \ {p} : Below(q, p)
<1> DEFINE I == {p[1] : p \in T}
<1>1. I \in SUBSET (1 .. Len(ss)) /\ I # {} /\ Len(ss) \in Nat
  BY PositionType
<1>2. PICK i \in I : \A k \in I : k <= i
  <2> HIDE DEF I
  <2> QED BY <1>1, Greatest
<1> DEFINE J == {p[2] : p \in {q \in T : q[1] = i}}
<1>3. J \in SUBSET (1 .. Len(ss[i])) /\ J # {} /\ Len(ss[i]) \in Nat
  <2>1. i \in DOMAIN ss
    BY <1>1, <1>2, LenProperties DEF Scopes
  <2>2. Len(ss[i]) \in Nat
    BY <2>1, ElementOfSeq, LenProperties DEF Scopes
  <2> QED BY <2>2, PositionType
<1>4. PICK j \in J : \A k \in J : k <= j
  <2> HIDE DEF J
  <2> QED BY <1>3, Greatest
<1>5. PICK p \in T : p[1] = i /\ p[2] = j
  OBVIOUS
<1>6. ASSUME NEW q \in T \ {p} PROVE Below(q, p)
  <2>1. q[1] \in I /\ q[1] <= i
    BY <1>2
  <2>2. q[1] = i => q[2] \in J /\ q[2] <= j
    BY <1>4
  <2>3. p \in Positions(ss) /\ q \in Positions(ss)
    OBVIOUS
  <2>4. ~Below(p, q)
    <3>1. p[1] \in Nat /\ p[2] \in Nat /\ q[1] \in Nat /\ q[2] \in Nat
      BY <2>3, PositionType
    <3> HIDE DEF I, J
    <3> QED BY <1>5, <2>1, <2>2, <3>1 DEF Below
  <2> QED BY <2>3, <2>4, BelowOrders
<1> QED BY <1>6

\* The binding a name means is the one of that name which nothing hides.
LEMMA InnermostIs ==
  ASSUME NEW ss \in Scopes, NEW name, Named(ss, name) # {}
  PROVE  /\ Innermost(ss, name) \in Named(ss, name)
         /\ \A q \in Named(ss, name) \ {Innermost(ss, name)} : Below(q, Innermost(ss, name))
<1>1. Named(ss, name) \in SUBSET Positions(ss)
  BY DEF Named
<1>2. \E p \in Named(ss, name) : \A q \in Named(ss, name) \ {p} : Below(q, p)
  BY <1>1, LatestIs
<1> QED BY <1>2 DEF Innermost, Latest

\* Seen from a position: its name means it or hides it.
LEMMA Hides ==
  ASSUME NEW ss \in Scopes, NEW p \in Positions(ss)
  PROVE  /\ Named(ss, At(ss, p).name) # {}
         /\ (Innermost(ss, At(ss, p).name) # p) <=> Hidden(ss, Len(ss), p)
<1> DEFINE m == Innermost(ss, At(ss, p).name)
<1>1. p \in Named(ss, At(ss, p).name)
  BY DEF Named
<1>2. /\ m \in Positions(ss) /\ At(ss, m).name = At(ss, p).name
      /\ \A q \in Named(ss, At(ss, p).name) \ {m} : Below(q, m)
  BY <1>1, InnermostIs DEF Named
<1> HIDE DEF m
<1>3. Outer(ss, Len(ss)) = Positions(ss)
  BY PositionType DEF Outer
<1>4. ASSUME m # p PROVE Hidden(ss, Len(ss), p)
  BY <1>1, <1>2, <1>3, <1>4 DEF Hidden
<1>5. ASSUME m = p, Hidden(ss, Len(ss), p) PROVE FALSE
  <2>1. PICK q \in Positions(ss) : At(ss, q).name = At(ss, p).name /\ Below(p, q)
    BY <1>3, <1>5 DEF Hidden
  <2>2. q # p
    BY <2>1, BelowOrders
  <2>3. Below(q, p)
    BY <1>2, <1>5, <2>1, <2>2 DEF Named
  <2> QED BY <2>1, <2>3, BelowOrders
<1> QED BY <1>1, <1>4, <1>5 DEF m

-----------------------------------------------------------------------------
(* Marking bindings.                                                       *)

\* Two stacks of scopes hold the same bindings, but for what they say of moves.
SameBindings(ss, tt) ==
  /\ tt \in Scopes /\ Len(tt) = Len(ss) /\ Positions(tt) = Positions(ss)
  /\ \A p \in Positions(ss) :
       /\ At(tt, p).name = At(ss, p).name /\ At(tt, p).kind = At(ss, p).kind
       /\ At(tt, p).id = At(ss, p).id /\ At(tt, p).is = At(ss, p).is
       /\ At(tt, p).depth = At(ss, p).depth

\* SetMoved sets what the names mean and leaves everything else.
LEMMA SetMovedIs ==
  ASSUME NEW ss \in Scopes, NEW state, \A x \in DOMAIN state : state[x] \in BOOLEAN
  PROVE  /\ SameBindings(ss, SetMoved(ss, state))
         /\ \A p \in Positions(ss) :
              At(SetMoved(ss, state), p).moved =
                IF At(ss, p).name \in DOMAIN state /\ Innermost(ss, At(ss, p).name) = p
                THEN state[At(ss, p).name] ELSE At(ss, p).moved
<1> DEFINE Set(b, i, j) ==
             IF b.name \in DOMAIN state /\ Innermost(ss, b.name) = <<i, j>>
             THEN [b EXCEPT !.moved = state[b.name]] ELSE b
           tt == SetMoved(ss, state)
<1>1. tt = [i \in DOMAIN ss |-> [j \in DOMAIN ss[i] |-> Set(ss[i][j], i, j)]]
  BY DEF SetMoved
<1>2. ASSUME NEW b \in Binding, NEW i, NEW j
      PROVE  /\ Set(b, i, j) \in Binding
             /\ Set(b, i, j).name = b.name /\ Set(b, i, j).kind = b.kind
             /\ Set(b, i, j).id = b.id /\ Set(b, i, j).is = b.is /\ Set(b, i, j).depth = b.depth
             /\ Set(b, i, j).moved =
                  IF b.name \in DOMAIN state /\ Innermost(ss, b.name) = <<i, j>>
                  THEN state[b.name] ELSE b.moved
  BY DEF Binding
<1> HIDE DEF Set, tt
<1>3. ASSUME NEW i \in DOMAIN ss
      PROVE  /\ tt[i] = [j \in DOMAIN ss[i] |-> Set(ss[i][j], i, j)]
             /\ tt[i] \in Seq(Binding) /\ DOMAIN tt[i] = DOMAIN ss[i]
  <2>1. ss[i] \in Seq(Binding)
    BY ElementOfSeq DEF Scopes
  <2>2. tt[i] = [j \in DOMAIN ss[i] |-> Set(ss[i][j], i, j)]
    BY <1>1
  <2>3. DOMAIN ss[i] = 1 .. Len(ss[i]) /\ Len(ss[i]) \in Nat
    BY <2>1, LenProperties
  <2>4. \A j \in 1 .. Len(ss[i]) : ss[i][j] \in Binding
    BY <2>1, ElementOfSeq
  <2>5. tt[i] \in [1 .. Len(ss[i]) -> Binding]
    BY <1>2, <2>2, <2>3, <2>4
  <2>6. tt[i] \in Seq(Binding)
    BY <2>3, <2>5, IsASeq
  <2> QED BY <2>2, <2>6
<1>4. tt \in Scopes /\ DOMAIN tt = DOMAIN ss /\ Len(tt) = Len(ss)
  <2>1. DOMAIN ss = 1 .. Len(ss) /\ Len(ss) \in Nat
    BY LenProperties DEF Scopes
  <2>2. tt \in [1 .. Len(ss) -> Seq(Binding)]
    BY <1>1, <1>3, <2>1
  <2>3. DOMAIN tt = 1 .. Len(ss)
    BY <2>2
  <2>4. tt \in Seq(Seq(Binding))
    BY <2>1, <2>2, IsASeq
  <2> QED BY <2>1, <2>3, <2>4, LenProperties DEF Scopes
<1>5. Positions(tt) = Positions(ss)
  BY <1>3, <1>4 DEF Positions
<1>6. ASSUME NEW p \in Positions(ss)
      PROVE  At(tt, p) = Set(At(ss, p), p[1], p[2]) /\ p = <<p[1], p[2]>> /\ At(ss, p) \in Binding
  <2>1. p[1] \in DOMAIN ss /\ p[2] \in DOMAIN ss[p[1]]
    <3>1. PICK i \in DOMAIN ss : \E j \in DOMAIN ss[i] : p = <<i, j>>
      BY DEF Positions
    <3> QED BY <3>1
  <2>2. tt[p[1]][p[2]] = Set(ss[p[1]][p[2]], p[1], p[2])
    BY <1>3, <2>1, ZenonT(40)
  <2> QED BY <2>2, PositionType DEF At
<1> QED BY <1>2, <1>4, <1>5, <1>6 DEF SameBindings, tt

\* The same bindings are found under the same names, and hide each other alike.
LEMMA SameNames ==
  ASSUME NEW ss \in Scopes, NEW tt, SameBindings(ss, tt)
  PROVE  /\ \A x : Named(tt, x) = Named(ss, x) /\ Innermost(tt, x) = Innermost(ss, x)
         /\ Owning(tt) = Owning(ss)
         /\ \A i : Outer(tt, i) = Outer(ss, i)
         /\ \A i : \A p \in Positions(ss) : Hidden(tt, i, p) <=> Hidden(ss, i, p)
<1>1. \A x : Named(tt, x) = Named(ss, x)
  BY DEF SameBindings, Named
<1>2. \A i : Outer(tt, i) = Outer(ss, i)
  BY DEF SameBindings, Outer
<1>3. \A i : Outer(ss, i) \subseteq Positions(ss)
  BY DEF Outer
<1> QED BY <1>1, <1>2, <1>3 DEF SameBindings, Innermost, Owning, Hidden

\* The first i scopes are the same to a branch that began in them.
Agree(ss, tt, i) ==
  /\ Outer(tt, i) = Outer(ss, i)
  /\ \A p \in Outer(ss, i) :
       /\ At(tt, p).name = At(ss, p).name /\ At(tt, p).kind = At(ss, p).kind
       /\ At(tt, p).id = At(ss, p).id
       /\ Hidden(ss, i, p) => At(tt, p).moved = At(ss, p).moved

\* Marking what a name means changes no binding that is hidden.
LEMMA SetMovedAgrees ==
  ASSUME NEW ss \in Scopes, NEW state, \A x \in DOMAIN state : state[x] \in BOOLEAN,
         NEW i \in Nat
  PROVE  Agree(ss, SetMoved(ss, state), i)
<1>1. /\ SameBindings(ss, SetMoved(ss, state))
      /\ \A p \in Positions(ss) :
              At(SetMoved(ss, state), p).moved =
                IF At(ss, p).name \in DOMAIN state /\ Innermost(ss, At(ss, p).name) = p
                THEN state[At(ss, p).name] ELSE At(ss, p).moved
  BY SetMovedIs
<1>2. Outer(SetMoved(ss, state), i) = Outer(ss, i) /\ Outer(ss, i) \subseteq Positions(ss)
  BY <1>1, SameNames DEF Outer
<1>3. ASSUME NEW p \in Outer(ss, i), Hidden(ss, i, p)
      PROVE  Innermost(ss, At(ss, p).name) # p
  <2>1. Hidden(ss, Len(ss), p)
    BY <1>2, <1>3, PositionType DEF Hidden, Outer
  <2> QED BY <1>2, <2>1, Hides
<1> QED BY <1>1, <1>2, <1>3 DEF Agree, SameBindings

\* What hides what in the first i scopes is the same.
LEMMA AgreeHidden ==
  ASSUME NEW ss, NEW tt, NEW i, Agree(ss, tt, i)
  PROVE  /\ Owning(tt) \cap Outer(tt, i) = Owning(ss) \cap Outer(ss, i)
         /\ \A p \in Outer(ss, i) : Hidden(tt, i, p) <=> Hidden(ss, i, p)
<1>1. /\ Outer(tt, i) = Outer(ss, i)
      /\ \A p \in Outer(ss, i) : At(tt, p).name = At(ss, p).name /\ At(tt, p).kind = At(ss, p).kind
  BY DEF Agree
<1>2. Owning(tt) \cap Outer(tt, i) = Owning(ss) \cap Outer(ss, i)
  BY <1>1 DEF Owning, Outer
<1>3. ASSUME NEW p \in Outer(ss, i) PROVE Hidden(tt, i, p) <=> Hidden(ss, i, p)
  BY <1>1 DEF Hidden
<1> QED BY <1>2, <1>3

\* A snapshot of scopes that agree is one of these scopes.
LEMMA AgreePictures ==
  ASSUME NEW ss, NEW tt, NEW i, Agree(ss, tt, i), NEW s, Pictures(s, ss, i)
  PROVE  Pictures(s, tt, i)
<1>1. ASSUME NEW e \in s PROVE e.at \in Outer(ss, i)
  BY DEF Pictures
<1>2. ASSUME NEW e \in s
      PROVE  e.name = At(tt, e.at).name /\ (Hidden(tt, i, e.at) => e.moved = At(tt, e.at).moved)
  BY <1>1, AgreeHidden DEF Pictures, Agree
<1>3. {e.at : e \in s} = Owning(tt) \cap Outer(tt, i)
  BY AgreeHidden DEF Pictures
<1> QED BY <1>2, <1>3 DEF Pictures

\* And so is an open branch.
LEMMA AgreeBranch ==
  ASSUME NEW ss, NEW tt, NEW i, Agree(ss, tt, i), NEW f, NEW g, NEW g2, g \subseteq g2,
         Branch(f, ss, i, g)
  PROVE  Branch(f, tt, i, g2)
<1>1. Pictures(f.base, tt, i) /\ \A k \in DOMAIN f.snaps : Pictures(f.snaps[k], tt, i)
  BY AgreePictures DEF Branch
<1>2. ASSUME NEW s, NEW mv, Covers(s, ss, i, mv) PROVE Covers(s, tt, i, mv)
  BY <1>2 DEF Covers, Agree
<1>3. ASSUME NEW s, NEW mv, Pictures(s, ss, i), Within(s, ss, mv) PROVE Within(s, tt, mv)
  <2>1. \A e \in s : e.at \in Outer(ss, i)
    BY <1>3 DEF Pictures
  <2> QED BY <1>3, <2>1 DEF Within, Agree
<1>4. {"infer", "assign", "unwalked"} \cap g2 = {} =>
        /\ Covers(f.base, tt, i, f.before)
        /\ Covers(UNION {f.snaps[k] : k \in DOMAIN f.snaps}, tt, i, f.after)
  BY <1>2 DEF Branch
<1>5. {"shadow", "lend"} \cap g2 = {} =>
        Within(f.base, tt, f.before) /\ \A k \in DOMAIN f.snaps : Within(f.snaps[k], tt, f.after)
  BY <1>3 DEF Branch
<1> QED BY <1>1, <1>4, <1>5 DEF Branch

\* Scopes that agree one by one agree.
LEMMA PrefixAgrees ==
  ASSUME NEW ss \in Scopes, NEW tt \in Scopes, NEW i \in Nat, i <= Len(ss), i <= Len(tt),
         \A k \in 1 .. i : tt[k] = ss[k]
  PROVE  Agree(ss, tt, i)
<1>1. DOMAIN ss = 1 .. Len(ss) /\ DOMAIN tt = 1 .. Len(tt) /\ Len(ss) \in Nat /\ Len(tt) \in Nat
  BY LenProperties DEF Scopes
<1>2. ASSUME NEW p \in Outer(ss, i) PROVE p \in Outer(tt, i) /\ At(tt, p) = At(ss, p)
  <2>1. PICK k \in DOMAIN ss : \E j \in DOMAIN ss[k] : p = <<k, j>>
    BY DEF Outer, Positions
  <2>2. k \in 1 .. i
    BY <1>1, <2>1 DEF Outer
  <2>3. k \in DOMAIN tt /\ tt[k] = ss[k]
    BY <1>1, <2>2
  <2> QED BY <2>1, <2>2, <2>3 DEF Outer, Positions, At
<1>3. ASSUME NEW p \in Outer(tt, i) PROVE p \in Outer(ss, i)
  <2>1. PICK k \in DOMAIN tt : \E j \in DOMAIN tt[k] : p = <<k, j>>
    BY DEF Outer, Positions
  <2>2. k \in 1 .. i
    BY <1>1, <2>1 DEF Outer
  <2>3. k \in DOMAIN ss /\ tt[k] = ss[k]
    BY <1>1, <2>2
  <2> QED BY <2>1, <2>2, <2>3 DEF Outer, Positions
<1> QED BY <1>2, <1>3 DEF Agree

\* To agree is transitive.
LEMMA AgreeAgain ==
  ASSUME NEW ss, NEW tt, NEW uu, NEW i, Agree(ss, tt, i), Agree(tt, uu, i)
  PROVE  Agree(ss, uu, i)
<1>1. \A p \in Outer(ss, i) : Hidden(tt, i, p) <=> Hidden(ss, i, p)
  BY AgreeHidden
<1> QED BY <1>1 DEF Agree

-----------------------------------------------------------------------------
(* Snapshots.                                                              *)

\* What snapshot_moves takes is a snapshot of all scopes, and says of a variable
\* what its binding says.
LEMMA SnapshotPictures ==
  ASSUME NEW ss \in Scopes
  PROVE  /\ Pictures(Snapshot(ss), ss, Len(ss))
         /\ Snapshot(ss) \in Saved
         /\ \A mv : Remembering(ss, mv) => Covers(Snapshot(ss), ss, Len(ss), mv)
         /\ \A mv : Inventing(ss, mv) => Within(Snapshot(ss), ss, mv)
<1>1. Outer(ss, Len(ss)) = Positions(ss)
  BY PositionType DEF Outer
<1>2. \A e \in Snapshot(ss) :
        /\ e.at \in Owning(ss) /\ e.name = At(ss, e.at).name /\ e.moved = At(ss, e.at).moved
        /\ e = Entry(e.at, At(ss, e.at))
  BY DEF Snapshot, Entry
<1>3. \A p \in Owning(ss) :
        Entry(p, At(ss, p)) \in Snapshot(ss) /\ Entry(p, At(ss, p)).at = p
        /\ Entry(p, At(ss, p)).moved = At(ss, p).moved
  BY DEF Snapshot, Entry
<1>4. Owning(ss) \subseteq Positions(ss)
  BY DEF Owning
<1>5. {e.at : e \in Snapshot(ss)} = Owning(ss)
  BY <1>2, <1>3
<1>6. Pictures(Snapshot(ss), ss, Len(ss))
  BY <1>1, <1>2, <1>4, <1>5 DEF Pictures
<1>7. Snapshot(ss) \in Saved
  <2> SUFFICES ASSUME NEW p \in Owning(ss)
               PROVE  Entry(p, At(ss, p)) \in [at : Nat \X Nat, name : Names, moved : BOOLEAN]
    BY DEF Snapshot, Saved
  <2>1. p = <<p[1], p[2]>> /\ p[1] \in Nat /\ p[2] \in Nat /\ At(ss, p) \in Binding
    BY <1>4, PositionType
  <2>2. p \in Nat \X Nat
    BY <2>1
  <2> QED BY <2>1, <2>2 DEF Entry, Binding
<1>8. ASSUME NEW mv, Remembering(ss, mv) PROVE Covers(Snapshot(ss), ss, Len(ss), mv)
  BY <1>1, <1>3, <1>8 DEF Remembering, Covers, Owning
<1>9. ASSUME NEW mv, Inventing(ss, mv) PROVE Within(Snapshot(ss), ss, mv)
  BY <1>2, <1>4, <1>9 DEF Inventing, Within, Owning
<1> QED BY <1>6, <1>7, <1>8, <1>9

\* The last entry of a name is there, and that of a binding which is not hidden is
\* the last of its name.
LEMMA LastEntryIs ==
  ASSUME NEW ss \in Scopes, NEW s, Pictures(s, ss, Len(ss))
  PROVE  /\ \A x \in {e.name : e \in s} : LastEntry(s, x) \in s
         /\ \A e \in s : Innermost(ss, e.name) = e.at => LastEntry(s, e.name) = e
<1>1. \A e \in s : e.at \in Positions(ss) /\ e.at \in Named(ss, e.name)
  BY DEF Pictures, Owning, Named
<1>2. ASSUME NEW x \in {e.name : e \in s}
      PROVE  \E e \in s : e.name = x /\ \A o \in s \ {e} : o.name = x => Below(o.at, e.at)
  <2> DEFINE T == {e.at : e \in {o \in s : o.name = x}}
  <2>1. T \in SUBSET Positions(ss) /\ T # {}
    BY <1>1
  <2>2. PICK p \in T : \A q \in T \ {p} : Below(q, p)
    <3> HIDE DEF T
    <3> QED BY <2>1, LatestIs
  <2>3. PICK e \in s : e.name = x /\ e.at = p
    OBVIOUS
  <2>4. \A o \in s \ {e} : o.name = x => o.at \in T \ {p}
    BY <2>3 DEF Pictures
  <2> QED BY <2>2, <2>3, <2>4
<1>3. \A x \in {e.name : e \in s} :
        /\ LastEntry(s, x) \in s /\ LastEntry(s, x).name = x
        /\ \A o \in s \ {LastEntry(s, x)} : o.name = x => Below(o.at, LastEntry(s, x).at)
  BY <1>2 DEF LastEntry
<1>4. ASSUME NEW e \in s, Innermost(ss, e.name) = e.at, LastEntry(s, e.name) # e PROVE FALSE
  <2> DEFINE l == LastEntry(s, e.name)
  <2>1. l \in s /\ l.name = e.name /\ Below(e.at, l.at)
    BY <1>3, <1>4
  <2> HIDE DEF l
  <2>2. l.at \in Named(ss, e.name) /\ l.at # e.at
    <3>1. ~Below(e.at, e.at)
      BY <1>1, BelowOrders
    <3> QED BY <1>1, <2>1, <3>1
  <2>3. Below(l.at, e.at)
    BY <1>1, <1>4, <2>2, InnermostIs
  <2> QED BY <1>1, <2>1, <2>3, BelowOrders
<1> QED BY <1>3, <1>4

\* mark_moved marks what the names mean, if it is an own binding.
LEMMA Marked ==
  ASSUME NEW ss \in Scopes, NEW names
  PROVE  /\ SameBindings(ss, MarkMoved(ss, names))
         /\ \A i \in Nat : Agree(ss, MarkMoved(ss, names), i)
         /\ \A p \in Positions(ss) :
              At(MarkMoved(ss, names), p).moved =
                IF /\ At(ss, p).name \in names /\ At(ss, p).kind = "own"
                   /\ Innermost(ss, At(ss, p).name) = p
                THEN TRUE ELSE At(ss, p).moved
<1> DEFINE state == [x \in {y \in names : Named(ss, y) # {} /\ Lookup(ss, y).kind = "own"} |-> TRUE]
<1>1. MarkMoved(ss, names) = SetMoved(ss, state)
  BY DEF MarkMoved
<1>2. \A x \in DOMAIN state : state[x] = TRUE
  OBVIOUS
<1>3. \A p \in Positions(ss) : Innermost(ss, At(ss, p).name) = p =>
        (At(ss, p).name \in DOMAIN state <=> At(ss, p).name \in names /\ At(ss, p).kind = "own")
  BY Hides DEF Lookup
<1> HIDE DEF state
<1>4. \A x \in DOMAIN state : state[x] \in BOOLEAN
  BY <1>2
<1>5. /\ SameBindings(ss, SetMoved(ss, state))
      /\ \A p \in Positions(ss) :
              At(SetMoved(ss, state), p).moved =
                IF At(ss, p).name \in DOMAIN state /\ Innermost(ss, At(ss, p).name) = p
                THEN state[At(ss, p).name] ELSE At(ss, p).moved
  BY <1>4, SetMovedIs
<1>6. \A i \in Nat : Agree(ss, SetMoved(ss, state), i)
  BY <1>4, SetMovedAgrees
<1>7. ASSUME NEW p \in Positions(ss)
      PROVE  At(SetMoved(ss, state), p).moved =
                IF /\ At(ss, p).name \in names /\ At(ss, p).kind = "own"
                   /\ Innermost(ss, At(ss, p).name) = p
                THEN TRUE ELSE At(ss, p).moved
  BY <1>2, <1>3, <1>5
<1> QED BY <1>1, <1>5, <1>6, <1>7

\* restore_snapshot puts every own binding back to what its entry says.
LEMMA Restored ==
  ASSUME NEW ss \in Scopes, NEW s \in Saved, Pictures(s, ss, Len(ss))
  PROVE  /\ SameBindings(ss, Restore(ss, s))
         /\ \A i \in Nat : Agree(ss, Restore(ss, s), i)
         /\ \A e \in s : At(Restore(ss, s), e.at).moved = e.moved
<1> DEFINE state == [x \in {e.name : e \in s} |-> LastEntry(s, x).moved]
<1>1. Restore(ss, s) = SetMoved(ss, state)
  BY DEF Restore
<1>2. \A x \in DOMAIN state : state[x] \in BOOLEAN
  <2>1. \A x \in {e.name : e \in s} : LastEntry(s, x) \in s
    BY LastEntryIs
  <2>2. \A e \in s : e.moved \in BOOLEAN
    BY DEF Saved
  <2> QED BY <2>1, <2>2
<1>3. \A e \in s : e.name \in DOMAIN state /\ (Innermost(ss, e.name) = e.at => state[e.name] = e.moved)
  BY LastEntryIs
<1> HIDE DEF state
<1>4. /\ SameBindings(ss, SetMoved(ss, state))
      /\ \A p \in Positions(ss) :
              At(SetMoved(ss, state), p).moved =
                IF At(ss, p).name \in DOMAIN state /\ Innermost(ss, At(ss, p).name) = p
                THEN state[At(ss, p).name] ELSE At(ss, p).moved
  BY <1>2, SetMovedIs
<1>5. \A i \in Nat : Agree(ss, SetMoved(ss, state), i)
  BY <1>2, SetMovedAgrees
<1>6. ASSUME NEW e \in s PROVE At(SetMoved(ss, state), e.at).moved = e.moved
  <2>1. /\ e.at \in Positions(ss) /\ e.name = At(ss, e.at).name
        /\ Hidden(ss, Len(ss), e.at) => e.moved = At(ss, e.at).moved
    BY DEF Pictures, Owning
  <2>2. Innermost(ss, e.name) # e.at => e.moved = At(ss, e.at).moved
    BY <2>1, Hides
  <2> QED BY <1>3, <1>4, <2>1, <2>2
<1> QED BY <1>1, <1>4, <1>5, <1>6

-----------------------------------------------------------------------------
(* What the bindings say is true.                                          *)

\* The parts of the truth that do not speak of moves.
LEMMA SameTruth ==
  ASSUME NEW ss \in Scopes, NEW tt, SameBindings(ss, tt), NEW mv, NEW n, NEW g, Truth(ss, mv, n, g)
  PROVE  /\ Variables(tt, n)
         /\ "infer" \notin g => \A p \in Positions(tt) : At(tt, p).kind = At(tt, p).is
         /\ {"shadow", "lend"} \cap g = {} => \A p, q \in Positions(tt) : At(tt, p).name = At(tt, q).name => p = q
<1>1. Variables(tt, n)
  BY DEF Truth, Variables, SameBindings
<1>2. "infer" \notin g => \A p \in Positions(tt) : At(tt, p).kind = At(tt, p).is
  BY DEF Truth, SameBindings
<1>3. {"shadow", "lend"} \cap g = {} => \A p, q \in Positions(tt) : At(tt, p).name = At(tt, q).name => p = q
  BY DEF Truth, Inventing, SameBindings
<1> QED BY <1>1, <1>2, <1>3

\* An arm starts with what was true when its branch began.
LEMMA RestoreTruth ==
  ASSUME NEW ss \in Scopes, NEW mv, NEW n, NEW g, Truth(ss, mv, n, g),
         NEW f, Branch(f, ss, Len(ss), g), f.base \in Saved
  PROVE  Truth(Restore(ss, f.base), f.before, n, g)
<1> DEFINE tt == Restore(ss, f.base)
<1>1. Pictures(f.base, ss, Len(ss))
  BY DEF Branch
<1>2. SameBindings(ss, tt) /\ \A e \in f.base : At(tt, e.at).moved = e.moved
  BY <1>1, Restored
<1> HIDE DEF tt
<1>3. Positions(tt) = Positions(ss) /\ Outer(ss, Len(ss)) = Positions(ss)
  BY <1>2, PositionType DEF SameBindings, Outer
<1>4. {e.at : e \in f.base} = Owning(ss) /\ Owning(ss) \subseteq Positions(ss)
  BY <1>1, <1>3 DEF Pictures, Owning
<1>5. ASSUME {"infer", "assign", "unwalked"} \cap g = {} PROVE Remembering(tt, f.before)
  <2> SUFFICES ASSUME NEW p \in Positions(ss), At(ss, p).id \in f.before
               PROVE  At(ss, p).kind = "own" /\ At(tt, p).moved
    BY <1>2, <1>3 DEF Remembering, SameBindings
  <2>1. PICK e \in f.base : e.at = p /\ e.moved
    BY <1>3, <1>5 DEF Branch, Covers
  <2> QED BY <1>2, <1>4, <2>1 DEF Owning
<1>6. ASSUME {"shadow", "lend"} \cap g = {},
             NEW p \in Positions(ss), At(ss, p).kind = "own", At(tt, p).moved
      PROVE  At(ss, p).id \in f.before
  <2>1. PICK e \in f.base : e.at = p
    BY <1>4, <1>6 DEF Owning
  <2> QED BY <1>2, <1>6, <2>1 DEF Branch, Within
<1>7. {"shadow", "lend"} \cap g = {} => Inventing(tt, f.before)
  BY <1>2, <1>3, <1>6, SameTruth DEF Inventing, SameBindings
<1> QED BY <1>2, <1>5, <1>7, SameTruth DEF Truth, tt

\* After a branch is moved what was moved when some arm ended.
LEMMA JoinTruth ==
  ASSUME NEW ss \in Scopes, NEW mv, NEW n, NEW g, Truth(ss, mv, n, g),
         NEW f, Branch(f, ss, Len(ss), g), f.base \in Saved, f.snaps # <<>>
  PROVE  Truth(Join(ss, f.base, f.snaps), f.after, n, g)
<1> DEFINE rr == Restore(ss, f.base)
           names == UNION {MovedIn(f.snaps[k]) : k \in DOMAIN f.snaps}
           tt == MarkMoved(rr, names)
<1>1. Pictures(f.base, ss, Len(ss)) /\ \A k \in DOMAIN f.snaps : Pictures(f.snaps[k], ss, Len(ss))
  BY DEF Branch
<1>2. SameBindings(ss, rr) /\ \A e \in f.base : At(rr, e.at).moved = e.moved
  BY <1>1, Restored
<1>3. Join(ss, f.base, f.snaps) = tt
  BY DEF Join
<1> HIDE DEF rr
<1>4. rr \in Scopes
  BY <1>2 DEF SameBindings
<1>5. /\ \A k \in DOMAIN f.snaps : \A e \in f.snaps[k] : e.moved => e.name \in names
      /\ \A x \in names : \E k \in DOMAIN f.snaps : \E e \in f.snaps[k] : e.name = x /\ e.moved
  BY DEF MovedIn
<1> HIDE DEF names
<1>6. /\ SameBindings(rr, tt)
      /\ \A p \in Positions(rr) :
              At(tt, p).moved =
                IF /\ At(rr, p).name \in names /\ At(rr, p).kind = "own"
                   /\ Innermost(rr, At(rr, p).name) = p
                THEN TRUE ELSE At(rr, p).moved
  BY <1>4, Marked
<1> HIDE DEF tt
<1>7. SameBindings(ss, tt)
  BY <1>2, <1>6 DEF SameBindings
<1>8. /\ Positions(tt) = Positions(ss) /\ Outer(ss, Len(ss)) = Positions(ss)
      /\ \A x : Innermost(rr, x) = Innermost(ss, x)
  BY <1>2, <1>7, SameNames, PositionType DEF SameBindings, Outer
<1>9. \A p \in Positions(ss) :
        At(tt, p).moved =
           IF /\ At(ss, p).name \in names /\ At(ss, p).kind = "own"
              /\ Innermost(ss, At(ss, p).name) = p
           THEN TRUE ELSE At(rr, p).moved
  <2> SUFFICES ASSUME NEW p \in Positions(ss)
               PROVE  At(tt, p).moved =
                        IF /\ At(ss, p).name \in names /\ At(ss, p).kind = "own"
                           /\ Innermost(ss, At(ss, p).name) = p
                        THEN TRUE ELSE At(rr, p).moved
    OBVIOUS
  <2>1. p \in Positions(rr) /\ At(rr, p).name = At(ss, p).name /\ At(rr, p).kind = At(ss, p).kind
    BY <1>2 DEF SameBindings
  <2>2. Innermost(rr, At(ss, p).name) = Innermost(ss, At(ss, p).name)
    BY <1>8
  <2> QED BY <1>6, <2>1, <2>2
<1>10. /\ {e.at : e \in f.base} = Owning(ss) /\ Owning(ss) \subseteq Positions(ss)
       /\ \A k \in DOMAIN f.snaps : {e.at : e \in f.snaps[k]} = Owning(ss)
  BY <1>1, <1>8 DEF Pictures, Owning
<1>11. ASSUME {"infer", "assign", "unwalked"} \cap g = {} PROVE Remembering(tt, f.after)
  <2> SUFFICES ASSUME NEW p \in Positions(ss), At(ss, p).id \in f.after
               PROVE  At(ss, p).kind = "own" /\ At(tt, p).moved
    BY <1>7, <1>8 DEF Remembering, SameBindings
  <2>1. PICK k \in DOMAIN f.snaps : \E e \in f.snaps[k] : e.at = p /\ e.moved
    BY <1>8, <1>11 DEF Branch, Covers
  <2>2. PICK e \in f.snaps[k] : e.at = p /\ e.moved
    BY <2>1
  <2>3. At(ss, p).kind = "own" /\ e.name = At(ss, p).name /\ e.name \in names
    BY <1>1, <1>5, <1>10, <2>2 DEF Owning, Pictures
  <2>4. CASE Innermost(ss, At(ss, p).name) = p
    BY <1>9, <2>3, <2>4
  <2>5. CASE Innermost(ss, At(ss, p).name) # p
    <3>1. Hidden(ss, Len(ss), p)
      BY <2>5, Hides
    <3>2. At(ss, p).moved
      BY <1>1, <2>2, <3>1 DEF Pictures
    <3>3. PICK o \in f.base : o.at = p
      BY <1>10, <2>3 DEF Owning
    <3>4. At(rr, p).moved
      BY <1>1, <1>2, <3>1, <3>2, <3>3 DEF Pictures
    <3> QED BY <1>9, <2>3, <2>5, <3>4
  <2> QED BY <2>4, <2>5
<1>12. ASSUME {"shadow", "lend"} \cap g = {},
              NEW p \in Positions(ss), At(ss, p).kind = "own", At(tt, p).moved
       PROVE  At(ss, p).id \in f.after
  <2>1. CASE At(ss, p).name \in names
    <3>1. PICK k \in DOMAIN f.snaps : \E e \in f.snaps[k] : e.name = At(ss, p).name /\ e.moved
      BY <1>5, <2>1
    <3>2. PICK e \in f.snaps[k] : e.name = At(ss, p).name /\ e.moved
      BY <3>1
    <3>3. e.at \in Positions(ss) /\ At(ss, e.at).name = At(ss, p).name
      BY <1>1, <1>10, <3>2 DEF Pictures
    <3>4. e.at = p
      BY <1>12, <3>3 DEF Truth, Inventing
    <3> QED BY <1>12, <3>2, <3>4 DEF Branch, Within
  <2>2. CASE At(ss, p).name \notin names
    <3>1. At(rr, p).moved
      BY <1>9, <1>12, <2>2
    <3>2. PICK e \in f.base : e.at = p
      BY <1>10, <1>12 DEF Owning
    <3>3. At(ss, p).id \in f.before
      BY <1>2, <1>12, <3>1, <3>2 DEF Branch, Within
    <3> QED BY <3>3 DEF Branch
  <2> QED BY <2>1, <2>2
<1>13. {"shadow", "lend"} \cap g = {} => Inventing(tt, f.after)
  BY <1>7, <1>8, <1>12, SameTruth DEF Inventing, SameBindings
<1> QED BY <1>3, <1>7, <1>11, <1>13, SameTruth DEF Truth

\* Passing or handing on what a name means.
LEMMA MarkTruth ==
  ASSUME NEW ss \in Scopes, NEW mv, NEW n, NEW g, Truth(ss, mv, n, g),
         NEW x, Named(ss, x) # {}
  PROVE  Truth(MarkMoved(ss, {x}),
               IF Lookup(ss, x).is = "own" THEN mv \cup {Lookup(ss, x).id} ELSE mv, n, g)
<1> DEFINE tt == MarkMoved(ss, {x})
           m == Innermost(ss, x)
           mv2 == IF At(ss, m).is = "own" THEN mv \cup {At(ss, m).id} ELSE mv
<1>1. m \in Positions(ss) /\ At(ss, m).name = x
  BY InnermostIs DEF Named
<1>2. /\ SameBindings(ss, tt)
      /\ \A p \in Positions(ss) :
              At(tt, p).moved =
                IF /\ At(ss, p).name \in {x} /\ At(ss, p).kind = "own"
                   /\ Innermost(ss, At(ss, p).name) = p
                THEN TRUE ELSE At(ss, p).moved
  BY Marked
<1> HIDE DEF tt
<1>3. \A p \in Positions(ss) :
        At(tt, p).moved = IF p = m /\ At(ss, p).kind = "own" THEN TRUE ELSE At(ss, p).moved
  <2> SUFFICES ASSUME NEW p \in Positions(ss)
               PROVE  At(tt, p).moved = IF p = m /\ At(ss, p).kind = "own" THEN TRUE ELSE At(ss, p).moved
    OBVIOUS
  <2>1. At(ss, p).name \in {x} /\ Innermost(ss, At(ss, p).name) = p <=> p = m
    BY <1>1
  <2> QED BY <1>2, <2>1
<1>4. Lookup(ss, x) = At(ss, m)
  BY DEF Lookup
<1> HIDE DEF m
<1>5. Positions(tt) = Positions(ss)
  BY <1>2 DEF SameBindings
<1>6. ASSUME {"infer", "assign", "unwalked"} \cap g = {} PROVE Remembering(tt, mv2)
  <2> SUFFICES ASSUME NEW p \in Positions(ss), At(ss, p).id \in mv2
               PROVE  At(ss, p).kind = "own" /\ At(tt, p).moved
    BY <1>2, <1>5 DEF Remembering, SameBindings
  <2>1. CASE At(ss, p).id \in mv
    BY <1>3, <1>6, <2>1 DEF Truth, Remembering
  <2>2. CASE At(ss, p).id \notin mv
    <3>1. At(ss, p).id = At(ss, m).id /\ At(ss, m).is = "own"
      BY <2>2
    <3>2. p = m
      BY <1>1, <3>1 DEF Truth, Variables
    <3>3. At(ss, p).kind = "own"
      BY <1>6, <3>1, <3>2 DEF Truth
    <3> QED BY <1>3, <3>2, <3>3
  <2> QED BY <2>1, <2>2
<1>7. ASSUME {"shadow", "lend"} \cap g = {},
             NEW p \in Positions(ss), At(ss, p).kind = "own", At(tt, p).moved
      PROVE  At(ss, p).id \in mv2
  <2>1. CASE p = m
    BY <1>7, <2>1 DEF Truth, Variables
  <2>2. CASE p # m
    BY <1>3, <1>7, <2>2 DEF Truth, Inventing
  <2> QED BY <2>1, <2>2
<1>8. {"shadow", "lend"} \cap g = {} => Inventing(tt, mv2)
  BY <1>2, <1>5, <1>7, SameTruth DEF Inventing, SameBindings
<1>9. Truth(tt, mv2, n, g)
  BY <1>2, <1>6, <1>8, SameTruth DEF Truth
<1> QED BY <1>4, <1>9 DEF tt

\* More gaps leave less to be true.
LEMMA GapTruth ==
  ASSUME NEW ss, NEW mv, NEW mv2, NEW n, NEW g, NEW g2, Truth(ss, mv, n, g), g \subseteq g2,
         mv = mv2 \/ ({"assign", "unwalked"} \cap g2 # {} /\ mv \subseteq mv2)
  PROVE  Truth(ss, mv2, n, g2)
<1>1. {"infer", "assign", "unwalked"} \cap g2 = {} => Remembering(ss, mv2)
  BY DEF Truth
<1>2. {"shadow", "lend"} \cap g2 = {} => Inventing(ss, mv2)
  BY DEF Truth, Inventing
<1> QED BY <1>1, <1>2 DEF Truth

\* tt are the scopes ss with new bindings, whose variables have the numbers from n
\* and below m.
Extends(ss, tt, new, n, m, g) ==
  /\ Positions(tt) = Positions(ss) \cup new /\ \A p \in Positions(ss) : At(tt, p) = At(ss, p)
  /\ \A p \in new : /\ At(tt, p).id \in n .. m - 1 /\ ~At(tt, p).moved
                    /\ At(tt, p).kind = "own" => At(tt, p).is = "own"
                    /\ "infer" \notin g => At(tt, p).kind = At(tt, p).is
  /\ \A p, q \in new : At(tt, p).id = At(tt, q).id => p = q
  /\ "shadow" \notin g =>
       /\ \A p, q \in new : At(tt, p).name = At(tt, q).name => p = q
       /\ \A p \in new, q \in Positions(ss) : At(tt, p).name # At(ss, q).name

\* Nothing new is known to be moved.
LEMMA ExtendTruth ==
  ASSUME NEW ss \in Scopes, NEW tt, NEW new, NEW mv, NEW n \in Nat, NEW m \in Nat, NEW g, NEW g2,
         Truth(ss, mv, n, g), g \subseteq g2, mv \subseteq 0 .. n - 1, n <= m,
         Extends(ss, tt, new, n, m, g2)
  PROVE  Truth(tt, mv, m, g2)
<1> USE DEF Extends
<1>0. \A p \in Positions(ss) : At(ss, p).id \in Nat
  BY PositionType DEF Binding
<1>1. \A p \in Positions(ss) : At(tt, p).id \in 0 .. n - 1
  BY <1>0 DEF Truth, Variables
<1>2. \A p \in new : At(tt, p).id \notin mv /\ At(tt, p).id \notin 0 .. n - 1
  OBVIOUS
<1>3. Variables(tt, m)
  <2>1. \A p \in Positions(tt) : At(tt, p).id < m
    BY <1>1
  <2>2. \A p \in Positions(tt) : At(tt, p).kind = "own" => At(tt, p).is = "own"
    BY DEF Truth, Variables
  <2>3. ASSUME NEW p \in Positions(tt), NEW q \in Positions(tt), At(tt, p).id = At(tt, q).id
        PROVE  p = q
    <3>1. p \in Positions(ss) /\ q \in Positions(ss) => p = q
      BY <2>3 DEF Truth, Variables
    <3> QED BY <1>1, <1>2, <2>3, <3>1
  <2> QED BY <2>1, <2>2, <2>3 DEF Variables
<1>4. "infer" \notin g2 => \A p \in Positions(tt) : At(tt, p).kind = At(tt, p).is
  BY DEF Truth
<1>5. {"infer", "assign", "unwalked"} \cap g2 = {} => Remembering(tt, mv)
  BY <1>2 DEF Truth, Remembering
<1>6. ASSUME {"shadow", "lend"} \cap g2 = {} PROVE Inventing(tt, mv)
  <2>1. \A p, q \in Positions(tt) : At(tt, p).name = At(tt, q).name => p = q
    BY <1>6 DEF Truth, Inventing
  <2>2. \A p \in Positions(tt) : At(tt, p).kind = "own" /\ At(tt, p).moved => At(tt, p).id \in mv
    BY <1>6 DEF Truth, Inventing
  <2> QED BY <2>1, <2>2 DEF Inventing
<1> QED BY <1>3, <1>4, <1>5, <1>6 DEF Truth

\* Fewer bindings.
LEMMA ForgetTruth ==
  ASSUME NEW ss, NEW tt, NEW mv, NEW n, NEW g, Truth(ss, mv, n, g),
         Positions(tt) \subseteq Positions(ss), \A p \in Positions(tt) : At(tt, p) = At(ss, p)
  PROVE  Truth(tt, mv, n, g)
<1>1. Variables(tt, n)
  BY DEF Truth, Variables
<1>2. {"infer", "assign", "unwalked"} \cap g = {} => Remembering(tt, mv)
  BY DEF Truth, Remembering
<1>3. {"shadow", "lend"} \cap g = {} => Inventing(tt, mv)
  BY DEF Truth, Inventing
<1> QED BY <1>1, <1>2, <1>3 DEF Truth

-----------------------------------------------------------------------------
(* Opening and closing scopes.                                             *)

\* A new scope on top.
LEMMA PushScope ==
  ASSUME NEW ss \in Scopes, NEW new \in Seq(Binding)
  PROVE  /\ Append(ss, new) \in Scopes /\ Len(Append(ss, new)) = Len(ss) + 1 /\ Len(ss) \in Nat
         /\ Positions(Append(ss, new)) = Positions(ss) \cup {<<Len(ss) + 1, j>> : j \in DOMAIN new}
         /\ \A p \in Positions(ss) : At(Append(ss, new), p) = At(ss, p)
         /\ \A j \in DOMAIN new : At(Append(ss, new), <<Len(ss) + 1, j>>) = new[j]
         /\ \A i \in Nat : i <= Len(ss) => Agree(ss, Append(ss, new), i)
<1> DEFINE tt == Append(ss, new)
<1>1. /\ tt \in Scopes /\ Len(tt) = Len(ss) + 1 /\ Len(ss) \in Nat
      /\ tt[Len(ss) + 1] = new /\ \A i \in 1 .. Len(ss) : tt[i] = ss[i]
      /\ DOMAIN ss = 1 .. Len(ss) /\ DOMAIN tt = 1 .. Len(ss) + 1
  <2>1. ss \in Seq(Seq(Binding))
    BY DEF Scopes
  <2>2. /\ tt \in Seq(Seq(Binding)) /\ Len(tt) = Len(ss) + 1 /\ Len(ss) \in Nat
        /\ tt[Len(ss) + 1] = new /\ \A i \in 1 .. Len(ss) : tt[i] = ss[i]
    BY <2>1, AppendProperties, LenProperties
  <2> QED BY <2>1, <2>2, LenProperties DEF Scopes
<1> HIDE DEF tt
<1>2. ASSUME NEW p \in Positions(ss) PROVE p \in Positions(tt) /\ At(tt, p) = At(ss, p)
  <2>1. PICK i \in DOMAIN ss : \E j \in DOMAIN ss[i] : p = <<i, j>>
    BY DEF Positions
  <2>2. i \in DOMAIN tt /\ tt[i] = ss[i]
    BY <1>1
  <2> QED BY <2>1, <2>2 DEF Positions, At
<1>3. ASSUME NEW j \in DOMAIN new
      PROVE  <<Len(ss) + 1, j>> \in Positions(tt) /\ At(tt, <<Len(ss) + 1, j>>) = new[j]
  <2>1. Len(ss) + 1 \in DOMAIN tt
    BY <1>1
  <2> QED BY <1>1, <2>1 DEF Positions, At
<1>4. ASSUME NEW p \in Positions(tt), p \notin Positions(ss)
      PROVE  p \in {<<Len(ss) + 1, j>> : j \in DOMAIN new}
  <2>1. PICK i \in DOMAIN tt : \E j \in DOMAIN tt[i] : p = <<i, j>>
    BY DEF Positions
  <2>2. PICK j \in DOMAIN tt[i] : p = <<i, j>>
    BY <2>1
  <2>3. i = Len(ss) + 1
    <3> SUFFICES ASSUME i \in DOMAIN ss PROVE FALSE
      BY <1>1
    <3> QED BY <1>1, <1>4, <2>2 DEF Positions
  <2> QED BY <1>1, <2>2, <2>3
<1>5. ASSUME NEW i \in Nat, i <= Len(ss) PROVE Agree(ss, tt, i)
  <2>1. i <= Len(tt) /\ \A k \in 1 .. i : tt[k] = ss[k]
    BY <1>1, <1>5
  <2> QED BY <1>1, <1>5, <2>1, PrefixAgrees
<1> QED BY <1>1, <1>2, <1>3, <1>4, <1>5 DEF tt

\* A new binding in the innermost scope.
Put(ss, b) == [ss EXCEPT ![Len(ss)] = Append(@, b)]

\* It is there, and everything else stays.
LEMMA DefineIn ==
  ASSUME NEW ss \in Scopes, ss # <<>>, NEW b \in Binding, NEW tt, tt = Put(ss, b),
         NEW at, at = <<Len(ss), Len(ss[Len(ss)]) + 1>>
  PROVE  /\ tt \in Scopes /\ Len(tt) = Len(ss) /\ Len(ss) \in Nat /\ Len(ss) >= 1
         /\ Positions(tt) = Positions(ss) \cup {at} /\ at[1] = Len(ss)
         /\ \A p \in Positions(ss) : At(tt, p) = At(ss, p)
         /\ At(tt, at) = b
         /\ \A i \in Nat : i < Len(ss) => Agree(ss, tt, i)
<1> DEFINE n == Len(ss)
           m == Len(ss[n])
<1>1. /\ ss \in Seq(Seq(Binding)) /\ n \in Nat /\ n >= 1 /\ DOMAIN ss = 1 .. n
      /\ ss[n] \in Seq(Binding) /\ m \in Nat /\ DOMAIN ss[n] = 1 .. m
  <2>1. ss \in Seq(Seq(Binding)) /\ n \in Nat /\ n >= 1 /\ DOMAIN ss = 1 .. n
    BY LenProperties, EmptySeq DEF Scopes
  <2>2. ss[n] \in Seq(Binding)
    BY <2>1, ElementOfSeq
  <2> QED BY <2>1, <2>2, LenProperties
<1>2. /\ Append(ss[n], b) \in Seq(Binding) /\ DOMAIN Append(ss[n], b) = 1 .. m + 1
      /\ Append(ss[n], b)[m + 1] = b /\ \A j \in 1 .. m : Append(ss[n], b)[j] = ss[n][j]
  <2>1. /\ Append(ss[n], b) \in Seq(Binding) /\ Len(Append(ss[n], b)) = m + 1
        /\ Append(ss[n], b)[m + 1] = b /\ \A j \in 1 .. m : Append(ss[n], b)[j] = ss[n][j]
    BY <1>1, AppendProperties
  <2> QED BY <2>1, LenProperties
<1> DEFINE new == Append(ss[n], b)
<1>3. tt = [ss EXCEPT ![n] = new]
  BY DEF Put
<1> HIDE DEF new, n
<1>4. /\ tt \in Seq(Seq(Binding)) /\ Len(tt) = n /\ DOMAIN tt = 1 .. n
      /\ tt[n] = new /\ \A i \in 1 .. n : i # n => tt[i] = ss[i]
  <2>1. tt \in Seq(Seq(Binding)) /\ Len(tt) = Len(ss)
    BY <1>1, <1>2, <1>3, ExceptSeq DEF new
  <2>2. DOMAIN tt = 1 .. n /\ tt[n] = new /\ \A i \in 1 .. n : i # n => tt[i] = ss[i]
    BY <1>1, <1>3
  <2> QED BY <2>1, <2>2 DEF n
<1>5. ASSUME NEW p \in Positions(ss) PROVE p \in Positions(tt) /\ At(tt, p) = At(ss, p)
  <2>1. PICK i \in DOMAIN ss : \E j \in DOMAIN ss[i] : p = <<i, j>>
    BY DEF Positions
  <2>2. PICK j \in DOMAIN ss[i] : p = <<i, j>>
    BY <2>1
  <2>3. j \in DOMAIN tt[i] /\ tt[i][j] = ss[i][j]
    <3>1. CASE i = n
      <4>1. j \in 1 .. m /\ tt[i] = new /\ ss[i] = ss[n]
        BY <1>1, <1>4, <2>2, <3>1
      <4>2. j \in 1 .. m + 1
        BY <1>1, <4>1
      <4>3. DOMAIN new = 1 .. m + 1 /\ new[j] = ss[n][j]
        BY <1>2, <4>1 DEF new
      <4> QED BY <4>1, <4>2, <4>3
    <3>2. CASE i # n
      BY <1>1, <1>4, <2>2, <3>2
    <3> QED BY <3>1, <3>2
  <2> QED BY <1>1, <1>4, <2>2, <2>3 DEF Positions, At
<1>6. at = <<n, m + 1>> /\ at \in Positions(tt) /\ At(tt, at) = b
  <2>1. at = <<n, m + 1>>
    BY DEF n
  <2>2. m + 1 \in DOMAIN tt[n] /\ n \in DOMAIN tt /\ tt[n][m + 1] = b
    BY <1>1, <1>2, <1>4 DEF new
  <2> QED BY <2>1, <2>2 DEF Positions, At
<1>7. ASSUME NEW p \in Positions(tt), p \notin Positions(ss) PROVE p = at
  <2>1. PICK i \in DOMAIN tt : \E j \in DOMAIN tt[i] : p = <<i, j>>
    BY DEF Positions
  <2>2. PICK j \in DOMAIN tt[i] : p = <<i, j>>
    BY <2>1
  <2>3. i \in DOMAIN ss /\ j \notin DOMAIN ss[i]
    BY <1>1, <1>4, <1>7, <2>2 DEF Positions
  <2>4. i = n
    BY <1>4, <2>2, <2>3
  <2>5. j = m + 1
    BY <1>1, <1>2, <1>4, <2>2, <2>3, <2>4 DEF new
  <2> QED BY <1>6, <2>2, <2>4, <2>5
<1>8. ASSUME NEW i \in Nat, i < n PROVE Agree(ss, tt, i)
  <2>1. \A k \in 1 .. i : tt[k] = ss[k]
    BY <1>1, <1>4, <1>8
  <2>2. tt \in Scopes /\ i <= Len(ss) /\ i <= Len(tt)
    BY <1>1, <1>4, <1>8 DEF Scopes, n
  <2> QED BY <2>1, <2>2, PrefixAgrees
<1>9. Positions(tt) = Positions(ss) \cup {at}
  BY <1>5, <1>6, <1>7
<1>10. /\ tt \in Scopes /\ Len(tt) = Len(ss) /\ Len(ss) \in Nat /\ Len(ss) >= 1 /\ at[1] = Len(ss)
       /\ \A i \in Nat : i < Len(ss) => Agree(ss, tt, i)
  <2>1. n = Len(ss)
    BY DEF n
  <2>2. at[1] = n
    BY <1>6
  <2>3. tt \in Scopes
    BY <1>4 DEF Scopes
  <2> QED BY <1>1, <1>4, <1>8, <2>1, <2>2, <2>3
<1> QED BY <1>5, <1>6, <1>9, <1>10

\* The innermost scope goes.
LEMMA PopScope ==
  ASSUME NEW ss \in Scopes, ss # <<>>
  PROVE  /\ Front(ss) \in Scopes /\ Len(Front(ss)) = Len(ss) - 1 /\ Len(ss) \in Nat
         /\ Positions(Front(ss)) \subseteq Positions(ss)
         /\ \A p \in Positions(Front(ss)) : At(Front(ss), p) = At(ss, p)
         /\ \A i \in Nat : i < Len(ss) => Agree(ss, Front(ss), i)
<1>1. /\ Front(ss) \in Scopes /\ Len(Front(ss)) = Len(ss) - 1 /\ Len(ss) \in Nat /\ Len(ss) >= 1
      /\ DOMAIN ss = 1 .. Len(ss) /\ DOMAIN Front(ss) = 1 .. Len(ss) - 1
      /\ \A i \in 1 .. Len(ss) - 1 : Front(ss)[i] = ss[i]
  <2>1. ss \in Seq(Seq(Binding)) /\ Len(ss) \in Nat /\ Len(ss) >= 1 /\ DOMAIN ss = 1 .. Len(ss)
    BY LenProperties, EmptySeq DEF Scopes
  <2>2. /\ Front(ss) \in Seq(Seq(Binding)) /\ Len(Front(ss)) = Len(ss) - 1
        /\ \A i \in 1 .. Len(ss) - 1 : Front(ss)[i] = ss[i]
    BY <2>1, FrontElements
  <2> QED BY <2>1, <2>2, LenProperties DEF Scopes
<1>2. ASSUME NEW p \in Positions(Front(ss))
      PROVE  p \in Positions(ss) /\ At(Front(ss), p) = At(ss, p)
  <2>1. PICK i \in DOMAIN Front(ss) : \E j \in DOMAIN Front(ss)[i] : p = <<i, j>>
    BY DEF Positions
  <2>2. i \in DOMAIN ss /\ Front(ss)[i] = ss[i]
    BY <1>1, <2>1
  <2> QED BY <2>1, <2>2 DEF Positions, At
<1>3. ASSUME NEW i \in Nat, i < Len(ss) PROVE Agree(ss, Front(ss), i)
  <2>1. i <= Len(ss) /\ i <= Len(Front(ss)) /\ \A k \in 1 .. i : Front(ss)[k] = ss[k]
    BY <1>1, <1>3
  <2> QED BY <1>1, <2>1, PrefixAgrees
<1> QED BY <1>1, <1>2, <1>3

-----------------------------------------------------------------------------
(* Frames.                                                                 *)

\* The same frames, but for what loops have seen.
SameFrames(fs, gs) ==
  /\ gs \in Seq(Frame) /\ Len(gs) = Len(fs)
  /\ \A i \in DOMAIN fs : gs[i].kind = fs[i].kind /\ (fs[i].kind # "loop" => gs[i] = fs[i])

\* Every loop may have seen one variable more.
LEMMA SeenFrames ==
  ASSUME NEW fs \in Seq(Frame), NEW id \in Nat
  PROVE  SameFrames(fs, Seen(fs, id))
<1> DEFINE Next1(f) == IF f.kind = "loop" THEN [f EXCEPT !.used = @ \cup {id}] ELSE f
           gs == Seen(fs, id)
<1>1. gs = [i \in DOMAIN fs |-> Next1(fs[i])] /\ DOMAIN fs = 1 .. Len(fs) /\ Len(fs) \in Nat
  BY LenProperties DEF Seen
<1>2. ASSUME NEW f \in Frame
      PROVE  Next1(f) \in Frame /\ Next1(f).kind = f.kind /\ (f.kind # "loop" => Next1(f) = f)
  <2>1. CASE f.kind = "loop"
    <3>1. f \in [kind : {"loop"}, first : Nat, before : SUBSET Nat, used : SUBSET Nat]
      BY <2>1 DEF Frame
    <3>2. /\ Next1(f) \in [kind : {"loop"}, first : Nat, before : SUBSET Nat, used : SUBSET Nat]
          /\ Next1(f).kind = "loop"
      BY <2>1, <3>1
    <3> QED BY <2>1, <3>2 DEF Frame
  <2>2. CASE f.kind # "loop"
    BY <2>2
  <2> QED BY <2>1, <2>2
<1> HIDE DEF Next1
<1>3. \A i \in 1 .. Len(fs) : fs[i] \in Frame
  BY ElementOfSeq
<1>4. gs \in [1 .. Len(fs) -> Frame]
  BY <1>1, <1>2, <1>3
<1>5. gs \in Seq(Frame) /\ Len(gs) = Len(fs)
  BY <1>1, <1>4, IsASeq
<1> QED BY <1>1, <1>2, <1>3, <1>5 DEF SameFrames

\* What a frame of a branch is.
LEMMA BranchFrame ==
  ASSUME NEW fs \in Seq(Frame), NEW i \in Branches(fs)
  PROVE  /\ i \in 1 .. Len(fs) /\ Len(fs) \in Nat /\ i \in Nat
         /\ fs[i] \in [kind : {"branch"}, base : Saved, snaps : Seq(Saved), arms : Nat,
                       before : SUBSET Nat, after : SUBSET Nat]
<1>1. i \in 1 .. Len(fs) /\ fs[i] \in Frame /\ fs[i].kind = "branch" /\ Len(fs) \in Nat
  BY ElementOfSeq, LenProperties DEF Branches
<1> QED BY <1>1 DEF Frame

\* The open branches, when what lies under them agrees.
LEMMA KeepOpen ==
  ASSUME NEW fs \in Seq(Frame), NEW ss, NEW mv, NEW n \in Nat, NEW g, Open(fs, ss, mv, n, g),
         NEW gs, NEW tt, NEW mv2, NEW m \in Nat, NEW g2,
         Len(gs) <= Len(fs), gs \in Seq(Frame), \A i \in 1 .. Len(gs) :
            gs[i].kind = fs[i].kind /\ (fs[i].kind # "loop" => gs[i] = fs[i]),
         \A i \in Branches(gs) : Agree(ss, tt, i) /\ gs[i].before \subseteq mv2,
         n <= m, g \subseteq g2
  PROVE  Open(gs, tt, mv2, m, g2)
<1>1. DOMAIN gs = 1 .. Len(gs) /\ DOMAIN fs = 1 .. Len(fs) /\ Len(gs) \in Nat /\ Len(fs) \in Nat
  BY LenProperties
<1>2. \A i \in Branches(gs) : i \in Branches(fs) /\ gs[i] = fs[i]
  BY <1>1 DEF Branches
<1>3. ASSUME NEW i \in Branches(gs)
      PROVE  Branch(gs[i], tt, i, g2) /\ gs[i].before \subseteq mv2 /\ gs[i].after \subseteq 0 .. m - 1
  <2>1. Branch(fs[i], ss, i, g) /\ fs[i].after \subseteq 0 .. n - 1 /\ gs[i] = fs[i]
    BY <1>2 DEF Open
  <2>2. Branch(fs[i], tt, i, g2)
    BY <2>1, AgreeBranch
  <2> QED BY <2>1, <2>2
<1>4. \A i, j \in Branches(gs) : i < j => gs[i].before \subseteq gs[j].before
  BY <1>2 DEF Open
<1>5. \A i \in DOMAIN gs : gs[i].kind = "loop" => "loop" \in g2
  BY <1>1 DEF Open
<1> QED BY <1>3, <1>4, <1>5 DEF Open

-----------------------------------------------------------------------------
(* Statements.                                                             *)

DepthOK(ss) == \A p \in Positions(ss) : At(ss, p).depth = p[1] - 1

Inv == TypeOK /\ EscapeShape

\* A name in view is the name of a binding.
LEMMA Seeing ==
  ASSUME scopes \in Scopes
  PROVE  /\ \A x \in Visible : /\ Named(scopes, x) # {} /\ Innermost(scopes, x) \in Positions(scopes)
                               /\ Lookup(scopes, x) = At(scopes, Innermost(scopes, x))
                               /\ Lookup(scopes, x) \in Binding /\ x \in Names
         /\ \A p \in Positions(scopes) : At(scopes, p).name \in Visible
<1>1. DOMAIN scopes = 1 .. Len(scopes) /\ \A i \in DOMAIN scopes : scopes[i] \in Seq(Binding)
  BY ElementOfSeq, LenProperties DEF Scopes
<1>2. ASSUME NEW x \in Visible
      PROVE  /\ Named(scopes, x) # {} /\ Innermost(scopes, x) \in Positions(scopes)
             /\ Lookup(scopes, x) = At(scopes, Innermost(scopes, x))
             /\ Lookup(scopes, x) \in Binding /\ x \in Names
  <2>1. PICK i \in DOMAIN scopes : \E b \in ToSet(scopes[i]) : b.name = x
    BY DEF Visible
  <2>2. PICK j \in DOMAIN scopes[i] : scopes[i][j].name = x
    BY <2>1 DEF ToSet
  <2>3. <<i, j>> \in Positions(scopes) /\ At(scopes, <<i, j>>).name = x
    BY <2>2, PositionOf
  <2>4. Named(scopes, x) # {}
    BY <2>3 DEF Named
  <2>5. Innermost(scopes, x) \in Positions(scopes) /\ At(scopes, Innermost(scopes, x)).name = x
    BY <2>4, InnermostIs DEF Named
  <2>6. At(scopes, Innermost(scopes, x)) \in Binding
    BY <2>5, PositionType
  <2> QED BY <2>4, <2>5, <2>6 DEF Lookup, Binding
<1>3. ASSUME NEW p \in Positions(scopes) PROVE At(scopes, p).name \in Visible
  <2>1. PICK i \in DOMAIN scopes : \E j \in DOMAIN scopes[i] : p = <<i, j>>
    BY DEF Positions
  <2>2. PICK j \in DOMAIN scopes[i] : p = <<i, j>>
    BY <2>1
  <2>3. scopes[i][j] \in ToSet(scopes[i])
    BY <2>2 DEF ToSet
  <2> QED BY <2>2, <2>3 DEF Visible, At
<1> QED BY <1>2, <1>3

\* Inside a block, a loop or an arm, all open branches are below the two innermost
\* scopes.
LEMMA InsideBlock ==
  ASSUME Inv, InBlock
  PROVE  /\ frames \in Seq(Frame) /\ Len(frames) \in Nat /\ Len(frames) >= 1 /\ frames # <<>>
         /\ Top = frames[Len(frames)] /\ DOMAIN frames = 1 .. Len(frames) /\ phase = "walking"
         /\ scopes \in Scopes /\ scopes # <<>> /\ DepthOK(scopes)
         /\ Len(scopes) = Len(frames) + 1 /\ Len(scopes) \in Nat
         /\ \A i \in Branches(frames) : i \in Nat /\ i < Len(frames)
         /\ Nesting(frames, scopes) /\ Truth(scopes, moved, next_id, gaps)
         /\ Open(frames, scopes, moved, next_id, gaps) /\ Verdict
         /\ next_id \in Nat /\ moved \subseteq 0 .. next_id - 1
<1>1. /\ frames \in Seq(Frame) /\ frames # <<>> /\ phase = "walking" /\ scopes \in Scopes
      /\ Nesting(frames, scopes) /\ Truth(scopes, moved, next_id, gaps) /\ DepthOK(scopes)
      /\ Open(frames, scopes, moved, next_id, gaps) /\ Verdict
      /\ next_id \in Nat /\ moved \subseteq 0 .. next_id - 1
  BY DEF Inv, TypeOK, EscapeShape, InBlock, Nesting, Scopes, DepthOK
<1>2. Len(frames) \in Nat /\ Len(frames) >= 1 /\ DOMAIN frames = 1 .. Len(frames)
  BY <1>1, EmptySeq, LenProperties
<1>3. Top = frames[Len(frames)]
  BY <1>1, FrontElements DEF Top
<1>4. Top.kind # "branch"
  BY DEF InBlock
<1>5. Len(scopes) = Len(frames) + 1
  BY <1>1, <1>3, <1>4 DEF Nesting
<1>6. \A i \in Branches(frames) : i \in Nat /\ i < Len(frames)
  BY <1>2, <1>3, <1>4 DEF Branches
<1>7. scopes # <<>> /\ Len(scopes) \in Nat
  BY <1>1, <1>2, <1>5, EmptySeq, LenProperties DEF Scopes
<1> QED BY <1>1, <1>2, <1>3, <1>5, <1>6, <1>7

\* A statement that opens no construct.
LEMMA Stays ==
  ASSUME Inv, InBlock, gaps \subseteq gaps', gaps' \subseteq Gap, fuel' \in Nat,
         UNCHANGED phase, SameFrames(frames, frames'),
         scopes' \in Scopes, DepthOK(scopes'), Len(scopes') = Len(scopes),
         \A i \in Nat : i < Len(scopes) => Agree(scopes, scopes', i),
         next_id' \in Nat, next_id <= next_id', moved \subseteq moved', moved' \subseteq 0 .. next_id' - 1,
         Truth(scopes', moved', next_id', gaps'),
         Verdict', errors' \subseteq Code, faults' \subseteq Code
  PROVE  Inv'
<1>1. /\ frames \in Seq(Frame) /\ Len(frames) \in Nat /\ Len(frames) >= 1
      /\ DOMAIN frames = 1 .. Len(frames) /\ phase = "walking" /\ Len(scopes) = Len(frames) + 1
      /\ \A i \in Branches(frames) : i \in Nat /\ i < Len(frames)
      /\ Nesting(frames, scopes) /\ Open(frames, scopes, moved, next_id, gaps) /\ next_id \in Nat
  BY InsideBlock
<1>2. /\ frames' \in Seq(Frame) /\ Len(frames') = Len(frames) /\ DOMAIN frames' = 1 .. Len(frames)
      /\ \A i \in 1 .. Len(frames) :
           frames'[i].kind = frames[i].kind /\ (frames[i].kind # "loop" => frames'[i] = frames[i])
  BY <1>1, LenProperties DEF SameFrames
<1>3. TypeOK'
  BY <1>2 DEF Inv, TypeOK, Scopes, DepthOK
<1>4. Nesting(frames', scopes')
  <2>1. frames' # <<>> /\ frames'[1].kind = "block"
    <3>1. frames' # <<>>
      BY <1>1, <1>2, EmptySeq
    <3>2. 1 \in 1 .. Len(frames)
      BY <1>1
    <3>3. frames'[1].kind = frames[1].kind
      BY <1>2, <3>2
    <3> QED BY <1>1, <3>1, <3>3 DEF Nesting
  <2>2. ASSUME NEW i \in 1 .. Len(frames) - 1
        PROVE  frames'[i].kind = "branch" <=> frames'[i + 1].kind = "arm"
    <3>1. i \in 1 .. Len(frames) /\ i + 1 \in 1 .. Len(frames)
      BY <1>1
    <3>2. frames'[i].kind = frames[i].kind /\ frames'[i + 1].kind = frames[i + 1].kind
      BY <1>2, <3>1
    <3> QED BY <1>1, <3>2 DEF Nesting
  <2>3. frames'[Len(frames')].kind = frames[Len(frames)].kind
    BY <1>1, <1>2
  <2> QED BY <1>1, <1>2, <2>1, <2>2, <2>3, ZenonT(40) DEF Nesting
<1>5. \A i \in Branches(frames') : i \in Branches(frames) /\ frames'[i] = frames[i]
  BY <1>1, <1>2 DEF Branches
<1>6. ASSUME NEW i \in Branches(frames')
      PROVE  Agree(scopes, scopes', i) /\ frames'[i].before \subseteq moved'
  <2>1. i \in Nat /\ i < Len(scopes)
    BY <1>1, <1>5
  <2>2. frames'[i].before \subseteq moved
    BY <1>1, <1>5 DEF Open
  <2> QED BY <2>1, <2>2
<1>7. Open(frames', scopes', moved', next_id', gaps')
  BY <1>1, <1>2, <1>6, KeepOpen
<1> QED BY <1>3, <1>4, <1>7 DEF Inv, EscapeShape

\* A use is reported exactly if the variable may have been moved.
LEMMA AskUseVerdict ==
  ASSUME Inv, InBlock, NEW x \in Visible, AskUse(x), gaps \subseteq gaps'
  PROVE  Verdict' /\ errors' \subseteq Code /\ faults' \subseteq Code
<1> DEFINE p == Innermost(scopes, x)
<1>1. /\ Truth(scopes, moved, next_id, gaps) /\ Verdict /\ scopes \in Scopes
      /\ errors \subseteq Code /\ faults \subseteq Code
  BY InsideBlock DEF Inv, TypeOK
<1>2. p \in Positions(scopes) /\ Lookup(scopes, x) = At(scopes, p)
  BY <1>1, Seeing
<1> HIDE DEF p
<1>3. /\ errors' = errors \cup {c \in {"E5001"} : At(scopes, p).kind = "own" /\ At(scopes, p).moved}
      /\ faults' = faults \cup {c \in {"E5001"} : At(scopes, p).id \in moved}
  BY <1>2 DEF AskUse, Codes, UseReported
<1>4. {"infer", "assign", "unwalked"} \cap gaps = {} /\ At(scopes, p).id \in moved =>
        At(scopes, p).kind = "own" /\ At(scopes, p).moved
  BY <1>1, <1>2 DEF Truth, Remembering
<1>5. {"shadow", "lend"} \cap gaps = {} /\ At(scopes, p).kind = "own" /\ At(scopes, p).moved =>
        At(scopes, p).id \in moved
  BY <1>1, <1>2 DEF Truth, Inventing
<1>6. {"infer", "assign", "loop", "unwalked"} \cap gaps' = {} /\ "E5001" \in faults' => "E5001" \in errors'
  BY <1>1, <1>3, <1>4 DEF Verdict
<1>7. {"shadow", "lend"} \cap gaps' = {} /\ "E5001" \in errors' => "E5001" \in faults'
  BY <1>1, <1>3, <1>5 DEF Verdict
<1>8. {"infer", "value", "unwalked"} \cap gaps' = {} => faults' \cap {"E5002", "E5003"} \subseteq errors'
  BY <1>1, <1>3 DEF Verdict
<1>9. errors' \subseteq Code /\ faults' \subseteq Code
  BY <1>1, <1>3 DEF Code
<1> QED BY <1>6, <1>7, <1>8, <1>9 DEF Verdict

\* A borrow that leaves the function is reported, if the checker looks at it.
LEMMA AskEscapeVerdict ==
  ASSUME Inv, InBlock, NEW x \in Visible, NEW code \in {"E5002", "E5003"},
         NEW walked \in BOOLEAN, NEW looked \in BOOLEAN,
         AskEscape(code, x, walked, looked), gaps \subseteq gaps',
         walked \/ "unwalked" \in gaps', looked \/ {"value", "unwalked"} \cap gaps' # {}
  PROVE  Verdict' /\ errors' \subseteq Code /\ faults' \subseteq Code
<1> DEFINE p == Innermost(scopes, x)
<1>1. /\ Truth(scopes, moved, next_id, gaps) /\ Verdict /\ scopes \in Scopes /\ DepthOK(scopes)
      /\ errors \subseteq Code /\ faults \subseteq Code
  BY InsideBlock DEF Inv, TypeOK
<1>2. p \in Positions(scopes) /\ Lookup(scopes, x) = At(scopes, p)
  BY <1>1, Seeing
<1>3. /\ errors' = errors
           \cup {c \in {"E5001"} : walked /\ At(scopes, p).kind = "own" /\ At(scopes, p).moved}
           \cup Codes(code, looked /\ At(scopes, p).kind = "borrow" /\ At(scopes, p).depth > 0)
      /\ faults' = faults \cup {c \in {"E5001"} : At(scopes, p).id \in moved}
           \cup Codes(code, At(scopes, p).is = "borrow" /\ p[1] > 1)
  BY <1>2 DEF AskEscape, LocalBorrow, UseReported, Codes
<1> HIDE DEF p
<1>4. p[1] > 1 => At(scopes, p).depth > 0
  BY <1>1, <1>2, PositionType DEF DepthOK
<1>5. "infer" \notin gaps => At(scopes, p).kind = At(scopes, p).is
  BY <1>1, <1>2 DEF Truth
<1>6. {"infer", "assign", "unwalked"} \cap gaps = {} /\ At(scopes, p).id \in moved =>
         At(scopes, p).kind = "own" /\ At(scopes, p).moved
  BY <1>1, <1>2 DEF Truth, Remembering
<1>7. {"shadow", "lend"} \cap gaps = {} /\ At(scopes, p).kind = "own" /\ At(scopes, p).moved =>
         At(scopes, p).id \in moved
  BY <1>1, <1>2 DEF Truth, Inventing
<1>8. {"infer", "assign", "loop", "unwalked"} \cap gaps' = {} /\ "E5001" \in faults' => "E5001" \in errors'
  BY <1>1, <1>3, <1>6 DEF Verdict, Codes
<1>9. {"shadow", "lend"} \cap gaps' = {} /\ "E5001" \in errors' => "E5001" \in faults'
  BY <1>1, <1>3, <1>7 DEF Verdict, Codes
<1>10. {"infer", "value", "unwalked"} \cap gaps' = {} => faults' \cap {"E5002", "E5003"} \subseteq errors'
  <2> SUFFICES ASSUME {"infer", "value", "unwalked"} \cap gaps' = {}
               PROVE  faults' \cap {"E5002", "E5003"} \subseteq errors'
    OBVIOUS
  <2>1. looked /\ "infer" \notin gaps /\ {"infer", "value", "unwalked"} \cap gaps = {}
    OBVIOUS
  <2>2. faults \cap {"E5002", "E5003"} \subseteq errors
    BY <1>1, <2>1 DEF Verdict
  <2>3. Codes(code, At(scopes, p).is = "borrow" /\ p[1] > 1) \subseteq
          Codes(code, looked /\ At(scopes, p).kind = "borrow" /\ At(scopes, p).depth > 0)
    BY <1>4, <1>5, <2>1 DEF Codes
  <2>4. faults' \cap {"E5002", "E5003"} \subseteq
          (faults \cap {"E5002", "E5003"}) \cup Codes(code, At(scopes, p).is = "borrow" /\ p[1] > 1)
    BY <1>3 DEF Codes
  <2> QED BY <1>3, <2>2, <2>3, <2>4
<1>11. errors' \subseteq Code /\ faults' \subseteq Code
  BY <1>1, <1>3 DEF Code, Codes
<1> QED BY <1>8, <1>9, <1>10, <1>11 DEF Verdict

\* What the walk does not enter is not reported, which is a gap.
LEMMA UnwalkedVerdict ==
  ASSUME Inv, InBlock, NEW x \in Visible, NEW taken \in BOOLEAN, Unwalked(x, taken),
         gaps' = gaps \cup {"unwalked"}
  PROVE  Verdict' /\ errors' \subseteq Code /\ faults' \subseteq Code
<1>1. Verdict /\ errors \subseteq Code /\ faults \subseteq Code
  BY InsideBlock DEF Inv, TypeOK
<1>2. UNCHANGED errors /\ faults \subseteq faults' /\ faults' \subseteq faults \cup {"E5001"}
  BY DEF Unwalked, Codes
<1> QED BY <1>1, <1>2 DEF Verdict, Code

\* With more gaps less is asked.
LEMMA SameVerdict ==
  ASSUME Verdict, gaps \subseteq gaps', UNCHANGED <<errors, faults>>
  PROVE  Verdict'
BY DEF Verdict

\* What each construct does to the gaps and the fuel.
LEMMA Gaps ==
  ASSUME TypeOK, NEW gap \in SUBSET Gap, Construct(gap)
  PROVE  InBlock /\ gaps' = gaps \cup gap /\ gaps' \subseteq Gap /\ fuel' \in Nat
BY DEF TypeOK, Construct

\* The frames as they were.
LEMMA FramesStay ==
  ASSUME frames \in Seq(Frame), UNCHANGED frames
  PROVE  SameFrames(frames, frames')
BY DEF SameFrames

\* Scopes as they were agree with themselves.
LEMMA AgreeSelf ==
  ASSUME NEW ss \in Scopes, NEW i \in Nat, i <= Len(ss)
  PROVE  Agree(ss, ss, i)
BY PrefixAgrees

\* The depth of a binding does not change with what it says.
LEMMA SameDepth ==
  ASSUME NEW ss \in Scopes, NEW tt, SameBindings(ss, tt), DepthOK(ss)
  PROVE  DepthOK(tt)
BY DEF SameBindings, DepthOK

\* One more variable that there is.
LEMMA OneMore ==
  ASSUME NEW n \in Nat, NEW mv \in SUBSET (0 .. n - 1), NEW id \in Nat, id < n
  PROVE  mv \cup {id} \subseteq 0 .. n - 1
<1>1. id \in 0 .. n - 1
  OBVIOUS
<1> QED BY <1>1

\* What is moved when a value is handed over is a variable that there is.
LEMMA AfterMoveIs ==
  ASSUME Inv, InBlock, NEW x \in Visible
  PROVE  moved \subseteq AfterMove(Lookup(scopes, x)) /\ AfterMove(Lookup(scopes, x)) \subseteq 0 .. next_id - 1
<1> DEFINE b == Lookup(scopes, x)
<1>1. /\ scopes \in Scopes /\ Truth(scopes, moved, next_id, gaps) /\ next_id \in Nat
      /\ moved \subseteq 0 .. next_id - 1
  BY InsideBlock
<1>2. b \in Binding /\ Innermost(scopes, x) \in Positions(scopes) /\ b = At(scopes, Innermost(scopes, x))
  BY <1>1, Seeing
<1>3. b.id \in Nat /\ b.id < next_id
  BY <1>1, <1>2 DEF Binding, Truth, Variables
<1>4. moved \cup {b.id} \subseteq 0 .. next_id - 1
  BY <1>1, <1>3, OneMore
<1> QED BY <1>1, <1>4 DEF AfterMove

\* A read asks, and every loop around it sees the variable.
LEMMA UseKeeps ==
  ASSUME Inv, NEW x \in Visible, Use(x)
  PROVE  Inv'
<1>1. InBlock /\ gaps' = gaps \cup {} /\ gaps' \subseteq Gap /\ fuel' \in Nat
  <2>1. Construct({})
    BY DEF Use, Statement
  <2> QED BY <2>1, Gaps DEF Inv
<1>2. /\ AskUse(x) /\ frames' = Seen(frames, Lookup(scopes, x).id)
      /\ UNCHANGED <<scopes, phase, next_id, moved>>
  BY DEF Use
<1>3. /\ scopes \in Scopes /\ frames \in Seq(Frame) /\ DepthOK(scopes) /\ Len(scopes) \in Nat
      /\ Truth(scopes, moved, next_id, gaps) /\ next_id \in Nat /\ moved \subseteq 0 .. next_id - 1
  BY <1>1, InsideBlock
<1>4. SameFrames(frames, frames')
  BY <1>2, <1>3, Seeing, SeenFrames DEF Binding
<1>5. Verdict' /\ errors' \subseteq Code /\ faults' \subseteq Code
  BY <1>1, <1>2, AskUseVerdict
<1>6. \A i \in Nat : i < Len(scopes) => Agree(scopes, scopes', i)
  BY <1>2, <1>3, AgreeSelf
<1>7. Truth(scopes', moved', next_id', gaps')
  BY <1>1, <1>2, <1>3
<1>8. gaps \subseteq gaps' /\ moved \subseteq moved' /\ next_id <= next_id' /\ DepthOK(scopes')
      /\ Len(scopes') = Len(scopes) /\ moved' \subseteq 0 .. next_id' - 1 /\ UNCHANGED phase
      /\ next_id' \in Nat /\ scopes' \in Scopes
  BY <1>1, <1>2, <1>3
<1> QED BY <1>1, <1>4, <1>5, <1>6, <1>7, <1>8, Stays

\* Bindings that say more is moved than what was: the calls that only lend.
LEMMA LendTruth ==
  ASSUME NEW ss, NEW mv, NEW mv2, NEW n, NEW g, NEW g2, Truth(ss, mv, n, g), g \subseteq g2,
         mv2 \subseteq mv, "lend" \in g2
  PROVE  Truth(ss, mv2, n, g2)
<1>1. {"infer", "assign", "unwalked"} \cap g2 = {} => Remembering(ss, mv2)
  BY DEF Truth, Remembering
<1> QED BY <1>1 DEF Truth

\* A statement that leaves the scopes alone; what it moves without a mark is a gap.
LEMMA HandsOver ==
  ASSUME Inv, InBlock, NEW x \in Visible, gaps \subseteq gaps', gaps' \subseteq Gap, fuel' \in Nat,
         frames' = Seen(frames, Lookup(scopes, x).id), UNCHANGED <<scopes, phase, next_id>>,
         moved \subseteq moved', moved' \subseteq 0 .. next_id - 1,
         moved' = moved \/ {"assign", "unwalked"} \cap gaps' # {},
         Verdict', errors' \subseteq Code, faults' \subseteq Code
  PROVE  Inv'
<1>1. /\ scopes \in Scopes /\ frames \in Seq(Frame) /\ DepthOK(scopes) /\ Len(scopes) \in Nat
      /\ Truth(scopes, moved, next_id, gaps) /\ next_id \in Nat
  BY InsideBlock
<1>2. SameFrames(frames, frames')
  BY <1>1, Seeing, SeenFrames DEF Binding
<1>3. \A i \in Nat : i < Len(scopes) => Agree(scopes, scopes', i)
  BY <1>1, AgreeSelf
<1>4. Truth(scopes', moved', next_id', gaps')
  <2>1. Truth(scopes, moved', next_id, gaps')
    BY <1>1, GapTruth
  <2> QED BY <2>1
<1>5. /\ next_id <= next_id' /\ DepthOK(scopes') /\ Len(scopes') = Len(scopes)
      /\ moved' \subseteq 0 .. next_id' - 1 /\ UNCHANGED phase /\ next_id' \in Nat /\ scopes' \in Scopes
  BY <1>1
<1> QED BY <1>2, <1>3, <1>4, <1>5, Stays

\* A call with an own pointer also marks it, where the name's binding is; a call that
\* only lends it is a gap.
LEMMA CallKeeps ==
  ASSUME Inv, NEW x \in Visible, NEW taken \in BOOLEAN, Call(x, taken)
  PROVE  Inv'
<1> DEFINE b == Lookup(scopes, x)
           tt == MarkMoved(scopes, {x})
           mv == AfterMove(b)
           gap == IF taken THEN {} ELSE {"lend"}
<1>1. InBlock /\ gaps' = gaps \cup gap /\ gaps' \subseteq Gap /\ fuel' \in Nat
  <2>1. Construct(gap) /\ gap \in SUBSET Gap
    BY DEF Call, Gap
  <2> QED BY <2>1, Gaps DEF Inv
<1>2. /\ AskUse(x) /\ frames' = Seen(frames, b.id)
      /\ scopes' = tt /\ UNCHANGED <<phase, next_id>>
      /\ moved' = IF taken THEN mv ELSE moved
  BY DEF Call
<1>3. /\ scopes \in Scopes /\ frames \in Seq(Frame) /\ DepthOK(scopes) /\ Len(scopes) \in Nat
      /\ Truth(scopes, moved, next_id, gaps) /\ next_id \in Nat /\ moved \subseteq 0 .. next_id - 1
  BY <1>1, InsideBlock
<1>4. /\ Named(scopes, x) # {} /\ b \in Binding
      /\ Innermost(scopes, x) \in Positions(scopes) /\ b = At(scopes, Innermost(scopes, x))
  BY <1>3, Seeing
<1>5. SameFrames(frames, frames')
  BY <1>2, <1>3, <1>4, SeenFrames DEF Binding
<1>6. Verdict' /\ errors' \subseteq Code /\ faults' \subseteq Code
  BY <1>1, <1>2, AskUseVerdict
<1>7. Truth(tt, mv, next_id, gaps)
  BY <1>3, <1>4, MarkTruth DEF AfterMove
<1>8. SameBindings(scopes, tt) /\ \A i \in Nat : Agree(scopes, tt, i)
  BY <1>3, Marked
<1>9. mv \subseteq 0 .. next_id - 1 /\ moved \subseteq mv
  BY <1>1, AfterMoveIs
<1> HIDE DEF b, tt, mv
<1>10. Truth(tt, moved', next_id, gaps')
  <2>1. CASE taken
    BY <1>1, <1>2, <1>7, <2>1
  <2>2. CASE ~taken
    BY <1>1, <1>2, <1>7, <1>9, <2>2, LendTruth
  <2> QED BY <2>1, <2>2
<1>11. /\ gaps \subseteq gaps' /\ moved \subseteq moved' /\ next_id <= next_id' /\ next_id' \in Nat
       /\ moved' \subseteq 0 .. next_id' - 1 /\ UNCHANGED phase
  BY <1>1, <1>2, <1>3, <1>9
<1>12. scopes' \in Scopes /\ DepthOK(scopes') /\ Len(scopes') = Len(scopes)
  BY <1>2, <1>3, <1>8, SameDepth DEF SameBindings
<1>13. Truth(scopes', moved', next_id', gaps') /\ \A i \in Nat : i < Len(scopes) => Agree(scopes, scopes', i)
  BY <1>2, <1>8, <1>10
<1> QED BY <1>1, <1>5, <1>6, <1>11, <1>12, <1>13, Stays

\* An expression that the walk does not enter moves without a mark, which is a gap.
LEMMA UnwalkedKeeps ==
  ASSUME Inv, NEW x \in Visible, NEW taken \in BOOLEAN, Unwalked(x, taken)
  PROVE  Inv'
<1> DEFINE b == Lookup(scopes, x)
<1>1. InBlock /\ gaps' = gaps \cup {"unwalked"} /\ gaps' \subseteq Gap /\ fuel' \in Nat
  <2>1. Construct({"unwalked"}) /\ {"unwalked"} \in SUBSET Gap
    BY DEF Unwalked, Gap
  <2> QED BY <2>1, Gaps DEF Inv
<1>2. /\ frames' = Seen(frames, b.id) /\ UNCHANGED <<scopes, phase, next_id>>
      /\ moved' = IF taken THEN AfterMove(b) ELSE moved
  BY DEF Unwalked
<1>3. Verdict' /\ errors' \subseteq Code /\ faults' \subseteq Code
  BY <1>1, UnwalkedVerdict
<1>4. moved \subseteq moved' /\ moved' \subseteq 0 .. next_id - 1
  BY <1>1, <1>2, InsideBlock, AfterMoveIs
<1> QED BY <1>1, <1>2, <1>3, <1>4, HandsOver

\* An assignment moves what it reads without a mark, which is a gap.
LEMMA AssignKeeps ==
  ASSUME Inv, NEW z \in Visible, NEW x \in Visible, Assign(z, x)
  PROVE  Inv'
<1> DEFINE b == Lookup(scopes, x)
<1>1. InBlock /\ gaps' = gaps \cup {"assign"} /\ gaps' \subseteq Gap /\ fuel' \in Nat
  <2>1. Construct({"assign"}) /\ {"assign"} \in SUBSET Gap
    BY DEF Assign, Gap
  <2> QED BY <2>1, Gaps DEF Inv
<1>2. /\ AskUse(x) /\ frames' = Seen(Seen(frames, b.id), Lookup(scopes, z).id)
      /\ moved' = AfterMove(b)
      /\ UNCHANGED <<scopes, phase, next_id>>
  BY DEF Assign
<1>3. /\ scopes \in Scopes /\ frames \in Seq(Frame) /\ DepthOK(scopes) /\ Len(scopes) \in Nat
      /\ Truth(scopes, moved, next_id, gaps) /\ next_id \in Nat /\ moved \subseteq 0 .. next_id - 1
  BY <1>1, InsideBlock
<1>4. /\ b \in Binding /\ Innermost(scopes, x) \in Positions(scopes)
      /\ b = At(scopes, Innermost(scopes, x)) /\ Lookup(scopes, z) \in Binding
  BY <1>3, Seeing
<1>5. SameFrames(frames, frames')
  <2> DEFINE fs == Seen(frames, b.id)
  <2>1. SameFrames(frames, fs)
    BY <1>3, <1>4, SeenFrames DEF Binding
  <2> HIDE DEF fs
  <2>2. SameFrames(fs, Seen(fs, Lookup(scopes, z).id))
    BY <1>4, <2>1, SeenFrames DEF Binding, SameFrames
  <2>3. frames' = Seen(fs, Lookup(scopes, z).id) /\ DOMAIN fs = DOMAIN frames
    BY <1>2, <1>3, <2>1, LenProperties DEF fs, SameFrames
  <2> QED BY <2>1, <2>2, <2>3 DEF SameFrames
<1>6. Verdict' /\ errors' \subseteq Code /\ faults' \subseteq Code
  BY <1>1, <1>2, AskUseVerdict
<1>7. moved \subseteq moved' /\ moved' \subseteq 0 .. next_id - 1
  BY <1>1, <1>2, AfterMoveIs
<1> HIDE DEF b
<1>8. Truth(scopes', moved', next_id', gaps')
  <2>1. Truth(scopes, moved', next_id, gaps')
    BY <1>1, <1>3, <1>7, GapTruth
  <2> QED BY <1>2, <2>1
<1>9. \A i \in Nat : i < Len(scopes) => Agree(scopes, scopes', i)
  BY <1>2, <1>3, AgreeSelf
<1>10. gaps \subseteq gaps' /\ next_id <= next_id' /\ DepthOK(scopes') /\ next_id' \in Nat
       /\ Len(scopes') = Len(scopes) /\ moved' \subseteq 0 .. next_id' - 1 /\ scopes' \in Scopes
       /\ UNCHANGED phase
  BY <1>1, <1>2, <1>3, <1>7
<1> QED BY <1>1, <1>5, <1>6, <1>7, <1>8, <1>9, <1>10, Stays

\* What may leave the function is used; a store hands it over as well.
LEMMA StoreFieldKeeps ==
  ASSUME Inv, NEW x \in Visible, NEW inside \in BOOLEAN, StoreField(x, inside)
  PROVE  Inv'
<1> DEFINE b == Lookup(scopes, x)
           gap == IF ~inside /\ b.is = "own" THEN {"assign"} ELSE Inside(inside)
<1>1. InBlock /\ gaps' = gaps \cup gap /\ gaps' \subseteq Gap /\ fuel' \in Nat
  <2>1. Construct(gap) /\ gap \in SUBSET Gap
    BY DEF StoreField, Gap, Inside
  <2> QED BY <2>1, Gaps DEF Inv
<1>2. /\ AskEscape("E5002", x, ~inside, ~inside) /\ frames' = Seen(frames, b.id)
      /\ moved' = AfterMove(b) /\ UNCHANGED <<scopes, phase, next_id>>
  BY DEF StoreField
<1>3. inside => "unwalked" \in gaps'
  BY <1>1 DEF Inside
<1>4. Verdict' /\ errors' \subseteq Code /\ faults' \subseteq Code
  BY <1>1, <1>2, <1>3, AskEscapeVerdict
<1>5. moved \subseteq moved' /\ moved' \subseteq 0 .. next_id - 1
  BY <1>1, <1>2, AfterMoveIs
<1>6. moved' = moved \/ {"assign", "unwalked"} \cap gaps' # {}
  BY <1>1, <1>2, <1>3 DEF AfterMove
<1> QED BY <1>1, <1>2, <1>4, <1>5, <1>6, HandsOver

LEMMA RetPathKeeps ==
  ASSUME Inv, NEW x \in Visible, NEW inside \in BOOLEAN, RetPath(x, inside)
  PROVE  Inv'
<1>1. InBlock /\ gaps' = gaps \cup ({"ret"} \cup Inside(inside)) /\ gaps' \subseteq Gap /\ fuel' \in Nat
  <2>1. Construct({"ret"} \cup Inside(inside)) /\ {"ret"} \cup Inside(inside) \in SUBSET Gap
    BY DEF RetPath, Gap, Inside
  <2> QED BY <2>1, Gaps DEF Inv
<1>2. /\ AskEscape("E5003", x, ~inside, ~inside) /\ frames' = Seen(frames, Lookup(scopes, x).id)
      /\ UNCHANGED <<scopes, phase, next_id, moved>>
  BY DEF RetPath
<1>3. inside => "unwalked" \in gaps'
  BY <1>1 DEF Inside
<1>4. Verdict' /\ errors' \subseteq Code /\ faults' \subseteq Code
  BY <1>1, <1>2, <1>3, AskEscapeVerdict
<1>5. moved \subseteq 0 .. next_id - 1
  BY <1>1, InsideBlock
<1> QED BY <1>1, <1>2, <1>4, <1>5, HandsOver

\* A new variable in the innermost scope, bound to the name y.
LEMMA Defining ==
  ASSUME NEW ss \in Scopes, ss # <<>>, DepthOK(ss), NEW mv, NEW g, Truth(ss, mv, next_id, g),
         next_id \in Nat, mv \subseteq 0 .. next_id - 1,
         NEW g2, g \subseteq g2, NEW y \in Names, NEW kind \in Kind, NEW is \in Kind,
         kind = "own" => is = "own", "infer" \notin g2 => kind = is,
         "shadow" \notin g2 => \A p \in Positions(ss) : At(ss, p).name # y
  PROVE  LET tt == Define(ss, y, kind, Len(ss) - 1, is)
         IN  /\ Truth(tt, mv, next_id + 1, g2) /\ tt \in Scopes /\ DepthOK(tt) /\ Len(tt) = Len(ss)
             /\ \A i \in Nat : i < Len(ss) => Agree(ss, tt, i)
<1> DEFINE b == [name |-> y, kind |-> kind, moved |-> FALSE, depth |-> Len(ss) - 1,
                 id |-> next_id, is |-> is]
           tt == Define(ss, y, kind, Len(ss) - 1, is)
           at == <<Len(ss), Len(ss[Len(ss)]) + 1>>
<1>1. Len(ss) \in Nat /\ Len(ss) >= 1
  BY EmptySeq, LenProperties DEF Scopes
<1>2. /\ b \in Binding /\ b.id = next_id /\ b.name = y /\ b.kind = kind /\ b.is = is /\ ~b.moved
      /\ b.depth = Len(ss) - 1
  BY <1>1 DEF Binding
<1>3. tt = Put(ss, b)
  BY DEF Define, Put
<1> HIDE DEF b, tt, at
<1>4. /\ tt \in Scopes /\ Len(tt) = Len(ss) /\ Positions(tt) = Positions(ss) \cup {at} /\ at[1] = Len(ss)
      /\ \A p \in Positions(ss) : At(tt, p) = At(ss, p)
      /\ At(tt, at) = b
      /\ \A i \in Nat : i < Len(ss) => Agree(ss, tt, i)
  <2>1. at = <<Len(ss), Len(ss[Len(ss)]) + 1>>
    BY DEF at
  <2> QED BY <1>2, <1>3, <2>1, DefineIn
<1>5. DepthOK(tt)
  BY <1>2, <1>4 DEF DepthOK
<1>6. \A p \in Positions(ss) : At(ss, p).id \in Nat
  BY PositionType DEF Binding
<1>7. Truth(tt, mv, next_id + 1, g2)
  <2> DEFINE new == {at}
             m == next_id + 1
  <2>1. /\ \A p \in new : /\ At(tt, p).id \in next_id .. m - 1 /\ ~At(tt, p).moved
                          /\ At(tt, p).kind = "own" => At(tt, p).is = "own"
                          /\ "infer" \notin g2 => At(tt, p).kind = At(tt, p).is
        /\ \A p, q \in new : At(tt, p).id = At(tt, q).id => p = q
        /\ next_id <= m /\ m \in Nat
    BY <1>2, <1>4
  <2>2. "shadow" \notin g2 =>
           /\ \A p, q \in new : At(tt, p).name = At(tt, q).name => p = q
           /\ \A p \in new, q \in Positions(ss) : At(tt, p).name # At(ss, q).name
    BY <1>2, <1>4
  <2>3. Positions(tt) = Positions(ss) \cup new /\ \A p \in Positions(ss) : At(tt, p) = At(ss, p)
    BY <1>4
  <2> HIDE DEF new, m
  <2>4. Extends(ss, tt, new, next_id, m, g2)
    BY <2>1, <2>2, <2>3 DEF Extends
  <2>5. Truth(tt, mv, m, g2)
    BY <2>1, <2>4, ExtendTruth
  <2> QED BY <2>5 DEF m
<1> QED BY <1>4, <1>5, <1>7 DEF tt

\* A new binding of a value that nothing else has.
LEMMA LetNewKeeps ==
  ASSUME Inv, NEW y \in Declarable, NEW kind \in Kind, LetNew(y, kind)
  PROVE  Inv'
<1> DEFINE tt == Define(scopes, y, kind, Len(scopes) - 1, kind)
<1>1. InBlock /\ gaps' = gaps \cup Shadow(y) /\ gaps' \subseteq Gap /\ fuel' \in Nat
  <2>1. Construct(Shadow(y)) /\ Shadow(y) \in SUBSET Gap
    BY DEF LetNew, Shadow, Gap
  <2> QED BY <2>1, Gaps DEF Inv
<1>2. scopes' = tt /\ next_id' = next_id + 1 /\ UNCHANGED <<frames, phase, moved, errors, faults>>
  BY DEF LetNew, Depth
<1>3. /\ scopes \in Scopes /\ frames \in Seq(Frame) /\ DepthOK(scopes) /\ Len(scopes) \in Nat
      /\ scopes # <<>> /\ Verdict
      /\ Truth(scopes, moved, next_id, gaps) /\ next_id \in Nat /\ moved \subseteq 0 .. next_id - 1
  BY <1>1, InsideBlock
<1>4. "shadow" \notin gaps' => \A p \in Positions(scopes) : At(scopes, p).name # y
  BY <1>1, <1>3, Seeing DEF Shadow
<1>5. y \in Names /\ gaps \subseteq gaps'
  BY <1>1 DEF Declarable
<1>6. /\ Truth(tt, moved, next_id + 1, gaps') /\ tt \in Scopes /\ DepthOK(tt) /\ Len(tt) = Len(scopes)
      /\ \A i \in Nat : i < Len(scopes) => Agree(scopes, tt, i)
  BY <1>3, <1>4, <1>5, Defining
<1> HIDE DEF tt
<1>7. SameFrames(frames, frames')
  BY <1>2, <1>3, FramesStay
<1>8. Verdict' /\ errors' \subseteq Code /\ faults' \subseteq Code
  BY <1>2, <1>3, <1>5, SameVerdict DEF Inv, TypeOK
<1>9. /\ next_id' \in Nat /\ next_id <= next_id' /\ moved \subseteq moved'
      /\ moved' \subseteq 0 .. next_id' - 1 /\ UNCHANGED phase
  BY <1>2, <1>3
<1>10. /\ Truth(scopes', moved', next_id', gaps') /\ scopes' \in Scopes /\ DepthOK(scopes')
       /\ Len(scopes') = Len(scopes) /\ \A i \in Nat : i < Len(scopes) => Agree(scopes, scopes', i)
  BY <1>2, <1>6
<1> QED BY <1>1, <1>5, <1>7, <1>8, <1>9, <1>10, Stays

\* A new binding of what another name had, which is marked.
LEMMA LetFromKeeps ==
  ASSUME Inv, NEW y \in Declarable, NEW x \in Visible, NEW annotated \in BOOLEAN,
         LetFrom(y, x, annotated)
  PROVE  Inv'
<1> DEFINE b == Lookup(scopes, x)
           kind == IF annotated THEN b.is ELSE "plain"
           ss == MarkMoved(scopes, {x})
           mv == AfterMove(b)
           tt == Define(ss, y, kind, Len(ss) - 1, b.is)
           gap == Shadow(y) \cup (IF annotated THEN {} ELSE {"infer"})
<1>1. InBlock /\ gaps' = gaps \cup gap /\ gaps' \subseteq Gap /\ fuel' \in Nat
  <2>1. Construct(gap) /\ gap \in SUBSET Gap
    BY DEF LetFrom, Shadow, Gap
  <2> QED BY <2>1, Gaps DEF Inv
<1>2. /\ AskUse(x) /\ frames' = Seen(frames, b.id) /\ UNCHANGED phase
      /\ scopes' = Define(ss, y, kind, Len(scopes) - 1, b.is)
      /\ moved' = mv /\ next_id' = next_id + 1
  BY DEF LetFrom, Depth
<1>3. /\ scopes \in Scopes /\ frames \in Seq(Frame) /\ DepthOK(scopes) /\ Len(scopes) \in Nat
      /\ scopes # <<>>
      /\ Truth(scopes, moved, next_id, gaps) /\ next_id \in Nat /\ moved \subseteq 0 .. next_id - 1
  BY <1>1, InsideBlock
<1>4. /\ Named(scopes, x) # {} /\ b \in Binding
      /\ Innermost(scopes, x) \in Positions(scopes) /\ b = At(scopes, Innermost(scopes, x))
  BY <1>3, Seeing
<1>5. SameFrames(frames, frames')
  BY <1>2, <1>3, <1>4, SeenFrames DEF Binding
<1>6. y \in Names /\ gaps \subseteq gaps' /\ kind \in Kind /\ b.is \in Kind
      /\ (kind = "own" => b.is = "own") /\ ("infer" \notin gaps' => kind = b.is)
  BY <1>1, <1>4 DEF Declarable, Binding, Kind
<1>7. Verdict' /\ errors' \subseteq Code /\ faults' \subseteq Code
  BY <1>1, <1>2, <1>6, AskUseVerdict
<1>8. Truth(ss, mv, next_id, gaps)
  BY <1>3, <1>4, MarkTruth DEF AfterMove
<1>9. SameBindings(scopes, ss) /\ \A i \in Nat : Agree(scopes, ss, i)
  BY <1>3, Marked
<1>10. mv \subseteq 0 .. next_id - 1 /\ moved \subseteq mv
  BY <1>1, AfterMoveIs
<1>11. "shadow" \notin gaps' => \A p \in Positions(ss) : At(ss, p).name # y
  <2>1. "shadow" \notin gaps' => \A p \in Positions(scopes) : At(scopes, p).name # y
    BY <1>1, <1>3, Seeing DEF Shadow
  <2> QED BY <1>9, <2>1 DEF SameBindings
<1>12. /\ ss \in Scopes /\ Len(ss) = Len(scopes) /\ DepthOK(ss) /\ ss # <<>>
  <2>1. ss \in Scopes /\ Len(ss) = Len(scopes) /\ DepthOK(ss)
    BY <1>3, <1>9, SameDepth DEF SameBindings
  <2> QED BY <1>3, <2>1, EmptySeq DEF Scopes
<1> HIDE DEF b, kind, ss, mv, gap
<1>13. /\ Truth(tt, mv, next_id + 1, gaps') /\ tt \in Scopes /\ DepthOK(tt) /\ Len(tt) = Len(ss)
       /\ \A i \in Nat : i < Len(ss) => Agree(ss, tt, i)
  BY <1>3, <1>6, <1>8, <1>10, <1>11, <1>12, Defining
<1>14. scopes' = tt
  BY <1>2, <1>12
<1> HIDE DEF tt
<1>15. /\ next_id' \in Nat /\ next_id <= next_id' /\ moved \subseteq moved'
       /\ moved' \subseteq 0 .. next_id' - 1 /\ UNCHANGED phase
  BY <1>2, <1>3, <1>10
<1>16. /\ Truth(scopes', moved', next_id', gaps') /\ scopes' \in Scopes /\ DepthOK(scopes')
       /\ Len(scopes') = Len(scopes)
  BY <1>2, <1>12, <1>13, <1>14
<1>17. \A i \in Nat : i < Len(scopes) => Agree(scopes, scopes', i)
  BY <1>9, <1>12, <1>13, <1>14, AgreeAgain
<1> QED BY <1>1, <1>5, <1>6, <1>7, <1>15, <1>16, <1>17, Stays

-----------------------------------------------------------------------------
(* Constructs that open and close scopes.                                  *)

\* A scope of new bindings.
LEMMA NewScope ==
  ASSUME NEW ss \in Scopes, DepthOK(ss), NEW new \in Seq(Binding), NEW n \in Nat,
         NEW mv \in SUBSET (0 .. n - 1), NEW g, NEW g2, Truth(ss, mv, n, g), g \subseteq g2,
         \A j \in DOMAIN new : /\ new[j].id = n + j - 1 /\ ~new[j].moved
                               /\ new[j].kind = new[j].is /\ new[j].depth = Len(ss),
         \A j, k \in DOMAIN new : new[j].name = new[k].name => j = k,
         "shadow" \notin g2 =>
           \A j \in DOMAIN new, p \in Positions(ss) : At(ss, p).name # new[j].name
  PROVE  /\ Append(ss, new) \in Scopes /\ Len(Append(ss, new)) = Len(ss) + 1 /\ Len(ss) \in Nat
         /\ DepthOK(Append(ss, new)) /\ Len(new) \in Nat
         /\ Truth(Append(ss, new), mv, n + Len(new), g2)
         /\ \A i \in Nat : i <= Len(ss) => Agree(ss, Append(ss, new), i)
<1> DEFINE tt == Append(ss, new)
           at == {<<Len(ss) + 1, j>> : j \in DOMAIN new}
           m == n + Len(new)
<1>1. /\ tt \in Scopes /\ Len(tt) = Len(ss) + 1 /\ Len(ss) \in Nat
      /\ Positions(tt) = Positions(ss) \cup at
      /\ \A p \in Positions(ss) : At(tt, p) = At(ss, p)
      /\ \A j \in DOMAIN new : At(tt, <<Len(ss) + 1, j>>) = new[j]
      /\ \A i \in Nat : i <= Len(ss) => Agree(ss, tt, i)
  BY PushScope
<1>2. Len(new) \in Nat /\ DOMAIN new = 1 .. Len(new) /\ m \in Nat /\ n <= m
  BY LenProperties
<1> HIDE DEF tt
<1>3. ASSUME NEW p \in at
      PROVE  /\ p[2] \in DOMAIN new /\ At(tt, p) = new[p[2]] /\ p = <<Len(ss) + 1, p[2]>>
             /\ p[1] = Len(ss) + 1
  BY <1>1
<1> HIDE DEF at
<1>4. ASSUME NEW p \in at
      PROVE  /\ At(tt, p).id = n + p[2] - 1 /\ ~At(tt, p).moved /\ At(tt, p).kind = At(tt, p).is
             /\ At(tt, p).depth = Len(ss)
  BY <1>3
<1>5. \A p \in at : At(tt, p).id \in n .. m - 1
  BY <1>2, <1>3, <1>4
<1>6. ASSUME NEW p \in at, NEW q \in at, At(tt, p).id = At(tt, q).id PROVE p = q
  <2>1. p[2] = q[2]
    BY <1>2, <1>3, <1>4, <1>6
  <2> QED BY <1>3, <2>1
<1>7. ASSUME NEW p \in at, NEW q \in at, At(tt, p).name = At(tt, q).name PROVE p = q
  <2>1. p[2] = q[2]
    BY <1>3, <1>7
  <2> QED BY <1>3, <2>1
<1>8. "shadow" \notin g2 => \A p \in at, q \in Positions(ss) : At(tt, p).name # At(ss, q).name
  BY <1>3
<1> HIDE DEF m
<1>9. Extends(ss, tt, at, n, m, g2)
  BY <1>1, <1>4, <1>5, <1>6, <1>7, <1>8 DEF Extends
<1>10. Truth(tt, mv, m, g2)
  BY <1>2, <1>9, ExtendTruth
<1>11. DepthOK(tt)
  BY <1>1, <1>3, <1>4 DEF DepthOK
<1> QED BY <1>1, <1>2, <1>10, <1>11 DEF tt, m

\* A frame on top of the open branches.
LEMMA PushOpen ==
  ASSUME NEW fs \in Seq(Frame), NEW f \in Frame, NEW ss, NEW mv, NEW n \in Nat, NEW g,
         Open(fs, ss, mv, n, g), NEW tt, NEW mv2, NEW m \in Nat, NEW g2, n <= m, g \subseteq g2,
         \A i \in Branches(fs) : Agree(ss, tt, i) /\ fs[i].before \subseteq mv2,
         f.kind = "loop" => "loop" \in g2,
         f.kind = "branch" =>
           /\ Branch(f, tt, Len(fs) + 1, g2) /\ f.before \subseteq mv2 /\ f.after \subseteq 0 .. m - 1
           /\ \A i \in Branches(fs) : fs[i].before \subseteq f.before
  PROVE  Open(Append(fs, f), tt, mv2, m, g2)
<1> DEFINE gs == Append(fs, f)
<1>1. /\ gs \in Seq(Frame) /\ Len(fs) \in Nat /\ DOMAIN fs = 1 .. Len(fs) /\ DOMAIN gs = 1 .. Len(fs) + 1
      /\ gs[Len(fs) + 1] = f /\ \A i \in 1 .. Len(fs) : gs[i] = fs[i]
  <2>1. Len(fs) \in Nat /\ DOMAIN fs = 1 .. Len(fs)
    BY LenProperties
  <2> QED BY <2>1, AppendElements
<1> HIDE DEF gs
<1>2. Open(fs, tt, mv2, m, g2)
  BY KeepOpen
<1>3. \A i \in Branches(gs) : i \in 1 .. Len(fs) + 1 /\ (i # Len(fs) + 1 => i \in Branches(fs) /\ gs[i] = fs[i])
  BY <1>1 DEF Branches
<1>4. Len(fs) + 1 \in Branches(gs) => f.kind = "branch"
  BY <1>1 DEF Branches
<1>5. \A i \in Branches(gs) : /\ Branch(gs[i], tt, i, g2) /\ gs[i].before \subseteq mv2
                              /\ gs[i].after \subseteq 0 .. m - 1
  BY <1>1, <1>2, <1>3, <1>4 DEF Open
<1>6. ASSUME NEW i \in Branches(gs), NEW j \in Branches(gs), i < j
      PROVE  gs[i].before \subseteq gs[j].before
  <2>1. i # Len(fs) + 1
    BY <1>1, <1>3, <1>6
  <2>2. CASE j = Len(fs) + 1
    BY <1>1, <1>3, <1>4, <2>1, <2>2
  <2>3. CASE j # Len(fs) + 1
    BY <1>2, <1>3, <1>6, <2>1, <2>3 DEF Open
  <2> QED BY <2>2, <2>3
<1>7. \A i \in DOMAIN gs : gs[i].kind = "loop" => "loop" \in g2
  BY <1>1, <1>2 DEF Open
<1> QED BY <1>5, <1>6, <1>7 DEF Open, gs

\* The frames, with one more.
LEMMA PushNesting ==
  ASSUME NEW fs \in Seq(Frame), NEW f \in Frame, NEW ss, NEW tt, Nesting(fs, ss),
         fs[Len(fs)].kind = "branch" <=> f.kind = "arm",
         Len(tt) = Len(fs) + (IF f.kind = "branch" THEN 1 ELSE 2)
  PROVE  Nesting(Append(fs, f), tt)
<1> DEFINE gs == Append(fs, f)
<1>1. /\ gs \in Seq(Frame) /\ gs # <<>> /\ Len(fs) \in Nat /\ Len(fs) >= 1 /\ Len(gs) = Len(fs) + 1
      /\ gs[Len(fs) + 1] = f /\ \A i \in 1 .. Len(fs) : gs[i] = fs[i]
  <2>1. Len(fs) \in Nat /\ Len(fs) >= 1
    BY EmptySeq, LenProperties DEF Nesting
  <2> QED BY <2>1, AppendElements
<1> HIDE DEF gs
<1>2. gs[1].kind = "block"
  BY <1>1 DEF Nesting
<1>3. ASSUME NEW i \in 1 .. Len(gs) - 1 PROVE gs[i].kind = "branch" <=> gs[i + 1].kind = "arm"
  <2>1. CASE i = Len(fs)
    BY <1>1, <2>1
  <2>2. CASE i # Len(fs)
    <3>1. i \in 1 .. Len(fs) - 1 /\ i \in 1 .. Len(fs) /\ i + 1 \in 1 .. Len(fs)
      BY <1>1, <2>2
    <3> QED BY <1>1, <3>1 DEF Nesting
  <2> QED BY <2>1, <2>2
<1>4. Len(tt) = IF gs[Len(gs)].kind = "branch" THEN Len(gs) ELSE Len(gs) + 1
  <2>1. gs[Len(gs)] = f
    BY <1>1
  <2> QED BY <1>1, <2>1
<1> QED BY <1>1, <1>2, <1>3, <1>4 DEF Nesting, gs

\* The frames without the top, when that is not the last one.
LEMMA PopNesting ==
  ASSUME NEW fs \in Seq(Frame), NEW ss, NEW tt, Nesting(fs, ss), Len(fs) > 1, fs[Len(fs)].kind # "arm",
         Len(tt) = Len(fs)
  PROVE  /\ Nesting(Front(fs), tt) /\ Front(fs) \in Seq(Frame) /\ Len(Front(fs)) = Len(fs) - 1
         /\ \A i \in 1 .. Len(fs) - 1 : Front(fs)[i] = fs[i]
<1> DEFINE gs == Front(fs)
<1>1. /\ gs \in Seq(Frame) /\ Len(fs) \in Nat /\ Len(gs) = Len(fs) - 1
      /\ \A i \in 1 .. Len(fs) - 1 : gs[i] = fs[i]
  <2>1. Len(fs) \in Nat /\ fs # <<>>
    BY LenProperties DEF Nesting
  <2> QED BY <2>1, FrontElements
<1> HIDE DEF gs
<1>2. gs # <<>> /\ gs[1].kind = "block"
  <2>1. 1 \in 1 .. Len(fs) - 1
    BY <1>1
  <2> QED BY <1>1, <2>1, EmptySeq DEF Nesting
<1>3. ASSUME NEW i \in 1 .. Len(gs) - 1 PROVE gs[i].kind = "branch" <=> gs[i + 1].kind = "arm"
  <2>1. i \in 1 .. Len(fs) - 1 /\ i + 1 \in 1 .. Len(fs) - 1
    BY <1>1
  <2> QED BY <1>1, <2>1 DEF Nesting
<1>4. gs[Len(gs)].kind # "branch"
  <2>1. Len(fs) - 1 \in 1 .. Len(fs) - 1 /\ Len(fs) - 1 + 1 = Len(fs)
    BY <1>1
  <2>2. fs[Len(fs) - 1].kind # "branch"
    BY <2>1 DEF Nesting
  <2> QED BY <1>1, <2>1, <2>2
<1>5. Len(tt) = Len(gs) + 1
  BY <1>1
<1> QED BY <1>1, <1>2, <1>3, <1>4, <1>5 DEF Nesting, gs

\* A new scope in a frame of its own.
LEMMA OpensScope ==
  ASSUME Inv, InBlock, gaps \subseteq gaps', gaps' \subseteq Gap, fuel' \in Nat, NEW f \in Frame,
         f.kind \in {"block", "loop"}, f.kind = "loop" => "loop" \in gaps',
         scopes' = Append(scopes, <<>>), frames' = Append(frames, f),
         UNCHANGED <<phase, next_id, moved, errors, faults>>
  PROVE  Inv'
<1>1. /\ frames \in Seq(Frame) /\ Len(frames) \in Nat /\ phase = "walking"
      /\ Top = frames[Len(frames)] /\ scopes \in Scopes /\ DepthOK(scopes)
      /\ Len(scopes) = Len(frames) + 1 /\ Len(scopes) \in Nat
      /\ \A i \in Branches(frames) : i \in Nat /\ i < Len(frames)
      /\ Nesting(frames, scopes) /\ Truth(scopes, moved, next_id, gaps)
      /\ Open(frames, scopes, moved, next_id, gaps) /\ Verdict
      /\ next_id \in Nat /\ moved \subseteq 0 .. next_id - 1
  BY InsideBlock
<1>2. /\ scopes' \in Scopes /\ Len(scopes') = Len(scopes) + 1 /\ DepthOK(scopes')
      /\ Truth(scopes', moved', next_id', gaps')
      /\ \A i \in Nat : i <= Len(scopes) => Agree(scopes, scopes', i)
  <2> DEFINE new == <<>>
  <2>1. new \in Seq(Binding) /\ DOMAIN new = {} /\ Len(new) = 0
    OBVIOUS
  <2> HIDE DEF new
  <2>2. /\ Append(scopes, new) \in Scopes /\ Len(Append(scopes, new)) = Len(scopes) + 1
        /\ DepthOK(Append(scopes, new)) /\ Truth(Append(scopes, new), moved, next_id + Len(new), gaps')
        /\ \A i \in Nat : i <= Len(scopes) => Agree(scopes, Append(scopes, new), i)
    BY <1>1, <2>1, NewScope
  <2>3. scopes' = Append(scopes, new) /\ next_id' = next_id + Len(new) /\ moved' = moved
    BY <1>1, <2>1 DEF new
  <2> QED BY <2>2, <2>3
<1>3. frames' \in Seq(Frame)
  BY <1>1, AppendElements
<1>4. TypeOK'
  BY <1>2, <1>3 DEF Inv, TypeOK, Scopes, DepthOK
<1>5. Nesting(frames', scopes')
  <2>1. frames[Len(frames)].kind # "branch"
    BY <1>1 DEF InBlock
  <2>2. Len(scopes') = Len(frames) + 2
    BY <1>1, <1>2
  <2> QED BY <1>1, <2>1, <2>2, PushNesting
<1>6. Open(frames', scopes', moved', next_id', gaps')
  <2>1. \A i \in Branches(frames) : Agree(scopes, scopes', i) /\ frames[i].before \subseteq moved'
    <3>1. \A i \in Branches(frames) : i \in Nat /\ i <= Len(scopes)
      BY <1>1
    <3> QED BY <1>1, <1>2, <3>1 DEF Open
  <2>2. next_id <= next_id' /\ next_id' \in Nat /\ f.kind # "branch"
    BY <1>1
  <2> QED BY <1>1, <2>1, <2>2, PushOpen
<1>7. Verdict'
  BY <1>1, SameVerdict
<1> QED BY <1>2, <1>4, <1>5, <1>6, <1>7 DEF Inv, EscapeShape

\* A block in the walk.
LEMMA EnterBlockKeeps ==
  ASSUME Inv, EnterBlock
  PROVE  Inv'
<1>1. InBlock /\ gaps' = gaps \cup {} /\ gaps' \subseteq Gap /\ fuel' \in Nat
  <2>1. Construct({})
    BY DEF EnterBlock, Statement
  <2> QED BY <2>1, Gaps DEF Inv
<1>2. /\ scopes' = Append(scopes, <<>>) /\ frames' = Append(frames, Block)
      /\ UNCHANGED <<phase, next_id, moved, errors, faults>>
  BY DEF EnterBlock
<1>3. Block \in Frame /\ Block.kind = "block"
  BY DEF Block, Frame
<1> QED BY <1>1, <1>2, <1>3, OpensScope

\* A loop: from here on the function has that gap.
LEMMA EnterLoopKeeps ==
  ASSUME Inv, EnterLoop
  PROVE  Inv'
<1> DEFINE f == [kind |-> "loop", first |-> next_id, before |-> moved, used |-> {}]
<1>1. InBlock /\ gaps' = gaps \cup {"loop"} /\ gaps' \subseteq Gap /\ fuel' \in Nat
  <2>1. Construct({"loop"}) /\ {"loop"} \in SUBSET Gap
    BY DEF EnterLoop, Gap
  <2> QED BY <2>1, Gaps DEF Inv
<1>2. /\ scopes' = Append(scopes, <<>>) /\ frames' = Append(frames, f)
      /\ UNCHANGED <<phase, next_id, moved, errors, faults>>
  BY DEF EnterLoop
<1>3. f \in Frame /\ f.kind = "loop"
  <2>1. next_id \in Nat /\ moved \in SUBSET Nat
    BY <1>1, InsideBlock
  <2> QED BY <2>1 DEF Frame
<1> HIDE DEF f
<1>4. gaps \subseteq gaps' /\ f.kind \in {"block", "loop"} /\ (f.kind = "loop" => "loop" \in gaps')
  BY <1>1, <1>3
<1>5. InBlock /\ gaps' \subseteq Gap /\ fuel' \in Nat
  BY <1>1
<1> QED BY <1>2, <1>3, <1>4, <1>5, OpensScope

\* The innermost scope and its frame go.
LEMMA ClosesScope ==
  ASSUME Inv, InBlock, Top.kind # "arm", Len(frames) > 1,
         scopes' = Front(scopes), frames' = Front(frames),
         UNCHANGED <<phase, fuel, next_id, moved, gaps>>,
         Verdict', errors' \subseteq Code, faults' \subseteq Code
  PROVE  Inv'
<1>1. /\ frames \in Seq(Frame) /\ Len(frames) \in Nat /\ phase = "walking"
      /\ Top = frames[Len(frames)] /\ scopes \in Scopes /\ DepthOK(scopes) /\ scopes # <<>>
      /\ Len(scopes) = Len(frames) + 1 /\ Len(scopes) \in Nat
      /\ \A i \in Branches(frames) : i \in Nat /\ i < Len(frames)
      /\ Nesting(frames, scopes) /\ Truth(scopes, moved, next_id, gaps)
      /\ Open(frames, scopes, moved, next_id, gaps)
      /\ next_id \in Nat /\ moved \subseteq 0 .. next_id - 1
  BY InsideBlock
<1>2. /\ scopes' \in Scopes /\ Len(scopes') = Len(scopes) - 1
      /\ Positions(scopes') \subseteq Positions(scopes)
      /\ \A p \in Positions(scopes') : At(scopes', p) = At(scopes, p)
      /\ \A i \in Nat : i < Len(scopes) => Agree(scopes, scopes', i)
  BY <1>1, PopScope
<1>3. DepthOK(scopes') /\ Truth(scopes', moved', next_id', gaps')
  <2>1. DepthOK(scopes')
    BY <1>1, <1>2 DEF DepthOK
  <2>2. Truth(scopes', moved, next_id, gaps)
    BY <1>1, <1>2, ForgetTruth
  <2> QED BY <2>1, <2>2
<1>4. /\ Nesting(frames', scopes') /\ frames' \in Seq(Frame) /\ Len(frames') = Len(frames) - 1
      /\ \A i \in 1 .. Len(frames) - 1 : frames'[i] = frames[i]
  <2>1. Len(scopes') = Len(frames)
    BY <1>1, <1>2
  <2> QED BY <1>1, <2>1, PopNesting
<1>5. TypeOK'
  BY <1>2, <1>3, <1>4 DEF Inv, TypeOK, Scopes, DepthOK
<1>6. Open(frames', scopes', moved', next_id', gaps')
  <2>1. /\ Len(frames') <= Len(frames)
        /\ \A i \in 1 .. Len(frames') :
             frames'[i].kind = frames[i].kind /\ (frames[i].kind # "loop" => frames'[i] = frames[i])
    BY <1>1, <1>4
  <2>2. \A i \in Branches(frames') : i \in Branches(frames) /\ frames'[i] = frames[i] /\ i \in Nat /\ i < Len(scopes)
    BY <1>1, <1>4, LenProperties DEF Branches
  <2>3. \A i \in Branches(frames') : Agree(scopes, scopes', i) /\ frames'[i].before \subseteq moved'
    BY <1>1, <1>2, <2>2 DEF Open
  <2>4. next_id <= next_id' /\ next_id' \in Nat /\ gaps \subseteq gaps'
    BY <1>1
  <2> QED BY <1>1, <1>4, <2>1, <2>3, <2>4, KeepOpen
<1> QED BY <1>3, <1>4, <1>5, <1>6 DEF Inv, EscapeShape

\* Between two functions there is nothing but the verdict.
LEMMA Rests ==
  ASSUME scopes' = << <<>> >>, frames' = <<>>, phase' = "idle", Verdict',
         errors' \subseteq Code, faults' \subseteq Code, gaps' \subseteq Gap, fuel' \in Nat,
         next_id' \in Nat, moved' \subseteq 0 .. next_id' - 1
  PROVE  Inv'
<1>1. << <<>> >> \in Scopes /\ Positions(<< <<>> >>) = {}
  <2>1. << <<>> >> \in Seq(Seq(Binding))
    OBVIOUS
  <2>2. DOMAIN << <<>> >> = {1} /\ << <<>> >>[1] = <<>>
    OBVIOUS
  <2> QED BY <2>1, <2>2 DEF Scopes, Positions
<1>2. frames' \in Seq(Frame)
  OBVIOUS
<1>3. TypeOK'
  BY <1>1, <1>2 DEF TypeOK, Scopes
<1> QED BY <1>3 DEF Inv, EscapeShape

\* A block ends, or with the outermost one the function.
LEMMA LeaveBlockKeeps ==
  ASSUME Inv, LeaveBlock
  PROVE  Inv'
<1>1. /\ InBlock /\ Top.kind = "block" /\ frames' = Front(frames)
      /\ UNCHANGED <<fuel, next_id, moved, errors, faults, gaps>>
  BY DEF LeaveBlock, InBlock
<1>2. Verdict /\ Len(frames) \in Nat /\ Len(frames) >= 1
  BY <1>1, InsideBlock
<1>3. Verdict' /\ errors' \subseteq Code /\ faults' \subseteq Code
  BY <1>1, <1>2, SameVerdict DEF Inv, TypeOK
<1>4. CASE Len(frames) = 1
  <2>1. phase' = "idle" /\ scopes' = << <<>> >>
    BY <1>4 DEF LeaveBlock
  <2>2. frames' = <<>>
    BY <1>1, <1>4, InsideBlock, FrontElements, EmptySeq
  <2> QED BY <1>1, <1>3, <2>1, <2>2, Rests DEF Inv, TypeOK
<1>5. CASE Len(frames) # 1
  <2>1. UNCHANGED phase /\ scopes' = Front(scopes)
    BY <1>5 DEF LeaveBlock
  <2>2. Len(frames) > 1
    <3>1. \A n \in Nat : n >= 1 /\ n # 1 => n > 1
      OBVIOUS
    <3> QED BY <1>2, <1>5, <3>1
  <2>3. Top.kind # "arm" /\ UNCHANGED <<phase, fuel, next_id, moved, gaps>>
    BY <1>1, <2>1
  <2> QED BY <1>1, <1>3, <2>1, <2>2, <2>3, ClosesScope
<1> QED BY <1>4, <1>5

\* A loop ends; what its second round would find is a gap's fault.
LEMMA LeaveLoopKeeps ==
  ASSUME Inv, LeaveLoop
  PROVE  Inv'
<1> DEFINE again == {v \in Top.used : v < Top.first /\ v \in moved \ Top.before}
<1>1. /\ InBlock /\ Top.kind = "loop" /\ scopes' = Front(scopes) /\ frames' = Front(frames)
      /\ faults' = faults \cup Codes("E5001", again # {})
      /\ UNCHANGED <<phase, errors, fuel, next_id, moved, gaps>>
  BY DEF LeaveLoop, InBlock
<1> HIDE DEF again
<1>2. /\ Verdict /\ Len(frames) \in Nat /\ Len(frames) >= 1 /\ Top = frames[Len(frames)]
      /\ Open(frames, scopes, moved, next_id, gaps) /\ Nesting(frames, scopes)
      /\ DOMAIN frames = 1 .. Len(frames)
  BY <1>1, InsideBlock
<1>3. Len(frames) > 1
  BY <1>1, <1>2 DEF Nesting
<1>4. "loop" \in gaps
  BY <1>1, <1>2 DEF Open
<1>5. Verdict' /\ errors' \subseteq Code /\ faults' \subseteq Code
  <2>1. errors' \subseteq Code /\ faults' \subseteq Code
    BY <1>1 DEF Codes, Code, Inv, TypeOK
  <2>2. {"infer", "value", "unwalked"} \cap gaps' = {} => faults' \cap {"E5002", "E5003"} \subseteq errors'
    BY <1>1, <1>2 DEF Verdict, Codes
  <2>3. {"shadow", "lend"} \cap gaps' = {} /\ "E5001" \in errors' => "E5001" \in faults'
    BY <1>1, <1>2 DEF Verdict
  <2>4. {"infer", "assign", "loop", "unwalked"} \cap gaps' # {}
    BY <1>1, <1>4
  <2> QED BY <2>1, <2>2, <2>3, <2>4 DEF Verdict
<1> QED BY <1>1, <1>3, <1>5, ClosesScope

\* The function ends with its value.
LEMMA BodyValueKeeps ==
  ASSUME Inv, NEW x \in Visible, BodyValue(x)
  PROVE  Inv'
<1>1. InBlock /\ gaps' = gaps \cup {"value"} /\ gaps' \subseteq Gap /\ fuel' \in Nat
  <2>1. Construct({"value"}) /\ {"value"} \in SUBSET Gap
    BY DEF BodyValue, Gap
  <2> QED BY <2>1, Gaps DEF Inv
<1>2. /\ AskEscape("E5003", x, TRUE, FALSE) /\ UNCHANGED <<next_id, moved>>
      /\ scopes' = << <<>> >> /\ frames' = <<>> /\ phase' = "idle"
  BY DEF BodyValue
<1>3. Verdict' /\ errors' \subseteq Code /\ faults' \subseteq Code
  BY <1>1, <1>2, AskEscapeVerdict
<1> QED BY <1>1, <1>2, <1>3, Rests DEF Inv, TypeOK

-----------------------------------------------------------------------------
(* Branches.                                                               *)

\* A branch begins with a snapshot of what is known.
LEMMA BeginBranchKeeps ==
  ASSUME Inv, NEW n \in 1 .. MaxArms, BeginBranch(n)
  PROVE  Inv'
<1> DEFINE f == [kind |-> "branch", base |-> Snapshot(scopes), snaps |-> <<>>,
                 arms |-> n, before |-> moved, after |-> {}]
<1>1. InBlock /\ gaps' = gaps \cup {} /\ gaps' \subseteq Gap /\ fuel' \in Nat
  <2>1. Construct({})
    BY DEF BeginBranch, Statement
  <2> QED BY <2>1, Gaps DEF Inv
<1>2. /\ frames' = Append(frames, f)
      /\ UNCHANGED <<scopes, phase, next_id, moved, errors, faults>>
  BY DEF BeginBranch
<1>3. /\ frames \in Seq(Frame) /\ Len(frames) \in Nat /\ phase = "walking"
      /\ Top = frames[Len(frames)] /\ scopes \in Scopes /\ DepthOK(scopes)
      /\ Len(scopes) = Len(frames) + 1 /\ Len(scopes) \in Nat
      /\ \A i \in Branches(frames) : i \in Nat /\ i < Len(frames)
      /\ Nesting(frames, scopes) /\ Truth(scopes, moved, next_id, gaps)
      /\ Open(frames, scopes, moved, next_id, gaps) /\ Verdict
      /\ next_id \in Nat /\ moved \subseteq 0 .. next_id - 1
  BY <1>1, InsideBlock
<1>4. /\ Pictures(Snapshot(scopes), scopes, Len(scopes)) /\ Snapshot(scopes) \in Saved
      /\ Remembering(scopes, moved) => Covers(Snapshot(scopes), scopes, Len(scopes), moved)
      /\ Inventing(scopes, moved) => Within(Snapshot(scopes), scopes, moved)
  BY <1>3, SnapshotPictures
<1>5. /\ f.kind = "branch" /\ f.base = Snapshot(scopes) /\ f.snaps = <<>> /\ DOMAIN f.snaps = {}
      /\ f.arms = n /\ f.before = moved /\ f.after = {} /\ n \in Nat /\ n >= 1
  BY DEF EscapeAssumption
<1>6. f \in Frame
  <2>1. f \in [kind : {"branch"}, base : Saved, snaps : Seq(Saved), arms : Nat,
               before : SUBSET Nat, after : SUBSET Nat]
    <3>1. moved \in SUBSET Nat /\ <<>> \in Seq(Saved)
      BY <1>3
    <3> QED BY <1>4, <1>5, <3>1
  <2> QED BY <2>1 DEF Frame
<1> HIDE DEF f
<1>7. Branch(f, scopes, Len(scopes), gaps)
  <2>1. UNION {f.snaps[k] : k \in DOMAIN f.snaps} = {}
    BY <1>5
  <2>2. {"infer", "assign", "unwalked"} \cap gaps = {} =>
          /\ Covers(f.base, scopes, Len(scopes), f.before)
          /\ Covers(UNION {f.snaps[k] : k \in DOMAIN f.snaps}, scopes, Len(scopes), f.after)
    BY <1>3, <1>4, <1>5 DEF Truth, Covers
  <2>3. {"shadow", "lend"} \cap gaps = {} =>
          Within(f.base, scopes, f.before) /\ \A k \in DOMAIN f.snaps : Within(f.snaps[k], scopes, f.after)
    BY <1>3, <1>4, <1>5 DEF Truth
  <2> QED BY <1>4, <1>5, <2>2, <2>3 DEF Branch
<1>8. frames' \in Seq(Frame)
  BY <1>2, <1>3, <1>6, AppendElements
<1>9. TypeOK'
  BY <1>1, <1>2, <1>8 DEF Inv, TypeOK
<1>10. Nesting(frames', scopes')
  <2>1. frames[Len(frames)].kind # "branch" /\ f.kind # "arm"
    BY <1>1, <1>3, <1>5 DEF InBlock
  <2>2. Len(scopes') = Len(frames) + 1
    BY <1>2, <1>3
  <2> QED BY <1>2, <1>3, <1>5, <1>6, <2>1, <2>2, PushNesting
<1>11. Open(frames', scopes', moved', next_id', gaps')
  <2>1. \A i \in Branches(frames) : Agree(scopes, scopes, i) /\ frames[i].before \subseteq moved
    <3>1. \A i \in Branches(frames) : i \in Nat /\ i <= Len(scopes)
      BY <1>3
    <3> QED BY <1>3, <3>1, AgreeSelf DEF Open
  <2>2. /\ Branch(f, scopes, Len(frames) + 1, gaps) /\ f.before \subseteq moved
        /\ f.after \subseteq 0 .. next_id - 1
        /\ \A i \in Branches(frames) : frames[i].before \subseteq f.before
    BY <1>3, <1>5, <1>7, <2>1
  <2>3. next_id <= next_id /\ f.kind # "loop"
    BY <1>3, <1>5
  <2>4. Open(Append(frames, f), scopes, moved, next_id, gaps)
    BY <1>3, <1>6, <2>1, <2>2, <2>3, PushOpen
  <2> QED BY <1>1, <1>2, <2>4
<1>12. Truth(scopes', moved', next_id', gaps') /\ Verdict'
  BY <1>1, <1>2, <1>3, SameVerdict
<1> QED BY <1>9, <1>10, <1>11, <1>12 DEF Inv, EscapeShape

\* Below the frame of an open branch lies nothing but what was there when it began.
LEMMA AtBranch ==
  ASSUME Inv, phase = "walking", Top.kind = "branch"
  PROVE  /\ frames \in Seq(Frame) /\ frames # <<>> /\ Len(frames) \in Nat /\ Len(frames) > 1
         /\ Top = frames[Len(frames)] /\ DOMAIN frames = 1 .. Len(frames)
         /\ Top \in [kind : {"branch"}, base : Saved, snaps : Seq(Saved), arms : Nat,
                     before : SUBSET Nat, after : SUBSET Nat]
         /\ Len(frames) \in Branches(frames)
         /\ \A i \in Branches(frames) :
              /\ i \in Nat /\ i <= Len(frames)
              /\ frames[i].before \subseteq Top.before
         /\ scopes \in Scopes /\ DepthOK(scopes) /\ Len(scopes) = Len(frames)
         /\ Nesting(frames, scopes) /\ Truth(scopes, moved, next_id, gaps)
         /\ Open(frames, scopes, moved, next_id, gaps) /\ Verdict
         /\ Branch(Top, scopes, Len(scopes), gaps)
         /\ next_id \in Nat /\ moved \subseteq 0 .. next_id - 1
         /\ Top.before \subseteq moved /\ Top.after \subseteq 0 .. next_id - 1
<1>1. /\ frames \in Seq(Frame) /\ frames # <<>> /\ scopes \in Scopes
      /\ Nesting(frames, scopes) /\ Truth(scopes, moved, next_id, gaps) /\ DepthOK(scopes)
      /\ Open(frames, scopes, moved, next_id, gaps) /\ Verdict
      /\ next_id \in Nat /\ moved \subseteq 0 .. next_id - 1
  BY DEF Inv, TypeOK, EscapeShape, Nesting, Scopes, DepthOK
<1>2. Len(frames) \in Nat /\ Len(frames) >= 1 /\ DOMAIN frames = 1 .. Len(frames)
  BY <1>1, EmptySeq, LenProperties
<1>3. Top = frames[Len(frames)]
  BY <1>1, FrontElements DEF Top
<1>4. Len(frames) \in Branches(frames)
  BY <1>2, <1>3 DEF Branches
<1>5. Len(frames) > 1 /\ Len(scopes) = Len(frames)
  BY <1>1, <1>2, <1>3 DEF Nesting
<1>6. \A i \in Branches(frames) : i \in Nat /\ i <= Len(frames)
  BY <1>2 DEF Branches
<1>7. \A i \in Branches(frames) : frames[i].before \subseteq Top.before
  <2> SUFFICES ASSUME NEW i \in Branches(frames) PROVE frames[i].before \subseteq Top.before
    OBVIOUS
  <2>1. CASE i = Len(frames)
    BY <1>3, <2>1
  <2>2. CASE i # Len(frames)
    <3>1. i < Len(frames)
      BY <1>2, <1>6, <2>2
    <3> QED BY <1>1, <1>3, <1>4, <3>1 DEF Open
  <2> QED BY <2>1, <2>2
<1>8. /\ Branch(Top, scopes, Len(scopes), gaps)
      /\ Top.before \subseteq moved /\ Top.after \subseteq 0 .. next_id - 1
  BY <1>1, <1>3, <1>4, <1>5 DEF Open
<1>9. Top \in [kind : {"branch"}, base : Saved, snaps : Seq(Saved), arms : Nat,
               before : SUBSET Nat, after : SUBSET Nat]
  BY <1>1, <1>3, <1>4, BranchFrame
<1> QED BY <1>1, <1>2, <1>3, <1>4, <1>5, <1>6, <1>7, <1>8, <1>9

\* A branch ends with the snapshots of its arms joined.
LEMMA EndBranchKeeps ==
  ASSUME Inv, EndBranch
  PROVE  Inv'
<1>1. /\ phase = "walking" /\ Top.kind = "branch" /\ Len(Top.snaps) = Top.arms
      /\ scopes' = Join(scopes, Top.base, Top.snaps) /\ moved' = Top.after
      /\ frames' = Front(frames) /\ UNCHANGED <<phase, fuel, next_id, errors, faults, gaps>>
  BY DEF EndBranch
<1>2. /\ frames \in Seq(Frame) /\ frames # <<>> /\ Len(frames) \in Nat /\ Len(frames) > 1
      /\ Top = frames[Len(frames)] /\ DOMAIN frames = 1 .. Len(frames)
      /\ Top.base \in Saved /\ Top.snaps \in Seq(Saved) /\ Top.arms \in Nat
      /\ \A i \in Branches(frames) :
           /\ i \in Nat /\ i <= Len(frames) /\ frames[i].before \subseteq Top.before
      /\ scopes \in Scopes /\ DepthOK(scopes) /\ Len(scopes) = Len(frames)
      /\ Nesting(frames, scopes) /\ Truth(scopes, moved, next_id, gaps)
      /\ Open(frames, scopes, moved, next_id, gaps) /\ Verdict
      /\ Branch(Top, scopes, Len(scopes), gaps)
      /\ next_id \in Nat /\ Top.after \subseteq 0 .. next_id - 1
  BY <1>1, AtBranch
<1>3. Top.snaps # <<>> /\ Top.before \subseteq Top.after
  <2>1. Top.snaps # <<>>
    BY <1>1, <1>2, EmptySeq DEF Branch
  <2> QED BY <1>2, <2>1 DEF Branch
<1>4. Truth(scopes', moved', next_id', gaps')
  <2>1. Truth(Join(scopes, Top.base, Top.snaps), Top.after, next_id, gaps)
    BY <1>2, <1>3, JoinTruth
  <2> QED BY <1>1, <2>1
<1>5. SameBindings(scopes, scopes') /\ \A i \in Nat : Agree(scopes, scopes', i)
  <2> DEFINE rr == Restore(scopes, Top.base)
             names == UNION {MovedIn(Top.snaps[k]) : k \in DOMAIN Top.snaps}
  <2>1. SameBindings(scopes, rr) /\ \A i \in Nat : Agree(scopes, rr, i)
    BY <1>2, Restored DEF Branch
  <2>2. scopes' = MarkMoved(rr, names)
    BY <1>1 DEF Join
  <2> HIDE DEF rr, names
  <2>3. rr \in Scopes
    BY <2>1 DEF SameBindings
  <2>4. SameBindings(rr, MarkMoved(rr, names)) /\ \A i \in Nat : Agree(rr, MarkMoved(rr, names), i)
    BY <2>3, Marked
  <2>5. \A i \in Nat : Agree(scopes, scopes', i)
    BY <2>1, <2>2, <2>4, AgreeAgain
  <2> QED BY <2>1, <2>2, <2>4, <2>5 DEF SameBindings
<1>6. scopes' \in Scopes /\ DepthOK(scopes') /\ Len(scopes') = Len(frames)
  BY <1>2, <1>5, SameDepth DEF SameBindings
<1>7. /\ Nesting(frames', scopes') /\ frames' \in Seq(Frame) /\ Len(frames') = Len(frames) - 1
      /\ \A i \in 1 .. Len(frames) - 1 : frames'[i] = frames[i]
  <2>1. frames[Len(frames)].kind # "arm"
    BY <1>1, <1>2
  <2> QED BY <1>1, <1>2, <1>6, <2>1, PopNesting
<1>8. TypeOK'
  BY <1>1, <1>2, <1>6, <1>7 DEF Inv, TypeOK, Scopes, DepthOK
<1>9. Open(frames', scopes', moved', next_id', gaps')
  <2>1. /\ Len(frames') <= Len(frames)
        /\ \A i \in 1 .. Len(frames') :
             frames'[i].kind = frames[i].kind /\ (frames[i].kind # "loop" => frames'[i] = frames[i])
    BY <1>2, <1>7
  <2>2. \A i \in Branches(frames') : i \in Branches(frames) /\ frames'[i] = frames[i] /\ i \in Nat
    BY <1>2, <1>7, LenProperties DEF Branches
  <2>3. ASSUME NEW i \in Branches(frames')
        PROVE  Agree(scopes, scopes', i) /\ frames'[i].before \subseteq moved'
    BY <1>1, <1>2, <1>3, <1>5, <2>2
  <2>4. next_id <= next_id' /\ next_id' \in Nat /\ gaps \subseteq gaps'
    BY <1>1, <1>2
  <2> QED BY <1>2, <1>7, <2>1, <2>3, <2>4, KeepOpen
<1>10. Verdict'
  BY <1>1, <1>2, SameVerdict
<1> QED BY <1>4, <1>7, <1>8, <1>9, <1>10 DEF Inv, EscapeShape

\* The names of a set in some order (SetToSeq), each once.
LEMMA Listed ==
  ASSUME NEW S, IsFiniteSet(S)
  PROVE  /\ SetToSeq(S) \in [1 .. Cardinality(S) -> S] /\ Cardinality(S) \in Nat
         /\ \A j, k \in 1 .. Cardinality(S) : SetToSeq(S)[j] = SetToSeq(S)[k] => j = k
<1> DEFINE n == Cardinality(S)
<1>1. n \in Nat /\ ExistsBijection(1 .. n, S)
  BY FS_CardinalityType
<1>2. \E f \in [1 .. n -> S] : IsInjective(f)
  BY <1>1 DEF ExistsBijection, Bijection, Injection
<1>3. SetToSeq(S) \in [1 .. n -> S] /\ IsInjective(SetToSeq(S))
  BY <1>2 DEF SetToSeq
<1> HIDE DEF n
<1>4. \A j, k \in 1 .. n : SetToSeq(S)[j] = SetToSeq(S)[k] => j = k
  BY <1>3 DEF IsInjective
<1> QED BY <1>1, <1>3, <1>4 DEF n

\* A binding for each of these names.
LEMMA BindingOfEach ==
  ASSUME NEW S \in SUBSET Names, NEW new, DOMAIN new = DOMAIN SetToSeq(S),
         new = [i \in DOMAIN new |-> new[i]],
         \A i \in DOMAIN new : new[i] \in Binding /\ new[i].name = SetToSeq(S)[i]
  PROVE  /\ new \in Seq(Binding) /\ Len(new) = Cardinality(S) /\ Cardinality(S) \in Nat
         /\ \A j \in DOMAIN new : new[j].name \in S
         /\ \A j, k \in DOMAIN new : new[j].name = new[k].name => j = k
<1> DEFINE n == Cardinality(S)
<1>1. IsFiniteSet(S)
  BY EscapeAssumption, FS_Subset
<1>2. /\ SetToSeq(S) \in [1 .. n -> S] /\ n \in Nat
      /\ \A j, k \in 1 .. n : SetToSeq(S)[j] = SetToSeq(S)[k] => j = k
  BY <1>1, Listed
<1> HIDE DEF n
<1>3. DOMAIN new = 1 .. n
  BY <1>2
<1>4. new \in [1 .. n -> Binding]
  BY <1>3
<1>5. new \in Seq(Binding) /\ Len(new) = n
  BY <1>2, <1>4
<1>6. \A j \in DOMAIN new : new[j].name \in S
  BY <1>2, <1>3
<1>7. \A j, k \in DOMAIN new : new[j].name = new[k].name => j = k
  BY <1>2, <1>3
<1> QED BY <1>2, <1>5, <1>6, <1>7 DEF n

\* The innermost scope, filled as soon as it is there.
LEMMA Fill ==
  ASSUME NEW ss \in Scopes, NEW new \in Seq(Binding), NEW inner, inner = Append(ss, <<>>)
  PROVE  [inner EXCEPT ![Len(inner)] = new] = Append(ss, new)
<1> DEFINE tt == [inner EXCEPT ![Len(inner)] = new]  uu == Append(ss, new)
<1>1. ss \in Seq(Seq(Binding)) /\ Len(ss) \in Nat /\ <<>> \in Seq(Binding)
  BY LenProperties DEF Scopes
<1>2. /\ inner \in Seq(Seq(Binding)) /\ Len(inner) = Len(ss) + 1
      /\ \A i \in 1 .. Len(ss) : inner[i] = ss[i]
  BY <1>1, AppendProperties
<1>3. /\ uu \in Seq(Seq(Binding)) /\ Len(uu) = Len(ss) + 1
      /\ uu[Len(ss) + 1] = new /\ \A i \in 1 .. Len(ss) : uu[i] = ss[i]
  BY <1>1, AppendProperties
<1>4. /\ tt \in Seq(Seq(Binding)) /\ Len(tt) = Len(inner)
      /\ \A j \in 1 .. Len(inner) : tt[j] = IF j = Len(inner) THEN new ELSE inner[j]
  <2> DEFINE n == Len(inner)
  <2>1. n \in 1 .. n /\ tt = [inner EXCEPT ![n] = new] /\ DOMAIN inner = 1 .. n
    BY <1>1, <1>2, LenProperties
  <2> HIDE DEF tt, n
  <2>2. tt \in Seq(Seq(Binding)) /\ Len(tt) = Len(inner)
    BY <1>2, <2>1, ExceptSeq DEF n
  <2>3. \A j \in 1 .. n : tt[j] = IF j = n THEN new ELSE inner[j]
    BY <2>1
  <2> QED BY <2>2, <2>3 DEF n
<1> HIDE DEF tt, uu
<1>5. \A i \in 1 .. Len(tt) : tt[i] = uu[i]
  <2> SUFFICES ASSUME NEW i \in 1 .. Len(tt) PROVE tt[i] = uu[i]
    OBVIOUS
  <2>1. i = Len(ss) + 1 \/ (i \in 1 .. Len(ss) /\ i # Len(inner))
    BY <1>1, <1>2, <1>4
  <2> QED BY <1>1, <1>2, <1>3, <1>4, <2>1
<1>6. Len(tt) = Len(uu)
  BY <1>2, <1>3, <1>4
<1>7. tt = uu
  BY <1>3, <1>4, <1>5, <1>6, SeqEqual
<1> QED BY <1>7 DEF tt, uu

\* An arm begins with what its branch began with; its pattern binds names that no
\* name in view has, unless there are hidden names.
LEMMA EnterArmKeeps ==
  ASSUME Inv, NEW bound \in SUBSET Names, Cardinality(bound) <= 1, EnterArm(bound)
  PROVE  Inv'
<1> DEFINE names == SetToSeq(bound)
           rr == Restore(scopes, Top.base)
           inner == Append(rr, <<>>)
           new == [i \in DOMAIN names |->
                     [name |-> names[i], kind |-> "plain", moved |-> FALSE,
                      depth |-> Len(inner) - 1, id |-> next_id + i - 1, is |-> "plain"]]
           f == [kind |-> "arm"]
           n == Cardinality(bound)
<1>1. /\ phase = "walking" /\ Top.kind = "branch" /\ bound \subseteq Declarable
      /\ (bound # {} => fuel > 0) /\ fuel' = fuel - n
      /\ next_id' = next_id + n /\ frames' = Append(frames, f) /\ moved' = Top.before
      /\ gaps' = gaps \cup UNION {Shadow(x) : x \in bound}
      /\ UNCHANGED <<phase, errors, faults>>
  BY DEF EnterArm
<1>2. scopes' = Append([inner EXCEPT ![Len(inner)] = new], <<>>)
  BY DEF EnterArm
<1>3. /\ frames \in Seq(Frame) /\ Len(frames) \in Nat
      /\ Top = frames[Len(frames)] /\ Top.base \in Saved
      /\ \A i \in Branches(frames) :
           /\ i \in Nat /\ i <= Len(frames) /\ frames[i].before \subseteq Top.before
      /\ scopes \in Scopes /\ DepthOK(scopes) /\ Len(scopes) = Len(frames)
      /\ Nesting(frames, scopes) /\ Truth(scopes, moved, next_id, gaps)
      /\ Open(frames, scopes, moved, next_id, gaps) /\ Verdict
      /\ Branch(Top, scopes, Len(scopes), gaps) /\ Pictures(Top.base, scopes, Len(scopes))
      /\ next_id \in Nat /\ Top.before \in SUBSET (0 .. next_id - 1)
  BY <1>1, AtBranch DEF Branch
<1>4. /\ rr \in Scopes /\ SameBindings(scopes, rr) /\ DepthOK(rr) /\ Len(rr) = Len(frames)
      /\ Positions(rr) = Positions(scopes) /\ \A i \in Nat : Agree(scopes, rr, i)
      /\ \A p \in Positions(scopes) : At(rr, p).name = At(scopes, p).name
  BY <1>3, Restored, SameDepth DEF SameBindings
<1>5. Truth(rr, Top.before, next_id, gaps)
  BY <1>3, RestoreTruth
<1> HIDE DEF rr
<1>6. n \in Nat /\ n <= 1 /\ (bound = {} => n = 0)
  <2>1. IsFiniteSet(bound)
    BY EscapeAssumption, FS_Subset
  <2> QED BY <2>1, FS_CardinalityType, FS_EmptySet
<1>7. Len(inner) - 1 = Len(rr) /\ Len(rr) \in Nat
  <2>1. rr \in Seq(Seq(Binding)) /\ <<>> \in Seq(Binding)
    BY <1>4 DEF Scopes
  <2> QED BY <2>1, AppendProperties, LenProperties
<1>8. /\ DOMAIN new = DOMAIN names /\ new = [i \in DOMAIN new |-> new[i]]
      /\ \A i \in DOMAIN new : new[i].name = names[i]
      /\ \A i \in DOMAIN new : /\ new[i].id = next_id + i - 1 /\ ~new[i].moved
                               /\ new[i].kind = new[i].is /\ new[i].depth = Len(rr)
  BY <1>7
<1>9. \A i \in DOMAIN new : new[i] \in Binding
  <2> SUFFICES ASSUME NEW i \in DOMAIN names
               PROVE  [name |-> names[i], kind |-> "plain", moved |-> FALSE,
                       depth |-> Len(inner) - 1, id |-> next_id + i - 1, is |-> "plain"] \in Binding
    OBVIOUS
  <2>1. IsFiniteSet(bound)
    BY EscapeAssumption, FS_Subset
  <2>2. names \in [1 .. n -> bound]
    BY <2>1, Listed
  <2>3. names[i] \in Names /\ i \in 1 .. n
    BY <2>2
  <2>4. next_id + i - 1 \in Nat /\ Len(inner) - 1 \in Nat
    BY <1>3, <1>6, <1>7, <2>3
  <2> HIDE DEF inner, names
  <2> QED BY <2>3, <2>4 DEF Binding, Kind
<1> HIDE DEF new
<1>10. /\ new \in Seq(Binding) /\ Len(new) = n /\ \A j \in DOMAIN new : new[j].name \in bound
       /\ \A j, k \in DOMAIN new : new[j].name = new[k].name => j = k
  BY <1>8, <1>9, BindingOfEach
<1>11. scopes' = Append(Append(rr, new), <<>>)
  <2>1. [inner EXCEPT ![Len(inner)] = new] = Append(rr, new)
    BY <1>4, <1>10, Fill
  <2> QED BY <1>2, <2>1
<1>12. gaps \subseteq gaps' /\ gaps' \subseteq Gap /\ ("shadow" \notin gaps' => bound \cap Visible = {})
  <2>1. gaps \subseteq Gap
    BY DEF Inv, TypeOK
  <2>2. \A x \in bound : Shadow(x) \subseteq {"shadow"} /\ (x \in Visible => "shadow" \in Shadow(x))
    BY DEF Shadow
  <2>3. "shadow" \in Gap
    BY DEF Gap
  <2> QED BY <1>1, <2>1, <2>2, <2>3
<1>13. "shadow" \notin gaps' => \A j \in DOMAIN new, p \in Positions(rr) : At(rr, p).name # new[j].name
  BY <1>3, <1>4, <1>10, <1>12, Seeing
<1> HIDE DEF n, names, inner, f
<1>14. /\ Append(rr, new) \in Scopes /\ Len(Append(rr, new)) = Len(rr) + 1
       /\ DepthOK(Append(rr, new)) /\ Truth(Append(rr, new), Top.before, next_id + Len(new), gaps')
       /\ \A i \in Nat : i <= Len(rr) => Agree(rr, Append(rr, new), i)
  <2>1. rr \in Scopes /\ DepthOK(rr) /\ new \in Seq(Binding) /\ next_id \in Nat
    BY <1>3, <1>4, <1>10
  <2>2. Top.before \in SUBSET (0 .. next_id - 1) /\ gaps \subseteq gaps'
    BY <1>3, <1>12
  <2>3. \A j \in DOMAIN new : /\ new[j].id = next_id + j - 1 /\ ~new[j].moved
                             /\ new[j].kind = new[j].is /\ new[j].depth = Len(rr)
    BY <1>8
  <2>4. \A j, k \in DOMAIN new : new[j].name = new[k].name => j = k
    BY <1>10
  <2> QED BY <1>5, <1>13, <2>1, <2>2, <2>3, <2>4, NewScope
<1>15. /\ scopes' \in Scopes /\ Len(scopes') = Len(frames) + 2 /\ DepthOK(scopes')
       /\ Truth(scopes', moved', next_id', gaps')
       /\ \A i \in Nat : i <= Len(frames) => Agree(scopes, scopes', i)
       /\ next_id' \in Nat /\ next_id <= next_id' /\ moved' \subseteq 0 .. next_id' - 1
  <2> DEFINE ss == Append(rr, new)  none == <<>>  m == next_id + Len(new)
  <2>1. /\ none \in Seq(Binding) /\ DOMAIN none = {} /\ Len(none) = 0
        /\ m \in Nat /\ next_id <= m /\ m + Len(none) = m
    BY <1>3, <1>6, <1>10
  <2>2. Top.before \in SUBSET (0 .. m - 1)
    BY <1>3, <2>1
  <2>3. ss \in Scopes /\ DepthOK(ss) /\ Truth(ss, Top.before, m, gaps') /\ Len(ss) = Len(frames) + 1
    BY <1>4, <1>14
  <2>4. scopes' = Append(ss, none) /\ next_id' = m + Len(none) /\ moved' = Top.before
    BY <1>1, <1>10, <1>11, <2>1
  <2> HIDE DEF ss, none, m
  <2>5. /\ Append(ss, none) \in Scopes /\ Len(Append(ss, none)) = Len(ss) + 1
        /\ DepthOK(Append(ss, none)) /\ Truth(Append(ss, none), Top.before, m + Len(none), gaps')
        /\ \A i \in Nat : i <= Len(ss) => Agree(ss, Append(ss, none), i)
    BY <2>1, <2>2, <2>3, NewScope
  <2>6. ASSUME NEW i \in Nat, i <= Len(frames) PROVE Agree(scopes, scopes', i)
    <3>1. Agree(scopes, rr, i)
      BY <1>4
    <3>2. Agree(rr, ss, i)
      BY <1>4, <1>14, <2>6 DEF ss
    <3>3. i <= Len(ss)
      BY <1>3, <2>3, <2>6
    <3>4. Agree(ss, scopes', i)
      BY <2>4, <2>5, <3>3
    <3> QED BY <3>1, <3>2, <3>4, AgreeAgain
  <2> QED BY <1>3, <2>1, <2>2, <2>3, <2>4, <2>5, <2>6
<1>16. f \in Frame /\ f.kind = "arm"
  BY DEF f, Frame
<1>17. frames' \in Seq(Frame)
  BY <1>1, <1>3, <1>16, AppendElements
<1>18. fuel' \in Nat
  <2>1. fuel \in Nat
    BY DEF Inv, TypeOK
  <2> QED BY <1>1, <1>6, <2>1
<1>19. TypeOK'
  BY <1>1, <1>12, <1>15, <1>17, <1>18 DEF Inv, TypeOK, Scopes, DepthOK
<1>20. Nesting(frames', scopes')
  <2>1. frames[Len(frames)].kind = "branch" <=> f.kind = "arm"
    BY <1>1, <1>3, <1>16
  <2>2. Len(scopes') = Len(frames) + (IF f.kind = "branch" THEN 1 ELSE 2)
    BY <1>15, <1>16
  <2> QED BY <1>1, <1>3, <1>16, <2>1, <2>2, PushNesting
<1>21. Open(frames', scopes', moved', next_id', gaps')
  <2>1. \A i \in Branches(frames) : Agree(scopes, scopes', i) /\ frames[i].before \subseteq moved'
    BY <1>1, <1>3, <1>15
  <2>2. f.kind # "loop" /\ f.kind # "branch"
    BY <1>16
  <2>3. Open(Append(frames, f), scopes', moved', next_id', gaps')
    BY <1>3, <1>12, <1>15, <1>16, <2>1, <2>2, PushOpen
  <2> QED BY <1>1, <2>3
<1>22. Verdict'
  BY <1>1, <1>3, <1>12, SameVerdict
<1> QED BY <1>15, <1>19, <1>20, <1>21, <1>22 DEF Inv, EscapeShape

\* The frames in which branch n has one more arm behind it.
Kept(fs, n, snap, mv) ==
  [fs EXCEPT ![n].snaps = Append(@, snap), ![n].after = @ \cup mv]

\* What the arm left is added; nothing else changes.
LEMMA KeptFrames ==
  ASSUME NEW fs \in Seq(Frame), NEW n \in Branches(fs), NEW snap \in Saved, NEW mv \in SUBSET Nat,
         NEW gs, gs = Kept(fs, n, snap, mv)
  PROVE  /\ gs \in Seq(Frame) /\ Len(gs) = Len(fs)
         /\ \A i \in 1 .. Len(fs) : gs[i].kind = fs[i].kind /\ (i # n => gs[i] = fs[i])
         /\ gs[n].base = fs[n].base /\ gs[n].arms = fs[n].arms /\ gs[n].before = fs[n].before
         /\ gs[n].after = fs[n].after \cup mv
         /\ gs[n].snaps = Append(fs[n].snaps, snap)
<1> DEFINE f == fs[n]
           g == [f EXCEPT !.snaps = Append(@, snap), !.after = @ \cup mv]
<1>1. /\ n \in 1 .. Len(fs) /\ DOMAIN fs = 1 .. Len(fs) /\ Len(fs) \in Nat
      /\ f \in [kind : {"branch"}, base : Saved, snaps : Seq(Saved), arms : Nat,
                before : SUBSET Nat, after : SUBSET Nat]
  BY BranchFrame, LenProperties
<1>2. gs = [fs EXCEPT ![n] = g]
  BY <1>1 DEF Kept
<1> HIDE DEF f
<1> DEFINE snaps == Append(f.snaps, snap)  after == f.after \cup mv
<1>3. g = [f EXCEPT !.snaps = snaps, !.after = after]
  OBVIOUS
<1>4. snaps \in Seq(Saved) /\ after \in SUBSET Nat
  <2>1. f.snaps \in Seq(Saved) /\ f.after \in SUBSET Nat
    BY <1>1
  <2> QED BY <2>1, AppendProperties
<1> HIDE DEF g, snaps, after
<1>5. /\ g \in Frame
      /\ g.kind = f.kind /\ g.base = f.base /\ g.arms = f.arms /\ g.before = f.before
      /\ g.snaps = snaps /\ g.after = after
  <2>1. g \in [kind : {"branch"}, base : Saved, snaps : Seq(Saved), arms : Nat,
               before : SUBSET Nat, after : SUBSET Nat]
    BY <1>1, <1>3, <1>4
  <2>2. /\ g.kind = f.kind /\ g.base = f.base /\ g.arms = f.arms /\ g.before = f.before
        /\ g.snaps = snaps /\ g.after = after
    BY <1>1, <1>3
  <2> QED BY <2>1, <2>2 DEF Frame
<1>6. gs \in Seq(Frame) /\ Len(gs) = Len(fs)
  BY <1>1, <1>2, <1>5, ExceptSeq
<1>7. gs[n] = g /\ \A i \in 1 .. Len(fs) : i # n => gs[i] = fs[i]
  BY <1>1, <1>2
<1>8. \A i \in 1 .. Len(fs) : gs[i].kind = fs[i].kind
  BY <1>5, <1>7 DEF f
<1> QED BY <1>5, <1>6, <1>7, <1>8 DEF f, snaps, after

\* A branch with one more arm behind it.
LEMMA KeptBranch ==
  ASSUME NEW ss \in Scopes, NEW mv, NEW n, NEW g, Truth(ss, mv, n, g),
         NEW f, f.snaps \in Seq(Saved), Branch(f, ss, Len(ss), g), f.before \subseteq mv,
         NEW h, h.base = f.base, h.arms = f.arms, h.before = f.before, h.after = f.after \cup mv,
         h.snaps = Append(f.snaps, Snapshot(ss))
  PROVE  Branch(h, ss, Len(ss), g)
<1> DEFINE snap == Snapshot(ss)  i == Len(ss)  m == Len(f.snaps)
<1>1. /\ Pictures(snap, ss, i) /\ snap \in Saved
      /\ Remembering(ss, mv) => Covers(snap, ss, i, mv)
      /\ Inventing(ss, mv) => Within(snap, ss, mv)
  BY SnapshotPictures
<1>2. /\ m \in Nat /\ DOMAIN f.snaps = 1 .. m /\ DOMAIN h.snaps = 1 .. m + 1
      /\ h.snaps[m + 1] = snap /\ \A k \in 1 .. m : h.snaps[k] = f.snaps[k]
  BY <1>1, AppendElements, LenProperties
<1> HIDE DEF snap, i, m
<1>3. \A k \in DOMAIN h.snaps : h.snaps[k] = snap \/ (k \in DOMAIN f.snaps /\ h.snaps[k] = f.snaps[k])
  BY <1>2
<1>4. \A k \in DOMAIN h.snaps : Pictures(h.snaps[k], ss, i)
  BY <1>1, <1>3 DEF Branch, i
<1>5. ASSUME {"infer", "assign", "unwalked"} \cap g = {}
      PROVE  Covers(UNION {h.snaps[k] : k \in DOMAIN h.snaps}, ss, i, h.after)
  <2>1. /\ Covers(snap, ss, i, mv)
        /\ Covers(UNION {f.snaps[k] : k \in DOMAIN f.snaps}, ss, i, f.after)
    BY <1>1, <1>5 DEF Truth, Branch, i
  <2>2. /\ snap \subseteq UNION {h.snaps[k] : k \in DOMAIN h.snaps}
        /\ UNION {f.snaps[k] : k \in DOMAIN f.snaps} \subseteq UNION {h.snaps[k] : k \in DOMAIN h.snaps}
    <3>1. m + 1 \in DOMAIN h.snaps /\ \A k \in DOMAIN f.snaps : k \in DOMAIN h.snaps
      BY <1>2
    <3> QED BY <1>2, <3>1
  <2> QED BY <2>1, <2>2 DEF Covers
<1>6. ASSUME {"shadow", "lend"} \cap g = {} PROVE \A k \in DOMAIN h.snaps : Within(h.snaps[k], ss, h.after)
  <2>1. Within(snap, ss, mv) /\ \A k \in DOMAIN f.snaps : Within(f.snaps[k], ss, f.after)
    BY <1>1, <1>6 DEF Truth, Branch
  <2> QED BY <1>3, <2>1 DEF Within
<1>7. Branch(h, ss, i, g)
  BY <1>4, <1>5, <1>6 DEF Branch, i
<1> QED BY <1>7 DEF i

\* An arm ends; what it left is remembered, and its two scopes go.
LEMMA LeaveArmKeeps ==
  ASSUME Inv, LeaveArm
  PROVE  Inv'
<1> DEFINE outer == Front(Front(scopes))
           fs == Front(frames)
           n == Len(frames) - 1
<1>1. /\ phase = "walking" /\ Top.kind = "arm" /\ scopes' = outer
      /\ UNCHANGED <<phase, fuel, next_id, moved, errors, faults, gaps>>
  BY DEF LeaveArm
<1>2. frames' = Kept(fs, n, Snapshot(outer), moved)
  BY DEF LeaveArm, Kept
<1>3. /\ frames \in Seq(Frame) /\ Len(frames) \in Nat /\ Len(frames) >= 1
      /\ Top = frames[Len(frames)] /\ DOMAIN frames = 1 .. Len(frames)
      /\ scopes \in Scopes /\ scopes # <<>> /\ DepthOK(scopes)
      /\ Len(scopes) = Len(frames) + 1 /\ frames # <<>>
      /\ Nesting(frames, scopes) /\ Truth(scopes, moved, next_id, gaps)
      /\ Open(frames, scopes, moved, next_id, gaps) /\ Verdict
      /\ next_id \in Nat /\ moved \subseteq 0 .. next_id - 1
  BY <1>1, InsideBlock DEF InBlock
<1>4. n \in Nat /\ n >= 1 /\ n + 1 = Len(frames)
  <2>1. Len(frames) # 1
    BY <1>1, <1>3 DEF Nesting
  <2> QED BY <1>3, <2>1
<1>5. frames[n].kind = "branch" /\ frames[1].kind = "block"
  <2>1. n \in 1 .. Len(frames) - 1
    BY <1>4
  <2> QED BY <1>1, <1>3, <1>4, <2>1 DEF Nesting
<1>6. /\ fs \in Seq(Frame) /\ Len(fs) = n /\ DOMAIN fs = 1 .. n
      /\ \A i \in 1 .. n : fs[i] = frames[i]
  BY <1>3, FrontElements
<1> HIDE DEF fs, n
<1>7. /\ outer \in Scopes /\ Len(outer) = n /\ DepthOK(outer)
      /\ Truth(outer, moved, next_id, gaps)
      /\ \A i \in Nat : i <= n => Agree(scopes, outer, i)
  <2> DEFINE ss == Front(scopes)
  <2>1. /\ ss \in Scopes /\ Len(ss) = n + 1
        /\ Positions(ss) \subseteq Positions(scopes)
        /\ \A p \in Positions(ss) : At(ss, p) = At(scopes, p)
        /\ \A i \in Nat : i < n + 2 => Agree(scopes, ss, i)
    <3>1. Len(scopes) = n + 2
      BY <1>3, <1>4
    <3> QED BY <1>3, <1>4, <3>1, PopScope
  <2>2. ss # <<>>
    BY <1>4, <2>1, EmptySeq
  <2> HIDE DEF ss
  <2>3. outer = Front(ss)
    BY DEF ss
  <2> HIDE DEF outer
  <2>4. /\ outer \in Scopes /\ Len(outer) = n
        /\ Positions(outer) \subseteq Positions(ss)
        /\ \A p \in Positions(outer) : At(outer, p) = At(ss, p)
        /\ \A i \in Nat : i < n + 1 => Agree(ss, outer, i)
    BY <1>4, <2>1, <2>2, <2>3, PopScope
  <2>5. /\ Positions(outer) \subseteq Positions(scopes)
        /\ \A p \in Positions(outer) : At(outer, p) = At(scopes, p)
    BY <2>1, <2>4
  <2>6. Truth(outer, moved, next_id, gaps)
    BY <1>3, <2>5, ForgetTruth
  <2>7. ASSUME NEW i \in Nat, i <= n PROVE Agree(scopes, outer, i)
    <3>1. i < n + 1 /\ i < n + 2
      BY <1>4, <2>7
    <3> QED BY <2>1, <2>4, <3>1, AgreeAgain
  <2> QED BY <1>3, <2>4, <2>5, <2>6, <2>7 DEF DepthOK
<1> HIDE DEF outer
<1>8. /\ frames' \in Seq(Frame) /\ Len(frames') = n
      /\ \A i \in 1 .. n : frames'[i].kind = fs[i].kind /\ (i # n => frames'[i] = fs[i])
      /\ frames'[n].base = fs[n].base /\ frames'[n].arms = fs[n].arms
      /\ frames'[n].before = fs[n].before /\ frames'[n].after = fs[n].after \cup moved
      /\ frames'[n].snaps = Append(fs[n].snaps, Snapshot(outer))
  <2>1. n \in Branches(fs)
    BY <1>4, <1>5, <1>6 DEF Branches
  <2>2. Snapshot(outer) \in Saved /\ moved \in SUBSET Nat
    BY <1>3, <1>7, SnapshotPictures
  <2> QED BY <1>2, <1>6, <2>1, <2>2, KeptFrames, SMTT(20)
<1>9. \A i \in Branches(fs) : i \in Nat /\ i <= n /\ i \in Branches(frames) /\ fs[i] = frames[i]
  BY <1>3, <1>4, <1>6 DEF Branches
<1>10. Open(fs, outer, moved, next_id, gaps)
  <2>1. \A i \in Branches(fs) : Agree(scopes, outer, i) /\ fs[i].before \subseteq moved
    BY <1>3, <1>7, <1>9 DEF Open
  <2>2. /\ Len(fs) <= Len(frames)
        /\ \A i \in 1 .. Len(fs) :
             fs[i].kind = frames[i].kind /\ (frames[i].kind # "loop" => fs[i] = frames[i])
    BY <1>4, <1>6
  <2>3. next_id <= next_id
    BY <1>3
  <2> QED BY <1>3, <1>6, <2>1, <2>2, <2>3, KeepOpen
<1>11. Branches(frames') = Branches(fs) /\ n \in Branches(fs) /\ DOMAIN frames' = 1 .. n
  <2>1. DOMAIN frames' = 1 .. n
    BY <1>8, LenProperties
  <2> QED BY <1>4, <1>5, <1>6, <1>8, <2>1 DEF Branches
<1>12. Branch(frames'[n], outer, n, gaps)
  <2> DEFINE f == fs[n]  h == frames'[n]
  <2>1. f.snaps \in Seq(Saved)
    BY <1>6, <1>11, BranchFrame
  <2>2. Branch(f, outer, Len(outer), gaps) /\ f.before \subseteq moved
    BY <1>7, <1>10, <1>11 DEF Open
  <2>3. /\ h.base = f.base /\ h.arms = f.arms /\ h.before = f.before /\ h.after = f.after \cup moved
        /\ h.snaps = Append(f.snaps, Snapshot(outer))
    BY <1>8
  <2> HIDE DEF f, h
  <2>4. Branch(h, outer, Len(outer), gaps)
    BY <1>7, <2>1, <2>2, <2>3, KeptBranch
  <2> QED BY <1>7, <2>4 DEF h
<1>13. Open(frames', outer, moved, next_id, gaps)
  <2>1. \A i \in Branches(fs) : i \in 1 .. n /\ frames'[i].before = fs[i].before
    BY <1>6, <1>8 DEF Branches
  <2>2. \A i \in Branches(fs) : i # n => frames'[i] = fs[i]
    BY <1>8, <2>1
  <2>3. frames'[n].after \subseteq 0 .. next_id - 1
    BY <1>3, <1>8, <1>10, <1>11 DEF Open
  <2>4. \A i \in Branches(frames') : /\ Branch(frames'[i], outer, i, gaps)
                                     /\ frames'[i].before \subseteq moved
                                     /\ frames'[i].after \subseteq 0 .. next_id - 1
    BY <1>10, <1>11, <1>12, <2>1, <2>2, <2>3 DEF Open
  <2>5. \A i, j \in Branches(frames') : i < j => frames'[i].before \subseteq frames'[j].before
    BY <1>10, <1>11, <2>1 DEF Open
  <2>6. \A i \in DOMAIN frames' : frames'[i].kind = "loop" => "loop" \in gaps
    BY <1>6, <1>8, <1>10, <1>11 DEF Open
  <2> QED BY <2>4, <2>5, <2>6 DEF Open
<1>14. Nesting(frames', outer)
  <2>1. frames' # <<>> /\ frames'[1].kind = "block"
    <3>1. 1 \in 1 .. n
      BY <1>4
    <3> QED BY <1>4, <1>5, <1>6, <1>8, <3>1, EmptySeq
  <2>2. ASSUME NEW i \in 1 .. Len(frames') - 1
        PROVE  frames'[i].kind = "branch" <=> frames'[i + 1].kind = "arm"
    <3>1. i \in 1 .. n /\ i + 1 \in 1 .. n /\ i \in 1 .. Len(frames) - 1
      BY <1>4, <1>8
    <3>2. frames[i].kind = "branch" <=> frames[i + 1].kind = "arm"
      BY <1>3, <3>1 DEF Nesting
    <3> QED BY <1>6, <1>8, <3>1, <3>2
  <2>3. frames'[n].kind = "branch"
    BY <1>11 DEF Branches
  <2> QED BY <1>7, <1>8, <2>1, <2>2, <2>3 DEF Nesting
<1>15. Verdict'
  BY <1>1, <1>3, SameVerdict
<1>16. TypeOK'
  BY <1>1, <1>7, <1>8 DEF Inv, TypeOK, Scopes, DepthOK
<1>17. /\ Truth(scopes', moved', next_id', gaps') /\ Open(frames', scopes', moved', next_id', gaps')
       /\ Nesting(frames', scopes')
  BY <1>1, <1>7, <1>13, <1>14
<1> QED BY <1>15, <1>16, <1>17 DEF Inv, EscapeShape

-----------------------------------------------------------------------------
(* Functions, and the whole walk.                                          *)

\* A function begins with its parameters in one scope and its body in the next.
LEMMA CheckFuncKeeps ==
  ASSUME Inv, NEW params \in SUBSET Names, NEW kinds \in [params -> {"own", "borrow"}],
         CheckFunc(params, kinds)
  PROVE  Inv'
<1> DEFINE names == SetToSeq(params)
           new == [i \in DOMAIN names |->
                     [name |-> names[i], kind |-> kinds[names[i]], moved |-> FALSE,
                      depth |-> 0, id |-> i - 1, is |-> kinds[names[i]]]]
           none == <<>>
           noone == {}
<1>1. /\ scopes' = <<new, <<>> >> /\ next_id' = Len(names) /\ frames' = <<Block>>
      /\ phase' = "walking" /\ fuel' = MaxStmts
      /\ moved' = {} /\ errors' = {} /\ faults' = {} /\ gaps' = {}
  BY DEF CheckFunc
<1>2. IsFiniteSet(params)
  BY EscapeAssumption, FS_Subset
<1>3. /\ names \in [1 .. Cardinality(params) -> params] /\ Cardinality(params) \in Nat
  BY <1>2, Listed
<1>4. /\ DOMAIN new = DOMAIN names /\ new = [i \in DOMAIN new |-> new[i]]
      /\ \A i \in DOMAIN new : new[i].name = names[i]
      /\ \A i \in DOMAIN new : /\ new[i].id = 0 + i - 1 /\ ~new[i].moved
                               /\ new[i].kind = new[i].is /\ new[i].depth = Len(none)
  <2>1. \A i \in DOMAIN names : i - 1 = 0 + i - 1
    BY <1>3
  <2> QED BY <2>1
<1>5. \A i \in DOMAIN new : new[i] \in Binding
  <2> SUFFICES ASSUME NEW i \in DOMAIN names
               PROVE  [name |-> names[i], kind |-> kinds[names[i]], moved |-> FALSE,
                       depth |-> 0, id |-> i - 1, is |-> kinds[names[i]]] \in Binding
    OBVIOUS
  <2>1. names[i] \in params /\ i \in 1 .. Cardinality(params)
    BY <1>3
  <2>2. names[i] \in Names /\ kinds[names[i]] \in Kind /\ i - 1 \in Nat
    BY <1>3, <2>1 DEF Kind
  <2> HIDE DEF names
  <2> QED BY <2>2 DEF Binding
<1>6. Len(names) = Cardinality(params)
  BY <1>3
<1> HIDE DEF new
<1>7. /\ new \in Seq(Binding) /\ Len(new) = Cardinality(params)
      /\ \A j, k \in DOMAIN new : new[j].name = new[k].name => j = k
  BY <1>4, <1>5, BindingOfEach
<1>8. none \in Scopes /\ Positions(none) = {} /\ Len(none) = 0 /\ DepthOK(none)
  <2>1. none \in Scopes /\ Len(none) = 0
    BY DEF Scopes
  <2>2. Positions(none) = {}
    BY DEF Positions
  <2> QED BY <2>1, <2>2 DEF DepthOK
<1>9. Truth(none, noone, 0, noone)
  BY <1>8 DEF Truth, Variables, Remembering, Inventing
<1> DEFINE ss == Append(none, new)  tt == Append(ss, <<>>)
<1>10. scopes' = tt
  BY <1>1
<1> HIDE DEF none, noone, names, ss, tt
<1>11. ss \in Scopes /\ Len(ss) = 1 /\ DepthOK(ss) /\ Truth(ss, noone, 0 + Len(new), noone)
  <2>1. noone \in SUBSET (0 .. 0 - 1) /\ noone \subseteq noone /\ 0 \in Nat
    BY DEF noone
  <2>2. \A j \in DOMAIN new, p \in Positions(none) : At(none, p).name # new[j].name
    BY <1>8
  <2>3. /\ Append(none, new) \in Scopes /\ Len(Append(none, new)) = Len(none) + 1
        /\ DepthOK(Append(none, new)) /\ Truth(Append(none, new), noone, 0 + Len(new), noone)
    <3>1. \A j \in DOMAIN new : /\ new[j].id = 0 + j - 1 /\ ~new[j].moved
                               /\ new[j].kind = new[j].is /\ new[j].depth = Len(none)
      BY <1>4
    <3>2. new \in Seq(Binding) /\ \A j, k \in DOMAIN new : new[j].name = new[k].name => j = k
      BY <1>7
    <3>3. none \in Scopes /\ DepthOK(none)
      BY <1>8
    <3> QED BY <1>9, <2>1, <2>2, <3>1, <3>2, <3>3, NewScope
  <2> QED BY <1>8, <2>3 DEF ss
<1>12. tt \in Scopes /\ Len(tt) = 2 /\ DepthOK(tt) /\ Truth(tt, noone, 0 + Len(new), noone)
  <2> DEFINE empty == <<>>  n == 0 + Len(new)
  <2>1. empty \in Seq(Binding) /\ DOMAIN empty = {} /\ Len(empty) = 0 /\ n \in Nat
    BY <1>3, <1>7
  <2>2. noone \in SUBSET (0 .. n - 1) /\ noone \subseteq noone
    BY DEF noone
  <2>3. tt = Append(ss, empty) /\ Truth(ss, noone, n, noone)
    BY <1>11 DEF tt
  <2> HIDE DEF empty, n
  <2>4. /\ Append(ss, empty) \in Scopes /\ Len(Append(ss, empty)) = Len(ss) + 1
        /\ DepthOK(Append(ss, empty)) /\ Truth(Append(ss, empty), noone, n + Len(empty), noone)
    BY <1>11, <2>1, <2>2, <2>3, NewScope
  <2>5. n + Len(empty) = n
    BY <2>1
  <2> QED BY <1>11, <2>3, <2>4, <2>5 DEF n
<1>13. 0 + Len(new) = Len(names) /\ Len(names) \in Nat
  BY <1>3, <1>6, <1>7
<1>14. Truth(scopes', moved', next_id', gaps') /\ Len(scopes') = 2
  BY <1>1, <1>10, <1>12, <1>13 DEF noone
<1>15. /\ frames' \in Seq(Frame) /\ Len(frames') = 1 /\ frames' # <<>> /\ DOMAIN frames' = {1}
       /\ frames'[1].kind = "block"
  <2>1. Block \in Frame /\ Block.kind = "block"
    BY DEF Block, Frame
  <2> QED BY <1>1, <2>1
<1>16. TypeOK'
  BY <1>1, <1>10, <1>12, <1>13, <1>15, EscapeAssumption DEF TypeOK, Scopes, DepthOK
<1>17. Nesting(frames', scopes')
  BY <1>14, <1>15 DEF Nesting
<1>18. Open(frames', scopes', moved', next_id', gaps')
  <2>1. Branches(frames') = {}
    BY <1>15 DEF Branches
  <2> QED BY <1>15, <2>1 DEF Open
<1>19. Verdict'
  BY <1>1 DEF Verdict
<1> QED BY <1>14, <1>16, <1>17, <1>18, <1>19 DEF Inv, EscapeShape

\* Before the first function.
LEMMA InitKeeps == Init => Inv
<1> SUFFICES ASSUME Init PROVE Inv
  OBVIOUS
<1> USE DEF Init
<1>1. scopes \in Seq(Seq(Binding)) /\ Positions(scopes) = {}
  <2>1. << <<>> >> \in Seq(Seq(Binding))
    OBVIOUS
  <2>2. DOMAIN << <<>> >> = {1} /\ << <<>> >>[1] = <<>>
    OBVIOUS
  <2> QED BY <2>1, <2>2 DEF Positions
<1>2. frames \in Seq(Frame)
  OBVIOUS
<1>3. TypeOK
  BY <1>1, <1>2 DEF TypeOK
<1>4. EscapeShape
  BY DEF EscapeShape, Verdict
<1> QED BY <1>3, <1>4 DEF Inv

\* A step that changes nothing.
LEMMA StutterKeeps ==
  ASSUME Inv, UNCHANGED vars
  PROVE  Inv'
<1>1. UNCHANGED <<scopes, frames, phase, errors, fuel, next_id, moved, faults, gaps>>
  BY DEF vars
<1>2. TypeOK'
  BY <1>1 DEF Inv, TypeOK
<1>3. EscapeShape'
  BY <1>1 DEF Inv, EscapeShape, Verdict
<1> QED BY <1>2, <1>3 DEF Inv

\* Every step keeps the invariant.
LEMMA NextKeeps ==
  ASSUME Inv, [Next]_vars
  PROVE  Inv'
<1>1. ASSUME NEW params \in SUBSET Names, NEW kinds \in [params -> {"own", "borrow"}],
             CheckFunc(params, kinds)
      PROVE  Inv'
  BY <1>1, CheckFuncKeeps
<1>2. ASSUME NEW x \in Visible, Use(x) \/ BodyValue(x)
      PROVE  Inv'
  BY <1>2, UseKeeps, BodyValueKeeps
<1>12. ASSUME NEW x \in Visible, NEW taken \in BOOLEAN, Unwalked(x, taken) \/ Call(x, taken)
       PROVE  Inv'
  BY <1>12, UnwalkedKeeps, CallKeeps
<1>13. ASSUME NEW x \in Visible, NEW inside \in BOOLEAN, StoreField(x, inside) \/ RetPath(x, inside)
       PROVE  Inv'
  BY <1>13, StoreFieldKeeps, RetPathKeeps
<1>3. ASSUME NEW y \in Declarable, NEW kind \in Kind, LetNew(y, kind)
      PROVE  Inv'
  BY <1>3, LetNewKeeps
<1>4. ASSUME NEW y \in Declarable, NEW x \in Visible, NEW annotated \in BOOLEAN, LetFrom(y, x, annotated)
      PROVE  Inv'
  BY <1>4, LetFromKeeps
<1>5. ASSUME NEW z \in Visible, NEW x \in Visible, Assign(z, x)
      PROVE  Inv'
  BY <1>5, AssignKeeps
<1>6. ASSUME EnterBlock \/ LeaveBlock \/ EnterLoop \/ LeaveLoop
      PROVE  Inv'
  BY <1>6, EnterBlockKeeps, LeaveBlockKeeps, EnterLoopKeeps, LeaveLoopKeeps
<1>7. ASSUME NEW n \in 1 .. MaxArms, BeginBranch(n)
      PROVE  Inv'
  BY <1>7, BeginBranchKeeps
<1>8. ASSUME NEW bound \in {b \in SUBSET Names : Cardinality(b) <= 1}, EnterArm(bound)
      PROVE  Inv'
  BY <1>8, EnterArmKeeps
<1>9. ASSUME LeaveArm \/ EndBranch
      PROVE  Inv'
  BY <1>9, LeaveArmKeeps, EndBranchKeeps
<1>10. CASE Next
  BY <1>1, <1>2, <1>3, <1>4, <1>5, <1>6, <1>7, <1>8, <1>9, <1>10, <1>12, <1>13 DEF Next
<1>11. CASE UNCHANGED vars
  BY <1>11, StutterKeeps
<1> QED BY <1>10, <1>11

\* The state of the checker has its type in every walk over every function.
THEOREM EscapeTypes == Spec => []TypeOK
<1>1. Inv => TypeOK
  BY DEF Inv
<1>2. Inv /\ [Next]_vars => Inv'
  BY NextKeeps
<1> QED BY <1>1, <1>2, InitKeeps, PTL DEF Spec

\* The shape of the open branches and what the bindings say of moves, for the
\* checker's stack of scopes and its snapshots.
THEOREM EscapeInvariance == Spec => []EscapeShape
<1>1. Inv => EscapeShape
  BY DEF Inv
<1>2. Inv /\ [Next]_vars => Inv'
  BY NextKeeps
<1> QED BY <1>1, <1>2, InitKeeps, PTL DEF Spec

\* A function that uses a variable after it was moved on some path is rejected, if
\* it makes no assignment, leaves no type annotation out, has no loop and names no
\* variable in an expression that the walk does not enter.
THEOREM NoUseAfterMove ==
  ASSUME Trusted \cap {"assign", "infer", "loop", "unwalked"} = {}
  PROVE  Spec => []MovesAreCaught
<1>1. Inv => MovesAreCaught
  BY DEF Inv, EscapeShape, Verdict, MovesAreCaught, Without
<1>2. Inv /\ [Next]_vars => Inv'
  BY NextKeeps
<1> QED BY <1>1, <1>2, InitKeeps, PTL DEF Spec

\* Only such a function is rejected, if no inner scope declares a name again, no
\* argument is only lent and no ret ends a path early.
THEOREM NoFalseMove ==
  ASSUME Trusted \cap {"shadow", "lend", "ret"} = {}
  PROVE  Spec => []MovesNotInvented
<1>1. Inv => MovesNotInvented
  BY DEF Inv, EscapeShape, Verdict, MovesNotInvented, Without
<1>2. Inv /\ [Next]_vars => Inv'
  BY NextKeeps
<1> QED BY <1>1, <1>2, InitKeeps, PTL DEF Spec

\* A local borrow is neither stored in a field nor returned unless it is reported,
\* if all types are annotated, the function has no value but by a ret, and no variable
\* is named in an expression that the walk does not enter.
THEOREM NoBorrowEscapes ==
  ASSUME Trusted \cap {"infer", "value", "unwalked"} = {}
  PROVE  Spec => []BorrowsStayLocal
<1>1. Inv => BorrowsStayLocal
  BY DEF Inv, EscapeShape, Verdict, BorrowsStayLocal, Without
<1>2. Inv /\ [Next]_vars => Inv'
  BY NextKeeps
<1> QED BY <1>1, <1>2, InitKeeps, PTL DEF Spec

\* Between two statements the binding of every name in view remembers a move of its
\* variable, through any nesting of branches.
THEOREM MovesAreKept ==
  ASSUME Trusted \cap {"assign", "infer", "unwalked"} = {}
  PROVE  Spec => []MovesRemembered
<1>1. Inv => MovesRemembered
  <2> SUFFICES ASSUME Inv, InBlock, Without({"assign", "infer", "unwalked"}), NEW b \in Bindings(Visible),
                      b.id \in moved
               PROVE  b.moved
    BY DEF MovesRemembered
  <2>1. scopes \in Scopes /\ Truth(scopes, moved, next_id, gaps)
    BY InsideBlock
  <2>2. PICK p \in Positions(scopes) : b = At(scopes, p)
    BY <2>1, Seeing DEF Bindings
  <2>3. Remembering(scopes, moved)
    BY <2>1 DEF Without, Truth
  <2> QED BY <2>2, <2>3 DEF Remembering
<1>2. Inv /\ [Next]_vars => Inv'
  BY NextKeeps
<1> QED BY <1>1, <1>2, InitKeeps, PTL DEF Spec
=============================================================================
