------------------------------- MODULE Layout -------------------------------
(***************************************************************************)
(* What the LLVM back end makes of composite values (backend/llvm): the    *)
(* size it computes for a type (ty.rs), the LLVM type it gives it, and the *)
(* stores and loads it emits to build, copy, take apart and propagate a    *)
(* value (rvalue.rs, place.rs, stmt.rs, lower/expr.rs).                    *)
(*                                                                         *)
(* One function has two locals "a" and "b" of a composite type, a local    *)
(* for each part of it ("p1", "p2"), one to take each part out to ("o1",   *)
(* "o2"), and the temporaries of `expr!`.  Every local is an alloca of the *)
(* size LLVM gives its type; a byte of memory remembers which byte of      *)
(* which value was stored there.  `held` is what the HIR says each local   *)
(* holds.  A store beyond a local is recorded: what it hits there is not   *)
(* said, and from then on nothing is known of the memory.                  *)
(***************************************************************************)
EXTENDS Integers, Sequences, FiniteSets, SequencesExt

CONSTANTS
  Widths,      \* bit widths of the integers the types are built from
  MaxLen       \* bound: elements of an array

ASSUME WidthsAssumption == Widths \subseteq {8, 16, 32, 64} /\ Widths # {}
ASSUME MaxLenAssumption == MaxLen \in Nat \ {0}

VARIABLES
  type,        \* the composite type of "a" and "b"
  cache,       \* the LLVM types of it and of its parts
  mem,         \* local -> its bytes, in order
  held,        \* local -> the value it holds, as the HIR means it
  ref,         \* the local a reference, or a slice of an array, points to
  out,         \* the local the last statement took a part out to
  overrun      \* what left its local or its slot: a "value" that was built, read
               \* or written, the store into a "temporary" of `expr!`

vars == <<type, cache, mem, held, ref, out, overrun>>

NoRef == "none"
NoOut == [part |-> 0]

-----------------------------------------------------------------------------
(* HIR types (middleend/hir/ty.rs).  A variant without payload has NoType. *)

IntOf(w)        == [k |-> "int", w |-> w]
Str             == [k |-> "str"]
Array(t, n)     == [k |-> "array", parts |-> [i \in 1 .. n |-> t]]
Struct(ts)      == [k |-> "struct", parts |-> ts]
Union(ts)       == [k |-> "union", parts |-> ts]
ErrUnion(ok, e) == [k |-> "errunion", parts |-> <<ok, e>>]
NoType          == [k |-> "none"]

Scalars == {IntOf(w) : w \in Widths} \cup {Str}

\* The composite types whose parts are taken from ts.
Over(ts) ==
  {Array(t, n) : t \in ts, n \in 1 .. MaxLen} \cup
  {Struct(<<t, u>>) : t, u \in ts} \cup
  {Union(<<t, u>>) : t, u \in ts} \cup {Union(<<NoType, t>>) : t \in ts} \cup
  {ErrUnion(t, u) : t, u \in ts}

Types == Over(Scalars \cup Over(Scalars))

-----------------------------------------------------------------------------
(* hir_type_size and hir_type_align: the sizes the compiler computes       *)
(* itself, before the module has a data layout.                            *)

AlignTo(offset, align) == IF align <= 1 THEN offset ELSE ((offset + align - 1) \div align) * align

Larger(x, y) == IF x < y THEN y ELSE x

RECURSIVE HirSize(_), HirAlign(_)

HirAlign(t) ==
  LET widest(least) ==
        FoldLeft(LAMBDA m, p : IF p = NoType THEN m ELSE Larger(m, HirAlign(p)), least, t.parts)
  IN  CASE t.k = "int" -> t.w \div 8
        [] t.k \in {"str", "errunion"} -> 8
        [] t.k = "array" -> HirAlign(t.parts[1])
        [] t.k = "struct" -> widest(1)
        [] t.k = "union" -> widest(4)

\* The payload a union is laid out for: the first of the largest ones.
Canonical(t) ==
  FoldLeft(LAMBDA best, p : IF p # NoType /\ HirSize(p) > best.size
                            THEN [size |-> HirSize(p), type |-> p] ELSE best,
           [size |-> 1, type |-> NoType], t.parts)

HirSize(t) ==
  CASE t.k = "int" -> t.w \div 8
    [] t.k = "str" -> 16
    [] t.k = "array" ->
         AlignTo(HirSize(t.parts[1]), HirAlign(t.parts[1])) * Len(t.parts)
    [] t.k = "struct" ->
         AlignTo(FoldLeft(LAMBDA at, p : AlignTo(at, HirAlign(p)) + HirSize(p), 0, t.parts),
                 HirAlign(t))
    [] t.k = "union" ->
         LET best == Canonical(t)
             align == IF best.type = NoType THEN 1 ELSE HirAlign(best.type)
         IN  AlignTo(AlignTo(4, align) + best.size, Larger(align, 4))
    [] t.k = "errunion" ->
         AlignTo(8 + Larger(HirSize(t.parts[1]), HirSize(t.parts[2])), 8)

-----------------------------------------------------------------------------
(* LLVM types with the layout that the 64-bit targets of linker.rs give    *)
(* them (external): where the elements begin, which bytes are no padding.  *)

Plain(size, align) ==
  [size |-> size, align |-> align, elems |-> << >>, offsets |-> << >>, bytes |-> 0 .. size - 1]

LInt(w)   == Plain(w \div 8, w \div 8)
LPtr      == Plain(8, 8)
LBytes(n) == Plain(n, 1)

LStruct(ls) ==
  LET align   == FoldLeft(LAMBDA m, l : Larger(m, l.align), 1, ls)
      placed  == FoldLeft(LAMBDA acc, l : LET at == AlignTo(acc.end, l.align)
                                          IN  [end |-> at + l.size, offsets |-> Append(acc.offsets, at)],
                          [end |-> 0, offsets |-> << >>], ls)
  IN  [size |-> AlignTo(placed.end, align), align |-> align, elems |-> ls,
       offsets |-> placed.offsets,
       bytes |-> UNION {{placed.offsets[i] + b : b \in ls[i].bytes} : i \in DOMAIN ls}]

LArray(l, n) == LStruct([i \in 1 .. n |-> l])

\* convert_type: the LLVM type of a HIR type.
RECURSIVE Convert(_)

\* The slot as it was: what LLVM's size_of() could not tell counts as 8.
PayloadBytesGuessed(t) ==
  LET known(p) == IF p.k = "int" THEN HirSize(p) ELSE 8
  IN  Larger(known(t.parts[1]), known(t.parts[2]))

\* The bytes of the payload slot of an error union.
PayloadBytes(t) == Larger(HirSize(t.parts[1]), HirSize(t.parts[2]))

Convert(t) ==
  CASE t.k = "int" -> LInt(t.w)
    [] t.k = "str" -> LStruct(<<LPtr, LInt(64)>>)
    [] t.k = "array" -> LArray(Convert(t.parts[1]), Len(t.parts))
    [] t.k = "struct" -> LStruct([i \in DOMAIN t.parts |-> Convert(t.parts[i])])
    [] t.k = "union" ->
         LET best == Canonical(t).type
         IN  LStruct(<<LInt(32), IF best = NoType THEN LInt(8) ELSE Convert(best)>>)
    [] t.k = "errunion" -> LStruct(<<LInt(64), LBytes(PayloadBytes(t))>>)

\* What the type cache answers for the local and for its parts.
Cached(t) ==
  [whole |-> Convert(t),
   parts |-> [i \in DOMAIN t.parts |-> IF t.parts[i] = NoType THEN Plain(0, 1)
                                       ELSE Convert(t.parts[i])]]

-----------------------------------------------------------------------------
(* Memory.  A byte is <<n, b>>, byte b of the value in "pn", or            *)
(* <<"tag", v, b>>, byte b of the discriminant of variant v.               *)

Sum     == type.k \in {"union", "errunion"}
Whole   == cache.whole
Part(i) == cache.parts[i]
Parts   == {i \in DOMAIN type.parts : type.parts[i] # NoType}
TagType == IF type.k = "union" THEN LInt(32) ELSE LInt(64)

Undef       == <<"undef">>
Fresh(l) == [b \in 1 .. l.size |-> Undef]
ValueOf(i, n) == [b \in Part(i).bytes |-> <<n, b>>]
TagOf(v, l) == [b \in l.bytes |-> <<"tag", v, b>>]

Composites == {"a", "b"}

\* build_load and build_store of a value of type l, `at` bytes into memory.
Load(m, at, l) == [b \in l.bytes |-> IF at + b < Len(m) THEN m[at + b + 1] ELSE Undef]

Store(m, at, l, value) ==
  [j \in DOMAIN m |->
     LET b == j - 1 - at
     IN  IF b \in DOMAIN value THEN value[b]
         ELSE IF b \in 0 .. l.size - 1 THEN Undef ELSE m[j]]

\* Whether an access stays inside, and the record of one that does not.
Inside(m, at, l) == at + l.size <= Len(m)

Left(what, inside) == IF inside THEN {} ELSE {what}

\* insertvalue: a value put into an aggregate at an offset.
Inserted(into, at, value) ==
  [b \in DOMAIN into |-> IF b - at \in DOMAIN value THEN value[b - at] ELSE into[b]]

Nothing(l) == [b \in l.bytes |-> Undef]

\* A value stored into a fresh local and loaded from there.
Through(slot, l, value) == Load(Store(Fresh(slot), 0, l, value), 0, slot)

-----------------------------------------------------------------------------
(* Building a value (codegen_aggregate).                                   *)

\* The payload slot of a union has the type of the canonical payload, and
\* only a payload of just that type is accepted.
Buildable(v) == type.k = "union" /\ v \in Parts => Part(v) = Whole.elems[2]

PayloadAt == Whole.offsets[2]

\* The payload of an error union goes through a byte array of its slot's size.
MadeSum(v) ==
  LET tagged == Inserted(Nothing(Whole), 0, TagOf(v, TagType))
      slot   == Whole.elems[2]
  IN  IF v \notin Parts THEN tagged
      ELSE IF type.k = "union" THEN Inserted(tagged, PayloadAt, ValueOf(v, v))
      ELSE Inserted(tagged, PayloadAt, Through(slot, Part(v), ValueOf(v, v)))

MadeProduct ==
  FoldLeft(LAMBDA made, i : Inserted(made, Whole.offsets[i], ValueOf(i, i)),
           Nothing(Whole), [i \in DOMAIN type.parts |-> i])

Unset == [variant |-> 0, parts |-> <<0, 0>>]

\* A local takes a whole value.
Take(x, value, means, inside) ==
  /\ mem' = [mem EXCEPT ![x] = Store(@, 0, Whole, value)]
  /\ held' = [held EXCEPT ![x] = means]
  /\ overrun' = overrun \cup Left("value", inside /\ Inside(mem[x], 0, Whole))
  /\ out' = NoOut
  /\ UNCHANGED <<type, cache, ref>>

MakeSum(x, v) ==
  /\ Sum /\ Buildable(v)
  /\ Take(x, MadeSum(v), [variant |-> v, parts |-> [i \in 1 .. 2 |-> IF i = v /\ v \in Parts THEN v ELSE 0]],
          type.k = "errunion" => Part(v).size <= Whole.elems[2].size)

MakeProduct(x) ==
  /\ ~Sum
  /\ Take(x, MadeProduct, [variant |-> 0, parts |-> [i \in 1 .. 2 |-> IF i \in Parts THEN i ELSE 0]],
          TRUE)

-----------------------------------------------------------------------------
(* Places (codegen_place): a local, what a reference points to, a field of *)
(* a struct, an element of an array or of a slice.                         *)

Target(place) == IF place = "deref" THEN ref ELSE place
Places == Composites \cup (IF ref = NoRef THEN {} ELSE {"deref"})

FieldAt(i) == Whole.offsets[i]

\* A slice is indexed by elements, from the address of the array.
PartAt(place, i) ==
  IF place = "deref" /\ type.k = "array" THEN (i - 1) * Part(i).size ELSE FieldAt(i)

\* lhs := rhs, both composite
Copy(from, to) ==
  /\ from # to
  /\ type.k = "array" => "deref" \notin {from, to}
  /\ Take(Target(to), Load(mem[Target(from)], 0, Whole), held[Target(from)], TRUE)

\* place.i := pn
Put(place, i, n) ==
  /\ ~Sum /\ type.parts[i] = type.parts[n]
  /\ LET x == Target(place)
     IN  /\ mem' = [mem EXCEPT ![x] = Store(@, PartAt(place, i), Part(i), ValueOf(i, n))]
         /\ held' = [held EXCEPT ![x].parts[i] = n]
         /\ overrun' = overrun \cup Left("value", Inside(mem[x], PartAt(place, i), Part(i)))
  /\ out' = NoOut
  /\ UNCHANGED <<type, cache, ref>>

\* A part is loaded as an l and stored into a new local of the type of part i,
\* which then means n; `before` is what the statements before it have written.
TakeOut(x, at, l, i, n, before) ==
  /\ out' = [part |-> i, means |-> n, value |-> Through(Part(i), l, Load(mem[x], at, l))]
  /\ overrun' = overrun \cup before \cup Left("value", Inside(mem[x], at, l))
                 \cup Left("temporary", Inside(Fresh(Part(i)), 0, l))

\* let o = place.i
Get(place, i) ==
  /\ ~Sum
  /\ TakeOut(Target(place), PartAt(place, i), Part(i), i, held[Target(place)].parts[i], {})
  /\ UNCHANGED <<type, cache, mem, held, ref>>

\* ref := &x, or a slice of the whole array x
Borrow(x) == ref # x /\ ref' = x /\ out' = NoOut /\ UNCHANGED <<type, cache, mem, held, overrun>>

-----------------------------------------------------------------------------
(* Taking a value apart: Discriminant and ExtractPayload.                  *)

\* The discriminant is read as an i32 at the start of the value.
Discriminant(x) == {v \in DOMAIN type.parts : Load(mem[x], 0, LInt(32)) = TagOf(v, LInt(32))}

ExtractAtPacked == TagType.size
ExtractAt == PayloadAt

\* A match on x: the arm the discriminant selects takes its payload out.
Match(x) ==
  /\ Sum /\ held[x].variant # 0
  /\ \E v \in Discriminant(x) \cap Parts :
       TakeOut(x, ExtractAt, Part(v), v, held[x].parts[v], {})
  /\ UNCHANGED <<type, cache, mem, held, ref>>

\* `expr!` on an error union (lower_propagate): field 0, the whole tag, is
\* loaded and stored into an u8; field 1 is the payload of either variant and
\* is loaded as the Ok one, and stored into a local of the variant's own type.
Tested == LInt(8)

Propagate(x) ==
  /\ type.k = "errunion" /\ held[x].variant # 0
  /\ LET tag == Through(Tested, LInt(64), Load(mem[x], 0, LInt(64)))
         v   == IF tag = TagOf(2, Tested) THEN 2 ELSE 1
         tested == Left("temporary", Inside(Fresh(Tested), 0, LInt(64)))
     IN  TakeOut(x, FieldAt(2), Part(1), v, held[x].parts[v], tested)
  /\ UNCHANGED <<type, cache, mem, held, ref>>

-----------------------------------------------------------------------------
\* codegen_body: an alloca for every local.
Init ==
  /\ type \in Types
  /\ cache = Cached(type)
  /\ mem = [x \in Composites |-> Fresh(Whole)]
  /\ held = [x \in Composites |-> Unset]
  /\ ref = NoRef /\ out = NoOut
  /\ overrun = {}

Next ==
  \/ \E x \in Composites :
       \/ \E v \in DOMAIN type.parts : MakeSum(x, v)
       \/ MakeProduct(x) \/ Borrow(x) \/ Match(x) \/ Propagate(x)
  \/ \E place \in Places :
       \/ \E to \in Places : Copy(place, to)
       \/ \E i \in Parts : Get(place, i) \/ \E n \in Parts : Put(place, i, n)

Spec == Init /\ [][Next]_vars

-----------------------------------------------------------------------------
(* Properties.                                                             *)

\* Types: a local keeps the size LLVM gave it, and the parts it holds are
\* parts its type has.
TypeOK ==
  /\ type \in Types
  /\ \A x \in Composites : /\ Len(mem[x]) = Whole.size
                           /\ held[x].variant \in IF Sum THEN 0 .. 2 ELSE {0}
                           /\ \A i \in 1 .. 2 : held[x].parts[i] \in Parts \cup {0}
  /\ ref \in Composites \cup {NoRef}
  /\ overrun \subseteq {"value", "temporary"}

Holds(value, i, n) == n # 0 => value = ValueOf(i, n)

\* Memory means what the HIR means: as long as no store has left its local,
\* after any sequence of building, copying, borrowing, writing parts and
\* matching the bytes of a composite are those of the variant and the parts it
\* holds, and what was taken out is what had been put in (rvalue.rs:522-729,
\* place.rs:63-177).
MemoryHoldsValues ==
  overrun = {} =>
    /\ \A x \in Composites :
         /\ held[x].variant # 0 => Load(mem[x], 0, TagType) = TagOf(held[x].variant, TagType)
         /\ \A i \in Parts :
              Holds(Load(mem[x], IF Sum THEN PayloadAt ELSE FieldAt(i), Part(i)), i, held[x].parts[i])
    /\ out # NoOut => Holds(out.value, out.part, out.means)

\* The sizes the compiler computes without a data layout are never too small:
\* no load or store of a composite, of a part of it or of a payload leaves the
\* local or the slot it is made to.
InsideTheSlots == "value" \notin overrun

\* A value fits the local it is stored into ("尺寸偏小会直接产生越界写",
\* ty.rs:41): what `expr!` stores into its temporaries too.
TemporariesHold == "temporary" \notin overrun

\* `expr!` takes out the error the union holds, all of it ("field 2 = err
\* 载荷", rvalue.rs:42).
ErrorArrivesWhole == out # NoOut => Holds(out.value, out.part, out.means)

\* Every variant of a union can be built ("这种情况应该不会发生", rvalue.rs:598).
EveryVariantCanBeBuilt == Sum => \A v \in DOMAIN type.parts : Buildable(v)
=============================================================================
