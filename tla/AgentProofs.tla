------------------------------ MODULE AgentProofs ------------------------------
(***************************************************************************)
(* What is proved of composed agents and of the store their skills share,  *)
(* for any skills, windows and values: the order of enabling does not      *)
(* matter, the reserve stays free, a slot's type suits all that declare    *)
(* it, operations of different skills commute, and what is canonical stays *)
(* as it is.                                                               *)
(***************************************************************************)
EXTENDS SharedState, FiniteSetTheorems, WellFoundedInduction, TLAPS

-------------------------------------------------------------------------------
(* Operations.                                                               *)

IsFunction(f) == f = [x \in DOMAIN f |-> f[x]]

\* A slot is what from_specs and the operations make: its entries carry ids of the
\* appends that were counted.
SlotRecord(slot) ==
  slot = [ty |-> slot.ty, writer |-> slot.writer, single |-> slot.single,
          entries |-> slot.entries, seq |-> slot.seq]
SlotCounts(slot) ==
  /\ IsFunction(slot.seq) /\ \A k \in DOMAIN slot.seq : slot.seq[k] \in Nat
  /\ IsFunction(slot.entries)
  /\ \A id \in DOMAIN slot.entries :
       /\ IsFunction(slot.entries[id])
       /\ \E k \in DOMAIN slot.seq : \E n \in 1..slot.seq[k] : id = <<k, n>>
SlotOK(slot) == SlotRecord(slot) /\ SlotCounts(slot)

\* What the operations do to the entries and the counts.
Plus(entries, id, v) == With(entries, id, With(Nothing, "value", v))
Patched(entries, id, f, v) == [entries EXCEPT ![id] = With(@, f, v)]
Counted(seq, k) == [seq EXCEPT ![k] = @ + 1]

\* set writes the single value, if it may, and nothing else.
LEMMA SetEffect ==
  ASSUME NEW slot, SlotRecord(slot), NEW k, NEW v
  PROVE  ApplySet(slot, k, v) =
           [ty |-> slot.ty, writer |-> slot.writer,
            single |-> IF CanSet(slot, k) THEN v ELSE slot.single,
            entries |-> slot.entries, seq |-> slot.seq]
BY DEF SlotRecord, ApplySet

\* append adds one entry under the next id of the skill and counts it.
LEMMA AppendEffect ==
  ASSUME NEW slot, SlotRecord(slot), IsList(slot), NEW k, NEW v
  PROVE  ApplyAppend(slot, k, v) =
           [ty |-> slot.ty, writer |-> slot.writer, single |-> slot.single,
            entries |-> Plus(slot.entries, <<k, slot.seq[k] + 1>>, v),
            seq |-> Counted(slot.seq, k)]
BY DEF SlotRecord, ApplyAppend, EntryId, Plus, Counted

\* patch writes one field of one entry.
LEMMA PatchEffect ==
  ASSUME NEW slot, SlotRecord(slot), IsList(slot), NEW id, id \in DOMAIN slot.entries, NEW f, NEW v
  PROVE  ApplyPatch(slot, id, f, v) =
           [ty |-> slot.ty, writer |-> slot.writer, single |-> slot.single,
            entries |-> Patched(slot.entries, id, f, v), seq |-> slot.seq]
BY DEF SlotRecord, ApplyPatch, Patched

\* Functions are equal that have one domain and the same values.
LEMMA SameFunction ==
  ASSUME NEW f, IsFunction(f), NEW g, IsFunction(g), DOMAIN f = DOMAIN g,
         \A x \in DOMAIN f : f[x] = g[x]
  PROVE  f = g
<1>1. f = [x \in DOMAIN f |-> f[x]] /\ g = [x \in DOMAIN f |-> g[x]]
  BY Zenon DEF IsFunction
<1>2. [x \in DOMAIN f |-> f[x]] = [x \in DOMAIN f |-> g[x]]
  OBVIOUS
<1> QED
  BY <1>1, <1>2, Zenon

\* An operation by the values it leaves.
LEMMA PlusIs ==
  ASSUME NEW e, NEW i, NEW v
  PROVE  Plus(e, i, v) =
           [y \in DOMAIN e \cup {i} |-> IF y = i THEN With(Nothing, "value", v) ELSE e[y]]
BY DEF Plus, With

\* Patching an entry leaves the others.
LEMMA PatchedIs ==
  ASSUME NEW e, NEW i \in DOMAIN e, NEW f, NEW v
  PROVE  Patched(e, i, f, v) = [y \in DOMAIN e |-> IF y = i THEN With(e[i], f, v) ELSE e[y]]
BY DEF Patched

\* Operations on different entries, or on different fields of one, commute.
LEMMA PlusPlus ==
  ASSUME NEW e, NEW i, NEW j, i # j, NEW v, NEW w
  PROVE  Plus(Plus(e, i, v), j, w) = Plus(Plus(e, j, w), i, v)
<1> DEFINE a == Plus(Plus(e, i, v), j, w)
           b == Plus(Plus(e, j, w), i, v)
<1>1. IsFunction(a) /\ DOMAIN a = DOMAIN e \cup {i, j}
  BY PlusIs DEF IsFunction
<1>2. IsFunction(b) /\ DOMAIN b = DOMAIN e \cup {i, j}
  BY PlusIs DEF IsFunction
<1>3. ASSUME NEW y \in DOMAIN e \cup {i, j} PROVE a[y] = b[y]
  BY PlusIs DEF IsFunction
<1> HIDE DEF a, b
<1>4. a = b
  BY <1>1, <1>2, <1>3, SameFunction
<1> QED
  BY <1>4 DEF a, b

\* A new entry and a field of another one commute.
LEMMA PlusPatched ==
  ASSUME NEW e, NEW i, NEW j \in DOMAIN e, i # j, NEW v, NEW f, NEW w
  PROVE  Patched(Plus(e, i, v), j, f, w) = Plus(Patched(e, j, f, w), i, v)
<1> DEFINE a == Patched(Plus(e, i, v), j, f, w)
           b == Plus(Patched(e, j, f, w), i, v)
<1>0. DOMAIN Plus(e, i, v) = DOMAIN e \cup {i}
  BY PlusIs
<1>5. DOMAIN Patched(e, j, f, w) = DOMAIN e
  BY PatchedIs
<1>1. IsFunction(a) /\ DOMAIN a = DOMAIN e \cup {i}
  BY <1>0, <1>5, PlusIs, PatchedIs DEF IsFunction
<1>2. IsFunction(b) /\ DOMAIN b = DOMAIN e \cup {i}
  BY <1>0, <1>5, PlusIs, PatchedIs DEF IsFunction
<1>3. ASSUME NEW y \in DOMAIN e \cup {i} PROVE a[y] = b[y]
  <2>1. a[y] = IF y = j THEN With(Plus(e, i, v)[j], f, w) ELSE Plus(e, i, v)[y]
    BY <1>0, PatchedIs
  <2>2. b[y] = IF y = i THEN With(Nothing, "value", v) ELSE Patched(e, j, f, w)[y]
    BY <1>5, PlusIs
  <2>3. /\ Plus(e, i, v)[j] = e[j]
        /\ Plus(e, i, v)[y] = IF y = i THEN With(Nothing, "value", v) ELSE e[y]
    BY PlusIs
  <2>4. y # i => Patched(e, j, f, w)[y] = IF y = j THEN With(e[j], f, w) ELSE e[y]
    BY PatchedIs
  <2> QED
    BY <2>1, <2>2, <2>3, <2>4
<1> HIDE DEF a, b
<1>4. a = b
  BY <1>1, <1>2, <1>3, SameFunction
<1> QED
  BY <1>4 DEF a, b

\* Two fields of one entry commute.
LEMMA FieldField ==
  ASSUME NEW h, NEW f, NEW g, f # g, NEW v, NEW w
  PROVE  With(With(h, g, w), f, v) = With(With(h, f, v), g, w)
<1> DEFINE a == With(With(h, g, w), f, v)
           b == With(With(h, f, v), g, w)
<1>1. IsFunction(a) /\ DOMAIN a = DOMAIN h \cup {f, g}
  BY DEF With, IsFunction
<1>2. IsFunction(b) /\ DOMAIN b = DOMAIN h \cup {f, g}
  BY DEF With, IsFunction
<1>3. ASSUME NEW y \in DOMAIN h \cup {f, g} PROVE a[y] = b[y]
  BY DEF With, IsFunction
<1> HIDE DEF a, b
<1>4. a = b
  BY <1>1, <1>2, <1>3, SameFunction
<1> QED
  BY <1>4 DEF a, b

\* Patches of different fields commute, of one entry or of two.
LEMMA PatchedPatched ==
  ASSUME NEW e, NEW i \in DOMAIN e, NEW j \in DOMAIN e, NEW f, NEW g, i # j \/ f # g,
         NEW v, NEW w
  PROVE  Patched(Patched(e, i, f, v), j, g, w) = Patched(Patched(e, j, g, w), i, f, v)
<1> DEFINE a == Patched(Patched(e, i, f, v), j, g, w)
           b == Patched(Patched(e, j, g, w), i, f, v)
<1>0. DOMAIN Patched(e, i, f, v) = DOMAIN e /\ DOMAIN Patched(e, j, g, w) = DOMAIN e
  BY PatchedIs
<1>1. IsFunction(a) /\ DOMAIN a = DOMAIN e
  BY <1>0, PatchedIs DEF IsFunction
<1>2. IsFunction(b) /\ DOMAIN b = DOMAIN e
  BY <1>0, PatchedIs DEF IsFunction
<1>3. ASSUME NEW y \in DOMAIN e PROVE a[y] = b[y]
  <2>1. CASE i # j
    BY <1>0, <2>1, PatchedIs
  <2>2. CASE i = j
    BY <1>0, <2>2, PatchedIs, FieldField
  <2> QED
    BY <2>1, <2>2
<1> HIDE DEF a, b
<1>4. a = b
  BY <1>1, <1>2, <1>3, SameFunction
<1> QED
  BY <1>4 DEF a, b

\* The counts of two skills commute.
LEMMA CountedCounted ==
  ASSUME NEW s, NEW k, NEW l, k # l
  PROVE  Counted(Counted(s, k), l) = Counted(Counted(s, l), k)
<1> DEFINE a == Counted(Counted(s, k), l)
           b == Counted(Counted(s, l), k)
<1>1. IsFunction(a) /\ DOMAIN a = DOMAIN s
  BY DEF Counted, IsFunction
<1>2. IsFunction(b) /\ DOMAIN b = DOMAIN s
  BY DEF Counted, IsFunction
<1>3. ASSUME NEW y \in DOMAIN s PROVE a[y] = b[y]
  BY DEF Counted
<1> HIDE DEF a, b
<1>4. a = b
  BY <1>1, <1>2, <1>3, SameFunction
<1> QED
  BY <1>4 DEF a, b

\* What may be asked of a slot.
LEMMA RequestCases ==
  ASSUME NEW slot, NEW a \in Requests(slot)
  PROVE  \/ \E k \in DOMAIN slot.seq, v \in Values : a = Set(k, v)
         \/ \E k \in DOMAIN slot.seq, v \in Values : a = Append1(k, v)
         \/ \E id \in DOMAIN slot.entries, f \in {"value", "checked"}, v \in Values : a = Patch(id, f, v)
BY DEF Requests

\* An operation on a slot that does not take it changes nothing.
LEMMA NoEffect ==
  ASSUME NEW slot, NEW k, NEW v, NEW id, NEW f
  PROVE  /\ ~CanSet(slot, k) => Apply(slot, Set(k, v)) = slot
         /\ ~IsList(slot) => Apply(slot, Append1(k, v)) = slot
         /\ ~IsList(slot) => Apply(slot, Patch(id, f, v)) = slot
BY DEF Apply, Set, Append1, Patch, ApplySet, ApplyAppend, ApplyPatch

\* What each kind of operation applies.
LEMMA ApplyIs ==
  ASSUME NEW slot, NEW k, NEW v, NEW id, NEW f
  PROVE  /\ Apply(slot, Set(k, v)) = ApplySet(slot, k, v)
         /\ Apply(slot, Append1(k, v)) = ApplyAppend(slot, k, v)
         /\ Apply(slot, Patch(id, f, v)) = ApplyPatch(slot, id, f, v)
BY DEF Apply, Set, Append1, Patch

\* The type and the writer of record stay.
LEMMA OperationKeepsType ==
  ASSUME NEW slot, SlotRecord(slot), NEW a \in Requests(slot)
  PROVE  /\ SlotRecord(Apply(slot, a))
         /\ Apply(slot, a).ty = slot.ty /\ Apply(slot, a).writer = slot.writer
<1>1. CASE \E k \in DOMAIN slot.seq, v \in Values : a = Set(k, v)
  BY <1>1, ApplyIs, SetEffect DEF SlotRecord
<1>2. ASSUME NEW k, NEW v, a = Append1(k, v)
      PROVE  /\ SlotRecord(Apply(slot, a))
             /\ Apply(slot, a).ty = slot.ty /\ Apply(slot, a).writer = slot.writer
  <2>1. CASE IsList(slot)
    <3>1. Apply(slot, a) =
            [ty |-> slot.ty, writer |-> slot.writer, single |-> slot.single,
             entries |-> Plus(slot.entries, <<k, slot.seq[k] + 1>>, v),
             seq |-> Counted(slot.seq, k)]
      BY <1>2, <2>1, ApplyIs, AppendEffect
    <3> QED
      BY <3>1 DEF SlotRecord
  <2> QED
    BY <1>2, <2>1, NoEffect
<1>3. ASSUME NEW id \in DOMAIN slot.entries, NEW f, NEW v, a = Patch(id, f, v)
      PROVE  /\ SlotRecord(Apply(slot, a))
             /\ Apply(slot, a).ty = slot.ty /\ Apply(slot, a).writer = slot.writer
  <2>1. CASE IsList(slot)
    BY <1>3, <2>1, ApplyIs, PatchEffect DEF SlotRecord
  <2> QED
    BY <1>3, <2>1, NoEffect
<1> QED
  BY <1>1, <1>2, <1>3, RequestCases

\* An operation that no slot of this type and this writer takes.
Idle(slot, a) ==
  \A t : t.ty = slot.ty /\ t.writer = slot.writer => Apply(t, a) = t

\* An operation that changes no slot of this type commutes with any other.
LEMMA IdleCommutes ==
  ASSUME NEW slot, SlotRecord(slot), NEW a, NEW b \in Requests(slot), Idle(slot, a)
  PROVE  /\ Apply(Apply(slot, a), b) = Apply(slot, b)
         /\ Apply(Apply(slot, b), a) = Apply(slot, b)
BY OperationKeepsType DEF Idle

\* A set that is not allowed changes nothing, nor do an append or a patch of no list.
LEMMA WhoIsIdle ==
  ASSUME NEW slot, NEW k, NEW v, NEW id, NEW f
  PROVE  /\ ~CanSet(slot, k) => Idle(slot, Set(k, v))
         /\ ~IsList(slot) => Idle(slot, Append1(k, v)) /\ Idle(slot, Patch(id, f, v))
<1> SUFFICES ASSUME NEW t, t.ty = slot.ty, t.writer = slot.writer
             PROVE  /\ ~CanSet(slot, k) => Apply(t, Set(k, v)) = t
                    /\ ~IsList(slot) => /\ Apply(t, Append1(k, v)) = t
                                       /\ Apply(t, Patch(id, f, v)) = t
  BY Zenon DEF Idle
<1>1. (CanSet(t, k) <=> CanSet(slot, k)) /\ (IsList(t) <=> IsList(slot))
  BY DEF CanSet, IsList
<1> QED
  BY <1>1, NoEffect

\* Appends of two skills commute: each takes the id of its own count.
LEMMA AppendAppend ==
  ASSUME NEW slot, SlotRecord(slot), IsList(slot), NEW k, NEW l, k # l, NEW v, NEW w
  PROVE  ApplyAppend(ApplyAppend(slot, k, v), l, w) = ApplyAppend(ApplyAppend(slot, l, w), k, v)
<1> DEFINE s == ApplyAppend(slot, k, v)
           t == ApplyAppend(slot, l, w)
           i == <<k, slot.seq[k] + 1>>
           j == <<l, slot.seq[l] + 1>>
<1>1. /\ s = [ty |-> slot.ty, writer |-> slot.writer, single |-> slot.single,
              entries |-> Plus(slot.entries, i, v), seq |-> Counted(slot.seq, k)]
      /\ t = [ty |-> slot.ty, writer |-> slot.writer, single |-> slot.single,
              entries |-> Plus(slot.entries, j, w), seq |-> Counted(slot.seq, l)]
  BY AppendEffect
<1>2. SlotRecord(s) /\ IsList(s) /\ SlotRecord(t) /\ IsList(t)
  BY <1>1 DEF SlotRecord, IsList
<1>3. s.seq[l] = slot.seq[l] /\ t.seq[k] = slot.seq[k]
  BY <1>1 DEF Counted
<1> HIDE DEF s, t
<1>4. /\ ApplyAppend(s, l, w) =
           [ty |-> s.ty, writer |-> s.writer, single |-> s.single,
            entries |-> Plus(s.entries, j, w), seq |-> Counted(s.seq, l)]
      /\ ApplyAppend(t, k, v) =
           [ty |-> t.ty, writer |-> t.writer, single |-> t.single,
            entries |-> Plus(t.entries, i, v), seq |-> Counted(t.seq, k)]
  BY <1>2, <1>3, AppendEffect
<1>5. i # j
  OBVIOUS
<1> HIDE DEF i, j
<1>6. ApplyAppend(s, l, w) = ApplyAppend(t, k, v)
  BY <1>1, <1>4, <1>5, PlusPlus, CountedCounted
<1> QED
  BY <1>6 DEF s, t

\* An append and a patch commute: the entry patched is none that is new.
LEMMA AppendPatch ==
  ASSUME NEW slot, SlotRecord(slot), SlotCounts(slot), IsList(slot), NEW k \in DOMAIN slot.seq,
         NEW v, NEW id \in DOMAIN slot.entries, NEW f, NEW w
  PROVE  ApplyPatch(ApplyAppend(slot, k, v), id, f, w) = ApplyAppend(ApplyPatch(slot, id, f, w), k, v)
<1> DEFINE s == ApplyAppend(slot, k, v)
           t == ApplyPatch(slot, id, f, w)
           i == <<k, slot.seq[k] + 1>>
<1>1. /\ s = [ty |-> slot.ty, writer |-> slot.writer, single |-> slot.single,
              entries |-> Plus(slot.entries, i, v), seq |-> Counted(slot.seq, k)]
      /\ t = [ty |-> slot.ty, writer |-> slot.writer, single |-> slot.single,
              entries |-> Patched(slot.entries, id, f, w), seq |-> slot.seq]
  BY AppendEffect, PatchEffect
<1>2. SlotRecord(s) /\ IsList(s) /\ SlotRecord(t) /\ IsList(t)
  BY <1>1 DEF SlotRecord, IsList
<1>3. t.seq[k] = slot.seq[k] /\ id \in DOMAIN s.entries
  <2>1. id \in DOMAIN Plus(slot.entries, i, v)
    BY PlusIs
  <2> QED
    BY <1>1, <2>1
<1>5. i # id
  <2>0. PICK l \in DOMAIN slot.seq : \E n \in 1..slot.seq[l] : id = <<l, n>>
    BY DEF SlotCounts
  <2>1. PICK n \in 1..slot.seq[l] : id = <<l, n>>
    BY <2>0
  <2>2. slot.seq[k] \in Nat /\ slot.seq[l] \in Nat
    BY DEF SlotCounts
  <2>3. k = l => n # slot.seq[k] + 1
    BY <2>2
  <2> QED
    BY <2>1, <2>3
<1> HIDE DEF s, t
<1>4. /\ ApplyPatch(s, id, f, w) =
           [ty |-> s.ty, writer |-> s.writer, single |-> s.single,
            entries |-> Patched(s.entries, id, f, w), seq |-> s.seq]
      /\ ApplyAppend(t, k, v) =
           [ty |-> t.ty, writer |-> t.writer, single |-> t.single,
            entries |-> Plus(t.entries, i, v), seq |-> Counted(t.seq, k)]
  BY <1>2, <1>3, AppendEffect, PatchEffect
<1> HIDE DEF i
<1>6. ApplyPatch(s, id, f, w) = ApplyAppend(t, k, v)
  BY <1>1, <1>4, <1>5, PlusPatched
<1> QED
  BY <1>6 DEF s, t

\* Two patches commute that write different fields.
LEMMA PatchPatch ==
  ASSUME NEW slot, SlotRecord(slot), IsList(slot), NEW i \in DOMAIN slot.entries,
         NEW j \in DOMAIN slot.entries, NEW f, NEW g, i # j \/ f # g, NEW v, NEW w
  PROVE  ApplyPatch(ApplyPatch(slot, i, f, v), j, g, w) = ApplyPatch(ApplyPatch(slot, j, g, w), i, f, v)
<1> DEFINE s == ApplyPatch(slot, i, f, v)
           t == ApplyPatch(slot, j, g, w)
<1>1. /\ s = [ty |-> slot.ty, writer |-> slot.writer, single |-> slot.single,
              entries |-> Patched(slot.entries, i, f, v), seq |-> slot.seq]
      /\ t = [ty |-> slot.ty, writer |-> slot.writer, single |-> slot.single,
              entries |-> Patched(slot.entries, j, g, w), seq |-> slot.seq]
  BY PatchEffect
<1>2. SlotRecord(s) /\ IsList(s) /\ SlotRecord(t) /\ IsList(t)
  BY <1>1 DEF SlotRecord, IsList
<1>3. j \in DOMAIN s.entries /\ i \in DOMAIN t.entries
  BY <1>1, PatchedIs
<1> HIDE DEF s, t
<1>4. /\ ApplyPatch(s, j, g, w) =
           [ty |-> s.ty, writer |-> s.writer, single |-> s.single,
            entries |-> Patched(s.entries, j, g, w), seq |-> s.seq]
      /\ ApplyPatch(t, i, f, v) =
           [ty |-> t.ty, writer |-> t.writer, single |-> t.single,
            entries |-> Patched(t.entries, i, f, v), seq |-> t.seq]
  BY <1>2, <1>3, PatchEffect
<1>6. ApplyPatch(s, j, g, w) = ApplyPatch(t, i, f, v)
  BY <1>1, <1>4, PatchedPatched
<1> QED
  BY <1>6 DEF s, t

\* On a slot that the store may hold, independent operations commute.
LEMMA SlotCommutes ==
  ASSUME NEW slot, SlotOK(slot), NEW a \in Requests(slot), NEW b \in Requests(slot),
         Independent(a, b)
  PROVE  Apply(Apply(slot, a), b) = Apply(Apply(slot, b), a)
<1>0. SlotRecord(slot) /\ SlotCounts(slot)
  BY DEF SlotOK
<1> DEFINE IsSet(c) == \E k \in DOMAIN slot.seq, v \in Values : c = Set(k, v)
           IsAppend(c) == \E k \in DOMAIN slot.seq, v \in Values : c = Append1(k, v)
           IsPatch(c) == \E id \in DOMAIN slot.entries, f \in {"value", "checked"}, v \in Values :
                           c = Patch(id, f, v)
<1>1. CASE Idle(slot, a)
  BY <1>0, <1>1, IdleCommutes
<1>2. CASE Idle(slot, b)
  BY <1>0, <1>2, IdleCommutes
<1>3. CASE ~Idle(slot, a) /\ ~Idle(slot, b) /\ ~IsList(slot)
  <2>1. ASSUME NEW c \in Requests(slot), ~Idle(slot, c)
        PROVE  c.kind = "set" /\ c.skill = slot.writer
    <3>1. ASSUME NEW k, NEW v, c = Append1(k, v) PROVE FALSE
      BY <1>3, <2>1, <3>1, WhoIsIdle
    <3>2. ASSUME NEW id, NEW f, NEW v, c = Patch(id, f, v) PROVE FALSE
      BY <1>3, <2>1, <3>2, WhoIsIdle
    <3>3. PICK k, v : c = Set(k, v)
      BY <3>1, <3>2, RequestCases
    <3>4. CanSet(slot, k)
      BY <2>1, <3>3, WhoIsIdle
    <3> QED
      BY <3>3, <3>4 DEF CanSet, Set
  <2>2. /\ a.kind = "set" /\ a.skill = slot.writer
        /\ b.kind = "set" /\ b.skill = slot.writer
    BY <1>3, <2>1
  <2> QED
    BY <2>2 DEF Independent
<1>4. CASE ~Idle(slot, a) /\ ~Idle(slot, b) /\ IsList(slot)
  <2>1. ~IsSet(a) /\ ~IsSet(b)
    BY <1>4, WhoIsIdle DEF CanSet
  <2>2. (IsAppend(a) \/ IsPatch(a)) /\ (IsAppend(b) \/ IsPatch(b))
    BY <2>1, RequestCases
  <2>3. CASE IsAppend(a) /\ IsAppend(b)
    <3>1. PICK k \in DOMAIN slot.seq, v \in Values : a = Append1(k, v)
      BY <2>3
    <3>2. PICK l \in DOMAIN slot.seq, w \in Values : b = Append1(l, w)
      BY <2>3
    <3>3. k # l
      BY <3>1, <3>2 DEF Independent, Append1
    <3> QED
      BY <1>0, <1>4, <3>1, <3>2, <3>3, ApplyIs, AppendAppend
  <2>4. CASE IsAppend(a) /\ IsPatch(b)
    <3>1. PICK k \in DOMAIN slot.seq, v \in Values : a = Append1(k, v)
      BY <2>4
    <3>2. PICK id \in DOMAIN slot.entries, f \in {"value", "checked"}, w \in Values : b = Patch(id, f, w)
      BY <2>4
    <3>3. /\ Apply(Apply(slot, a), b) = ApplyPatch(ApplyAppend(slot, k, v), id, f, w)
          /\ Apply(Apply(slot, b), a) = ApplyAppend(ApplyPatch(slot, id, f, w), k, v)
      BY <3>1, <3>2, ApplyIs
    <3> QED
      BY <1>0, <1>4, <3>3, AppendPatch
  <2>5. CASE IsPatch(a) /\ IsAppend(b)
    <3>1. PICK k \in DOMAIN slot.seq, v \in Values : b = Append1(k, v)
      BY <2>5
    <3>2. PICK id \in DOMAIN slot.entries, f \in {"value", "checked"}, w \in Values : a = Patch(id, f, w)
      BY <2>5
    <3>3. /\ Apply(Apply(slot, b), a) = ApplyPatch(ApplyAppend(slot, k, v), id, f, w)
          /\ Apply(Apply(slot, a), b) = ApplyAppend(ApplyPatch(slot, id, f, w), k, v)
      BY <3>1, <3>2, ApplyIs
    <3> QED
      BY <1>0, <1>4, <3>3, AppendPatch
  <2>6. CASE IsPatch(a) /\ IsPatch(b)
    <3>1. PICK i \in DOMAIN slot.entries, f \in {"value", "checked"}, v \in Values : a = Patch(i, f, v)
      BY <2>6
    <3>2. PICK j \in DOMAIN slot.entries, g \in {"value", "checked"}, w \in Values : b = Patch(j, g, w)
      BY <2>6
    <3>3. i # j \/ f # g
      <4>1. /\ a.kind = "patch" /\ a.id = i /\ a.field = f
            /\ b.kind = "patch" /\ b.id = j /\ b.field = g
        BY <3>1, <3>2 DEF Patch
      <4>2. a.id # b.id \/ a.field # b.field
        BY <4>1, Zenon DEF Independent
      <4> QED
        BY <4>1, <4>2
    <3>4. /\ Apply(Apply(slot, a), b) = ApplyPatch(ApplyPatch(slot, i, f, v), j, g, w)
          /\ Apply(Apply(slot, b), a) = ApplyPatch(ApplyPatch(slot, j, g, w), i, f, v)
      BY <3>1, <3>2, ApplyIs
    <3> QED
      BY <1>0, <1>4, <3>3, <3>4, PatchPatch
  <2> QED
    BY <2>2, <2>3, <2>4, <2>5, <2>6
<1> QED
  BY <1>1, <1>2, <1>3, <1>4

\* An operation leaves a slot that the store may hold.
LEMMA OperationKeepsSlot ==
  ASSUME NEW slot, SlotOK(slot), NEW a \in Requests(slot)
  PROVE  SlotOK(Apply(slot, a))
<1>0. SlotRecord(slot) /\ SlotCounts(slot)
  BY DEF SlotOK
<1> SUFFICES SlotCounts(Apply(slot, a))
  BY <1>0, OperationKeepsType DEF SlotOK
<1>1. ASSUME NEW k \in DOMAIN slot.seq, NEW v \in Values, a = Set(k, v) PROVE SlotCounts(Apply(slot, a))
  BY <1>0, <1>1, ApplyIs, SetEffect DEF SlotCounts
<1>2. ASSUME NEW k \in DOMAIN slot.seq, NEW v \in Values, a = Append1(k, v), IsList(slot)
      PROVE  SlotCounts(Apply(slot, a))
  <2> DEFINE i == <<k, slot.seq[k] + 1>>
             e == Plus(slot.entries, i, v)
             q == Counted(slot.seq, k)
  <2>1. Apply(slot, a).entries = e /\ Apply(slot, a).seq = q
    BY <1>0, <1>2, ApplyIs, AppendEffect
  <2>2. /\ IsFunction(q) /\ DOMAIN q = DOMAIN slot.seq
        /\ \A l \in DOMAIN slot.seq : q[l] = IF l = k THEN slot.seq[k] + 1 ELSE slot.seq[l]
    BY DEF Counted, IsFunction
  <2>3. \A l \in DOMAIN slot.seq : slot.seq[l] \in Nat
    BY <1>0 DEF SlotCounts
  <2>4. /\ IsFunction(e) /\ DOMAIN e = DOMAIN slot.entries \cup {i}
        /\ \A x \in DOMAIN e : e[x] = IF x = i THEN With(Nothing, "value", v) ELSE slot.entries[x]
    BY PlusIs DEF IsFunction
  <2>5. IsFunction(With(Nothing, "value", v))
    BY DEF With, IsFunction
  <2> HIDE DEF e, q
  <2>6. \A l \in DOMAIN q : q[l] \in Nat
    BY <2>2, <2>3
  <2>7. ASSUME NEW x \in DOMAIN e PROVE IsFunction(e[x])
    BY <1>0, <2>4, <2>5 DEF SlotCounts
  <2>8. ASSUME NEW x \in DOMAIN e PROVE \E l \in DOMAIN q : \E n \in 1..q[l] : x = <<l, n>>
    <3>1. CASE x = i
      <4>1. slot.seq[k] + 1 \in 1..q[k]
        BY <2>2, <2>3
      <4> QED
        BY <2>2, <3>1, <4>1
    <3>2. CASE x \in DOMAIN slot.entries
      <4>0. PICK l \in DOMAIN slot.seq : \E n \in 1..slot.seq[l] : x = <<l, n>>
        BY <1>0, <3>2 DEF SlotCounts
      <4>1. PICK n \in 1..slot.seq[l] : x = <<l, n>>
        BY <4>0
      <4>2. n \in 1..q[l]
        BY <2>2, <2>3
      <4> QED
        BY <2>2, <4>1, <4>2
    <3> QED
      BY <2>4, <3>1, <3>2
  <2> QED
    BY <2>1, <2>2, <2>4, <2>6, <2>7, <2>8 DEF SlotCounts
<1>3. ASSUME NEW id \in DOMAIN slot.entries, NEW f, NEW v \in Values, a = Patch(id, f, v), IsList(slot)
      PROVE  SlotCounts(Apply(slot, a))
  <2> DEFINE e == Patched(slot.entries, id, f, v)
  <2>1. Apply(slot, a).entries = e /\ Apply(slot, a).seq = slot.seq
    BY <1>0, <1>3, ApplyIs, PatchEffect
  <2>2. /\ IsFunction(e) /\ DOMAIN e = DOMAIN slot.entries
        /\ \A x \in DOMAIN e : e[x] = IF x = id THEN With(slot.entries[id], f, v) ELSE slot.entries[x]
    BY PatchedIs DEF IsFunction
  <2>3. IsFunction(With(slot.entries[id], f, v))
    BY DEF With, IsFunction
  <2> HIDE DEF e
  <2>4. ASSUME NEW x \in DOMAIN e PROVE IsFunction(e[x])
    BY <1>0, <2>2, <2>3 DEF SlotCounts
  <2> QED
    BY <1>0, <2>1, <2>2, <2>4 DEF SlotCounts
<1>4. ASSUME ~IsList(slot), ~ \E k \in DOMAIN slot.seq, v \in Values : a = Set(k, v)
      PROVE  Apply(slot, a) = slot
  <2>1. ASSUME NEW k, NEW v, a = Append1(k, v) PROVE Apply(slot, a) = slot
    BY <1>4, <2>1, NoEffect, Zenon
  <2>2. ASSUME NEW id, NEW f, NEW v, a = Patch(id, f, v) PROVE Apply(slot, a) = slot
    BY <1>4, <2>2, NoEffect, Zenon
  <2>3. CASE \E k \in DOMAIN slot.seq, v \in Values : a = Append1(k, v)
    BY <2>1, <2>3
  <2>4. CASE \E id \in DOMAIN slot.entries, f \in {"value", "checked"}, v \in Values : a = Patch(id, f, v)
    BY <2>2, <2>4
  <2> QED
    BY <1>4, <2>3, <2>4, RequestCases
<1> QED
  BY <1>0, <1>1, <1>2, <1>3, <1>4, RequestCases

-------------------------------------------------------------------------------
(* The invariant.                                                            *)

\* The enabled skills are manifests, each once.
EnabledOK ==
  /\ enabled \in Seq(Manifests)
  /\ \A i, j \in 1..Len(enabled) : enabled[i] = enabled[j] => i = j

\* The agent is what is composed of them, in one of the windows.
ComposedOK ==
  \/ agent = NoAgent /\ slots = NoStore
  \/ \E ctx \in Windows : agent = ComposeAgent(enabled, hint, ctx)

\* A slot has the type that its declarations compose to.
SlotsOK ==
  \A s \in DOMAIN slots :
    /\ Resolvable(Merged) /\ s \in SlotNames(Merged)
    /\ slots[s].ty = ComposedType(DeclsOf(Merged, s)) /\ SlotOK(slots[s])

AgentInv == EnabledOK /\ hint \in SkillIds \cup {0} /\ ComposedOK /\ SlotsOK

\* The invariant holds before any skill is enabled,
LEMMA AgentInvInit == Init => AgentInv
<1> SUFFICES ASSUME Init PROVE AgentInv
  OBVIOUS
<1>1. enabled = <<>> /\ hint \in SkillIds \cup {0} /\ agent = NoAgent /\ slots = NoStore
  BY DEF Init
<1>2. DOMAIN slots = {}
  BY <1>1 DEF NoStore
<1> QED
  BY <1>1, <1>2 DEF AgentInv, EnabledOK, ComposedOK, SlotsOK

\* What compose_agent returns is an agent or a refusal with a reason.
LEMMA ComposedIsNoNone ==
  ASSUME NEW e, NEW h, NEW ctx
  PROVE  ComposeAgent(e, h, ctx) # NoAgent
<1>1. ComposeAgent(e, h, ctx).kind # "none"
  BY DEF ComposeAgent, Refused
<1>2. NoAgent.kind = "none"
  BY DEF NoAgent, Refused
<1> QED
  BY <1>1, <1>2

\* A new store holds slots as the invariant wants them.
LEMMA NewSlots ==
  ASSUME NEW order, NEW s \in SlotNames(order)
  PROVE  /\ FromSpecs(order)[s].ty = ComposedType(DeclsOf(order, s))
         /\ SlotOK(FromSpecs(order)[s])
<1> DEFINE K == {order[i].id : i \in 1..Len(order)}
           q == [k \in K |-> 0]
           slot == FromSpecs(order)[s]
<1>1. slot = [ty |-> ComposedType(DeclsOf(order, s)), writer |-> WriterOfRecord(DeclsOf(order, s)),
              single |-> Absent, entries |-> Nothing, seq |-> q]
  BY DEF FromSpecs
<1>2. IsFunction(q) /\ \A k \in DOMAIN q : q[k] \in Nat
  BY DEF IsFunction
<1>3. IsFunction(Nothing) /\ DOMAIN Nothing = {}
  BY DEF IsFunction, Nothing
<1> HIDE DEF q, slot
<1> QED
  <2>1. SlotRecord(slot) /\ SlotCounts(slot)
    BY <1>1, <1>2, <1>3 DEF SlotRecord, SlotCounts
  <2> QED
    BY <1>1, <2>1 DEF SlotOK, slot

\* enabling one more skill keeps it,
LEMMA EnableKeeps ==
  ASSUME AgentInv, NEW m \in Manifests, Enable(m)
  PROVE  AgentInv'
<1>1. agent = NoAgent /\ enabled' = Append(enabled, m) /\ m \notin ToSet(enabled)
      /\ UNCHANGED <<hint, agent, slots>>
  BY DEF Enable
<1>2. slots = NoStore /\ slots' = NoStore /\ DOMAIN NoStore = {}
  <2>1. slots = NoStore
    BY <1>1, ComposedIsNoNone DEF AgentInv, ComposedOK
  <2> QED
    BY <1>1, <2>1 DEF NoStore
<1>3. EnabledOK'
  <2>1. enabled \in Seq(Manifests) /\ \A i, j \in 1..Len(enabled) : enabled[i] = enabled[j] => i = j
    BY DEF AgentInv, EnabledOK
  <2>2. \A i \in 1..Len(enabled) : enabled[i] # m
    BY <1>1, <2>1 DEF ToSet
  <2>3. /\ enabled' \in Seq(Manifests) /\ Len(enabled') = Len(enabled) + 1
        /\ \A i \in 1..Len(enabled) : enabled'[i] = enabled[i]
        /\ enabled'[Len(enabled) + 1] = m
    BY <1>1, <2>1
  <2>4. ASSUME NEW i \in 1..Len(enabled'), NEW j \in 1..Len(enabled'), enabled'[i] = enabled'[j]
        PROVE  i = j
    <3>1. Len(enabled) \in Nat
      BY <2>1
    <3>2. \A k \in 1..Len(enabled') : k \in 1..Len(enabled) \/ k = Len(enabled) + 1
      BY <2>3, <3>1
    <3> QED
      BY <2>1, <2>2, <2>3, <2>4, <3>2
  <2> QED
    BY <2>3, <2>4 DEF EnabledOK
<1>4. ComposedOK' /\ SlotsOK'
  BY <1>1, <1>2 DEF ComposedOK, SlotsOK
<1> QED
  BY <1>1, <1>3, <1>4 DEF AgentInv

\* composing the agent makes slots as the invariant wants them,
LEMMA ComposeKeeps ==
  ASSUME AgentInv, NEW ctx \in Windows, Compose(ctx)
  PROVE  AgentInv'
<1>1. /\ agent' = ComposeAgent(enabled, hint, ctx)
      /\ slots' = IF agent'.kind = "agent" /\ Resolvable(Merged) THEN FromSpecs(Merged) ELSE NoStore
      /\ enabled' = enabled /\ hint' = hint
  BY DEF Compose
<1>2. Merged' = Merged
  BY <1>1 DEF Merged
<1>3. ASSUME NEW s \in DOMAIN slots'
      PROVE  /\ Resolvable(Merged) /\ s \in SlotNames(Merged)
             /\ slots'[s].ty = ComposedType(DeclsOf(Merged, s)) /\ SlotOK(slots'[s])
  <2>1. slots' = FromSpecs(Merged) /\ Resolvable(Merged)
    BY <1>1, <1>3 DEF NoStore
  <2>2. s \in SlotNames(Merged)
    BY <1>3, <2>1 DEF FromSpecs
  <2> QED
    BY <2>1, <2>2, NewSlots
<1>4. SlotsOK'
  BY <1>2, <1>3 DEF SlotsOK
<1>5. ComposedOK'
  BY <1>1 DEF ComposedOK
<1> QED
  BY <1>1, <1>4, <1>5 DEF AgentInv, EnabledOK

\* an operation keeps a slot what it was,
LEMMA OperateKeeps ==
  ASSUME AgentInv, NEW s \in DOMAIN slots, NEW op \in Requests(slots[s]), Operate(s, op)
  PROVE  AgentInv'
<1>1. slots' = [slots EXCEPT ![s] = Apply(slots[s], op)] /\ UNCHANGED <<enabled, hint, agent>>
  BY DEF Operate
<1>2. Merged' = Merged
  BY <1>1 DEF Merged
<1>3. SlotsOK
  BY DEF AgentInv
<1>4. ASSUME NEW x \in DOMAIN slots'
      PROVE  /\ Resolvable(Merged) /\ x \in SlotNames(Merged)
             /\ slots'[x].ty = ComposedType(DeclsOf(Merged, x)) /\ SlotOK(slots'[x])
  <2>1. x \in DOMAIN slots
    BY <1>1
  <2>2. CASE x # s
    BY <1>1, <1>3, <2>1, <2>2 DEF SlotsOK
  <2>3. CASE x = s
    <3>1. slots'[x] = Apply(slots[s], op)
      BY <1>1, <2>3
    <3>2. SlotOK(slots[s]) /\ SlotRecord(slots[s])
      BY <1>3 DEF SlotsOK, SlotOK
    <3> QED
      BY <1>3, <2>3, <3>1, <3>2, OperationKeepsSlot, OperationKeepsType DEF SlotsOK
  <2> QED
    BY <2>2, <2>3
<1>5. SlotsOK'
  BY <1>2, <1>4 DEF SlotsOK
<1>6. ComposedOK'
  <2>1. slots # NoStore
    <3>1. DOMAIN NoStore = {}
      BY DEF NoStore
    <3> QED
      BY <3>1
  <2> QED
    BY <1>1, <2>1 DEF AgentInv, ComposedOK
<1> QED
  BY <1>1, <1>5, <1>6 DEF AgentInv, EnabledOK

\* and so every step keeps it.
LEMMA AgentInvNext == AgentInv /\ [Next]_vars => AgentInv'
<1> SUFFICES ASSUME AgentInv, [Next]_vars PROVE AgentInv'
  OBVIOUS
<1>1. CASE \E m \in Manifests : Enable(m)
  BY <1>1, EnableKeeps
<1>2. CASE \E ctx \in Windows : Compose(ctx)
  BY <1>2, ComposeKeeps
<1>3. CASE \E s \in DOMAIN slots : \E op \in Requests(slots[s]) : Operate(s, op)
  BY <1>3, OperateKeeps
<1>4. CASE UNCHANGED vars
  BY <1>4 DEF vars, AgentInv, EnabledOK, ComposedOK, SlotsOK, Merged
<1> QED
  BY <1>1, <1>2, <1>3, <1>4 DEF Next

\* Skills are enabled once each, the agent is what is composed of them, and a slot has
\* the type of its declarations and entries with ids that were counted.
THEOREM AgentInvariance == Spec => []AgentInv
BY AgentInvInit, AgentInvNext, PTL DEF Spec

\* Two operations on a slot of the store have the same result in either order, if they are
\* sets and appends of different skills, a patch and one of those, or patches of different
\* entries or fields (set, append, patch of shared_state.rs).  Two patches of one field,
\* which different skills may make, are excluded: the later one stays.
THEOREM CommuteTheorem == Spec => []OperationsCommute
<1>1. AgentInv => OperationsCommute
  BY SlotCommutes DEF AgentInv, SlotsOK, OperationsCommute
<1> QED
  BY <1>1, AgentInvariance, PTL

-------------------------------------------------------------------------------
(* Costs.                                                                    *)

\* A set of numbers has a least one.
LEMMA LeastNat ==
  ASSUME NEW S \in SUBSET Nat, S # {}
  PROVE  \E n \in S : \A m \in S : n <= m
<1>1. PICK x \in S : \A y \in S : ~ (<<y, x>> \in OpToRel(<, Nat))
  BY NatLessThanWellFounded, WFMin
<1>2. ASSUME NEW y \in S PROVE x <= y
  <2>1. SUFFICES ASSUME y < x PROVE FALSE
    OBVIOUS
  <2>2. <<y, x>> \in Nat \X Nat /\ <<y, x>>[1] < <<y, x>>[2]
    BY <2>1
  <2>3. <<y, x>> \in OpToRel(<, Nat)
    BY <2>2 DEF OpToRel
  <2> QED  BY <1>1, <2>3
<1> QED  BY <1>2

\* g is the saturating sum of the costs, h the sum without bounds, of the first skills.
ExactCost(m) ==
  m.cost.prompt + PerToolTokens * m.cost.tools + PerPanelTokens * m.cost.panels
CostsTo(g, e, n) ==
  g = [k \in 0..n |-> IF k = 0 THEN 0 ELSE SatAdd(g[k - 1], SkillCost(e[k]))]
ExactTo(h, e, n) ==
  h = [k \in 0..n |-> IF k = 0 THEN 0
                      ELSE h[k - 1] + e[k].cost.prompt + PerToolTokens * e[k].cost.tools
                             + PerPanelTokens * e[k].cost.panels]

\* The sum exists for any number of skills,
LEMMA SomeCosts ==
  ASSUME NEW e, NEW n \in Nat
  PROVE  \E g : CostsTo(g, e, n)
<1> DEFINE Bad == {m \in Nat : ~ \E g : CostsTo(g, e, m)}
<1> SUFFICES ASSUME Bad # {} PROVE FALSE
  OBVIOUS
<1>1. PICK m \in Bad : \A x \in Bad : m <= x
  BY LeastNat
<1>2. m \in Nat /\ ~ \E g : CostsTo(g, e, m)
  OBVIOUS
<1> DEFINE E(f, i) == IF i = 0 THEN 0 ELSE SatAdd(f[i - 1], SkillCost(e[i]))
<1>3. ASSUME NEW h, \A i \in 0..m - 1 : h[i] = E(h, i) PROVE FALSE
  <2> DEFINE g == [i \in 0..m |-> E(h, i)]
  <2>1. ASSUME NEW i \in 0..m, i # 0 PROVE h[i - 1] = g[i - 1]
    <3>1. i - 1 \in 0..m - 1 /\ i - 1 \in 0..m
      BY <1>2, <2>1
    <3> HIDE DEF E
    <3> QED
      BY <1>3, <3>1
  <2>2. g = [i \in 0..m |-> E(g, i)]
    BY <2>1
  <2> HIDE DEF g
  <2> QED
    BY <1>2, <2>2 DEF CostsTo
<1>4. CASE m = 0
  <2>1. 0..m - 1 = {}
    BY <1>4
  <2> QED
    BY <1>3, <2>1
<1>5. CASE m # 0
  <2>1. m - 1 \in Nat /\ ~(m <= m - 1)
    BY <1>2, <1>5
  <2>2. PICK h : CostsTo(h, e, m - 1)
    BY <1>1, <2>1
  <2>3. \A i \in 0..m - 1 : h[i] = E(h, i)
    BY <2>2 DEF CostsTo
  <2> HIDE DEF E
  <2> QED
    BY <1>3, <2>3
<1> QED
  BY <1>4, <1>5

\* and so does the one without bounds.
LEMMA SomeExact ==
  ASSUME NEW e, NEW n \in Nat
  PROVE  \E g : ExactTo(g, e, n)
<1> DEFINE Bad == {m \in Nat : ~ \E g : ExactTo(g, e, m)}
<1> SUFFICES ASSUME Bad # {} PROVE FALSE
  OBVIOUS
<1>1. PICK m \in Bad : \A x \in Bad : m <= x
  BY LeastNat
<1>2. m \in Nat /\ ~ \E g : ExactTo(g, e, m)
  OBVIOUS
<1> DEFINE E(f, i) == IF i = 0 THEN 0
             ELSE f[i - 1] + e[i].cost.prompt + PerToolTokens * e[i].cost.tools
                    + PerPanelTokens * e[i].cost.panels
<1>3. ASSUME NEW h, \A i \in 0..m - 1 : h[i] = E(h, i) PROVE FALSE
  <2> DEFINE g == [i \in 0..m |-> E(h, i)]
  <2>1. ASSUME NEW i \in 0..m, i # 0 PROVE h[i - 1] = g[i - 1]
    <3>1. i - 1 \in 0..m - 1 /\ i - 1 \in 0..m
      BY <1>2, <2>1
    <3> HIDE DEF E
    <3> QED
      BY <1>3, <3>1
  <2>2. g = [i \in 0..m |-> E(g, i)]
    BY <2>1
  <2> HIDE DEF g
  <2> QED
    BY <1>2, <2>2 DEF ExactTo
<1>4. CASE m = 0
  <2>1. 0..m - 1 = {}
    BY <1>4
  <2> QED
    BY <1>3, <2>1
<1>5. CASE m # 0
  <2>1. m - 1 \in Nat /\ ~(m <= m - 1)
    BY <1>2, <1>5
  <2>2. PICK h : ExactTo(h, e, m - 1)
    BY <1>1, <2>1
  <2>3. \A i \in 0..m - 1 : h[i] = E(h, i)
    BY <2>2 DEF ExactTo
  <2> HIDE DEF E
  <2> QED
    BY <1>3, <2>3
<1> QED
  BY <1>4, <1>5

\* The sum that the meter takes is the saturating one,
LEMMA CostsAre ==
  ASSUME NEW e, Len(e) \in Nat PROVE CostsTo(Costs(e), e, Len(e))
<1>1. Costs(e) = CHOOSE g : CostsTo(g, e, Len(e))
  BY DEF Costs, CostsTo
<1> QED
  BY <1>1, SomeCosts

\* and the one it is compared with has no bounds.
LEMMA ExactsAre ==
  ASSUME Len(enabled) \in Nat PROVE ExactTo(ExactCosts, enabled, Len(enabled))
<1>1. ExactCosts = CHOOSE g : ExactTo(g, enabled, Len(enabled))
  BY DEF ExactCosts, ExactTo
<1> QED
  BY <1>1, SomeExact

\* What a manifest costs that is not malformed.
LEMMA SkillCosts ==
  ASSUME NEW m \in Manifests, ~Malformed(m)
  PROVE  /\ SkillCost(m) \in Nat /\ SkillCost(m) <= U32Max
         /\ ExactCost(m) \in Nat
         /\ SkillCost(m) < U32Max => SkillCost(m) = ExactCost(m)
<1> DEFINE p == m.cost["prompt"]
           t == m.cost["tools"]
           w == m.cost["panels"]
<1>1. m.cost \in [{"prompt", "tools", "panels"} -> Int]
  BY ManifestsAssumption
<1>2. /\ p \in Int /\ 0 <= p /\ p <= U32Max
      /\ t \in Int /\ 0 <= t /\ t <= U32Max
      /\ w \in Int /\ 0 <= w /\ w <= U32Max
  <2>1. \A c \in {"prompt", "tools", "panels"} : ~(m.cost[c] < 0) /\ ~(m.cost[c] > U32Max)
    BY <1>1 DEF Malformed
  <2>2. p \in Int /\ t \in Int /\ w \in Int
    BY <1>1
  <2>3. ~(p < 0) /\ ~(p > U32Max) /\ ~(t < 0) /\ ~(t > U32Max) /\ ~(w < 0) /\ ~(w > U32Max)
    BY <2>1
  <2> HIDE DEF p, t, w
  <2> QED
    BY <2>2, <2>3, U32Assumption
<1>3. /\ SkillCost(m) = SatAdd(SatAdd(p, SatMul(t, 8)), SatMul(w, 16))
      /\ ExactCost(m) = p + 8 * t + 16 * w
  BY DEF SkillCost, ExactCost, PerToolTokens, PerPanelTokens
<1>4. U32Max \in Nat \ {0}
  BY U32Assumption
<1> HIDE DEF p, t, w
<1>5. /\ SatMul(t, 8) \in Nat /\ SatMul(t, 8) <= U32Max
      /\ SatMul(t, 8) < U32Max => SatMul(t, 8) = 8 * t
  BY <1>2, <1>4 DEF SatMul
<1>6. /\ SatMul(w, 16) \in Nat /\ SatMul(w, 16) <= U32Max
      /\ SatMul(w, 16) < U32Max => SatMul(w, 16) = 16 * w
  BY <1>2, <1>4 DEF SatMul
<1>7. /\ SatAdd(p, SatMul(t, 8)) \in Nat /\ SatAdd(p, SatMul(t, 8)) <= U32Max
      /\ SatAdd(p, SatMul(t, 8)) < U32Max => SatAdd(p, SatMul(t, 8)) = p + 8 * t
  BY <1>2, <1>4, <1>5 DEF SatAdd
<1>8. /\ SkillCost(m) \in Nat /\ SkillCost(m) <= U32Max
      /\ SkillCost(m) < U32Max => SkillCost(m) = p + 8 * t + 16 * w
  BY <1>2, <1>3, <1>4, <1>6, <1>7 DEF SatAdd
<1> QED
  BY <1>2, <1>3, <1>8

\* A sum that did not reach the bound of the arithmetic is the true one.
LEMMA CostsSaturate ==
  ASSUME NEW k \in 0..Len(enabled), enabled \in Seq(Manifests),
         \A i \in 1..Len(enabled) : ~Malformed(enabled[i])
  PROVE  /\ Costs(enabled)[k] \in Nat /\ Costs(enabled)[k] <= U32Max
         /\ Costs(enabled)[k] < U32Max => Costs(enabled)[k] = ExactCosts[k]
<1> DEFINE n == Len(enabled)
           g == Costs(enabled)
           h == ExactCosts
           Good(i) == g[i] \in Nat /\ g[i] <= U32Max /\ (g[i] < U32Max => g[i] = h[i])
           Bad == {i \in 0..n : ~Good(i)}
<1>1. n \in Nat
  OBVIOUS
<1>2. CostsTo(g, enabled, n) /\ ExactTo(h, enabled, n)
  BY <1>1, CostsAre, ExactsAre
<1> HIDE DEF g, h
<1>3. g[0] = 0 /\ h[0] = 0
  BY <1>1, <1>2 DEF CostsTo, ExactTo
<1>4. ASSUME NEW i \in 0..n, i # 0
      PROVE  /\ g[i] = SatAdd(g[i - 1], SkillCost(enabled[i]))
             /\ h[i] = h[i - 1] + enabled[i].cost.prompt + PerToolTokens * enabled[i].cost.tools
                         + PerPanelTokens * enabled[i].cost.panels
  BY <1>2, <1>4 DEF CostsTo, ExactTo
<1>5. ASSUME Bad # {} PROVE FALSE
  <2>1. Bad \in SUBSET Nat
    <3> HIDE DEF Good
    <3> QED
      BY <1>1
  <2>2. PICK i \in Bad : \A x \in Bad : i <= x
    BY <1>5, <2>1, LeastNat
  <2>3. i \in 0..n /\ i \in Nat /\ ~Good(i)
    BY <2>1, <2>2
  <2>4. i # 0
    BY <1>3, <2>3, U32Assumption
  <2>5. i - 1 \in 0..n /\ ~(i <= i - 1) /\ i \in 1..n
    BY <1>1, <2>3, <2>4
  <2>6. Good(i - 1)
    BY <2>2, <2>5
  <2>7. enabled[i] \in Manifests
    BY <2>5
  <2> DEFINE c == SkillCost(enabled[i])
             x == ExactCost(enabled[i])
  <2>8. c \in Nat /\ c <= U32Max /\ x \in Nat /\ (c < U32Max => c = x)
    BY <2>5, <2>7, SkillCosts
  <2>9. g[i] = SatAdd(g[i - 1], c)
    BY <1>4, <2>3, <2>4
  <2>10. c < U32Max /\ h[i - 1] \in Nat => h[i] = h[i - 1] + x
    <3> DEFINE p == enabled[i].cost.prompt
               t == enabled[i].cost.tools
               w == enabled[i].cost.panels
    <3>1. h[i] = h[i - 1] + p + 8 * t + 16 * w
      BY <1>4, <2>3, <2>4 DEF PerToolTokens, PerPanelTokens
    <3>2. x = p + 8 * t + 16 * w
      BY DEF ExactCost, PerToolTokens, PerPanelTokens
    <3>4. p \in Int /\ t \in Int /\ w \in Int
      BY <2>7, ManifestsAssumption
    <3> HIDE DEF p, t, w, x
    <3> QED
      BY <3>1, <3>2, <3>4
  <2> HIDE DEF c, x
  <2>11. Good(i)
    BY <2>6, <2>8, <2>9, <2>10, U32Assumption DEF SatAdd
  <2> QED
    BY <2>3, <2>11
<1>6. Good(k)
  BY <1>5
<1> QED
  BY <1>6 DEF g, h

\* The agent that the invariant allows, by what compose_agent looked at.
LEMMA AgentIs ==
  ASSUME AgentInv, agent.kind = "agent"
  PROVE  \E ctx \in Windows :
           /\ agent = ComposeAgent(enabled, hint, ctx) /\ agent.meter = Project(enabled, ctx, 0)
           /\ \A i \in 1..Len(enabled) : Valid(enabled[i]) /\ ~Malformed(enabled[i])
           /\ ~Conflicting(enabled) /\ ~Project(enabled, ctx, 0).blocked
<1>1. agent # NoAgent
  BY DEF NoAgent, Refused
<1>2. PICK ctx \in Windows : agent = ComposeAgent(enabled, hint, ctx)
  BY <1>1 DEF AgentInv, ComposedOK
<1>3. /\ \A i \in 1..Len(enabled) : Valid(enabled[i]) /\ ~Malformed(enabled[i])
      /\ ~Conflicting(enabled) /\ ~Project(enabled, ctx, 0).blocked
  BY <1>2 DEF ComposeAgent, Refused, Blocked
<1>4. agent.meter = Project(enabled, ctx, 0)
  BY <1>2, <1>3 DEF ComposeAgent, Blocked
<1> QED
  BY <1>2, <1>3, <1>4

\* An agent that was composed leaves the reserve free, although what its skills cost is
\* added in saturating arithmetic (capacity.rs), in every window below its bound.
THEOREM ReserveTheorem == Spec => []ReserveStaysFree
<1>1. ASSUME AgentInv, agent.kind = "agent", agent.meter.ctx < U32Max
      PROVE  ReserveFor(agent.meter.ctx) + ExactCosts[Len(enabled)] <= agent.meter.ctx
  <2>1. PICK ctx \in Windows :
          /\ agent.meter = Project(enabled, ctx, 0)
          /\ \A i \in 1..Len(enabled) : ~Malformed(enabled[i])
          /\ ~Project(enabled, ctx, 0).blocked
    BY <1>1, AgentIs
  <2> DEFINE r == ReserveFor(ctx)
             skills == Costs(enabled)[Len(enabled)]
             used == SatAdd(SatAdd(r, 0), skills)
  <2>2. agent.meter.ctx = ctx /\ ~(used > ctx)
    <3>1. Project(enabled, ctx, 0).ctx = ctx
      BY DEF Project
    <3>2. Project(enabled, ctx, 0).blocked = (used > ctx)
      BY DEF Project
    <3> HIDE DEF used
    <3> QED
      BY <2>1, <3>1, <3>2
  <2>3. enabled \in Seq(Manifests) /\ Len(enabled) \in 0..Len(enabled)
    BY <1>1 DEF AgentInv, EnabledOK
  <2>4. /\ skills \in Nat /\ skills <= U32Max
        /\ skills < U32Max => skills = ExactCosts[Len(enabled)]
    BY <2>1, <2>3, CostsSaturate
  <2>5. ctx \in Nat /\ ctx < U32Max /\ U32Max \in Nat
    BY <1>1, <2>2, WindowsAssumption, U32Assumption
  <2>6. r \in Nat
    BY <2>5 DEF ReserveFor, ReserveFractionDenom, MinReserveTokens
  <2> HIDE DEF r, skills
  <2>7. r + skills <= ctx /\ skills < U32Max
    BY <2>2, <2>4, <2>5, <2>6 DEF SatAdd
  <2> QED
    BY <2>2, <2>4, <2>7 DEF r
<1>2. AgentInv => ReserveStaysFree
  BY <1>1 DEF ReserveStaysFree
<1> QED
  BY <1>2, AgentInvariance, PTL

-------------------------------------------------------------------------------
(* The merge order is a matter of the skills alone.                          *)

\* Skills are ordered by who leads.
LEMMA LeadsOrders ==
  ASSUME NEW a \in Manifests, NEW b \in Manifests
  PROVE  /\ Leads(a, a) /\ (Leads(a, b) \/ Leads(b, a))
         /\ Leads(a, b) /\ Leads(b, a) => a = b
         /\ \A c \in Manifests : Leads(a, b) /\ Leads(b, c) => Leads(a, c)
<1>1. \A m \in Manifests : PriorityOf(m) \in Int /\ m.id \in Nat
  BY ManifestsAssumption
<1>2. a.id = b.id => a = b
  BY ManifestsAssumption
<1> QED
  BY <1>1, <1>2 DEF Leads

\* A set of as many.
LEMMA SameCount ==
  ASSUME NEW S, NEW T, IsFiniteSet(S), NEW f \in [S -> T],
         \A x, y \in S : f[x] = f[y] => x = y, \A t \in T : \E x \in S : f[x] = t
  PROVE  IsFiniteSet(T) /\ Cardinality(T) = Cardinality(S)
<1>1. f \in Bijection(S, T)
  BY DEF Bijection, Injection, Surjection, IsInjective
<1> QED
  BY <1>1, FS_Bijection DEF ExistsBijection

\* How many skills of M lead m, itself among them.
Leaders(M, m) == {x \in M : Leads(x, m)}
RankOf(M, m) == Cardinality(Leaders(M, m))

\* Two skills have two ranks.
LEMMA RanksDiffer ==
  ASSUME NEW M \in SUBSET Manifests, IsFiniteSet(M), NEW a \in M, NEW b \in M, a # b
  PROVE  RankOf(M, a) # RankOf(M, b)
<1>1. ASSUME NEW x \in M, NEW y \in M, x # y, Leads(x, y) PROVE RankOf(M, x) # RankOf(M, y)
  <2> DEFINE A == Leaders(M, x)
             B == Leaders(M, y)
  <2>1. A \in SUBSET M /\ B \in SUBSET M
    BY DEF Leaders
  <2>2. IsFiniteSet(A) /\ IsFiniteSet(B)
    BY <2>1, FS_Subset
  <2>3. A \in SUBSET B
    BY <1>1, LeadsOrders DEF Leaders
  <2>4. y \in B /\ y \notin A
    BY <1>1, LeadsOrders DEF Leaders
  <2> HIDE DEF A, B
  <2>5. Cardinality(A) # Cardinality(B)
    BY <2>2, <2>3, <2>4, FS_Subset
  <2> QED
    BY <2>5 DEF RankOf, A, B
<1>2. Leads(a, b) \/ Leads(b, a)
  BY LeadsOrders
<1> QED
  BY <1>1, <1>2

\* A rank is a place among as many as there are.
LEMMA RankIsPlace ==
  ASSUME NEW M \in SUBSET Manifests, IsFiniteSet(M), NEW m \in M
  PROVE  Cardinality(M) \in Nat /\ RankOf(M, m) \in 1..Cardinality(M)
<1> DEFINE A == Leaders(M, m)
<1>1. A \in SUBSET M /\ m \in A
  BY LeadsOrders DEF Leaders
<1> HIDE DEF A
<1>2. IsFiniteSet(A) /\ Cardinality(A) <= Cardinality(M)
  BY <1>1, FS_Subset
<1>3. Cardinality(A) \in Nat /\ Cardinality(A) # 0 /\ Cardinality(M) \in Nat
  BY <1>1, <1>2, FS_CardinalityType, FS_EmptySet
<1> QED
  BY <1>2, <1>3 DEF RankOf, A

\* Every place is taken.
LEMMA PlaceIsTaken ==
  ASSUME NEW M \in SUBSET Manifests, IsFiniteSet(M), NEW k \in 1..Cardinality(M)
  PROVE  \E m \in M : RankOf(M, m) = k
<1> DEFINE n == Cardinality(M)
           rank == [m \in M |-> RankOf(M, m)]
<1>1. n \in Nat
  BY FS_CardinalityType
<1>2. \A m \in M : RankOf(M, m) \in 1..n
  BY RankIsPlace
<1>3. \A a, b \in M : RankOf(M, a) = RankOf(M, b) => a = b
  BY RanksDiffer
<1>4. rank \in Injection(M, 1..n)
  BY <1>2, <1>3 DEF Injection, IsInjective
<1>5. IsFiniteSet(1..n) /\ Cardinality(1..n) = n
  BY <1>1, FS_Interval
<1>6. rank \in Surjection(M, 1..n)
  BY <1>4, <1>5, FS_Injection
<1>7. PICK m \in M : rank[m] = k
  BY <1>6 DEF Surjection
<1> QED
  BY <1>7

\* Skills by their rank.
ByRank(M) == [k \in 1..Cardinality(M) |-> CHOOSE m \in M : RankOf(M, m) = k]

\* Manifests in some order, none twice.
Distinct(e) == e \in Seq(Manifests) /\ \A i, j \in 1..Len(e) : e[i] = e[j] => i = j

SkillsAt(e, J) == {e[j] : j \in J}

\* The place of an index is the rank of its skill.
LEMMA PlaceIsRank ==
  ASSUME NEW e, Distinct(e), NEW J \in SUBSET (1..Len(e))
  PROVE  /\ SkillsAt(e, J) \in SUBSET Manifests /\ IsFiniteSet(SkillsAt(e, J))
         /\ Cardinality(J) = Cardinality(SkillsAt(e, J))
         /\ \A i \in J : Place(e, J, i) = RankOf(SkillsAt(e, J), e[i])
<1> DEFINE M == SkillsAt(e, J)
<1>1. /\ Len(e) \in Nat /\ \A i \in J : e[i] \in Manifests /\ i \in Nat
      /\ \A i, j \in J : e[i] = e[j] => i = j
  BY DEF Distinct
<1>2. IsFiniteSet(J)
  <2>1. IsFiniteSet(1..Len(e))
    BY <1>1, FS_Interval
  <2> QED
    BY <2>1, FS_Subset
<1>3. M \in SUBSET Manifests /\ \A i \in J : e[i] \in M
  BY <1>1 DEF SkillsAt
<1>4. IsFiniteSet(M) /\ Cardinality(M) = Cardinality(J)
  <2> DEFINE f == [j \in J |-> e[j]]
  <2>1. f \in [J -> M] /\ \A x, y \in J : f[x] = f[y] => x = y
    BY <1>1, <1>3
  <2>2. \A t \in M : \E x \in J : f[x] = t
    BY DEF SkillsAt
  <2> HIDE DEF f, M
  <2> QED
    BY <1>2, <2>1, <2>2, SameCount
<1>5. ASSUME NEW i \in J PROVE Place(e, J, i) = RankOf(M, e[i])
  <2> DEFINE I == {j \in J : /\ Leads(e[j], e[i])
                             /\ Leads(e[i], e[j]) => j <= i}
             L == Leaders(M, e[i])
             f == [j \in I |-> e[j]]
  <2>1. \A j \in J : j \in I <=> Leads(e[j], e[i])
    <3>1. ASSUME NEW j \in J, Leads(e[j], e[i]), Leads(e[i], e[j]) PROVE j <= i
      <4>1. j = i
        BY <1>1, <3>1, LeadsOrders
      <4> QED
        BY <1>1, <4>1
    <3> QED
      BY <3>1
  <2>2. I \in SUBSET J /\ IsFiniteSet(I)
    BY <1>2, FS_Subset
  <2>3. f \in [I -> L] /\ \A x, y \in I : f[x] = f[y] => x = y
    BY <1>1, <1>3, <2>1, <2>2 DEF Leaders
  <2>4. \A t \in L : \E x \in I : f[x] = t
    BY <2>1 DEF Leaders, SkillsAt
  <2>5. Place(e, J, i) = Cardinality(I)
    BY DEF Place
  <2> HIDE DEF f, I, L
  <2>6. Cardinality(L) = Cardinality(I)
    BY <2>2, <2>3, <2>4, SameCount
  <2> QED
    BY <2>5, <2>6 DEF RankOf, L
<1> QED
  BY <1>3, <1>4, <1>5

\* Sorting forgets where the skills stood.
LEMMA SortedByRank ==
  ASSUME NEW e, Distinct(e), NEW J \in SUBSET (1..Len(e))
  PROVE  Sorted(e, J) = ByRank(SkillsAt(e, J))
<1> DEFINE M == SkillsAt(e, J)
<1>1. /\ M \in SUBSET Manifests /\ IsFiniteSet(M) /\ Cardinality(J) = Cardinality(M)
      /\ \A i \in J : Place(e, J, i) = RankOf(M, e[i])
  BY PlaceIsRank
<1>2. ASSUME NEW k \in 1..Cardinality(M)
      PROVE  e[CHOOSE i \in J : Place(e, J, i) = k] = CHOOSE m \in M : RankOf(M, m) = k
  <2>1. PICK m \in M : RankOf(M, m) = k
    BY <1>1, PlaceIsTaken
  <2>2. PICK i \in J : e[i] = m
    BY DEF SkillsAt
  <2>3. Place(e, J, i) = k
    BY <1>1, <2>1, <2>2
  <2> DEFINE c == CHOOSE x \in J : Place(e, J, x) = k
             d == CHOOSE x \in M : RankOf(M, x) = k
  <2>4. c \in J /\ Place(e, J, c) = k
    BY <2>3
  <2>5. d \in M /\ RankOf(M, d) = k
    BY <2>1
  <2>6. e[c] \in M
    BY <2>4 DEF SkillsAt
  <2>7. RankOf(M, e[c]) = k
    BY <1>1, <2>4
  <2> HIDE DEF c, d, M
  <2>8. e[c] = d
    BY <1>1, <2>5, <2>6, <2>7, RanksDiffer
  <2> QED
    BY <2>8 DEF c, d
<1> HIDE DEF M
<1> QED
  BY <1>1, <1>2 DEF Sorted, ByRank, M

AllOf(e) == SkillsAt(e, 1..Len(e))

\* The leading voice of a set of skills.
EligibleOf(M) == {m \in M : Eligible(m)}
FirstOf(M) == {m \in EligibleOf(M) : \A x \in EligibleOf(M) : Leads(m, x)}
PrimaryOf(M, h) ==
  IF \E m \in EligibleOf(M) : m.id = h THEN h
  ELSE IF FirstOf(M) = {} THEN 0 ELSE (CHOOSE m \in FirstOf(M) : TRUE).id

\* Skills enabled once each are one for each id.
LEMMA DistinctFacts ==
  ASSUME NEW e, Distinct(e)
  PROVE  /\ Len(e) \in Nat /\ AllOf(e) \in SUBSET Manifests
         /\ \A i \in 1..Len(e) : i \in Nat /\ e[i] \in Manifests /\ e[i] \in AllOf(e)
         /\ \A m \in AllOf(e) : \E i \in 1..Len(e) : e[i] = m
         /\ \A i, j \in 1..Len(e) : e[i] = e[j] \/ e[i].id = e[j].id => i = j
<1>1. /\ Len(e) \in Nat /\ \A i \in 1..Len(e) : i \in Nat /\ e[i] \in Manifests
      /\ \A i, j \in 1..Len(e) : e[i] = e[j] => i = j
  BY DEF Distinct
<1>2. \A i, j \in 1..Len(e) : e[i].id = e[j].id => e[i] = e[j]
  BY <1>1, ManifestsAssumption
<1> QED
  BY <1>1, <1>2 DEF AllOf, SkillsAt

\* The leading voice depends on which skills are enabled, not on their order,
LEMMA PrimaryIs ==
  ASSUME NEW e, Distinct(e), NEW h
  PROVE  Primary(e, h) = PrimaryOf(AllOf(e), h)
<1> DEFINE M == AllOf(e)
           n == Len(e)
           el == {i \in 1..n : Eligible(e[i])}
           first == {i \in el : \A j \in el : Leads(e[i], e[j])}
<1>1. /\ n \in Nat /\ M \in SUBSET Manifests
      /\ \A i \in 1..n : i \in Nat /\ e[i] \in Manifests /\ e[i] \in M
      /\ \A m \in M : \E i \in 1..n : e[i] = m
      /\ \A i, j \in 1..n : e[i] = e[j] => i = j
  BY DistinctFacts
<1>2. Primary(e, h) = IF \E i \in el : e[i].id = h THEN h
                      ELSE IF first = {} THEN 0 ELSE e[Max(first)].id
  BY DEF Primary
<1>3. (\A i \in el : e[i] \in EligibleOf(M)) /\ (\A m \in EligibleOf(M) : \E i \in el : e[i] = m)
  BY <1>1 DEF EligibleOf
<1>4. (\A i \in first : e[i] \in FirstOf(M)) /\ (\A m \in FirstOf(M) : \E i \in first : e[i] = m)
  <2>1. ASSUME NEW i \in first PROVE e[i] \in FirstOf(M)
    <3>1. i \in el /\ \A j \in el : Leads(e[i], e[j])
      OBVIOUS
    <3> HIDE DEF el, M
    <3> QED
      BY <1>3, <3>1 DEF FirstOf
  <2>2. ASSUME NEW m \in FirstOf(M) PROVE \E i \in first : e[i] = m
    <3>1. m \in EligibleOf(M) /\ \A x \in EligibleOf(M) : Leads(m, x)
      BY DEF FirstOf
    <3>2. PICK i \in el : e[i] = m
      BY <1>3, <3>1
    <3>3. \A j \in el : Leads(e[i], e[j])
      BY <1>3, <3>1, <3>2
    <3> QED
      BY <3>2, <3>3
  <2> QED
    BY <2>1, <2>2
<1>5. (\E i \in el : e[i].id = h) <=> (\E m \in EligibleOf(M) : m.id = h)
  BY <1>3
<1>6. (first = {}) <=> (FirstOf(M) = {})
  BY <1>4
<1>7. ASSUME first # {} PROVE e[Max(first)].id = (CHOOSE m \in FirstOf(M) : TRUE).id
  <2>1. PICK i \in first : TRUE
    BY <1>7
  <2>2. \A j \in first : j = i
    <3>1. ASSUME NEW j \in first PROVE j = i
      <4>1. /\ i \in 1..n /\ j \in 1..n
            /\ Leads(e[i], e[j]) /\ Leads(e[j], e[i])
        OBVIOUS
      <4> QED
        BY <1>1, <4>1, LeadsOrders
    <3> QED
      BY <3>1
  <2>3. i \in Nat /\ first = {i}
    BY <1>1, <2>1, <2>2
  <2>4. Max(first) = i
    BY <2>3 DEF Max
  <2>5. FirstOf(M) = {e[i]}
    BY <1>4, <2>1, <2>2
  <2> QED
    BY <2>4, <2>5
<1> HIDE DEF first, el, M
<1> QED
  BY <1>2, <1>5, <1>6, <1>7 DEF PrimaryOf, M

\* The merge order of a set of skills.
VoiceOf(M, h) == {m \in M : m.id = PrimaryOf(M, h)}
OrderOf(M, h) ==
  (IF VoiceOf(M, h) = {} THEN <<>> ELSE <<CHOOSE m \in VoiceOf(M, h) : TRUE>>)
  \o ByRank(M \ VoiceOf(M, h))

\* and the order they are merged in does too.
LEMMA MergeOrderIs ==
  ASSUME NEW e, Distinct(e), NEW h
  PROVE  MergeOrder(e, h) = OrderOf(AllOf(e), h)
<1> DEFINE M == AllOf(e)
           n == Len(e)
           V == VoiceOf(M, h)
           voice == {i \in 1..n : e[i].id = Primary(e, h)}
<1>1. /\ n \in Nat /\ M \in SUBSET Manifests
      /\ \A i \in 1..n : i \in Nat /\ e[i] \in Manifests /\ e[i] \in M
      /\ \A m \in M : \E i \in 1..n : e[i] = m
      /\ \A i, j \in 1..n : e[i] = e[j] \/ e[i].id = e[j].id => i = j
  BY DistinctFacts
<1>2. MergeOrder(e, h) = (IF voice = {} THEN <<>> ELSE <<e[Min(voice)]>>) \o Sorted(e, 1..n \ voice)
  BY DEF MergeOrder
<1>3. \A i \in 1..n : i \in voice <=> e[i] \in V
  BY <1>1, PrimaryIs DEF VoiceOf
<1>4. V \subseteq M
  BY DEF VoiceOf
<1>5. (voice = {}) <=> (V = {})
  BY <1>1, <1>3, <1>4
<1>6. ASSUME voice # {} PROVE e[Min(voice)] = CHOOSE m \in V : TRUE
  <2>1. PICK i \in voice : TRUE
    BY <1>6
  <2>2. \A j \in voice : j = i
    BY <1>1
  <2>3. i \in Nat /\ voice = {i}
    BY <1>1, <2>1, <2>2
  <2>4. Min(voice) = i
    BY <2>3 DEF Min
  <2>5. V = {e[i]}
    <3>1. e[i] \in V
      BY <1>3
    <3>2. ASSUME NEW m \in V PROVE m = e[i]
      <4>1. PICK j \in 1..n : e[j] = m
        BY <1>1, <1>4
      <4>2. j \in voice
        BY <1>3, <4>1
      <4> QED
        BY <2>2, <4>1, <4>2
    <3> QED
      BY <3>1, <3>2
  <2> QED
    BY <2>4, <2>5
<1>7. Sorted(e, 1..n \ voice) = ByRank(M \ V)
  <2>1. SkillsAt(e, 1..n \ voice) = M \ V
    <3>1. ASSUME NEW x \in SkillsAt(e, 1..n \ voice) PROVE x \in M \ V
      <4>1. PICK i \in 1..n \ voice : x = e[i]
        BY DEF SkillsAt
      <4>2. i \in 1..n /\ i \notin voice
        OBVIOUS
      <4> QED
        BY <1>1, <1>3, <4>1, <4>2
    <3>2. ASSUME NEW x \in M \ V PROVE x \in SkillsAt(e, 1..n \ voice)
      <4>1. PICK i \in 1..n : x = e[i]
        BY <1>1
      <4>2. i \in 1..n \ voice
        BY <1>3, <4>1
      <4> QED
        BY <4>1, <4>2 DEF SkillsAt
    <3> QED
      BY <3>1, <3>2
  <2>2. 1..n \ voice \in SUBSET (1..Len(e))
    OBVIOUS
  <2> QED
    BY <2>1, <2>2, SortedByRank
<1> HIDE DEF voice, V, M
<1> QED
  BY <1>2, <1>5, <1>6, <1>7 DEF OrderOf, V, M

\* The merge order is made of the skills.
LEMMA OrderHoldsSkills ==
  ASSUME NEW e, Distinct(e), NEW h
  PROVE  MergeOrder(e, h) \in Seq(Manifests)
<1> DEFINE M == AllOf(e)
           V == VoiceOf(M, h)
           R == M \ V
<1>1. M \in SUBSET Manifests /\ IsFiniteSet(M)
  <2>1. 1..Len(e) \in SUBSET (1..Len(e))
    OBVIOUS
  <2> QED
    BY <2>1, PlaceIsRank DEF AllOf
<1>2. R \in SUBSET Manifests /\ IsFiniteSet(R) /\ V \in SUBSET Manifests
  <2>1. R \in SUBSET M /\ V \in SUBSET M
    BY DEF VoiceOf
  <2> HIDE DEF R, V
  <2> QED
    BY <1>1, <2>1, FS_Subset
<1> HIDE DEF R
<1>3. ByRank(R) \in Seq(Manifests)
  <2>1. Cardinality(R) \in Nat
    BY <1>2, FS_CardinalityType
  <2>2. \A k \in 1..Cardinality(R) : (CHOOSE m \in R : RankOf(R, m) = k) \in Manifests
    <3>1. ASSUME NEW k \in 1..Cardinality(R) PROVE (CHOOSE m \in R : RankOf(R, m) = k) \in Manifests
      <4>1. \E m \in R : RankOf(R, m) = k
        BY <1>2, PlaceIsTaken
      <4> QED
        BY <1>2, <4>1
    <3> QED
      BY <3>1
  <2> QED
    BY <2>1, <2>2 DEF ByRank
<1>4. (IF V = {} THEN <<>> ELSE <<CHOOSE m \in V : TRUE>>) \in Seq(Manifests)
  <2>1. V # {} => (CHOOSE m \in V : TRUE) \in Manifests
    BY <1>2
  <2> HIDE DEF V
  <2> QED
    BY <2>1
<1> HIDE DEF V, M
<1>5. OrderOf(AllOf(e), h) \in Seq(Manifests)
  BY <1>3, <1>4 DEF OrderOf, R, V, M
<1> QED
  BY <1>5, MergeOrderIs

-------------------------------------------------------------------------------
(* The cost is a matter of the skills alone.                                 *)

\* The tokens that skills cost, one by one.
TokensOf(M) == UNION {{m} \X (1..SkillCost(m)) : m \in M}

\* One more skill costs that much more.
LEMMA TokensAdd ==
  ASSUME NEW M, IsFiniteSet(TokensOf(M)), NEW x, x \notin M, SkillCost(x) \in Nat
  PROVE  /\ IsFiniteSet(TokensOf(M \cup {x}))
         /\ Cardinality(TokensOf(M \cup {x})) = Cardinality(TokensOf(M)) + SkillCost(x)
<1> DEFINE c == SkillCost(x)
           T == {x} \X (1..c)
           f == [t \in 1..c |-> <<x, t>>]
<1>1. IsFiniteSet(1..c) /\ Cardinality(1..c) = c
  BY FS_Interval
<1>2. IsFiniteSet(T) /\ Cardinality(T) = c
  <2>1. f \in [1..c -> T] /\ \A y, z \in 1..c : f[y] = f[z] => y = z
    OBVIOUS
  <2>2. \A t \in T : \E y \in 1..c : f[y] = t
    OBVIOUS
  <2> HIDE DEF f, T, c
  <2> QED
    BY <1>1, <2>1, <2>2, SameCount
<1>3. TokensOf(M \cup {x}) = TokensOf(M) \cup T
  BY DEF TokensOf
<1>4. TokensOf(M) \cap T = {}
  BY DEF TokensOf
<1>5. Cardinality(TokensOf(M)) \in Nat /\ Cardinality({}) = 0
  BY FS_CardinalityType, FS_EmptySet
<1> HIDE DEF T, c
<1>6. /\ IsFiniteSet(TokensOf(M) \cup T)
      /\ Cardinality(TokensOf(M) \cup T) =
           Cardinality(TokensOf(M)) + Cardinality(T) - Cardinality(TokensOf(M) \cap T)
  BY <1>2, FS_Union
<1>7. c \in Nat
  BY DEF c
<1>8. /\ IsFiniteSet(TokensOf(M \cup {x}))
      /\ Cardinality(TokensOf(M \cup {x})) = Cardinality(TokensOf(M)) + c
  <2>1. Cardinality(TokensOf(M) \cap T) = 0
    BY <1>4, <1>5
  <2>2. IsFiniteSet(TokensOf(M \cup {x}))
    BY <1>3, <1>6
  <2>3. Cardinality(TokensOf(M \cup {x})) = Cardinality(TokensOf(M)) + c - 0
    BY <1>2, <1>3, <1>6, <2>1, Zenon
  <2>4. Cardinality(TokensOf(M)) \in Nat
    BY <1>5
  <2>5. \A a, b : a \in Nat /\ b \in Nat => a + b - 0 = a + b
    OBVIOUS
  <2> QED
    BY <1>7, <2>2, <2>3, <2>4, <2>5, Zenon
<1> QED
  BY <1>8 DEF c

\* The saturating sum is the number of tokens, up to the bound of the arithmetic.
LEMMA CostsCount ==
  ASSUME NEW e, Distinct(e), \A i \in 1..Len(e) : ~Malformed(e[i])
  PROVE  Costs(e)[Len(e)] = IF Cardinality(TokensOf(AllOf(e))) > U32Max THEN U32Max
                            ELSE Cardinality(TokensOf(AllOf(e)))
<1> DEFINE n == Len(e)
           g == Costs(e)
           S(i) == TokensOf(SkillsAt(e, 1..i))
           Good(i) == /\ IsFiniteSet(S(i))
                      /\ g[i] = IF Cardinality(S(i)) > U32Max THEN U32Max ELSE Cardinality(S(i))
           Bad == {i \in 0..n : ~Good(i)}
<1>1. n \in Nat /\ U32Max \in Nat
  BY DistinctFacts, U32Assumption
<1>2. CostsTo(g, e, n)
  BY <1>1, CostsAre
<1> HIDE DEF g
<1>3. Good(0)
  <2>1. S(0) = {}
    BY DEF TokensOf, SkillsAt
  <2>2. g[0] = 0
    BY <1>1, <1>2 DEF CostsTo
  <2> HIDE DEF S
  <2> QED
    BY <1>1, <2>1, <2>2, FS_EmptySet
<1>4. ASSUME NEW i \in 1..n, Good(i - 1) PROVE Good(i)
  <2> DEFINE c == SkillCost(e[i])
             M == SkillsAt(e, 1..i - 1)
  <2>1. g[i] = SatAdd(g[i - 1], c)
    BY <1>1, <1>2 DEF CostsTo
  <2>2. c \in Nat
    BY DistinctFacts, SkillCosts
  <2>3. e[i] \notin M
    <3>1. ASSUME NEW j \in 1..i - 1 PROVE e[j] # e[i]
      <4>1. j \in 1..n /\ j # i
        BY <1>1
      <4> QED
        BY <4>1, DistinctFacts
    <3> QED
      BY <3>1 DEF SkillsAt
  <2>4. SkillsAt(e, 1..i) = M \cup {e[i]}
    <3>1. \A j : j \in 1..i <=> j \in 1..i - 1 \/ j = i
      BY <1>1
    <3> QED
      BY <3>1 DEF SkillsAt
  <2>5. S(i - 1) = TokensOf(M) /\ S(i) = TokensOf(M \cup {e[i]})
    BY <2>4
  <2> HIDE DEF c, M, S
  <2>6. IsFiniteSet(S(i)) /\ Cardinality(S(i)) = Cardinality(S(i - 1)) + c
    BY <1>4, <2>2, <2>3, <2>5, TokensAdd DEF c
  <2>7. Cardinality(S(i - 1)) \in Nat
    BY <1>4, FS_CardinalityType
  <2> QED
    BY <1>1, <1>4, <2>1, <2>2, <2>6, <2>7 DEF SatAdd
<1>5. ASSUME Bad # {} PROVE FALSE
  <2>1. Bad \in SUBSET Nat
    <3> HIDE DEF Good
    <3> QED
      BY <1>1
  <2>2. PICK i \in Bad : \A x \in Bad : i <= x
    BY <1>5, <2>1, LeastNat
  <2>3. i \in 0..n /\ i \in Nat /\ ~Good(i)
    BY <2>1, <2>2
  <2> HIDE DEF Good
  <2>4. i # 0
    BY <1>3, <2>3
  <2>5. i - 1 \in 0..n /\ ~(i <= i - 1) /\ i \in 1..n
    BY <1>1, <2>3, <2>4
  <2>6. Good(i - 1)
    BY <2>2, <2>5
  <2> QED
    BY <1>4, <2>3, <2>5, <2>6
<1>6. Good(n)
  <2> HIDE DEF Good
  <2> QED
    BY <1>1, <1>5
<1> QED
  BY <1>6 DEF g, AllOf

-------------------------------------------------------------------------------
(* Composition does not depend on the order of enabling.                     *)

\* What the gates look at, said of the skills alone.
LEMMA GatesAre ==
  ASSUME NEW e, Distinct(e)
  PROVE  /\ (\A i \in 1..Len(e) : Valid(e[i])) <=> (\A m \in AllOf(e) : Valid(m))
         /\ (\A i \in 1..Len(e) : ~Malformed(e[i])) <=> (\A m \in AllOf(e) : ~Malformed(m))
         /\ Conflicting(e) <=> \E a, b \in AllOf(e) : a # b /\ Conflict(a, b)
<1>1. /\ \A i \in 1..Len(e) : i \in Nat /\ e[i] \in AllOf(e)
      /\ \A m \in AllOf(e) : \E i \in 1..Len(e) : e[i] = m
      /\ \A i, j \in 1..Len(e) : e[i] = e[j] => i = j
  BY DistinctFacts
<1>2. Conflicting(e) => \E a, b \in AllOf(e) : a # b /\ Conflict(a, b)
  <2> SUFFICES ASSUME Conflicting(e) PROVE \E a, b \in AllOf(e) : a # b /\ Conflict(a, b)
    OBVIOUS
  <2>1. PICK i \in 1..Len(e), j \in 1..Len(e) : i < j /\ Conflict(e[i], e[j])
    BY DEF Conflicting
  <2>2. e[i] # e[j]
    BY <1>1, <2>1
  <2> QED
    BY <1>1, <2>1, <2>2
<1>3. ASSUME NEW a \in AllOf(e), NEW b \in AllOf(e), a # b, Conflict(a, b) PROVE Conflicting(e)
  <2>1. PICK i \in 1..Len(e) : e[i] = a
    BY <1>1
  <2>2. PICK j \in 1..Len(e) : e[j] = b
    BY <1>1
  <2>3. i < j \/ j < i
    BY <1>1, <1>3, <2>1, <2>2
  <2>4. Conflict(b, a)
    BY <1>3 DEF Conflict
  <2> QED
    BY <1>3, <2>1, <2>2, <2>3, <2>4 DEF Conflicting
<1> QED
  BY <1>1, <1>2, <1>3

\* The same skills in any order are composed to the same agent.
LEMMA SameAgent ==
  ASSUME NEW e, Distinct(e), NEW f, Distinct(f), AllOf(e) = AllOf(f), NEW h, NEW ctx,
         ComposeAgent(e, h, ctx).kind = "agent"
  PROVE  LET a == ComposeAgent(e, h, ctx)
             b == ComposeAgent(f, h, ctx)
         IN b.kind = "agent" /\ b.order = a.order /\ b.primary = a.primary
            /\ b.persona = a.persona /\ b.tools = a.tools
<1> DEFINE Passes(x) == /\ \A i \in 1..Len(x) : Valid(x[i]) /\ ~Malformed(x[i])
                        /\ ~Conflicting(x) /\ ~Project(x, ctx, 0).blocked
           Result(x) ==
             LET order == MergeOrder(x, h)
             IN [kind |-> "agent", order |-> [i \in 1..Len(order) |-> order[i].id],
                 primary |-> Primary(x, h), persona |-> Persona(order, Primary(x, h)),
                 tools |-> ComposeTools(order), routing |-> RouteTools(x),
                 meter |-> Project(x, ctx, 0)]
<1>1. \A x : Passes(x) => ComposeAgent(x, h, ctx) = Result(x)
  BY DEF ComposeAgent, Blocked
<1>2. Passes(e)
  BY DEF ComposeAgent, Blocked, Refused
<1>3. MergeOrder(e, h) = MergeOrder(f, h) /\ Primary(e, h) = Primary(f, h)
  BY MergeOrderIs, PrimaryIs
<1>4. \A i \in 1..Len(f) : Valid(f[i]) /\ ~Malformed(f[i])
  BY <1>2, GatesAre
<1>5. ~Conflicting(f)
  BY <1>2, GatesAre
<1>6. Costs(e)[Len(e)] = Costs(f)[Len(f)]
  BY <1>2, <1>4, CostsCount
<1>7. Project(e, ctx, 0) = Project(f, ctx, 0)
  BY <1>6 DEF Project
<1>8. Passes(f)
  BY <1>2, <1>4, <1>5, <1>7
<1> HIDE DEF Passes
<1>9. ComposeAgent(e, h, ctx) = Result(e) /\ ComposeAgent(f, h, ctx) = Result(f)
  BY <1>1, <1>2, <1>8
<1>10. /\ Result(f).kind = "agent" /\ Result(f).order = Result(e).order
       /\ Result(f).primary = Result(e).primary
       /\ Result(f).persona = Result(e).persona /\ Result(f).tools = Result(e).tools
  BY <1>3
<1> HIDE DEF Result
<1> QED
  BY <1>9, <1>10

\* Whatever order the same skills are enabled in, the agent has the same leading voice,
\* order, persona and tools (choose_primary, merge, assemble_persona,
\* compose_tools), and no gate refuses it.
THEOREM OrderTheorem == Spec => []OrderDoesNotMatter
<1>1. ASSUME AgentInv, agent.kind = "agent",
             NEW p \in Bijection(1..Len(enabled), 1..Len(enabled))
      PROVE  LET other == [i \in 1..Len(enabled) |-> enabled[p[i]]]
                 same == ComposeAgent(other, hint, agent.meter.ctx)
             IN /\ same.kind = "agent" /\ same.order = agent.order /\ same.primary = agent.primary
                /\ same.persona = agent.persona /\ same.tools = agent.tools
  <2> DEFINE n == Len(enabled)
             other == [i \in 1..n |-> enabled[p[i]]]
  <2>1. PICK ctx \in Windows :
          agent = ComposeAgent(enabled, hint, ctx) /\ agent.meter = Project(enabled, ctx, 0)
    BY <1>1, AgentIs
  <2>2. agent.meter.ctx = ctx
    BY <2>1 DEF Project
  <2>3. Distinct(enabled)
    BY <1>1 DEF AgentInv, EnabledOK, Distinct
  <2>4. n \in Nat /\ enabled \in Seq(Manifests) /\ \A i \in 1..n : enabled[i] \in Manifests
    BY <2>3, DistinctFacts DEF Distinct
  <2>5. /\ \A i \in 1..n : p[i] \in 1..n
        /\ \A i, j \in 1..n : p[i] = p[j] => i = j
        /\ \A k \in 1..n : \E i \in 1..n : p[i] = k
    BY DEF Bijection, Injection, Surjection, IsInjective
  <2>6. other \in Seq(Manifests) /\ Len(other) = n /\ \A i \in 1..n : other[i] = enabled[p[i]]
    BY <2>4, <2>5
  <2> HIDE DEF other, n
  <2>7. Distinct(other)
    <3>1. ASSUME NEW i \in 1..n, NEW j \in 1..n, other[i] = other[j] PROVE i = j
      <4>1. enabled[p[i]] = enabled[p[j]]
        BY <2>6, <3>1
      <4> QED
        BY <2>3, <2>5, <4>1 DEF Distinct, n
    <3> QED
      BY <2>6, <3>1 DEF Distinct
  <2>8. AllOf(other) = AllOf(enabled)
    <3>1. ASSUME NEW x \in AllOf(other) PROVE x \in AllOf(enabled)
      <4>1. PICK i \in 1..n : x = other[i]
        BY <2>6 DEF AllOf, SkillsAt
      <4>2. x = enabled[p[i]] /\ p[i] \in 1..n
        BY <2>5, <2>6, <4>1
      <4> QED
        BY <4>2 DEF AllOf, SkillsAt, n
    <3>2. ASSUME NEW x \in AllOf(enabled) PROVE x \in AllOf(other)
      <4>1. PICK k \in 1..n : x = enabled[k]
        BY DEF AllOf, SkillsAt, n
      <4>2. PICK i \in 1..n : p[i] = k
        BY <2>5
      <4> QED
        BY <2>6, <4>1, <4>2 DEF AllOf, SkillsAt
    <3> QED
      BY <3>1, <3>2
  <2>9. LET a == ComposeAgent(enabled, hint, ctx)
            b == ComposeAgent(other, hint, ctx)
        IN b.kind = "agent" /\ b.order = a.order /\ b.primary = a.primary
           /\ b.persona = a.persona /\ b.tools = a.tools
    BY <1>1, <2>1, <2>3, <2>7, <2>8, SameAgent
  <2> QED
    BY <2>1, <2>2, <2>9 DEF other, n
<1>2. AgentInv => OrderDoesNotMatter
  BY <1>1, Zenon DEF OrderDoesNotMatter
<1> QED
  BY <1>2, AgentInvariance, PTL

-------------------------------------------------------------------------------
(* Types.                                                                    *)

\* Types whose paths are paths.
Laid(ty) == DOMAIN ty \subseteq Paths

\* A prefix of a prefix is a prefix, and a path is one of its own.
LEMMA PrefixFacts ==
  ASSUME NEW p \in Paths
  PROVE  /\ Len(p) \in Nat
         /\ \A i \in 0..Len(p) : /\ Prefix(p, i) \in Paths /\ Len(Prefix(p, i)) = i
                                 /\ \A j \in 0..i : Prefix(Prefix(p, i), j) = Prefix(p, j)
         /\ Prefix(p, Len(p)) = p
         /\ Prefix(p, 0) = <<>>
         /\ Len(p) = 0 => p = <<>>
<1>1. Len(p) \in Nat
  BY DEF Paths
<1>2. ASSUME NEW i \in 0..Len(p)
      PROVE  /\ Prefix(p, i) \in Paths /\ Len(Prefix(p, i)) = i
             /\ \A k \in 1..i : Prefix(p, i)[k] = p[k]
  BY <1>1 DEF Paths, Prefix
<1>3. ASSUME NEW i \in 0..Len(p), NEW j \in 0..i
      PROVE  Prefix(Prefix(p, i), j) = Prefix(p, j)
  <2> DEFINE q == Prefix(p, i)
  <2>1. q \in Paths /\ Len(q) = i /\ \A k \in 1..i : q[k] = p[k]
    BY <1>2
  <2>2. i \in Nat /\ j \in 0..Len(p) /\ j \in 0..Len(q)
    BY <1>1, <2>1
  <2> HIDE DEF q
  <2>3. /\ Prefix(q, j) \in Paths /\ Len(Prefix(q, j)) = j
        /\ \A k \in 1..j : Prefix(q, j)[k] = q[k]
    BY <2>1, <2>2 DEF Paths, Prefix
  <2>4. /\ Prefix(p, j) \in Paths /\ Len(Prefix(p, j)) = j
        /\ \A k \in 1..j : Prefix(p, j)[k] = p[k]
    BY <1>2, <2>2
  <2>5. \A k \in 1..j : Prefix(q, j)[k] = Prefix(p, j)[k]
    BY <2>1, <2>2, <2>3, <2>4
  <2>6. Prefix(q, j) = Prefix(p, j)
    <3> DEFINE s == Prefix(q, j)
               t == Prefix(p, j)
    <3>1. s \in Seq(FieldNames) /\ t \in Seq(FieldNames) /\ Len(s) = Len(t)
          /\ \A k \in 1..Len(s) : s[k] = t[k]
      BY <2>3, <2>4, <2>5 DEF Paths
    <3> HIDE DEF s, t
    <3>2. s = t
      BY <3>1
    <3> QED
      BY <3>2 DEF s, t
  <2> QED
    BY <2>6 DEF q
<1>4. Prefix(p, Len(p)) = p
  BY <1>1 DEF Paths, Prefix
<1>5. Prefix(p, 0) = <<>>
  BY <1>1 DEF Paths, Prefix
<1>6. Len(p) = 0 => p = <<>>
  BY DEF Paths
<1> QED
  BY <1>1, <1>2, <1>3, <1>4, <1>5, <1>6

\* What is required is laid, and so is what leads to it.
LEMMA RequiredPrefixes ==
  ASSUME NEW ty, Laid(ty), NEW p \in Required(ty)
  PROVE  /\ p \in Paths /\ p \in DOMAIN ty
         /\ \A i \in 1..Len(p) : Prefix(p, i) \in Required(ty) /\ ty[Prefix(p, i)].required
<1>1. p \in DOMAIN ty /\ p \in Paths
  BY DEF Required, Laid
<1>2. ASSUME NEW i \in 1..Len(p) PROVE Prefix(p, i) \in Required(ty) /\ ty[Prefix(p, i)].required
  <2> DEFINE q == Prefix(p, i)
  <2>1. q \in DOMAIN ty /\ ty[q].required
    BY DEF Required
  <2>2. Len(p) \in Nat /\ i \in 0..Len(p)
    BY <1>1, PrefixFacts
  <2>3. Len(q) = i /\ \A j \in 0..i : Prefix(q, j) = Prefix(p, j)
    BY <1>1, <2>2, PrefixFacts
  <2>4. ASSUME NEW j \in 1..Len(q) PROVE Prefix(q, j) \in DOMAIN ty /\ ty[Prefix(q, j)].required
    <3>1. j \in 0..i /\ j \in 1..Len(p)
      BY <2>2, <2>3
    <3>2. Prefix(q, j) = Prefix(p, j)
      BY <2>3, <3>1
    <3>3. Prefix(p, j) \in DOMAIN ty /\ ty[Prefix(p, j)].required
      BY <3>1 DEF Required
    <3> QED
      BY <3>2, <3>3
  <2> HIDE DEF q
  <2>5. q \in Required(ty)
    BY <2>1, <2>4 DEF Required
  <2> QED
    BY <2>1, <2>5 DEF q
<1> QED
  BY <1>1, <1>2

\* The type itself is required wherever it is.
LEMMA RootIsRequired ==
  ASSUME NEW ty PROVE <<>> \in DOMAIN ty <=> <<>> \in Required(ty)
<1>1. 1..Len(<<>>) = {}
  OBVIOUS
<1> QED
  BY <1>1 DEF Required

\* At a required path two compatible types are merged.
LEMMA RequiredMerge ==
  ASSUME NEW a, NEW b, Laid(a), Laid(b), TypesCompatible(a, b), NEW p \in Required(a)
  PROVE  /\ p \in DOMAIN a /\ p \in Merging(a, b) /\ p \in DOMAIN Widen(a, b)
         /\ Widen(a, b)[p] = WidenNode(a[p], b[p])
<1>1. /\ p \in DOMAIN a /\ p \in DOMAIN b /\ p \in Paths
      /\ \A i \in 1..Len(p) : Prefix(p, i) \in Required(a)
  BY RequiredPrefixes DEF TypesCompatible
<1>2. ASSUME NEW i \in 0..Len(p) - 1, Prefix(p, i) \in DOMAIN a
      PROVE  a[Prefix(p, i)].base = b[Prefix(p, i)].base
  <2>1. CASE i = 0
    <3>1. Prefix(p, i) = <<>>
      BY <1>1, <2>1, PrefixFacts
    <3>2. <<>> \in Required(a)
      BY <1>2, <3>1, RootIsRequired
    <3> QED
      BY <3>1, <3>2 DEF TypesCompatible
  <2>2. CASE i # 0
    <3>1. Len(p) \in Nat
      BY <1>1, PrefixFacts
    <3>2. i \in 1..Len(p)
      BY <2>2, <3>1
    <3>3. Prefix(p, i) \in Required(a)
      BY <1>1, <3>2
    <3> QED
      BY <3>3 DEF TypesCompatible
  <2> QED
    BY <2>1, <2>2
<1>3. p \in Merging(a, b)
  BY <1>1, <1>2 DEF Merging
<1> QED
  BY <1>1, <1>3 DEF Widen

\* Widening requires no more and no less.
LEMMA WidenRequires ==
  ASSUME NEW a, NEW b, Laid(a), Laid(b), TypesCompatible(a, b)
  PROVE  Required(Widen(a, b)) = Required(a)
<1> DEFINE W == Widen(a, b)
           R == Required(a)
<1>0. R = Required(b)
  BY DEF TypesCompatible
<1>1. ASSUME NEW p \in R PROVE p \in Required(W)
  <2>1. p \in DOMAIN W
    BY RequiredMerge
  <2>2. ASSUME NEW i \in 1..Len(p) PROVE Prefix(p, i) \in DOMAIN W /\ W[Prefix(p, i)].required
    <3> DEFINE q == Prefix(p, i)
    <3>1. q \in R /\ a[q].required
      BY RequiredPrefixes
    <3>2. q \in DOMAIN W /\ W[q] = WidenNode(a[q], b[q])
      BY <3>1, RequiredMerge
    <3> HIDE DEF q, W
    <3>3. WidenNode(a[q], b[q]).required = (a[q].required \/ b[q].required)
      BY DEF WidenNode, Node
    <3>4. W[q].required
      BY <3>1, <3>2, <3>3, Zenon
    <3> QED
      BY <3>2, <3>4 DEF q
  <2> HIDE DEF W
  <2> QED
    BY <2>1, <2>2 DEF Required
<1>2. ASSUME NEW p \in Required(W), p \notin R PROVE FALSE
  <2>1. /\ p \in DOMAIN W
        /\ \A i \in 1..Len(p) : Prefix(p, i) \in DOMAIN W /\ W[Prefix(p, i)].required
    <3> HIDE DEF W
    <3> QED
      BY DEF Required
  <2>2. /\ DOMAIN W = DOMAIN a \cup Merging(a, b) /\ Merging(a, b) \subseteq DOMAIN b
        /\ \A q \in DOMAIN W : W[q] = IF q \notin DOMAIN a THEN b[q]
                                      ELSE IF q \notin Merging(a, b) THEN a[q]
                                      ELSE WidenNode(a[q], b[q])
    BY DEF Widen, Merging
  <2>3. p \in Paths
    BY <2>1, <2>2 DEF Laid
  <2>4. p # <<>>
    BY <1>0, <1>2, <2>1, <2>2, RootIsRequired
  <2> DEFINE Bad == {i \in 1..Len(p) : Prefix(p, i) \notin R}
  <2>5. Len(p) \in Nat /\ Len(p) \in Bad
    BY <1>2, <2>3, <2>4, PrefixFacts
  <2>6. Bad \in SUBSET Nat /\ Bad # {}
    BY <2>5
  <2>7. PICK i \in Bad : \A m \in Bad : i <= m
    BY <2>6, LeastNat
  <2> DEFINE q == Prefix(p, i)
  <2>8. i \in 1..Len(p) /\ q \notin R /\ \A j \in 1..i - 1 : Prefix(p, j) \in R
    <3>1. ASSUME NEW j \in 1..i - 1 PROVE Prefix(p, j) \in R
      <4>1. j \in 1..Len(p) /\ ~(i <= j)
        BY <2>5, <2>7
      <4> QED
        BY <2>7, <4>1
    <3> QED
      BY <2>7, <3>1
  <2>9. i \in 0..Len(p) /\ i \in Nat
    BY <2>5, <2>8
  <2>10. q \in Paths /\ Len(q) = i /\ \A j \in 0..i : Prefix(q, j) = Prefix(p, j)
    BY <2>3, <2>9, PrefixFacts
  <2>11. Prefix(q, i) = q
    BY <2>9, <2>10
  <2>12. ASSUME NEW ty, Laid(ty), Required(ty) = R, q \in DOMAIN ty PROVE ~ty[q].required
    <3>1. SUFFICES ASSUME ty[q].required PROVE q \in Required(ty)
      BY <2>8, <2>12
    <3>2. ASSUME NEW j \in 1..Len(q)
          PROVE  Prefix(q, j) \in DOMAIN ty /\ ty[Prefix(q, j)].required
      <4>1. CASE j = i
        BY <2>11, <2>12, <3>1, <4>1
      <4>2. CASE j # i
        <5>1. j \in 1..i - 1 /\ j \in 0..i
          BY <2>9, <2>10, <4>2
        <5>2. Prefix(q, j) \in R
          BY <2>8, <2>10, <5>1
        <5>3. Prefix(q, j) \in Required(ty)
          BY <2>12, <5>2
        <5> DEFINE r == Prefix(q, j)
        <5>4. /\ r \in Paths /\ r \in DOMAIN ty
              /\ \A k \in 1..Len(r) : Prefix(r, k) \in Required(ty) /\ ty[Prefix(r, k)].required
          BY <2>12, <5>3, RequiredPrefixes
        <5>5. Len(r) = j /\ Prefix(r, j) = r
          BY <2>9, <2>10, <5>1, PrefixFacts
        <5>6. j \in 1..Len(r)
          BY <5>1, <5>5
        <5> QED
          BY <5>4, <5>5, <5>6
      <4> QED
        BY <4>1, <4>2
    <3> HIDE DEF q
    <3> QED
      BY <2>12, <3>2 DEF Required
  <2>13. q \in DOMAIN W /\ W[q].required
    BY <2>1, <2>8
  <2>14. q \in DOMAIN a => ~a[q].required
    BY <2>12
  <2>15. q \in DOMAIN b => ~b[q].required
    BY <1>0, <2>12
  <2> HIDE DEF q, W
  <2>16. WidenNode(a[q], b[q]).required = (a[q].required \/ b[q].required)
    BY DEF WidenNode, Node
  <2> QED
    BY <2>2, <2>13, <2>14, <2>15, <2>16
<1> HIDE DEF W, R
<1>3. Required(W) = R
  <2>1. \A p \in R : p \in Required(W)
    BY <1>1
  <2>2. \A p \in Required(W) : p \in R
    BY <1>2
  <2> QED
    BY <2>1, <2>2
<1> QED
  BY <1>3 DEF W, R

\* Compatibility is mutual.
LEMMA CompatibleIsMutual ==
  ASSUME NEW a, NEW b, TypesCompatible(a, b) PROVE TypesCompatible(b, a)
BY DEF TypesCompatible, ScalarsCompatible

\* A type suits itself.
LEMMA CompatibleWithItself == ASSUME NEW a PROVE TypesCompatible(a, a)
BY DEF TypesCompatible, ScalarsCompatible

\* What suits two compatible types suits what they widen to: the pairs are all there is
\* to compare.
LEMMA WidenSuits ==
  ASSUME NEW a, NEW b, NEW c, Laid(a), Laid(b),
         TypesCompatible(a, b), TypesCompatible(a, c), TypesCompatible(b, c)
  PROVE  TypesCompatible(Widen(a, b), c) /\ Laid(Widen(a, b))
<1>1. Required(Widen(a, b)) = Required(a) /\ Required(a) = Required(c)
  BY WidenRequires DEF TypesCompatible
<1>2. ASSUME NEW p \in Required(a)
      PROVE  /\ Widen(a, b)[p].base = c[p].base
             /\ ScalarsCompatible(Widen(a, b)[p].kind, c[p].kind)
  <2>1. Widen(a, b)[p] = WidenNode(a[p], b[p])
    BY RequiredMerge
  <2>2. /\ a[p].base = b[p].base /\ ScalarsCompatible(a[p].kind, b[p].kind)
        /\ a[p].base = c[p].base /\ ScalarsCompatible(a[p].kind, c[p].kind)
        /\ ScalarsCompatible(b[p].kind, c[p].kind)
    BY DEF TypesCompatible
  <2>3. /\ WidenNode(a[p], b[p]).base = a[p].base
        /\ WidenNode(a[p], b[p]).kind = WidenScalar(a[p].kind, b[p].kind)
    BY <2>2 DEF WidenNode, Node
  <2>4. ScalarsCompatible(WidenScalar(a[p].kind, b[p].kind), c[p].kind)
    BY <2>2 DEF WidenScalar, ScalarsCompatible
  <2> QED
    BY <2>1, <2>2, <2>3, <2>4
<1>3. Laid(Widen(a, b))
  BY DEF Laid, Widen, Merging
<1> QED
  BY <1>1, <1>2, <1>3 DEF TypesCompatible

\* Types with all that leads to each of their paths.
Closed(ty) ==
  Laid(ty) /\ <<>> \in DOMAIN ty
  /\ \A p \in DOMAIN ty : \A n \in 0..Len(p) : Prefix(p, n) \in DOMAIN ty

\* What ty says of a path one of the first m declarers said.
Sourced(ty, decls, m) ==
  \A p \in DOMAIN ty : \E j \in 1..m :
    /\ p \in DOMAIN decls[j].ty
    /\ decls[j].ty[p].base = ty[p].base /\ decls[j].ty[p].kind = ty[p].kind

\* What the first m declarers said, ty says, unless they were overruled.
Told(ty, decls, m) ==
  \A k \in 1..m : \A p \in DOMAIN decls[k].ty :
    Follows(ty, decls[k].ty, p) \/ Overruled(decls, k, p)

\* What ty says otherwise than the k-th declarer, at a path of both, somebody said before.
LEMMA SaidBefore ==
  ASSUME NEW decls, NEW k \in Nat, NEW ty, Sourced(ty, decls, k - 1),
         TypesCompatible(ty, decls[k].ty), Closed(decls[k].ty),
         NEW p \in DOMAIN decls[k].ty, NEW n \in 1..Len(p), Prefix(p, n) \in DOMAIN ty,
         \/ ty[Prefix(p, n)].base # decls[k].ty[Prefix(p, n)].base
         \/ ~ScalarsCompatible(ty[Prefix(p, n)].kind, decls[k].ty[Prefix(p, n)].kind)
  PROVE  Overruled(decls, k, p)
<1> DEFINE q == Prefix(p, n)
           mine == decls[k].ty
<1>1. PICK i \in 1..k - 1 : /\ q \in DOMAIN decls[i].ty /\ decls[i].ty[q].base = ty[q].base
                            /\ decls[i].ty[q].kind = ty[q].kind
  BY DEF Sourced
<1>2. q \notin Required(mine)
  BY DEF TypesCompatible
<1>3. \/ decls[i].ty[q].base # mine[q].base
      \/ ~ScalarsCompatible(decls[i].ty[q].kind, mine[q].kind)
  BY <1>1
<1> QED
  BY <1>1, <1>2, <1>3 DEF Overruled

\* One more declarer is widened in.
LEMMA WidenTells ==
  ASSUME NEW decls, NEW k \in Nat, k >= 2, NEW a, Laid(a), <<>> \in DOMAIN a,
         Closed(decls[k].ty), TypesCompatible(a, decls[k].ty),
         Sourced(a, decls, k - 1), Told(a, decls, k - 1)
  PROVE  Sourced(Widen(a, decls[k].ty), decls, k) /\ Told(Widen(a, decls[k].ty), decls, k)
<1> DEFINE b == decls[k].ty
           W == Widen(a, b)
<1>1. /\ DOMAIN W = DOMAIN a \cup Merging(a, b) /\ Merging(a, b) \subseteq DOMAIN b
      /\ \A q \in DOMAIN W : W[q] = IF q \notin DOMAIN a THEN b[q]
                                    ELSE IF q \notin Merging(a, b) THEN a[q]
                                    ELSE WidenNode(a[q], b[q])
  BY DEF Widen, Merging
<1>2. ASSUME NEW q \in DOMAIN a, NEW y
      PROVE  /\ WidenNode(a[q], y).base = a[q].base
             /\ \/ WidenNode(a[q], y).kind = a[q].kind
                \/ a[q].kind = "any" /\ a[q].base = y.base /\ WidenNode(a[q], y).kind = y.kind
  BY DEF WidenNode, WidenScalar, Node
<1>3. k \in 1..k /\ \A j \in 1..k - 1 : j \in 1..k
  OBVIOUS
<1>4. \A j \in 1..k : j # k => j \in 1..k - 1
  OBVIOUS
<1>5. /\ \A p \in DOMAIN b : Len(p) \in Nat /\ Prefix(p, Len(p)) = p /\ Prefix(p, 0) = <<>>
                             /\ (Len(p) = 0 => p = <<>>)
      /\ \A p \in DOMAIN b : \A n \in 0..Len(p) : Prefix(p, n) \in DOMAIN b
  BY PrefixFacts DEF Closed, Laid
<1>6. a[<<>>].base = b[<<>>].base /\ ScalarsCompatible(a[<<>>].kind, b[<<>>].kind)
  BY RootIsRequired DEF TypesCompatible
<1> HIDE DEF W, b
<1>7. ASSUME NEW p \in DOMAIN W
      PROVE  \E j \in 1..k : /\ p \in DOMAIN decls[j].ty
                             /\ decls[j].ty[p].base = W[p].base /\ decls[j].ty[p].kind = W[p].kind
  <2>1. CASE p \notin DOMAIN a
    BY <1>1, <1>3, <2>1 DEF b
  <2>2. CASE p \in DOMAIN a
    <3>1. PICK j \in 1..k - 1 : /\ p \in DOMAIN decls[j].ty /\ decls[j].ty[p].base = a[p].base
                                /\ decls[j].ty[p].kind = a[p].kind
      BY <2>2 DEF Sourced
    <3>2. CASE W[p] = a[p]
      BY <1>3, <3>1, <3>2
    <3>3. CASE W[p] = WidenNode(a[p], b[p]) /\ p \in DOMAIN b
      <4>1. CASE WidenNode(a[p], b[p]).kind = a[p].kind
        BY <1>2, <1>3, <2>2, <3>1, <3>3, <4>1
      <4>2. CASE /\ a[p].base = b[p].base /\ WidenNode(a[p], b[p]).kind = b[p].kind
        <5>1. W[p].base = b[p].base /\ W[p].kind = b[p].kind
          BY <1>2, <2>2, <3>3, <4>2
        <5> QED
          BY <1>3, <3>3, <5>1 DEF b
      <4> QED
        BY <1>2, <2>2, <4>1, <4>2
    <3> QED
      BY <1>1, <2>2, <3>2, <3>3
  <2> QED
    BY <2>1, <2>2
<1>8. ASSUME NEW j \in 1..k - 1, NEW p \in DOMAIN decls[j].ty, ~Overruled(decls, j, p)
      PROVE  Follows(W, decls[j].ty, p)
  <2>1. p \in DOMAIN a /\ a[p].base = decls[j].ty[p].base /\ decls[j].ty[p].kind \in {"any", a[p].kind}
    BY <1>8 DEF Told, Follows
  <2>2. p \in DOMAIN W /\ (W[p] = a[p] \/ W[p] = WidenNode(a[p], b[p]))
    BY <1>1, <2>1
  <2>3. W[p].base = a[p].base /\ (W[p].kind = a[p].kind \/ a[p].kind = "any")
    BY <1>2, <2>1, <2>2
  <2> QED
    BY <2>1, <2>2, <2>3 DEF Follows
<1>9. ASSUME NEW p \in DOMAIN b, ~Overruled(decls, k, p) PROVE Follows(W, b, p)
  <2>1. ASSUME NEW n \in 1..Len(p), Prefix(p, n) \in DOMAIN a
        PROVE  /\ a[Prefix(p, n)].base = b[Prefix(p, n)].base
               /\ ScalarsCompatible(a[Prefix(p, n)].kind, b[Prefix(p, n)].kind)
    BY <1>9, <2>1, SaidBefore DEF b
  <2>2. ASSUME NEW n \in 0..Len(p), Prefix(p, n) \in DOMAIN a
        PROVE  /\ a[Prefix(p, n)].base = b[Prefix(p, n)].base
               /\ ScalarsCompatible(a[Prefix(p, n)].kind, b[Prefix(p, n)].kind)
    <3>1. CASE n = 0
      BY <1>5, <1>6, <3>1
    <3>2. CASE n # 0
      <4>1. n \in 1..Len(p)
        BY <1>5, <3>2
      <4> QED
        BY <2>1, <2>2, <4>1
    <3> QED
      BY <3>1, <3>2
  <2>3. Len(p) \in 0..Len(p) /\ Prefix(p, Len(p)) = p /\ \A i \in 0..Len(p) - 1 : i \in 0..Len(p)
    BY <1>5
  <2>4. p \in Merging(a, b)
    BY <2>2, <2>3 DEF Merging
  <2>5. p \in DOMAIN W
    BY <1>1, <2>4
  <2>6. CASE p \notin DOMAIN a
    BY <1>1, <2>5, <2>6 DEF Follows
  <2>7. CASE p \in DOMAIN a
    <3>1. a[p].base = b[p].base /\ ScalarsCompatible(a[p].kind, b[p].kind)
      BY <2>2, <2>3, <2>7
    <3>2. W[p] = WidenNode(a[p], b[p])
      BY <1>1, <2>4, <2>5, <2>7
    <3>3. WidenNode(a[p], b[p]).kind = WidenScalar(a[p].kind, b[p].kind)
      BY <3>1 DEF WidenNode, Node
    <3>4. b[p].kind \in {"any", WidenScalar(a[p].kind, b[p].kind)}
      BY <3>1 DEF ScalarsCompatible, WidenScalar
    <3> QED
      BY <1>2, <2>5, <2>7, <3>1, <3>2, <3>3, <3>4 DEF Follows
  <2> QED
    BY <2>6, <2>7
<1>10. Sourced(W, decls, k)
  BY <1>7 DEF Sourced
<1>11. ASSUME NEW j \in 1..k, NEW p \in DOMAIN decls[j].ty
       PROVE  Follows(W, decls[j].ty, p) \/ Overruled(decls, j, p)
  <2>1. CASE j = k
    BY <1>9, <2>1 DEF b
  <2>2. CASE j # k
    BY <1>4, <1>8, <2>2
  <2> QED
    BY <2>1, <2>2
<1>12. Told(W, decls, k)
  BY <1>11 DEF Told
<1> QED
  BY <1>10, <1>12 DEF W, b

\* How many numbers of I there are up to i.
Rank(I, i) == Cardinality({j \in I : j <= i})

\* A greater number of I has a higher rank.
LEMMA RankGrows ==
  ASSUME NEW I \in SUBSET Nat, IsFiniteSet(I), NEW i \in I, NEW j \in I, i < j
  PROVE  Rank(I, i) < Rank(I, j)
<1> DEFINE low == {x \in I : x <= i}
           high == {x \in I : x <= j}
<1>0. low \in SUBSET I /\ high \in SUBSET I
  OBVIOUS
<1>1. IsFiniteSet(low) /\ IsFiniteSet(high)
  BY <1>0, FS_Subset
<1>2. low \subseteq high /\ j \in high /\ j \notin low
  <2>1. i \in Nat /\ j \in Nat /\ \A x \in I : x \in Nat
    OBVIOUS
  <2>2. \A x \in I : x <= i => x <= j
    BY <2>1
  <2>3. j <= j /\ ~(j <= i)
    BY <2>1
  <2> QED  BY <2>2, <2>3
<1>3. Cardinality(low) <= Cardinality(high)
  BY <1>1, <1>2, FS_Subset
<1>4. Cardinality(low) # Cardinality(high)
  BY <1>1, <1>2, FS_Subset
<1>5. Cardinality(low) \in Nat /\ Cardinality(high) \in Nat
  BY <1>1, FS_CardinalityType
<1> QED  BY <1>3, <1>4, <1>5 DEF Rank

\* The numbers of a finite set are numbered without a gap: there is a k-th one.
LEMMA NthIsThere ==
  ASSUME NEW I \in SUBSET Nat, IsFiniteSet(I), NEW k \in 1..Cardinality(I)
  PROVE  Nth(I, k) \in I /\ Rank(I, Nth(I, k)) = k
<1> DEFINE n == Cardinality(I)
           rank == [i \in I |-> Rank(I, i)]
<1>1. n \in Nat
  BY FS_CardinalityType
<1>2. ASSUME NEW i \in I PROVE Rank(I, i) \in 1..n
  <2> DEFINE low == {j \in I : j <= i}
  <2>1. IsFiniteSet(low) /\ Cardinality(low) <= n
    BY FS_Subset
  <2>2. i \in low
    OBVIOUS
  <2>3. Cardinality(low) \in Nat /\ Cardinality(low) # 0
    BY <2>1, <2>2, FS_CardinalityType, FS_EmptySet
  <2> QED  BY <1>1, <2>1, <2>3 DEF Rank
<1>3. ASSUME NEW i \in I, NEW j \in I, Rank(I, i) = Rank(I, j) PROVE i = j
  <2>1. i \in Nat /\ j \in Nat /\ Rank(I, i) \in Nat /\ Rank(I, j) \in Nat
    BY <1>2
  <2>2. ~(i < j) /\ ~(j < i)
    BY <1>3, <2>1, RankGrows
  <2> QED  BY <2>1, <2>2
<1>4. rank \in Injection(I, 1..n)
  BY <1>2, <1>3 DEF Injection, IsInjective
<1>5. IsFiniteSet(1..n) /\ Cardinality(1..n) = n
  BY <1>1, FS_Interval
<1>6. rank \in Surjection(I, 1..n)
  BY <1>4, <1>5, FS_Injection
<1>7. PICK i \in I : rank[i] = k
  BY <1>6 DEF Surjection
<1>8. Rank(I, i) = k
  BY <1>7
<1> QED  BY <1>8 DEF Nth, Rank

\* What is kept of s are elements of s, no two of them from one place.
LEMMA RetainedElements ==
  ASSUME NEW S, NEW s \in Seq(S), NEW I \in SUBSET (1..Len(s)),
         NEW r, r = Retained(s, I)
  PROVE  /\ r \in Seq(S)
         /\ \A k \in 1..Len(r) : Nth(I, k) \in 1..Len(s) /\ r[k] = s[Nth(I, k)]
         /\ \A j, k \in 1..Len(r) : Nth(I, j) = Nth(I, k) => j = k
<1>1. Len(s) \in Nat /\ IsFiniteSet(1..Len(s))
  BY FS_Interval
<1>2. I \in SUBSET Nat /\ IsFiniteSet(I) /\ Cardinality(I) \in Nat
  <2>1. I \in SUBSET Nat
    BY <1>1
  <2>2. IsFiniteSet(I)
    BY <1>1, FS_Subset
  <2> QED  BY <2>1, <2>2, FS_CardinalityType
<1>3. \A k \in 1..Cardinality(I) : Nth(I, k) \in 1..Len(s) /\ Rank(I, Nth(I, k)) = k
  BY <1>2, NthIsThere
<1>4. r = [k \in 1..Cardinality(I) |-> s[Nth(I, k)]]
  BY DEF Retained
<1>5. \A k \in 1..Cardinality(I) : s[Nth(I, k)] \in S
  BY <1>3
<1>6. r \in Seq(S) /\ Len(r) = Cardinality(I)
  BY <1>2, <1>4, <1>5
<1>7. \A k \in 1..Len(r) : Nth(I, k) \in 1..Len(s) /\ r[k] = s[Nth(I, k)]
  BY <1>3, <1>4, <1>6
<1>8. \A j, k \in 1..Len(r) : Nth(I, j) = Nth(I, k) => j = k
  BY <1>3, <1>6
<1> QED  BY <1>6, <1>7, <1>8


-------------------------------------------------------------------------------
(* Declarations.                                                             *)

\* g holds the first sequences of e put together, or their types widened.
FlatTo(g, e, n) == g = [i \in 1..n |-> IF i = 1 THEN e[i] ELSE g[i - 1] \o e[i]]
WidenedTo(g, e, n) == g = [i \in 1..n |-> IF i = 1 THEN e[1].ty ELSE Widen(g[i - 1], e[i].ty)]

\* Any number of sequences can be put together,
LEMMA SomeFlat ==
  ASSUME NEW e, NEW n \in Nat
  PROVE  \E g : FlatTo(g, e, n)
<1> DEFINE Bad == {m \in Nat : ~ \E g : FlatTo(g, e, m)}
<1> SUFFICES ASSUME Bad # {} PROVE FALSE
  OBVIOUS
<1>1. PICK m \in Bad : \A x \in Bad : m <= x
  BY LeastNat
<1>2. m \in Nat /\ ~ \E g : FlatTo(g, e, m)
  OBVIOUS
<1> DEFINE E(f, i) == IF i = 1 THEN e[i] ELSE f[i - 1] \o e[i]
<1>3. ASSUME NEW h, \A i \in 1..m - 1 : h[i] = E(h, i) PROVE FALSE
  <2> DEFINE g == [i \in 1..m |-> E(h, i)]
  <2>1. ASSUME NEW i \in 1..m, i # 1 PROVE h[i - 1] = g[i - 1]
    <3>1. i - 1 \in 1..m - 1 /\ i - 1 \in 1..m
      BY <1>2, <2>1
    <3> HIDE DEF E
    <3> QED
      BY <1>3, <3>1
  <2>2. g = [i \in 1..m |-> E(g, i)]
    BY <2>1
  <2> HIDE DEF g
  <2> QED
    BY <1>2, <2>2 DEF FlatTo
<1>4. CASE m = 0
  <2>1. 1..m - 1 = {}
    BY <1>4
  <2> QED
    BY <1>3, <2>1
<1>5. CASE m # 0
  <2>1. m - 1 \in Nat /\ ~(m <= m - 1)
    BY <1>2, <1>5
  <2>2. PICK h : FlatTo(h, e, m - 1)
    BY <1>1, <2>1
  <2>3. \A i \in 1..m - 1 : h[i] = E(h, i)
    BY <2>2 DEF FlatTo
  <2> HIDE DEF E
  <2> QED
    BY <1>3, <2>3
<1> QED
  BY <1>4, <1>5

\* and any number of types widened.
LEMMA SomeWidened ==
  ASSUME NEW e, NEW n \in Nat
  PROVE  \E g : WidenedTo(g, e, n)
<1> DEFINE Bad == {m \in Nat : ~ \E g : WidenedTo(g, e, m)}
<1> SUFFICES ASSUME Bad # {} PROVE FALSE
  OBVIOUS
<1>1. PICK m \in Bad : \A x \in Bad : m <= x
  BY LeastNat
<1>2. m \in Nat /\ ~ \E g : WidenedTo(g, e, m)
  OBVIOUS
<1> DEFINE E(f, i) == IF i = 1 THEN e[1].ty ELSE Widen(f[i - 1], e[i].ty)
<1>3. ASSUME NEW h, \A i \in 1..m - 1 : h[i] = E(h, i) PROVE FALSE
  <2> DEFINE g == [i \in 1..m |-> E(h, i)]
  <2>1. ASSUME NEW i \in 1..m, i # 1 PROVE h[i - 1] = g[i - 1]
    <3>1. i - 1 \in 1..m - 1 /\ i - 1 \in 1..m
      BY <1>2, <2>1
    <3> HIDE DEF E
    <3> QED
      BY <1>3, <3>1
  <2>2. g = [i \in 1..m |-> E(g, i)]
    BY <2>1
  <2> HIDE DEF g
  <2> QED
    BY <1>2, <2>2 DEF WidenedTo
<1>4. CASE m = 0
  <2>1. 1..m - 1 = {}
    BY <1>4
  <2> QED
    BY <1>3, <2>1
<1>5. CASE m # 0
  <2>1. m - 1 \in Nat /\ ~(m <= m - 1)
    BY <1>2, <1>5
  <2>2. PICK h : WidenedTo(h, e, m - 1)
    BY <1>1, <2>1
  <2>3. \A i \in 1..m - 1 : h[i] = E(h, i)
    BY <2>2 DEF WidenedTo
  <2> HIDE DEF E
  <2> QED
    BY <1>3, <2>3
<1> QED
  BY <1>4, <1>5

\* Sequences over S put together are one over S.
LEMMA FlatHolds ==
  ASSUME NEW S, NEW seqs \in Seq(Seq(S)) PROVE FlattenSeq(seqs) \in Seq(S)
<1> DEFINE n == Len(seqs)
           g == CHOOSE h : FlatTo(h, seqs, n)
           Bad == {i \in 1..n : g[i] \notin Seq(S)}
<1>1. n \in Nat /\ \A i \in 1..n : seqs[i] \in Seq(S)
  OBVIOUS
<1>2. FlattenSeq(seqs) = IF n = 0 THEN seqs ELSE g[n]
  BY DEF FlattenSeq, FlatTo
<1>3. CASE n = 0
  <2>1. seqs = <<>>
    BY <1>3
  <2> QED
    BY <1>2, <1>3, <2>1
<1>4. CASE n # 0
  <2> HIDE DEF g
  <2>1. FlatTo(g, seqs, n)
    BY <1>1, SomeFlat DEF g
  <2>2. \A i \in 1..n : g[i] = IF i = 1 THEN seqs[i] ELSE g[i - 1] \o seqs[i]
    BY <2>1 DEF FlatTo
  <2>3. Bad = {}
    <3> SUFFICES ASSUME Bad # {} PROVE FALSE
      OBVIOUS
    <3>1. Bad \in SUBSET Nat
      BY <1>1
    <3>2. PICK i \in Bad : \A m \in Bad : i <= m
      BY <3>1, LeastNat
    <3>3. i \in 1..n /\ g[i] \notin Seq(S) /\ i \in Nat
      BY <1>1
    <3>4. CASE i = 1
      BY <1>1, <2>2, <3>3, <3>4
    <3>5. CASE i # 1
      <4>1. i - 1 \in 1..n /\ ~(i <= i - 1)
        BY <1>1, <3>3, <3>5
      <4>2. g[i - 1] \in Seq(S)
        BY <3>2, <4>1
      <4>3. g[i] = g[i - 1] \o seqs[i]
        BY <2>2, <3>3, <3>5
      <4>4. seqs[i] \in Seq(S)
        BY <1>1, <3>3
      <4> QED
        BY <3>3, <4>2, <4>3, <4>4
    <3> QED
      BY <3>4, <3>5
  <2>4. n \in 1..n
    BY <1>1, <1>4
  <2> QED
    BY <1>2, <1>4, <2>3, <2>4
<1> QED
  BY <1>3, <1>4

\* The declarations of a skill, and of the skills there are.
Declared(m, d) ==
  [slot |-> d.slot, skill |-> m.id, ty |-> ParseSlotType(d.schema),
   write |-> d.access \in {"write", "read_write"}]
AllDeclared == UNION {{Declared(m, d) : d \in ToSet(m.slots)} : m \in Manifests}

\* A schema parses to a type whose paths are paths, with all that leads to them.
LEMMA ParsedIsClosed ==
  ASSUME NEW schema, DOMAIN schema \subseteq Paths, <<>> \in DOMAIN schema,
         \A p \in DOMAIN schema : \A n \in 0..Len(p) : Prefix(p, n) \in DOMAIN schema
  PROVE  Closed(ParseSlotType(schema))
<1> DEFINE items == {p \in DOMAIN schema : schema[p].form = "list<>" /\ schema[p].inner = "item"}
           more == {Append(q, f) : q \in items, f \in DOMAIN ItemRecord}
           good == \A p \in DOMAIN schema : Parses(schema[p])
<1>1. DOMAIN ItemRecord \subseteq FieldNames
  BY FieldsAssumption DEF ItemRecord
<1>2. more \subseteq Paths
  <2>1. ASSUME NEW q \in items, NEW f \in DOMAIN ItemRecord PROVE Append(q, f) \in Paths
    <3>1. q \in Seq(FieldNames) /\ f \in FieldNames
      BY <1>1 DEF Paths
    <3> QED
      BY <3>1 DEF Paths
  <2>2. \A x \in more : \E q \in items, f \in DOMAIN ItemRecord : x = Append(q, f)
    OBVIOUS
  <2> HIDE DEF more, items
  <2> QED
    BY <2>1, <2>2
<1>3. DOMAIN ParseSlotType(schema) = IF good THEN DOMAIN schema \cup more ELSE {<<>>}
  BY DEF ParseSlotType, BadType
<1>4. <<>> \in Paths
  BY DEF Paths
<1>5. ASSUME NEW p \in more, NEW n \in 0..Len(p) PROVE Prefix(p, n) \in DOMAIN schema \cup more
  <2>1. PICK q \in items, f \in DOMAIN ItemRecord : p = Append(q, f)
    OBVIOUS
  <2>2. q \in Seq(FieldNames) /\ f \in FieldNames /\ q \in DOMAIN schema
    BY <1>1 DEF Paths
  <2>3. Len(q) \in Nat /\ Len(p) = Len(q) + 1
    BY <2>1, <2>2
  <2>4. CASE n = Len(p)
    <3>1. p \in Paths /\ Prefix(p, Len(p)) = p
      BY <1>2, PrefixFacts
    <3> QED
      BY <2>4, <3>1
  <2>5. CASE n # Len(p)
    <3>1. n \in 0..Len(q)
      BY <2>3, <2>5
    <3>2. Prefix(p, n) = Prefix(q, n)
      BY <2>1, <2>2, <3>1 DEF Prefix
    <3>3. Prefix(q, n) \in DOMAIN schema
      BY <2>2, <3>1
    <3> QED
      BY <3>2, <3>3
  <2> QED
    BY <2>4, <2>5
<1>6. \A n \in 0..Len(<<>>) : Prefix(<<>>, n) = <<>>
  BY <1>4, PrefixFacts
<1>7. Laid(ParseSlotType(schema)) /\ <<>> \in DOMAIN ParseSlotType(schema)
  <2> HIDE DEF more, good
  <2> QED
    BY <1>2, <1>3, <1>4 DEF Laid
<1> HIDE DEF more
<1>8. ASSUME NEW p \in DOMAIN ParseSlotType(schema), NEW n \in 0..Len(p)
      PROVE  Prefix(p, n) \in DOMAIN ParseSlotType(schema)
  <2>1. CASE good
    <3>1. DOMAIN ParseSlotType(schema) = DOMAIN schema \cup more
      BY <1>3, <2>1
    <3>2. CASE p \in more
      BY <1>5, <3>1, <3>2
    <3>3. CASE p \in DOMAIN schema
      BY <3>1, <3>3
    <3> QED
      BY <3>1, <3>2, <3>3
  <2>2. CASE ~good
    BY <1>3, <1>6, <2>2
  <2> QED
    BY <2>1, <2>2
<1> QED
  BY <1>7, <1>8 DEF Closed

\* Every declaration there is has such a type.
LEMMA DeclaredIsClosed == ASSUME NEW d \in AllDeclared PROVE Closed(d.ty)
<1>1. PICK m \in Manifests : d \in {Declared(m, x) : x \in ToSet(m.slots)}
  BY DEF AllDeclared
<1>2. PICK x \in ToSet(m.slots) : d = Declared(m, x)
  BY <1>1
<1>3. /\ DOMAIN x.schema \subseteq Paths /\ <<>> \in DOMAIN x.schema
      /\ \A p \in DOMAIN x.schema : \A n \in 0..Len(p) : Prefix(p, n) \in DOMAIN x.schema
  BY ManifestsAssumption
<1>4. d.ty = ParseSlotType(x.schema)
  BY <1>2 DEF Declared
<1> QED
  BY <1>3, <1>4, ParsedIsClosed

\* The declarations of one slot are declarations of the skills.
LEMMA DeclsAreDeclared ==
  ASSUME NEW order \in Seq(Manifests), NEW s PROVE DeclsOf(order, s) \in Seq(AllDeclared)
<1> DEFINE rows == [i \in 1..Len(order) |->
                      [j \in 1..Len(order[i].slots) |-> Declared(order[i], order[i].slots[j])]]
<1>1. ASSUME NEW i \in 1..Len(order) PROVE rows[i] \in Seq(AllDeclared)
  <2> DEFINE m == order[i]
             q == m.slots
             row == [j \in 1..Len(q) |-> Declared(m, q[j])]
  <2>1. m \in Manifests
    OBVIOUS
  <2>2. q \in Seq(ToSet(q))
    BY <2>1, ManifestsAssumption
  <2>3. Len(q) \in Nat /\ \A j \in 1..Len(q) : q[j] \in ToSet(q)
    BY <2>2
  <2>4. \A j \in 1..Len(q) : Declared(m, q[j]) \in AllDeclared
    BY <2>1, <2>3 DEF AllDeclared
  <2>5. rows[i] = row
    OBVIOUS
  <2> HIDE DEF m, q
  <2>6. row \in Seq(AllDeclared)
    BY <2>3, <2>4
  <2> HIDE DEF row, rows
  <2> QED
    BY <2>5, <2>6
<1>2. Len(order) \in Nat
  OBVIOUS
<1>3. Decls(order) = FlattenSeq(rows)
  BY DEF Decls, Declared
<1>4. rows \in Seq(Seq(AllDeclared))
  <2>1. DOMAIN rows = 1..Len(order) /\ rows = [i \in 1..Len(order) |-> rows[i]]
    OBVIOUS
  <2> HIDE DEF rows
  <2> QED
    BY <1>1, <1>2, <2>1
<1> HIDE DEF rows
<1>5. Decls(order) \in Seq(AllDeclared)
  BY <1>3, <1>4, FlatHolds
<1> DEFINE all == Decls(order)
           I == {i \in 1..Len(all) : all[i].slot = s}
<1>6. DeclsOf(order, s) = Retained(all, I)
  BY DEF DeclsOf
<1>7. I \in SUBSET (1..Len(all))
  OBVIOUS
<1> HIDE DEF all, I
<1>8. Retained(all, I) \in Seq(AllDeclared)
  BY <1>5, <1>7, RetainedElements DEF all
<1> QED
  BY <1>6, <1>8

\* Where every two declarations compose, what they compose to suits each of them, and
\* says what each says that no earlier one overrules.
LEMMA ComposedSuits ==
  ASSUME NEW decls \in Seq(AllDeclared), AllCompatible(decls), NEW k \in 1..Len(decls)
  PROVE  /\ TypesCompatible(ComposedType(decls), decls[k].ty)
         /\ Told(ComposedType(decls), decls, Len(decls))
<1> DEFINE n == Len(decls)
           g == CHOOSE h : WidenedTo(h, decls, n)
           Good(i) == /\ Laid(g[i]) /\ <<>> \in DOMAIN g[i]
                      /\ \A j \in 1..n : TypesCompatible(g[i], decls[j].ty)
                      /\ Sourced(g[i], decls, i) /\ Told(g[i], decls, i)
           Bad == {i \in 1..n : ~Good(i)}
<1>1. n \in Nat /\ \A i \in 1..n : i \in Nat /\ Closed(decls[i].ty) /\ Laid(decls[i].ty)
  BY DeclaredIsClosed DEF Closed
<1>2. ComposedType(decls) = g[n]
  BY DEF ComposedType, Widened, WidenedTo
<1>3. \A i, j \in 1..n : TypesCompatible(decls[i].ty, decls[j].ty)
  <2>1. ASSUME NEW i \in 1..n, NEW j \in 1..n PROVE TypesCompatible(decls[i].ty, decls[j].ty)
    <3>1. CASE i < j
      BY <3>1 DEF AllCompatible
    <3>2. CASE j < i
      BY <3>2, CompatibleIsMutual DEF AllCompatible
    <3>3. CASE i = j
      BY <3>3, CompatibleWithItself
    <3>4. i \in Nat /\ j \in Nat
      BY <1>1
    <3> QED
      BY <3>1, <3>2, <3>3, <3>4
  <2> QED
    BY <2>1
<1> HIDE DEF g
<1>4. WidenedTo(g, decls, n)
  BY <1>1, SomeWidened DEF g
<1>5. \A i \in 1..n : g[i] = IF i = 1 THEN decls[1].ty ELSE Widen(g[i - 1], decls[i].ty)
  BY <1>4 DEF WidenedTo
<1>6. Bad = {}
  <2> SUFFICES ASSUME Bad # {} PROVE FALSE
    OBVIOUS
  <2>1. Bad \in SUBSET Nat
    BY <1>1
  <2>2. PICK i \in Bad : \A m \in Bad : i <= m
    BY <2>1, LeastNat
  <2>3. i \in 1..n /\ ~Good(i) /\ i \in Nat
    BY <1>1
  <2>4. CASE i = 1
    <3>1. g[i] = decls[1].ty /\ 1 \in 1..n
      BY <1>5, <2>3, <2>4
    <3>2. 1..1 = {1} /\ \A p \in DOMAIN decls[1].ty : Follows(decls[1].ty, decls[1].ty, p)
      BY DEF Follows
    <3>3. Sourced(g[i], decls, i) /\ Told(g[i], decls, i)
      BY <2>4, <3>1, <3>2 DEF Sourced, Told
    <3>4. Laid(g[i]) /\ <<>> \in DOMAIN g[i] /\ \A j \in 1..n : TypesCompatible(g[i], decls[j].ty)
      BY <1>1, <1>3, <3>1 DEF Closed
    <3> QED
      BY <2>3, <3>3, <3>4
  <2>5. CASE i # 1
    <3>1. i - 1 \in 1..n /\ ~(i <= i - 1)
      BY <1>1, <2>3, <2>5
    <3>2. Good(i - 1)
      BY <2>2, <3>1
    <3>3. g[i] = Widen(g[i - 1], decls[i].ty)
      BY <1>5, <2>3, <2>5
    <3>4. Laid(g[i - 1]) /\ Laid(decls[i].ty) /\ TypesCompatible(g[i - 1], decls[i].ty)
      BY <1>1, <2>3, <3>2
    <3>5. ASSUME NEW j \in 1..n PROVE TypesCompatible(g[i], decls[j].ty) /\ Laid(g[i])
      <4>1. TypesCompatible(g[i - 1], decls[j].ty)
        BY <3>2
      <4>2. TypesCompatible(decls[i].ty, decls[j].ty)
        BY <1>3, <2>3
      <4> QED
        BY <3>3, <3>4, <4>1, <4>2, WidenSuits
    <3>6. i >= 2 /\ Sourced(g[i - 1], decls, i - 1) /\ Told(g[i - 1], decls, i - 1)
          /\ <<>> \in DOMAIN g[i - 1]
      BY <2>3, <2>5, <3>2
    <3>7. Sourced(g[i], decls, i) /\ Told(g[i], decls, i)
      BY <1>1, <2>3, <3>3, <3>4, <3>6, WidenTells
    <3>8. <<>> \in DOMAIN g[i]
      BY <3>3, <3>6 DEF Widen
    <3>9. Good(i)
      BY <2>3, <3>5, <3>7, <3>8
    <3> QED
      BY <2>3, <3>9
  <2> QED
    BY <2>4, <2>5
<1>7. n \in 1..n
  BY <1>1
<1>8. Good(n)
  BY <1>6, <1>7
<1> QED
  BY <1>2, <1>8

\* The type of a slot requires what each of its declarers requires, and says of every
\* other field what each of them says, unless an earlier one said otherwise of a field
\* that is optional (resolve_decls, types_compatible, widen).
THEOREM SlotTypeTheorem == Spec => []SlotTypeSuitsAll
<1>1. AgentInv => SlotTypeSuitsAll
  <2> SUFFICES ASSUME AgentInv, NEW s \in DOMAIN slots,
                      NEW k \in 1..Len(DeclsOf(Merged, s))
               PROVE  LET decls == DeclsOf(Merged, s) IN
                      /\ TypesCompatible(slots[s].ty, decls[k].ty)
                      /\ \A p \in DOMAIN decls[k].ty :
                           Follows(slots[s].ty, decls[k].ty, p) \/ Overruled(decls, k, p)
    BY DEF SlotTypeSuitsAll
  <2> DEFINE decls == DeclsOf(Merged, s)
  <2>1. Distinct(enabled)
    BY DEF AgentInv, EnabledOK, Distinct
  <2>2. Merged \in Seq(Manifests)
    BY <2>1, OrderHoldsSkills DEF Merged
  <2>3. decls \in Seq(AllDeclared)
    BY <2>2, DeclsAreDeclared
  <2>4. slots[s].ty = ComposedType(decls) /\ AllCompatible(decls)
    BY DEF AgentInv, SlotsOK, Resolvable
  <2>5. k \in 1..Len(decls)
    OBVIOUS
  <2> HIDE DEF decls
  <2>6. TypesCompatible(slots[s].ty, decls[k].ty) /\ Told(slots[s].ty, decls, Len(decls))
    BY <2>3, <2>4, <2>5, ComposedSuits
  <2> QED
    BY <2>5, <2>6 DEF Told, decls
<1> QED
  BY <1>1, AgentInvariance, PTL

-------------------------------------------------------------------------------
(* Canonical manifests.                                                      *)

\* Filling in a default that is not checked for raises no issue.
LEMMA FilledIn ==
  ASSUME NEW p, NEW q, NEW rules, DOMAIN rules \subseteq DOMAIN p,
         \A f \in DOMAIN p : q[f] = p[f] \/ (q[f] = "ok" /\ p[f] = "absent"),
         Check(p, rules) = {}
  PROVE  Check(q, rules) = {}
<1>1. \A f \in DOMAIN rules : /\ ~(rules[f].required /\ p[f] = "absent")
                              /\ p[f] # "wrong_type" /\ p[f] # "bad"
  BY DEF Check
<1>2. \A f \in DOMAIN rules : /\ ~(rules[f].required /\ q[f] = "absent")
                              /\ q[f] # "wrong_type" /\ q[f] # "bad"
  BY <1>1
<1> QED
  BY <1>2 DEF Check

\* Fields that are not there raise none either, where none is required.
LEMMA NotThere ==
  ASSUME NEW q, NEW rules, \A f \in DOMAIN rules : ~rules[f].required /\ q[f] \in {"absent", "ok"}
  PROVE  Check(q, rules) = {}
BY DEF Check

\* A name, a number or a list of emits is not what stands for none.
LEMMA NamesAreGiven ==
  /\ \A i \in Int : i # Absent
  /\ "side" # Absent /\ "bottom" # Absent /\ "inline" # Absent /\ "primary_eligible" # Absent
  /\ \A s \in Seq(Emit) : s # Absent
BY AbsentAssumption

PricesOf(p) == {k \in {"usd", "price"} : p[k] # Absent}

\* How many prices are given.
LEMMA PricesGiven ==
  ASSUME NEW p
  PROVE  /\ p.usd = Absent /\ p.price = Absent <=> Cardinality(PricesOf(p)) = 0
         /\ p.usd # Absent /\ p.price = Absent => Cardinality(PricesOf(p)) = 1
         /\ p.usd = Absent /\ p.price # Absent => Cardinality(PricesOf(p)) = 1
         /\ p.usd # Absent /\ p.price # Absent => Cardinality(PricesOf(p)) = 2
<1>1. Cardinality({}) = 0 /\ Cardinality({"usd"}) = 1 /\ Cardinality({"price"}) = 1
      /\ IsFiniteSet({"usd"})
  BY FS_EmptySet, FS_Singleton
<1>2. Cardinality({"usd"} \cup {"price"}) = 1 + 1
  <2>1. "price" \notin {"usd"}
    OBVIOUS
  <2> QED
    BY <1>1, <2>1, FS_AddElement
<1>3. CASE p.usd = Absent /\ p.price = Absent
  <2>1. PricesOf(p) = {}
    BY <1>3 DEF PricesOf
  <2> QED
    BY <1>1, <1>3, <2>1
<1>4. CASE p.usd # Absent /\ p.price = Absent
  <2>1. PricesOf(p) = {"usd"}
    BY <1>4 DEF PricesOf
  <2> QED
    BY <1>1, <1>4, <2>1
<1>5. CASE p.usd = Absent /\ p.price # Absent
  <2>1. PricesOf(p) = {"price"}
    BY <1>5 DEF PricesOf
  <2> QED
    BY <1>1, <1>5, <2>1
<1>6. CASE p.usd # Absent /\ p.price # Absent
  <2>1. PricesOf(p) = {"usd"} \cup {"price"}
    BY <1>6 DEF PricesOf
  <2> QED
    BY <1>2, <1>6, <2>1
<1> QED
  BY <1>3, <1>4, <1>5, <1>6

PriceFits(usd) == usd > 0 /\ usd <= 1000000

\* What a section on prices is that raises no issue.
LEMMA PricingIsFine ==
  ASSUME NEW m, m.sections["pricing"] = "ok",
         m.pricing \in [free : BOOLEAN, usd : Int \cup {Absent}, price : Int \cup {Absent}]
  PROVE  PricingIssues(m) = {} <=>
           /\ m.pricing.free => m.pricing.usd = Absent /\ m.pricing.price = Absent
           /\ ~m.pricing.free => \/ m.pricing.usd = Absent /\ m.pricing.price # Absent
                                 \/ m.pricing.usd # Absent /\ m.pricing.price = Absent
           /\ m.pricing.usd # Absent => PriceFits(m.pricing.usd)
           /\ m.pricing.price # Absent => m.pricing.price > 0
<1> DEFINE p == m.pricing
<1>1. \A usd \in Int : PriceFits(usd) <=> ~(usd <= 0 \/ usd > 1000000)
  BY SMT DEF PriceFits
<1>2. ("usd" \in PricesOf(p) <=> p.usd # Absent) /\ ("price" \in PricesOf(p) <=> p.price # Absent)
  BY DEF PricesOf
<1>3. p.usd # Absent => p.usd \in Int
  OBVIOUS
<1>4. p.price # Absent => p.price \in Int
  OBVIOUS
<1> HIDE DEF p
<1>5. PricingIssues(m) = {} <=>
        /\ Cardinality(PricesOf(p)) = (IF p.free THEN 0 ELSE 1)
        /\ p.usd # Absent => PriceFits(p.usd)
        /\ ~("price" \in PricesOf(p) /\ p.price <= 0)
  BY <1>1, <1>2, <1>3, SMT DEF PricingIssues, When, PricesOf, p
<1>6. p.price # Absent => (~(p.price <= 0) <=> p.price > 0)
  BY <1>4
<1>7. p.free \in BOOLEAN
  BY DEF p
<1>8. Cardinality(PricesOf(p)) = (IF p.free THEN 0 ELSE 1) <=>
        /\ p.free => p.usd = Absent /\ p.price = Absent
        /\ ~p.free => \/ p.usd = Absent /\ p.price # Absent
                      \/ p.usd # Absent /\ p.price = Absent
  BY <1>7, PricesGiven
<1> QED
  BY <1>2, <1>5, <1>6, <1>8, Zenon DEF p

\* The canonical price of a price that is fine is fine, and canonical.
LEMMA PriceIsCanonical ==
  ASSUME NEW m, m.sections["pricing"] = "ok",
         m.pricing \in [free : BOOLEAN, usd : Int \cup {Absent}, price : Int \cup {Absent}],
         PricingIssues(m) = {}, m.pricing.usd # Absent => m.pricing.usd >= 5,
         NEW n, n.sections["pricing"] = "ok", n.pricing = NormalPricing(m.pricing)
  PROVE  PricingIssues(n) = {} /\ NormalPricing(n.pricing) = n.pricing
<1> DEFINE p == m.pricing
           q == n.pricing
           P == [free : BOOLEAN, usd : Int \cup {Absent}, price : Int \cup {Absent}]
<1>1. /\ p \in P
      /\ p.free => p.usd = Absent /\ p.price = Absent
      /\ ~p.free => \/ p.usd = Absent /\ p.price # Absent
                    \/ p.usd # Absent /\ p.price = Absent
      /\ p.usd # Absent => p.usd >= 5
      /\ p.price # Absent => p.price > 0
  BY PricingIsFine
<1>2. \A i \in Int : i # Absent
  BY NamesAreGiven
<1>3. q \in P /\ q.usd = Absent /\ q.free = p.free /\ (p.free => q.price = Absent)
      /\ (~p.free => q.price \in Int /\ q.price > 0) /\ NormalPricing(q) = q
  <2> HIDE DEF p
  <2>1. CASE p.free
    <3>1. q = [free |-> TRUE, usd |-> Absent, price |-> Absent]
      BY <1>1, <2>1 DEF NormalPricing, p
    <3> HIDE DEF q
    <3> QED
      BY <1>1, <2>1, <3>1 DEF NormalPricing
  <2>2. CASE ~p.free /\ p.price # Absent
    <3>1. q = [free |-> FALSE, usd |-> Absent, price |-> p.price] /\ p.price \in Int
      BY <1>1, <2>2 DEF NormalPricing, p
    <3> HIDE DEF q
    <3> QED
      BY <1>1, <2>2, <3>1 DEF NormalPricing
  <2>3. CASE ~p.free /\ p.price = Absent
    <3>1. p.usd \in Int /\ p.usd >= 5
      BY <1>1, <2>3
    <3> DEFINE c == 10 * ((p.usd + 5) \div 10)
    <3>2. q = [free |-> FALSE, usd |-> Absent, price |-> c]
      BY <1>1, <2>3 DEF NormalPricing, p
    <3>3. c \in Int /\ c > 0
      <4>1. (p.usd + 5) \div 10 >= 1 /\ (p.usd + 5) \div 10 \in Int
        BY <3>1
      <4> QED
        BY <4>1
    <3> HIDE DEF q, c
    <3>4. c # Absent
      BY <1>2, <3>3
    <3> QED
      BY <1>1, <2>3, <3>2, <3>3, <3>4 DEF NormalPricing
  <2>4. p.free \in BOOLEAN
    BY <1>1
  <2> QED
    BY <2>1, <2>2, <2>3, <2>4
<1>4. PricingIssues(n) = {}
  <2>1. n.pricing \in P
    BY <1>3
  <2>2. ~p.free => q.price # Absent
    BY <1>2, <1>3
  <2> QED
    BY <1>3, <2>1, <2>2, PricingIsFine
<1> QED
  BY <1>3, <1>4

\* The emits of a canonical panel are as they were, and given.
LEMMA EmitsAreCanonical ==
  ASSUME NEW p, p.emits \in Seq(Emit) \cup {Absent}, NEW q, q.type = p.type, q.emits = NormalEmits(p)
  PROVE  NormalEmits(q) = q.emits
<1> DEFINE Default(name) == [name |-> name, to_chat |-> IF DefaultToChat(p.type) THEN "yes" ELSE "no"]
           names == DefaultEventNames(p.type)
           Said(e) == IF e.to_chat = "default" THEN Default(e.name) ELSE e
<1>1. Len(names) \in Nat /\ \A i \in 1..Len(names) : names[i] \in EventNames
  <2>1. names \in {<<>>, <<"timer_finished">>, <<"item_checked">>, <<"changed">>, <<"action">>,
                   <<"complete">>}
    BY DEF DefaultEventNames
  <2> DEFINE Named(l) == Len(l) \in Nat /\ \A i \in 1..Len(l) : l[i] \in EventNames
  <2>2. Named(<<>>)
    OBVIOUS
  <2>3. \A s \in EventNames : Named(<<s>>)
    OBVIOUS
  <2> HIDE DEF names, Named
  <2>4. /\ Named(<<"timer_finished">>) /\ Named(<<"item_checked">>) /\ Named(<<"changed">>)
        /\ Named(<<"action">>) /\ Named(<<"complete">>)
    BY <2>3, EventsAssumption
  <2>5. Named(names)
    BY <2>1, <2>2, <2>4
  <2> QED
    BY <2>5 DEF Named
<1>2. \A name \in EventNames : Default(name) \in Emit /\ Default(name).to_chat # "default"
  BY DEF Emit
<1>3. \A e \in Emit : Said(e) \in Emit /\ Said(e).to_chat # "default"
  BY DEF Emit
<1>4. q.emits \in Seq(Emit) /\ \A i \in 1..Len(q.emits) : q.emits[i].to_chat # "default"
  <2>1. CASE p.emits = Absent
    <3>1. q.emits = [i \in 1..Len(names) |-> Default(names[i])]
      BY <2>1 DEF NormalEmits
    <3>2. \A i \in 1..Len(names) : Default(names[i]) \in Emit /\ Default(names[i]).to_chat # "default"
      <4> HIDE DEF names, Default
      <4> QED
        BY <1>1, <1>2
    <3>3. Len(names) \in Nat
      BY <1>1
    <3> HIDE DEF Default, names
    <3> QED
      BY <3>1, <3>2, <3>3
  <2>2. CASE p.emits # Absent
    <3> DEFINE em == p.emits
    <3>1. q.emits = [i \in 1..Len(em) |-> Said(em[i])]
      BY <2>2 DEF NormalEmits
    <3>2. em \in Seq(Emit)
      BY <2>2
    <3> HIDE DEF Said, em
    <3>3. \A i \in 1..Len(em) : Said(em[i]) \in Emit /\ Said(em[i]).to_chat # "default"
      BY <1>3, <3>2
    <3> QED
      BY <3>1, <3>2, <3>3
  <2> QED
    BY <2>1, <2>2
<1>5. q.emits # Absent
  BY <1>4, NamesAreGiven
<1>6. NormalEmits(q) = [i \in 1..Len(q.emits) |-> q.emits[i]]
  BY <1>4, <1>5 DEF NormalEmits
<1> QED
  BY <1>4, <1>6

PanelRecord(p) ==
  p = [id |-> p.id, type |-> p.type, plain |-> p.plain, region |-> p.region, props |-> p.props,
       inline |-> p.inline, emits |-> p.emits, binds_tool |-> p.binds_tool,
       binds_state |-> p.binds_state]

PanelWith(p, plain, region, props, inline, emits) ==
  [p EXCEPT !.region = region, !.props = props, !.inline = inline, !.emits = emits,
            !.plain = plain]
PanelOf(p, plain, region, props, inline, emits) ==
  [id |-> p.id, type |-> p.type, plain |-> plain, region |-> region, props |-> props,
   inline |-> inline, emits |-> emits, binds_tool |-> p.binds_tool,
   binds_state |-> p.binds_state]

\* What is overwritten in a panel.
LEMMA PanelIs ==
  ASSUME NEW p, PanelRecord(p), NEW plain, NEW region, NEW props, NEW inline, NEW emits
  PROVE  PanelWith(p, plain, region, props, inline, emits)
         = PanelOf(p, plain, region, props, inline, emits)
<1> DEFINE D == {"id", "type", "plain", "region", "props", "inline", "emits", "binds_tool",
                 "binds_state"}
           l == [p EXCEPT !.region = region, !.props = props, !.inline = inline, !.emits = emits,
                         !.plain = plain]
           r == [id |-> p.id, type |-> p.type, plain |-> plain, region |-> region,
                 props |-> props, inline |-> inline, emits |-> emits,
                 binds_tool |-> p.binds_tool, binds_state |-> p.binds_state]
<1>1. DOMAIN p = D
  BY DEF PanelRecord
<1>2. l = [x \in D |-> l[x]]
  BY <1>1
<1>3. r = [x \in D |-> r[x]]
  OBVIOUS
<1>4. \A x \in D : l[x] = r[x]
  <2>1. l["id"] = r["id"] /\ l["type"] = r["type"] /\ l["binds_tool"] = r["binds_tool"]
        /\ l["binds_state"] = r["binds_state"]
    BY <1>1
  <2>2. l["plain"] = r["plain"] /\ l["region"] = r["region"]
    BY <1>1
  <2>3. l["props"] = r["props"] /\ l["inline"] = r["inline"]
    BY <1>1
  <2>4. l["emits"] = r["emits"]
    BY <1>1
  <2> HIDE DEF l, r
  <2> QED
    BY <2>1, <2>2, <2>3, <2>4
<1> HIDE DEF l, r, D
<1>5. l = r
  BY <1>2, <1>3, <1>4
<1> QED
  BY <1>5 DEF l, r, PanelWith, PanelOf

Fill(plain) ==
  [f \in DOMAIN plain |->
     IF plain[f] = "absent" /\ f \in {"region", "priority", "props", "emits", "min_widget_version"}
       THEN "ok" ELSE plain[f]]
NoProps == [k \in {} |-> k]

\* What a canonical panel is.
LEMMA NormalPanelIs ==
  ASSUME NEW p, PanelRecord(p)
  PROVE  NormalPanel(p) = PanelOf(p, Fill(p.plain), Given(p.region, DefaultRegion(p.type)),
                                  NormalProps(p), NoProps, NormalEmits(p))
<1> DEFINE plain == Fill(p.plain)
           region == Given(p.region, DefaultRegion(p.type))
           props == NormalProps(p)
           inline == NoProps
           emits == NormalEmits(p)
<1>1. NormalPanel(p) = PanelWith(p, plain, region, props, inline, emits)
  BY DEF NormalPanel, PanelWith, Fill, NoProps
<1> HIDE DEF plain, region, props, inline, emits
<1>2. NormalPanel(p) = PanelOf(p, plain, region, props, inline, emits)
  BY <1>1, PanelIs
<1> QED
  BY <1>2 DEF plain, region, props, inline, emits

\* The panel of a panel that raises no issue raises none, and is canonical.
LEMMA PanelIsCanonical ==
  ASSUME NEW p, IsPanel(p), PanelIssues(p) = {}
  PROVE  PanelIssues(NormalPanel(p)) = {} /\ NormalPanel(NormalPanel(p)) = NormalPanel(p)
<1> DEFINE q == NormalPanel(p)
<1>1. q = [id |-> p.id, type |-> p.type, plain |-> Fill(p.plain),
           region |-> Given(p.region, DefaultRegion(p.type)), props |-> NormalProps(p),
           inline |-> NoProps, emits |-> NormalEmits(p),
           binds_tool |-> p.binds_tool, binds_state |-> p.binds_state]
  <2>1. PanelRecord(p)
    BY DEF IsPanel, PanelRecord
  <2> QED
    BY <2>1, NormalPanelIs DEF PanelOf
<1>2. /\ q.id = p.id /\ q.type = p.type /\ q.plain = Fill(p.plain)
      /\ q.region = Given(p.region, DefaultRegion(p.type)) /\ q.props = NormalProps(p)
      /\ q.inline = NoProps /\ q.emits = NormalEmits(p)
      /\ q.binds_tool = p.binds_tool /\ q.binds_state = p.binds_state
  <2> HIDE DEF q
  <2> QED
    BY <1>1
<1> HIDE DEF q
<1>3. NormalPanel(q) =
        [id |-> q.id, type |-> q.type, plain |-> Fill(q.plain),
         region |-> Given(q.region, DefaultRegion(q.type)), props |-> NormalProps(q),
         inline |-> NoProps, emits |-> NormalEmits(q),
         binds_tool |-> q.binds_tool, binds_state |-> q.binds_state]
  <2>1. PanelRecord(q)
    BY <1>1 DEF PanelRecord
  <2> QED
    BY <2>1, NormalPanelIs DEF PanelOf
<1>4. Fill(q.plain) = q.plain
  <2> DEFINE a == Fill(p.plain)
  <2>2. \A f \in DOMAIN a : a[f] = "absent" =>
          f \notin {"region", "priority", "props", "emits", "min_widget_version"}
    BY DEF Fill
  <2>3. a = [f \in DOMAIN a |-> a[f]]
    BY DEF Fill
  <2> HIDE DEF a
  <2>4. Fill(a) = a
    BY <2>2, <2>3 DEF Fill
  <2> QED
    BY <1>2, <2>4 DEF a
<1>5. Given(q.region, DefaultRegion(q.type)) = q.region
  <2>1. DefaultRegion(p.type) \in {"side", "bottom", "inline"}
    BY DEF DefaultRegion
  <2>2. DefaultRegion(p.type) # Absent
    BY <2>1, NamesAreGiven
  <2> QED
    BY <1>2, <2>2 DEF Given
<1>6. NormalProps(q) = q.props
  <2>1. DOMAIN q.inline = {}
    BY <1>2 DEF NoProps
  <2>2. NormalProps(q) = [k \in DOMAIN q.props |-> q.props[k]]
    BY <2>1 DEF NormalProps
  <2>3. q.props = [k \in DOMAIN q.props |-> q.props[k]]
    BY <1>2 DEF NormalProps
  <2> QED
    BY <2>2, <2>3
<1>7. NormalEmits(q) = q.emits
  BY <1>2, EmitsAreCanonical DEF IsPanel
<1>8. NormalPanel(q) = q
  BY <1>1, <1>2, <1>3, <1>4, <1>5, <1>6, <1>7
<1>9. PanelIssues(q) = {}
  <2>1. /\ Check(p.plain, PanelRules) = {}
        /\ When(p.type \notin WidgetTypes, Issue("unknown_widget_type", p.id)) = {}
        /\ When(p.binds_tool \notin ToolRefs \cup {Absent}, Issue("unknown_tool_ref", p.id)) = {}
    BY DEF PanelIssues
  <2>2. Check(q.plain, PanelRules) = {}
    <3>1. DOMAIN PanelRules \subseteq DOMAIN p.plain
      BY DEF IsPanel
    <3>2. \A f \in DOMAIN p.plain : q.plain[f] = p.plain[f] \/ (q.plain[f] = "ok" /\ p.plain[f] = "absent")
      BY <1>2 DEF Fill
    <3> QED
      BY <2>1, <3>1, <3>2, FilledIn
  <2>3. DOMAIN q.inline = {}
    BY <1>2 DEF NoProps
  <2> QED
    BY <1>2, <2>1, <2>2, <2>3 DEF PanelIssues
<1> QED
  BY <1>8, <1>9 DEF q

ManifestRecord(m) ==
  m = [id |-> m.id, plain |-> m.plain, sections |-> m.sections, pricing |-> m.pricing,
       role |-> m.role, priority |-> m.priority, conflicts |-> m.conflicts, tools |-> m.tools,
       slots |-> m.slots, panels |-> m.panels, strings |-> m.strings,
       default_locale |-> m.default_locale, cost |-> m.cost]

FillIn(plain) ==
  [f \in DOMAIN plain |-> IF f \in Defaulted /\ plain[f] = "absent" THEN "ok" ELSE plain[f]]

\* What a canonical manifest is.
LEMMA NormalizeIs ==
  ASSUME NEW m, ManifestRecord(m)
  PROVE  Normalize(m) =
           [id |-> m.id, plain |-> FillIn(m.plain), sections |-> [s \in DOMAIN m.sections |-> "ok"],
            pricing |-> NormalPricing(m.pricing), role |-> Given(m.role, "primary_eligible"),
            priority |-> Given(m.priority, 50), conflicts |-> m.conflicts, tools |-> m.tools,
            slots |-> m.slots, panels |-> [i \in 1..Len(m.panels) |-> NormalPanel(m.panels[i])],
            strings |-> m.strings, default_locale |-> m.default_locale, cost |-> m.cost]
<1> DEFINE plain == FillIn(m.plain)
           sections == [s \in DOMAIN m.sections |-> "ok"]
           pricing == NormalPricing(m.pricing)
           role == Given(m.role, "primary_eligible")
           priority == Given(m.priority, 50)
           panels == [i \in 1..Len(m.panels) |-> NormalPanel(m.panels[i])]
<1>1. Normalize(m) = [m EXCEPT !.plain = plain, !.sections = sections, !.pricing = pricing,
                               !.role = role, !.priority = priority, !.panels = panels]
  BY DEF Normalize, FillIn
<1> HIDE DEF plain, sections, pricing, role, priority, panels
<1> DEFINE D == {"id", "plain", "sections", "pricing", "role", "priority", "conflicts", "tools",
                 "slots", "panels", "strings", "default_locale", "cost"}
           l == [m EXCEPT !.plain = plain, !.sections = sections, !.pricing = pricing,
                          !.role = role, !.priority = priority, !.panels = panels]
           r == [id |-> m.id, plain |-> plain, sections |-> sections, pricing |-> pricing,
                 role |-> role, priority |-> priority, conflicts |-> m.conflicts,
                 tools |-> m.tools, slots |-> m.slots, panels |-> panels,
                 strings |-> m.strings, default_locale |-> m.default_locale, cost |-> m.cost]
<1>2. DOMAIN m = D
  BY DEF ManifestRecord
<1>3. l = [x \in D |-> l[x]]
  BY <1>2
<1>4. r = [x \in D |-> r[x]]
  OBVIOUS
<1>5. \A x \in D : l[x] = r[x]
  <2>1. l["id"] = r["id"] /\ l["conflicts"] = r["conflicts"] /\ l["tools"] = r["tools"]
    BY <1>2
  <2>2. l["slots"] = r["slots"] /\ l["strings"] = r["strings"] /\ l["cost"] = r["cost"]
        /\ l["default_locale"] = r["default_locale"]
    BY <1>2
  <2>3. l["plain"] = r["plain"] /\ l["sections"] = r["sections"]
    BY <1>2
  <2>4. l["pricing"] = r["pricing"] /\ l["role"] = r["role"]
    BY <1>2
  <2>5. l["priority"] = r["priority"] /\ l["panels"] = r["panels"]
    BY <1>2
  <2> HIDE DEF l, r
  <2> QED
    BY <2>1, <2>2, <2>3, <2>4, <2>5
<1>6. Normalize(m) = l
  BY <1>1
<1> HIDE DEF l, r, D
<1>7. Normalize(m) = r
  BY <1>3, <1>4, <1>5, <1>6
<1> QED
  BY <1>7 DEF r, plain, sections, pricing, role, priority, panels

\* The fields of a canonical manifest raise no issue if those that are given did not,
\* in sections that were not there neither.
LEMMA SectionsAreCanonical ==
  ASSUME NEW m, IsManifest(m), Check(m.plain, TopRules) = {}, Check(m.plain, CapabilityRules) = {},
         SectionIssues(m) = {},
         NEW n, n.plain = FillIn(m.plain), n.sections = [s \in DOMAIN m.sections |-> "ok"]
  PROVE  /\ Check(n.plain, TopRules) = {} /\ Check(n.plain, CapabilityRules) = {}
         /\ SectionIssues(n) = {} /\ m.sections["pricing"] = "ok"
<1>1. /\ DOMAIN m.plain = CheckedFields /\ DOMAIN m.sections = Sections
      /\ \A s \in Sections : m.sections[s] \in {"absent", "wrong_type", "ok"}
      /\ \A s \in DOMAIN SectionRules : m.sections[s] = "absent" =>
           \A f \in DOMAIN SectionRules[s] : m.plain[f] = "absent"
  BY DEF IsManifest
<1>2. \A f \in DOMAIN m.plain : n.plain[f] = m.plain[f] \/ (n.plain[f] = "ok" /\ m.plain[f] = "absent")
  BY DEF FillIn
<1>3. /\ DOMAIN TopRules \subseteq CheckedFields /\ DOMAIN CapabilityRules \subseteq CheckedFields
      /\ \A s \in DOMAIN SectionRules : DOMAIN SectionRules[s] \subseteq CheckedFields
  BY DEF CheckedFields
<1>4. Check(n.plain, TopRules) = {} /\ Check(n.plain, CapabilityRules) = {}
  BY <1>1, <1>2, <1>3, FilledIn
<1>5. /\ \A s \in RequiredSections : m.sections[s] # "absent"
      /\ \A s \in Sections : m.sections[s] # "wrong_type"
      /\ \A s \in DOMAIN SectionRules : m.sections[s] = "ok" => Check(m.plain, SectionRules[s]) = {}
  BY <1>1 DEF SectionIssues
<1>6. RequiredSections \subseteq Sections /\ "pricing" \in RequiredSections
      /\ DOMAIN SectionRules \subseteq Sections
  BY DEF RequiredSections, Sections, SectionRules
<1>7. \A s \in Sections : n.sections[s] = "ok"
  BY <1>1
<1>8. ASSUME NEW s \in DOMAIN SectionRules PROVE Check(n.plain, SectionRules[s]) = {}
  <2>1. CASE m.sections[s] = "ok"
    BY <1>1, <1>2, <1>3, <1>5, <2>1, FilledIn
  <2>2. CASE m.sections[s] = "absent"
    <3>1. \A f \in DOMAIN SectionRules[s] : n.plain[f] \in {"absent", "ok"}
      BY <1>1, <1>2, <1>3, <2>2
    <3>2. s \notin RequiredSections
      BY <1>5, <2>2
    <3>3. \A f \in DOMAIN SectionRules[s] : ~SectionRules[s][f].required
      BY <3>2 DEF SectionRules, RequiredSections, ResourceRules, LocalizationRules,
                  CompatibilityRules, Rule
    <3> QED
      BY <3>1, <3>3, NotThere
  <2> QED
    BY <1>1, <1>5, <1>6, <2>1, <2>2
<1>9. SectionIssues(n) = {}
  <2>1. DOMAIN n.sections = Sections
    BY <1>1
  <2>2. {r \in RequiredSections : n.sections[r] = "absent"} = {}
    BY <1>6, <1>7
  <2>3. {r \in DOMAIN n.sections : n.sections[r] = "wrong_type"} = {}
    BY <1>7, <2>1
  <2>4. \A s \in DOMAIN SectionRules : Check(n.plain, SectionRules[s]) = {}
    BY <1>8
  <2> QED
    BY <2>2, <2>3, <2>4 DEF SectionIssues
<1>10. m.sections["pricing"] = "ok"
  BY <1>1, <1>5, <1>6
<1> QED
  BY <1>4, <1>9, <1>10

\* The panels of a canonical manifest refer to what they referred to.
LEMMA ReferencesAreCanonical ==
  ASSUME NEW m, Len(m.panels) \in Nat, \A i \in 1..Len(m.panels) : IsPanel(m.panels[i]),
         NEW n, n.tools = m.tools, n.slots = m.slots, n.strings = m.strings,
         n.default_locale = m.default_locale,
         n.panels = [i \in 1..Len(m.panels) |-> NormalPanel(m.panels[i])]
  PROVE  ReferenceIssues(n) = ReferenceIssues(m)
<1>1. Len(n.panels) = Len(m.panels)
  OBVIOUS
<1>2. \A i \in 1..Len(m.panels) : /\ n.panels[i].id = m.panels[i].id
                                  /\ n.panels[i].binds_tool = m.panels[i].binds_tool
                                  /\ n.panels[i].binds_state = m.panels[i].binds_state
  <2>1. ASSUME NEW p, IsPanel(p)
        PROVE  /\ NormalPanel(p).id = p.id /\ NormalPanel(p).binds_tool = p.binds_tool
               /\ NormalPanel(p).binds_state = p.binds_state
    <3>1. PanelRecord(p)
      BY <2>1 DEF IsPanel, PanelRecord
    <3> QED
      BY <3>1, NormalPanelIs DEF PanelOf
  <2> QED
    BY <2>1
<1>3. StateRefs(n) = StateRefs(m)
  BY DEF StateRefs
<1>4. ASSUME NEW j \in 1..Len(m.panels)
      PROVE  (\E k \in 1..j - 1 : n.panels[k].id = n.panels[j].id)
             <=> (\E k \in 1..j - 1 : m.panels[k].id = m.panels[j].id)
  <2>1. \A k \in 1..j - 1 : k \in 1..Len(m.panels)
    OBVIOUS
  <2> QED
    BY <1>2, <2>1
<1> DEFINE tools == {m.tools[i].ref : i \in 1..Len(m.tools)}
           declared == {m.slots[i].slot : i \in 1..Len(m.slots)}
           Twice(x) == {j \in 1..Len(x.panels) : \E k \in 1..j - 1 : x.panels[k].id = x.panels[j].id}
           NoTool(x) == {i \in 1..Len(x.panels) : /\ x.panels[i].binds_tool # Absent
                                                  /\ x.panels[i].binds_tool \notin tools}
           NoSlot(x) == {i \in 1..Len(x.panels) : /\ x.panels[i].binds_state # Absent
                                                  /\ x.panels[i].binds_state \notin declared}
<1>5. Twice(n) = Twice(m)
  BY <1>1, <1>4
<1>6. NoTool(n) = NoTool(m) /\ NoSlot(n) = NoSlot(m)
  BY <1>1, <1>2
<1>7. ASSUME NEW x, x.tools = m.tools, x.slots = m.slots
      PROVE  ReferenceIssues(x) =
               {Issue("unknown_state_ref", s) : s \in StateRefs(x) \ declared}
               \cup {Issue("duplicate_panel_id", i) : i \in Twice(x)}
               \cup {Issue("unknown_tool_ref", i) : i \in NoTool(x)}
               \cup {Issue("unknown_state_ref", i) : i \in NoSlot(x)}
               \cup When(/\ x.default_locale # Absent
                         /\ x.strings # {} /\ x.default_locale \notin x.strings,
                         Issue("undeclared_default_locale", "localization"))
  BY <1>7 DEF ReferenceIssues
<1> HIDE DEF tools, declared, Twice, NoTool, NoSlot
<1> QED
  BY <1>3, <1>5, <1>6, <1>7

\* The canonical form of a valid manifest is valid and its own canonical form: what
\* normalize fills in passes the validator and is left alone the next time.
THEOREM CanonicalTheorem == Spec => []CanonicalIsFixpoint
<1>1. ASSUME NEW m \in Manifests, Valid(m), m.pricing.usd # Absent => m.pricing.usd >= 5
      PROVE  Valid(Normalize(m)) /\ Normalize(Normalize(m)) = Normalize(m)
  <2> DEFINE n == Normalize(m)
             len == Len(m.panels)
  <2>1. IsManifest(m)
    BY ManifestsAssumption
  <2>2. /\ ManifestRecord(m) /\ len \in Nat
        /\ \A i \in 1..len : IsPanel(m.panels[i])
        /\ m.pricing \in [free : BOOLEAN, usd : Int \cup {Absent}, price : Int \cup {Absent}]
    <3>1. ManifestRecord(m)
      BY <2>1 DEF IsManifest, ManifestRecord
    <3>2. m.panels \in Seq(ToSet(m.panels)) /\ \A p \in ToSet(m.panels) : IsPanel(p)
      BY <2>1 DEF IsManifest
    <3>3. len \in Nat /\ \A i \in 1..len : m.panels[i] \in ToSet(m.panels)
      BY <3>2
    <3> QED
      BY <2>1, <3>1, <3>2, <3>3 DEF IsManifest
  <2>3. n = [id |-> m.id, plain |-> FillIn(m.plain), sections |-> [s \in DOMAIN m.sections |-> "ok"],
             pricing |-> NormalPricing(m.pricing), role |-> Given(m.role, "primary_eligible"),
             priority |-> Given(m.priority, 50), conflicts |-> m.conflicts, tools |-> m.tools,
             slots |-> m.slots, panels |-> [i \in 1..len |-> NormalPanel(m.panels[i])],
             strings |-> m.strings, default_locale |-> m.default_locale, cost |-> m.cost]
    BY <2>2, NormalizeIs
  <2> HIDE DEF n
  <2>4. /\ n.id = m.id /\ n.plain = FillIn(m.plain) /\ n.sections = [s \in DOMAIN m.sections |-> "ok"]
        /\ n.pricing = NormalPricing(m.pricing) /\ n.role = Given(m.role, "primary_eligible")
        /\ n.priority = Given(m.priority, 50) /\ n.conflicts = m.conflicts /\ n.tools = m.tools
        /\ n.slots = m.slots /\ n.panels = [i \in 1..len |-> NormalPanel(m.panels[i])]
        /\ n.strings = m.strings /\ n.default_locale = m.default_locale /\ n.cost = m.cost
    BY <2>3
  <2>5. /\ Check(m.plain, TopRules) = {} /\ SectionIssues(m) = {} /\ PricingIssues(m) = {}
        /\ Check(m.plain, CapabilityRules) = {} /\ ToolIssues(m) = {} /\ SharedStateIssues(m) = {}
        /\ UiIssues(m) = {} /\ ReferenceIssues(m) = {}
    BY <1>1 DEF Valid, Issues
  <2>6. /\ Check(n.plain, TopRules) = {} /\ Check(n.plain, CapabilityRules) = {}
        /\ SectionIssues(n) = {} /\ m.sections["pricing"] = "ok"
    BY <2>1, <2>4, <2>5, SectionsAreCanonical
  <2>7. n.sections["pricing"] = "ok"
    <3>1. "pricing" \in DOMAIN m.sections
      BY <2>1 DEF IsManifest, Sections
    <3> QED
      BY <2>4, <3>1
  <2>8. PricingIssues(n) = {} /\ NormalPricing(n.pricing) = n.pricing
    BY <1>1, <2>2, <2>4, <2>5, <2>6, <2>7, PriceIsCanonical
  <2>9. ToolIssues(n) = {} /\ SharedStateIssues(n) = {}
    BY <2>4, <2>5 DEF ToolIssues, SharedStateIssues
  <2>10. \A i \in 1..len : /\ PanelIssues(NormalPanel(m.panels[i])) = {}
                           /\ NormalPanel(NormalPanel(m.panels[i])) = NormalPanel(m.panels[i])
    <3>1. \A i \in 1..len : PanelIssues(m.panels[i]) = {}
      BY <2>5 DEF UiIssues
    <3> QED
      BY <2>2, <3>1, PanelIsCanonical
  <2>11. Len(n.panels) = len /\ \A i \in 1..len : n.panels[i] = NormalPanel(m.panels[i])
    BY <2>2, <2>4
  <2>12. UiIssues(n) = {}
    BY <2>10, <2>11 DEF UiIssues
  <2>13. ReferenceIssues(n) = {}
    BY <2>2, <2>4, <2>5, ReferencesAreCanonical
  <2>14. Valid(n)
    BY <2>6, <2>8, <2>9, <2>12, <2>13 DEF Valid, Issues
  <2>15. FillIn(n.plain) = n.plain
    <3> DEFINE a == FillIn(m.plain)
    <3>1. \A f \in DOMAIN a : ~(f \in Defaulted /\ a[f] = "absent")
      BY DEF FillIn
    <3>2. a = [f \in DOMAIN a |-> a[f]]
      BY DEF FillIn
    <3> HIDE DEF a
    <3>3. FillIn(a) = a
      BY <3>1, <3>2 DEF FillIn
    <3> QED
      BY <2>4, <3>3 DEF a
  <2>16. [s \in DOMAIN n.sections |-> "ok"] = n.sections
    BY <2>4
  <2>17. Given(n.role, "primary_eligible") = n.role /\ Given(n.priority, 50) = n.priority
    BY <2>4, NamesAreGiven DEF Given
  <2>18. [i \in 1..Len(n.panels) |-> NormalPanel(n.panels[i])] = n.panels
    <3>1. [i \in 1..Len(n.panels) |-> NormalPanel(n.panels[i])]
            = [i \in 1..len |-> NormalPanel(m.panels[i])]
      BY <2>10, <2>11
    <3> QED
      BY <2>4, <3>1
  <2>19. ManifestRecord(n)
    BY <2>3, <2>4 DEF ManifestRecord
  <2>20. Normalize(n) = n
    <3>1. Normalize(n) =
            [id |-> n.id, plain |-> n.plain, sections |-> n.sections, pricing |-> n.pricing,
             role |-> n.role, priority |-> n.priority, conflicts |-> n.conflicts,
             tools |-> n.tools, slots |-> n.slots, panels |-> n.panels, strings |-> n.strings,
             default_locale |-> n.default_locale, cost |-> n.cost]
      BY <2>8, <2>15, <2>16, <2>17, <2>18, <2>19, NormalizeIs, Zenon
    <3> QED
      BY <2>19, <3>1 DEF ManifestRecord
  <2> QED
    BY <2>14, <2>20 DEF n
<1>2. AgentInv => CanonicalIsFixpoint
  <2> SUFFICES ASSUME AgentInv, NEW i \in 1..Len(enabled), Valid(enabled[i]),
                      enabled[i].pricing.usd # Absent => enabled[i].pricing.usd >= 5
               PROVE  /\ Valid(Normalize(enabled[i]))
                      /\ Normalize(Normalize(enabled[i])) = Normalize(enabled[i])
    BY DEF CanonicalIsFixpoint
  <2>1. enabled[i] \in Manifests
    BY DEF AgentInv, EnabledOK
  <2> QED
    BY <1>1, <2>1
<1> QED
  BY <1>2, AgentInvariance, PTL
===============================================================================
