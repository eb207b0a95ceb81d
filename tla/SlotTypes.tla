------------------------------ MODULE SlotTypes ------------------------------
(***************************************************************************)
(* The closed type language of shared-state slots (shared_state.rs): how a *)
(* schema is parsed, when two declarations of one slot compose, and the    *)
(* type they compose to.  Types nest.  A type, and the schema it is        *)
(* written as, are kept as what stands at each path of field names: <<>>   *)
(* is the type itself, a list has the fields of its items.  What the code  *)
(* does field by field, recursively, is said of all paths at once.  An     *)
(* enumeration is an atom for its set of variants.                         *)
(***************************************************************************)
EXTENDS Naturals, FiniteSets, SequencesExt

CONSTANTS
  FieldNames, \* names of record fields
  Enums       \* sets of enum variants

ASSUME FieldsAssumption == {"id", "name", "qty", "unit", "checked"} \subseteq FieldNames

Paths == Seq(FieldNames)
ScalarKinds == {"any", "string", "number", "bool"} \cup Enums

\* A scalar of some kind, a list or a record, and whether the field must be there.
Node(base, kind, required) == [base |-> base, kind |-> kind, required |-> required]

\* The entry record of list<item>.
ItemRecord ==
  [f \in {"id", "name", "qty", "unit", "checked"} |->
     CASE f \in {"id", "name"} -> Node("scalar", "string", TRUE)
       [] f = "qty" -> Node("scalar", "number", FALSE)
       [] f = "unit" -> Node("scalar", "string", FALSE)
       [] f = "checked" -> Node("scalar", "bool", FALSE)]

-------------------------------------------------------------------------------
(* Parsing.                                                                  *)

\* What is written at a path: its form, a kind or a form between its brackets, and
\* whether the name of the field has a question mark.  A record that names a field
\* twice, or badly, is of the form "clash".
Schema(form, inner, optional) == [form |-> form, inner |-> inner, optional |-> optional]

Scalars == {"scalar", "scalar<>", "short"}

\* parse_slot_type and parse_scalar_kind.  The items of a list are the app's item or
\* a record.
Parses(written) ==
  CASE written.form \in {"scalar", "record", "record{}"} -> TRUE
    [] written.form \in {"scalar<>", "short"} -> written.inner \in ScalarKinds \ {"any"}
    [] written.form = "list<>" -> written.inner \in {"item", "record"}
    [] OTHER -> FALSE

BadType == [p \in {<<>>} |-> Node("bad", "any", TRUE)]

Parsed(written) ==
  Node(CASE written.form \in Scalars -> "scalar" [] written.form = "list<>" -> "list"
         [] OTHER -> "record",
       IF written.form \in {"scalar<>", "short"} THEN written.inner ELSE "any",
       ~written.optional)

\* A schema parses when all that it nests does.  list<item> has fields that are not written.
ParseSlotType(schema) ==
  LET items == {p \in DOMAIN schema : schema[p].form = "list<>" /\ schema[p].inner = "item"}
  IN IF \A p \in DOMAIN schema : Parses(schema[p])
       THEN [p \in DOMAIN schema \cup {Append(q, f) : q \in items, f \in DOMAIN ItemRecord} |->
               IF p \in DOMAIN schema THEN Parsed(schema[p]) ELSE ItemRecord[Last(p)]]
       ELSE BadType

-------------------------------------------------------------------------------
(* Compatibility and widening.                                               *)

Prefix(p, i) == SubSeq(p, 1, i)

\* The paths of required fields of required fields.
Required(ty) ==
  {p \in DOMAIN ty : \A i \in 1..Len(p) :
                       Prefix(p, i) \in DOMAIN ty /\ ty[Prefix(p, i)].required}

ScalarsCompatible(a, b) == a = "any" \/ b = "any" \/ a = b

\* types_compatible: the same required fields (records_compatible), and at each of them
\* the same base and kinds that agree.
TypesCompatible(a, b) ==
  /\ Required(a) = Required(b)
  /\ \A p \in Required(a) : a[p].base = b[p].base /\ ScalarsCompatible(a[p].kind, b[p].kind)

WidenScalar(a, b) == IF a = "any" THEN b ELSE a

\* The paths of b that are merged in: types of different bases keep the first, and all
\* that it nests.
Merging(a, b) ==
  {p \in DOMAIN b : \A i \in 0..Len(p) - 1 :
                      Prefix(p, i) \in DOMAIN a => a[Prefix(p, i)].base = b[Prefix(p, i)].base}

WidenNode(x, y) ==
  Node(x.base, IF x.base = y.base THEN WidenScalar(x.kind, y.kind) ELSE x.kind,
       x.required \/ y.required)

\* widen and widen_record: the fields of both; where both have one, its types are
\* widened too.
Widen(a, b) ==
  [p \in DOMAIN a \cup Merging(a, b) |->
     CASE p \notin DOMAIN a -> b[p]
       [] p \notin Merging(a, b) -> a[p]
       [] OTHER -> WidenNode(a[p], b[p])]

-------------------------------------------------------------------------------
(* Declarations of one slot: records [skill, ty, write], in merge order.     *)

(* A definition whose name begins with Mutant is the next one with a plausible
   bug.  No specification uses it: it shows which property the bug breaks. *)
MutantAllCompatible(decls) ==
  \A i \in 2..Len(decls) : TypesCompatible(decls[1].ty, decls[i].ty)
\* Every pair is compared: a bare scalar between two others must not hide that
\* they disagree.
AllCompatible(decls) ==
  \A i, j \in 1..Len(decls) : i < j => TypesCompatible(decls[i].ty, decls[j].ty)

\* The first declarer, in merge order, that may write.
WriterOfRecord(decls) ==
  LET i == SelectInSeq(decls, LAMBDA d : d.write)
  IN IF i = 0 THEN 0 ELSE decls[i].skill

\* The types of the declarers, widened one after the other.
Widened(decls) ==
  LET ty[i \in 1..Len(decls)] ==
        IF i = 1 THEN decls[1].ty ELSE Widen(ty[i - 1], decls[i].ty)
  IN ty
ComposedType(decls) == Widened(decls)[Len(decls)]

===============================================================================
