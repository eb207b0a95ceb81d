------------------------------ MODULE SharedState ------------------------------
(***************************************************************************)
(* An agent's life: skills are enabled in some order, composed, and their  *)
(* slots become a store (shared_state.rs) that every skill of the agent    *)
(* may append to, patch and, as writer of record, set.  The store takes    *)
(* the skills in merge order, as its doc asks.  Operations come in any     *)
(* order and from any skill; a value is a model value.                     *)
(***************************************************************************)
EXTENDS Composition

CONSTANTS
  Manifests,  \* raw manifests of the skills there are
  Windows,    \* context windows
  Values,     \* values of an entry's field, of a scalar or of a record
  MaxEnabled, \* bound: skills enabled
  MaxOps      \* bound: operations on the store

ASSUME ManifestsAssumption ==
  /\ \A m, n \in Manifests : m.id = n.id => m = n
  /\ \A m \in Manifests :
       /\ IsManifest(m) /\ m.id \in Nat \ {0} /\ PriorityOf(m) \in Int
       /\ m.cost \in [{"prompt", "tools", "panels"} -> Int]
       /\ m.slots \in Seq(ToSet(m.slots))
       /\ \A d \in ToSet(m.slots) :
            /\ DOMAIN d.schema \subseteq Paths /\ <<>> \in DOMAIN d.schema
            /\ \A p \in DOMAIN d.schema : \A n \in 0..Len(p) : Prefix(p, n) \in DOMAIN d.schema

ASSUME WindowsAssumption == Windows \subseteq Nat

VARIABLES
  enabled, \* the manifests, in the order they were enabled
  hint,    \* the skill that should lead, or 0
  agent,   \* what compose_agent returned
  slots,   \* the store, or the reason there is none
  ops      \* operations so far

vars == <<enabled, hint, agent, slots, ops>>

SkillIds == {m.id : m \in Manifests}
NoAgent == Refused("none")
NoStore == [s \in {} |-> s]

Init ==
  /\ enabled = <<>> /\ hint \in SkillIds \cup {0}
  /\ agent = NoAgent /\ slots = NoStore /\ ops = 0

-------------------------------------------------------------------------------
(* From declarations to slots.                                               *)

\* resolve_decls: every declaration, in merge order, and those of a slot.
Decls(order) ==
  FlattenSeq([i \in 1..Len(order) |->
    [j \in 1..Len(order[i].slots) |->
       LET d == order[i].slots[j]
       IN [slot |-> d.slot, skill |-> order[i].id, ty |-> ParseSlotType(d.schema),
           write |-> d.access \in {"write", "read_write"}]]])
DeclsOf(order, slot) ==
  Retained(Decls(order), {i \in 1..Len(Decls(order)) : Decls(order)[i].slot = slot})

SlotNames(order) == UNION {{d.slot : d \in ToSet(order[i].slots)} : i \in 1..Len(order)}

ParsedAll(order) ==
  \A s \in SlotNames(order) : \A d \in ToSet(DeclsOf(order, s)) : d.ty # BadType

Resolvable(order) ==
  ParsedAll(order) /\ \A s \in SlotNames(order) : AllCompatible(DeclsOf(order, s))

Nothing == [v \in {} |-> v]

\* from_specs: a list starts empty, anything else without a value.  seq counts the
\* appends of each skill; single holds the value of a slot that is no list.
FromSpecs(order) ==
  [s \in SlotNames(order) |->
     LET decls == DeclsOf(order, s)
     IN [ty |-> ComposedType(decls), writer |-> WriterOfRecord(decls), single |-> Absent,
         entries |-> Nothing, seq |-> [k \in {order[i].id : i \in 1..Len(order)} |-> 0]]]

Merged == MergeOrder(enabled, hint)

-------------------------------------------------------------------------------
(* Operations, as functions of the slot.                                     *)

IsList(slot) == slot.ty[<<>>].base = "list"

\* A function, with a value at one more place or another one there.
With(f, x, v) == [y \in DOMAIN f \cup {x} |-> IF y = x THEN v ELSE f[y]]

\* set: the writer of record alone, and never a list.
CanSet(slot, skill) == ~IsList(slot) /\ slot.writer = skill
ApplySet(slot, skill, v) == IF CanSet(slot, skill) THEN [slot EXCEPT !.single = v] ELSE slot

(* A definition whose name begins with Mutant is the next one with a plausible
   bug.  No specification uses it: it shows which property the bug breaks.     *)

\* Ids count the entries that are left.
MutantEntryId(slot, skill) == <<0, Cardinality(DOMAIN slot.entries) + 1>>

\* The id of a skill's next entry: the skill and its own count in this slot.
EntryId(slot, skill) == <<skill, slot.seq[skill] + 1>>

\* append: any skill; the entry is stamped with its id.
ApplyAppend(slot, skill, v) ==
  IF IsList(slot)
    THEN [slot EXCEPT !.seq[skill] = @ + 1,
                      !.entries = With(@, EntryId(slot, skill), With(Nothing, "value", v))]
    ELSE slot

\* patch: any skill, one field of an entry that is there.
ApplyPatch(slot, id, field, v) ==
  IF IsList(slot) /\ id \in DOMAIN slot.entries
    THEN [slot EXCEPT !.entries[id] = With(@, field, v)]
    ELSE slot

Apply(slot, op) ==
  CASE op.kind = "set" -> ApplySet(slot, op.skill, op.value)
    [] op.kind = "append" -> ApplyAppend(slot, op.skill, op.value)
    [] op.kind = "patch" -> ApplyPatch(slot, op.id, op.field, op.value)

\* What the skills of the agent may ask of a slot.
Set(k, v) == [kind |-> "set", skill |-> k, value |-> v]
Append1(k, v) == [kind |-> "append", skill |-> k, value |-> v]
Patch(id, f, v) == [kind |-> "patch", id |-> id, field |-> f, value |-> v]

Requests(slot) ==
  {Set(k, v) : k \in DOMAIN slot.seq, v \in Values}
  \cup {Append1(k, v) : k \in DOMAIN slot.seq, v \in Values}
  \cup {Patch(id, f, v) : id \in DOMAIN slot.entries, f \in {"value", "checked"}, v \in Values}

-------------------------------------------------------------------------------
(* The steps.                                                                *)

Enable(m) ==
  /\ agent = NoAgent /\ Len(enabled) < MaxEnabled
  /\ m \notin ToSet(enabled)
  /\ enabled' = Append(enabled, m)
  /\ UNCHANGED <<hint, agent, slots, ops>>

Compose(ctx) ==
  /\ agent = NoAgent
  /\ agent' = ComposeAgent(enabled, hint, ctx)
  /\ slots' = IF agent'.kind = "agent" /\ Resolvable(Merged) THEN FromSpecs(Merged) ELSE NoStore
  /\ UNCHANGED <<enabled, hint, ops>>

Operate(s, op) ==
  /\ ops < MaxOps
  /\ ops' = ops + 1
  /\ slots' = [slots EXCEPT ![s] = Apply(@, op)]
  /\ UNCHANGED <<enabled, hint, agent>>

Next ==
  \/ \E m \in Manifests : Enable(m)
  \/ \E ctx \in Windows : Compose(ctx)
  \/ \E s \in DOMAIN slots : \E op \in Requests(slots[s]) : Operate(s, op)

Spec == Init /\ [][Next]_vars

-------------------------------------------------------------------------------
(* Properties.                                                               *)

\* Whatever order skills are enabled in, the agent is the same: leading voice,
\* order, persona and tools.  Which of two refusals is reported may differ, and
\* so may the routing table, which compose_agent builds in the enabled order.
OrderDoesNotMatter ==
  agent.kind = "agent" =>
    \A order \in Bijection(1..Len(enabled), 1..Len(enabled)) :
      LET other == [i \in 1..Len(enabled) |-> enabled[order[i]]]
          same == ComposeAgent(other, hint, agent.meter.ctx)
      IN /\ same.kind = "agent" /\ same.order = agent.order /\ same.primary = agent.primary
         /\ same.persona = agent.persona /\ same.tools = agent.tools

\* An agent that was composed leaves the reserve free whatever its skills cost,
\* although the sum saturates: only a window as large as the arithmetic is fooled.
ExactCosts ==
  LET cost[n \in 0..Len(enabled)] ==
        IF n = 0 THEN 0
        ELSE cost[n - 1] + enabled[n].cost.prompt + PerToolTokens * enabled[n].cost.tools
                         + PerPanelTokens * enabled[n].cost.panels
  IN cost
ReserveStaysFree ==
  agent.kind = "agent" /\ agent.meter.ctx < U32Max =>
    ReserveFor(agent.meter.ctx) + ExactCosts[Len(enabled)] <= agent.meter.ctx

\* The type has the path, with the base that was declared and at least as much of a
\* kind.
Follows(ty, declared, p) ==
  p \in DOMAIN ty /\ ty[p].base = declared[p].base /\ declared[p].kind \in {"any", ty[p].kind}

\* On the way to p an earlier declarer, in merge order, has declared otherwise what is
\* to the k-th an optional field or lies below one.
Overruled(decls, k, p) ==
  \E i \in 1..k - 1, n \in 1..Len(p) :
    LET field == Prefix(p, n)
        mine == decls[k].ty
        other == decls[i].ty
    IN /\ field \in DOMAIN other /\ field \notin Required(mine)
       /\ \/ other[field].base # mine[field].base
          \/ ~ScalarsCompatible(other[field].kind, mine[field].kind)

\* The type of a slot requires what each of its declarers requires, of a base and a kind
\* that suit it, although only pairs are compared.  Of the optional fields, which the
\* code does not compare, it has what each declarer says too, unless an earlier one in
\* merge order said otherwise: there the declarers need not agree, and the first is
\* followed (widen, whose last arm is said to be unreachable).
SlotTypeSuitsAll ==
  \A s \in DOMAIN slots :
    LET decls == DeclsOf(Merged, s)
    IN \A k \in 1..Len(decls) :
         /\ TypesCompatible(slots[s].ty, decls[k].ty)
         /\ \A p \in DOMAIN decls[k].ty :
              Follows(slots[s].ty, decls[k].ty, p) \/ Overruled(decls, k, p)

\* Two operations on a slot commute, but for two sets or appends of one skill and for
\* two patches of one field of one entry, whichever skills make them: there the last
\* one counts.
Independent(a, b) ==
  IF a.kind = "patch" \/ b.kind = "patch"
    THEN a.kind = b.kind => a.id # b.id \/ a.field # b.field
    ELSE a.skill # b.skill
OperationsCommute ==
  \A s \in DOMAIN slots : \A a, b \in Requests(slots[s]) :
    Independent(a, b) => Apply(Apply(slots[s], a), b) = Apply(Apply(slots[s], b), a)

\* The canonical form of a valid manifest is valid and its own canonical form, so a
\* manifest may be normalized again.  A price under half a cent is the exception:
\* it becomes zero, which the validator refuses.
CanonicalIsFixpoint ==
  \A i \in 1..Len(enabled) :
    LET m == enabled[i]
    IN Valid(m) /\ (m.pricing.usd # Absent => m.pricing.usd >= 5) =>
         Valid(Normalize(m)) /\ Normalize(Normalize(m)) = Normalize(m)
===============================================================================
