----------------------------- MODULE Composition -----------------------------
(***************************************************************************)
(* How enabled skills become one agent: orchestrator.rs orders them, picks *)
(* the leading voice and merges their tools, capacity.rs meters their cost *)
(* against the context window in saturating 32-bit arithmetic,             *)
(* tool_routing.rs routes tool results, and composition.rs chains the      *)
(* three behind the validator.  Prompts are kept as whose they are.        *)
(***************************************************************************)
EXTENDS Manifest, Subsequences

CONSTANT U32Max \* the largest u32: the bound of the token arithmetic

ASSUME U32Assumption == U32Max \in Nat \ {0}

-------------------------------------------------------------------------------
(* The merge.                                                                *)

\* What serde reads of a manifest; a cost that is no u32 is malformed.
Malformed(m) == \E c \in DOMAIN m.cost : m.cost[c] < 0 \/ m.cost[c] > U32Max
PriorityOf(m) == Given(m.priority, 50)
Eligible(m) == Given(m.role, "primary_eligible") = "primary_eligible"

\* Either declaration blocks.
Conflict(a, b) == b.id \in a.conflicts \/ a.id \in b.conflicts
Conflicting(enabled) ==
  \E i, j \in 1..Len(enabled) : i < j /\ Conflict(enabled[i], enabled[j])

(* A definition whose name begins with Mutant is the next one with a plausible
   bug.  No specification uses it: it shows which property the bug breaks. *)
MutantLeads(a, b) == PriorityOf(a) >= PriorityOf(b)
\* a comes before b: the higher priority, then the lower id.
Leads(a, b) ==
  PriorityOf(a) > PriorityOf(b) \/ (PriorityOf(a) = PriorityOf(b) /\ a.id <= b.id)

\* choose_primary: the hint if it names an eligible skill, else the eligible skill
\* that leads; 0 when the base agent speaks itself.
Primary(enabled, hint) ==
  LET eligible == {i \in 1..Len(enabled) : Eligible(enabled[i])}
      first == {i \in eligible : \A j \in eligible : Leads(enabled[i], enabled[j])}
  IN IF \E i \in eligible : enabled[i].id = hint THEN hint
     ELSE IF first = {} THEN 0 ELSE enabled[Max(first)].id

\* The place of an index among some: sort_by leaves equals in the order they have.
Place(enabled, indices, i) ==
  Cardinality({j \in indices : /\ Leads(enabled[j], enabled[i])
                               /\ Leads(enabled[i], enabled[j]) => j <= i})
Sorted(enabled, indices) ==
  [k \in 1..Cardinality(indices) |->
     enabled[CHOOSE i \in indices : Place(enabled, indices, i) = k]]

\* The primary, then the others as they lead.
MergeOrder(enabled, hint) ==
  LET primary == {i \in 1..Len(enabled) : enabled[i].id = Primary(enabled, hint)}
  IN (IF primary = {} THEN <<>> ELSE <<enabled[Min(primary)]>>)
     \o Sorted(enabled, 1..Len(enabled) \ primary)

\* assemble_persona: whose prompt, and whether in full or compressed.  The base
\* preamble comes first in any case.
Persona(order, primary) ==
  [i \in 1..Len(order) |->
     [skill |-> order[i].id, prompt |-> IF order[i].id = primary THEN "full" ELSE "compressed"]]

\* Every tool entry of the skills, in merge order.
Contributions(order) ==
  FlattenSeq([i \in 1..Len(order) |->
    [j \in 1..Len(order[i].tools) |->
       [skill |-> order[i].id, ref |-> order[i].tools[j].ref, config |-> order[i].tools[j].config]]])

Tool(name, ref, contributors) == [name |-> name, ref |-> ref, contributors |-> contributors]

\* compose_tools: one shared tool where all configurations agree, else one variant
\* for every entry, named after its skill.
ComposeTools(order) ==
  LET all == Contributions(order)
      Of(ref) == Retained(all, {i \in 1..Len(all) : all[i].ref = ref})
      Agree(ref) == Cardinality({c.config : c \in ToSet(Of(ref))}) <= 1
      Shared(ref) == Tool(<<ref>>, ref, [i \in 1..Len(Of(ref)) |-> Of(ref)[i].skill])
      Variants(ref) == {Tool(<<c.skill, ref>>, ref, <<c.skill>>) : c \in ToSet(Of(ref))}
  IN UNION {IF Agree(ref) THEN {Shared(ref)} ELSE Variants(ref) : ref \in {c.ref : c \in ToSet(all)}}

-------------------------------------------------------------------------------
(* The capacity meter.                                                       *)

ReserveFractionDenom == 4
MinReserveTokens == 512
PerToolTokens == 8
PerPanelTokens == 16

SatAdd(a, b) == IF a + b > U32Max THEN U32Max ELSE a + b
SatMul(a, b) == IF a * b > U32Max THEN U32Max ELSE a * b

SkillCost(m) ==
  SatAdd(SatAdd(m.cost.prompt, SatMul(m.cost.tools, PerToolTokens)),
         SatMul(m.cost.panels, PerPanelTokens))

ReserveFor(ctx) ==
  IF ctx \div ReserveFractionDenom > MinReserveTokens
    THEN ctx \div ReserveFractionDenom ELSE MinReserveTokens

\* The cost of the first skills.
Costs(enabled) ==
  LET cost[n \in 0..Len(enabled)] ==
        IF n = 0 THEN 0 ELSE SatAdd(cost[n - 1], SkillCost(enabled[n]))
  IN cost

\* project_live, with the tokens of the live transcript.
Project(enabled, ctx, live) ==
  LET skills == Costs(enabled)[Len(enabled)]
      used == SatAdd(SatAdd(ReserveFor(ctx), live), skills)
  IN [ctx |-> ctx, reserve |-> ReserveFor(ctx), skills |-> skills, used |-> used,
      remaining |-> IF used > ctx THEN 0 ELSE ctx - used,
      blocked |-> used > ctx, overflow |-> IF used > ctx THEN used - ctx ELSE 0]

\* assess_headroom: throughput in tokens per second and fill in percent only warn.
TokPerSecFloor == 8
WarnFillPercent == 85
HeadroomWarns(speed, p) ==
  \/ speed < TokPerSecFloor
  \/ p.ctx = 0
  \/ 100 * p.used >= WarnFillPercent * p.ctx

-------------------------------------------------------------------------------
(* Routing: one route for each tool entry, keyed by the tool alone.          *)

Route(tool) == [ref |-> tool.ref, reads |-> tool.reads, writes |-> tool.writes,
                target |-> IF tool.widget = Absent THEN "chat" ELSE tool.widget]

RouteTools(enabled) ==
  FlattenSeq([i \in 1..Len(enabled) |->
    [j \in 1..Len(enabled[i].tools) |-> Route(enabled[i].tools[j])]])

-------------------------------------------------------------------------------
(* compose_agent.                                                            *)

Refused(kind) == [kind |-> kind]

MutantBlocked(p) == FALSE
Blocked(p) == p.blocked

\* The gates in their order: the validator, the deserialization, the conflicts, the
\* capacity; then the agent.
ComposeAgent(enabled, hint, ctx) ==
  LET order == MergeOrder(enabled, hint)
      primary == Primary(enabled, hint)
      meter == Project(enabled, ctx, 0)
  IN IF \E i \in 1..Len(enabled) : ~Valid(enabled[i]) THEN Refused("invalid_manifest")
     ELSE IF \E i \in 1..Len(enabled) : Malformed(enabled[i]) THEN Refused("malformed")
     ELSE IF Conflicting(enabled) THEN Refused("conflict")
     ELSE IF Blocked(meter) THEN Refused("capacity_overflow")
     ELSE [kind |-> "agent", order |-> [i \in 1..Len(order) |-> order[i].id],
           primary |-> primary, persona |-> Persona(order, primary),
           tools |-> ComposeTools(order), routing |-> RouteTools(enabled), meter |-> meter]

===============================================================================
