------------------------------- MODULE Manifest -------------------------------
(***************************************************************************)
(* Validation and normalization of a skill manifest (manifest.rs), before  *)
(* a skill is installed or composed.  A field that only has to be well     *)
(* formed is kept as one of four statuses; what later steps use (tools,    *)
(* slots, panels, prices, locales, priorities) is kept by value.  Issues   *)
(* are a set of codes and places.  Skill ids and slot names are numbers,   *)
(* in their lexicographic order.                                           *)
(***************************************************************************)
EXTENDS Integers, SlotTypes

CONSTANTS
  Absent,    \* a field that is not given
  ToolRefs,  \* the first-party catalogue of tools
  EventNames \* names of what a panel emits

ASSUME EventsAssumption ==
  {"timer_finished", "item_checked", "changed", "action", "complete"} \subseteq EventNames

\* A field that is given and is not a JSON value of the right type, or is one of
\* the right type that the rule for it refuses.
Statuses == {"absent", "wrong_type", "bad", "ok"}

Issue(code, at) == [code |-> code, at |-> at]
Rule(required, code) == [required |-> required, code |-> code]

\* The issues of the plain fields that the rules name.
Check(plain, rules) ==
  {Issue("missing_field", f) : f \in {g \in DOMAIN rules : rules[g].required /\ plain[g] = "absent"}}
  \cup {Issue("invalid_type", f) : f \in {g \in DOMAIN rules : plain[g] = "wrong_type"}}
  \cup {Issue(rules[f].code, f) : f \in {g \in DOMAIN rules : plain[g] = "bad"}}

-------------------------------------------------------------------------------
(* Rules, section by section.                                                *)

TopRules ==
  [manifest_version |-> Rule(FALSE, "invalid_enum"), id |-> Rule(TRUE, "invalid_format"),
   name |-> Rule(TRUE, "invalid_length"), summary |-> Rule(FALSE, "invalid_length"),
   version |-> Rule(TRUE, "invalid_semver"), status |-> Rule(FALSE, "invalid_enum"),
   category |-> Rule(TRUE, "invalid_enum"), min_app_version |-> Rule(TRUE, "invalid_semver")]

RequirementRules ==
  [min_model_tier |-> Rule(TRUE, "invalid_enum"), min_params_b |-> Rule(FALSE, "out_of_range"),
   min_ram_gb |-> Rule(FALSE, "out_of_range")]

PersonaRules ==
  [system_prompt |-> Rule(TRUE, "invalid_length"), compressed_prompt |-> Rule(TRUE, "invalid_length"),
   role |-> Rule(FALSE, "invalid_enum"), few_shot |-> Rule(FALSE, "missing_field")]

CapabilityRules == [capabilities |-> Rule(FALSE, "unknown_capability")]

ResourceRules ==
  [icon |-> Rule(FALSE, "invalid_asset_path"), assets |-> Rule(FALSE, "invalid_asset_path"),
   strings |-> Rule(FALSE, "invalid_format")]

LocalizationRules ==
  [default_locale |-> Rule(FALSE, "invalid_format"), unit_system_default |-> Rule(FALSE, "invalid_enum")]

CompatibilityRules ==
  [conflicts_with |-> Rule(FALSE, "invalid_format"), combine_priority |-> Rule(FALSE, "out_of_range")]

\* Sections that are objects: their rules, and whether the manifest needs them.
SectionRules ==
  [requirements |-> RequirementRules, persona |-> PersonaRules, resources |-> ResourceRules,
   localization |-> LocalizationRules, compatibility |-> CompatibilityRules]
RequiredSections == {"requirements", "pricing", "persona"}

Sections == DOMAIN SectionRules \cup {"pricing"}

\* A section that is missing or no object is one issue, and is not looked into.
SectionIssues(m) ==
  {Issue("missing_field", s) : s \in {r \in RequiredSections : m.sections[r] = "absent"}}
  \cup {Issue("invalid_type", s) : s \in {r \in DOMAIN m.sections : m.sections[r] = "wrong_type"}}
  \cup UNION {Check(m.plain, SectionRules[s]) :
                s \in {r \in DOMAIN SectionRules : m.sections[r] = "ok"}}

When(holds, issue) == IF holds THEN {issue} ELSE {}

\* Prices are in tenths of a cent.  A free skill has no price, another has exactly
\* one, as price_usd or as price.
PricingIssues(m) ==
  LET p == m.pricing
      prices == {k \in {"usd", "price"} : p[k] # Absent}
  IN IF m.sections["pricing"] # "ok" THEN {}
     ELSE When(Cardinality(prices) # (IF p.free THEN 0 ELSE 1), Issue("invalid_pricing", "pricing"))
          \cup When("usd" \in prices /\ (p.usd <= 0 \/ p.usd > 1000000),
                    Issue("out_of_range", "price_usd"))
          \cup When("price" \in prices /\ p.price <= 0, Issue("out_of_range", "amount_minor"))

\* validate_tools: whether the names are well formed; whether they are declared is
\* checked below.
ToolIssues(m) ==
  {Issue("unknown_tool_ref", i) : i \in {j \in 1..Len(m.tools) : m.tools[j].ref \notin ToolRefs}}

\* is_slot_schema_shape: the surface of a schema only.  shared_state.rs parses it.
SchemaShapes == {"scalar", "list", "record", "scalar<>", "list<>", "record<>"}

SharedStateIssues(m) ==
  {Issue("invalid_enum", i) : i \in {j \in 1..Len(m.slots) :
                                     m.slots[j].access \notin {"read", "read_write"}}}
  \cup {Issue("invalid_slot_schema", i) : i \in {j \in 1..Len(m.slots) :
                                                m.slots[j].schema[<<>>].form \notin SchemaShapes}}

-------------------------------------------------------------------------------
(* Panels.                                                                   *)

WidgetTypes ==
  {"chat", "timer_stack", "editable_list", "segmented_toggle", "switch", "key_value_panel",
   "slider", "stepper", "table", "quick_actions", "media_note", "tabs", "progress",
   "date_time_picker"}
Toggles == {"segmented_toggle", "switch"}
Sliders == {"slider", "stepper"}

DefaultRegion(type) ==
  CASE type \in {"timer_stack", "editable_list", "key_value_panel", "media_note", "tabs"} -> "side"
    [] type \in Toggles \cup Sliders \cup {"quick_actions", "progress", "date_time_picker"} -> "bottom"
    [] OTHER -> "inline"

DefaultToChat(type) == type = "timer_stack"

DefaultEventNames(type) ==
  CASE type = "timer_stack" -> <<"timer_finished">>
    [] type = "editable_list" -> <<"item_checked">>
    [] type \in Toggles \cup Sliders \cup {"date_time_picker"} -> <<"changed">>
    [] type = "quick_actions" -> <<"action">>
    [] type = "progress" -> <<"complete">>
    [] OTHER -> <<>>

InlinePropKeys(type) ==
  CASE type = "timer_stack" -> {"multi"}
    [] type = "editable_list" -> {"checkable", "reorderable", "max_items"}
    [] type \in Toggles -> {"options", "default"}
    [] type \in Sliders -> {"min", "max", "step", "default"}
    [] type = "table" -> {"columns"}
    [] type = "quick_actions" -> {"actions"}
    [] type = "progress" -> {"mode"}
    [] type = "date_time_picker" -> {"mode", "min", "max"}
    [] type = "media_note" -> {"image", "body"}
    [] type = "tabs" -> {"tab_ids"}
    [] OTHER -> {}

\* title, region and the like, and each emit, are plain fields of the panel; inline
\* are the keys it has beside the canonical ones.
PanelRules ==
  [id |-> Rule(TRUE, "invalid_format"), title |-> Rule(FALSE, "invalid_length"),
   region |-> Rule(FALSE, "invalid_enum"), priority |-> Rule(FALSE, "out_of_range"),
   props |-> Rule(FALSE, "invalid_type"), binds_state |-> Rule(FALSE, "invalid_format"),
   min_widget_version |-> Rule(FALSE, "invalid_format"), emits |-> Rule(FALSE, "invalid_length")]

\* validate_panel: inline keys are only checked against a type that is known.
PanelIssues(p) ==
  Check(p.plain, PanelRules)
  \cup When(p.type \notin WidgetTypes, Issue("unknown_widget_type", p.id))
  \cup When(p.binds_tool \notin ToolRefs \cup {Absent}, Issue("unknown_tool_ref", p.id))
  \cup (IF p.type \in WidgetTypes
          THEN {Issue("unknown_property", k) : k \in DOMAIN p.inline \ InlinePropKeys(p.type)}
          ELSE {})

UiIssues(m) == UNION {PanelIssues(m.panels[i]) : i \in 1..Len(m.panels)}

-------------------------------------------------------------------------------
(* Referential integrity.  It reads the raw manifest, valid or not.          *)

StateRefs(m) == UNION {m.tools[i].reads \cup m.tools[i].writes : i \in 1..Len(m.tools)}

ReferenceIssues(m) ==
  LET tools == {m.tools[i].ref : i \in 1..Len(m.tools)}
      slots == {m.slots[i].slot : i \in 1..Len(m.slots)}
      Panels(Bad(_)) == {i \in 1..Len(m.panels) : Bad(m.panels[i])}
  IN {Issue("unknown_state_ref", s) : s \in StateRefs(m) \ slots}
     \cup {Issue("duplicate_panel_id", i) : i \in {j \in 1..Len(m.panels) :
                                   \E k \in 1..j - 1 : m.panels[k].id = m.panels[j].id}}
     \cup {Issue("unknown_tool_ref", i) : i \in
             Panels(LAMBDA p : p.binds_tool # Absent /\ p.binds_tool \notin tools)}
     \cup {Issue("unknown_state_ref", i) : i \in
             Panels(LAMBDA p : p.binds_state # Absent /\ p.binds_state \notin slots)}
     \cup When(/\ m.default_locale # Absent
               /\ m.strings # {} /\ m.default_locale \notin m.strings,
               Issue("undeclared_default_locale", "localization"))

\* validate_manifest: everything is checked, nothing stops at the first issue.
Issues(m) ==
  Check(m.plain, TopRules) \cup SectionIssues(m) \cup PricingIssues(m)
  \cup Check(m.plain, CapabilityRules) \cup ToolIssues(m) \cup SharedStateIssues(m)
  \cup UiIssues(m) \cup ReferenceIssues(m)

Valid(m) == Issues(m) = {}

-------------------------------------------------------------------------------
(* What a manifest is before anything of it was checked.                     *)

CheckedFields ==
  UNION {DOMAIN r : r \in {TopRules, CapabilityRules} \cup {SectionRules[s] : s \in DOMAIN SectionRules}}

\* A bare name leaves it to the widget whether an event posts to chat.
Emit == [name : EventNames, to_chat : {"default", "yes", "no"}]

IsPanel(p) ==
  /\ p = [id |-> p.id, type |-> p.type, plain |-> p.plain, region |-> p.region, props |-> p.props,
          inline |-> p.inline, emits |-> p.emits, binds_tool |-> p.binds_tool,
          binds_state |-> p.binds_state]
  /\ p.plain \in [DOMAIN PanelRules -> Statuses]
  /\ p.emits \in Seq(Emit) \cup {Absent}

\* A section that is not there gives no fields.
IsManifest(m) ==
  /\ m = [id |-> m.id, plain |-> m.plain, sections |-> m.sections, pricing |-> m.pricing,
          role |-> m.role, priority |-> m.priority, conflicts |-> m.conflicts, tools |-> m.tools,
          slots |-> m.slots, panels |-> m.panels, strings |-> m.strings,
          default_locale |-> m.default_locale, cost |-> m.cost]
  /\ m.plain \in [CheckedFields -> Statuses]
  /\ m.sections \in [Sections -> {"absent", "wrong_type", "ok"}]
  /\ \A s \in DOMAIN SectionRules : m.sections[s] = "absent" =>
       \A f \in DOMAIN SectionRules[s] : m.plain[f] = "absent"
  /\ m.pricing \in [free : BOOLEAN, usd : Int \cup {Absent}, price : Int \cup {Absent}]
  /\ m.panels \in Seq(ToSet(m.panels)) /\ \A p \in ToSet(m.panels) : IsPanel(p)

\* What is not given differs from all that stands for it.
ASSUME AbsentAssumption ==
  Absent \notin Int \cup {"side", "bottom", "inline", "primary_eligible"} \cup Seq(Emit)

-------------------------------------------------------------------------------
(* Normalization of a valid manifest.  It is a manifest again, in which all  *)
(* that has a default is given.                                              *)

Given(value, default) == IF value = Absent THEN default ELSE value

(* A definition whose name begins with Mutant is the next one with a plausible
   bug.  No specification uses it: it shows which property the bug breaks. *)
MutantNormalPricing(p) ==
  [free |-> p.free, usd |-> Absent,
   price |-> CASE p.free -> Absent
               [] ~p.free /\ p.price # Absent -> p.price
               [] OTHER -> 10 * (p.usd \div 10)]
\* normalize_pricing: dollars become minor units, rounded half up.
NormalPricing(p) ==
  [free |-> p.free, usd |-> Absent,
   price |-> CASE p.free -> Absent
               [] ~p.free /\ p.price # Absent -> p.price
               [] OTHER -> 10 * ((p.usd + 5) \div 10)]

\* Inline properties join props{}, which wins where both name one.
NormalProps(p) ==
  [k \in DOMAIN p.props \cup (DOMAIN p.inline \cap InlinePropKeys(p.type)) |->
     IF k \in DOMAIN p.props THEN p.props[k] ELSE p.inline[k]]

\* normalize_emits: no emits at all are the widget's own, a bare name posts to chat
\* as the widget does by default.
NormalEmits(p) ==
  LET Default(name) == [name |-> name, to_chat |-> IF DefaultToChat(p.type) THEN "yes" ELSE "no"]
  IN IF p.emits = Absent
       THEN [i \in 1..Len(DefaultEventNames(p.type)) |-> Default(DefaultEventNames(p.type)[i])]
       ELSE [i \in 1..Len(p.emits) |->
               IF p.emits[i].to_chat = "default" THEN Default(p.emits[i].name) ELSE p.emits[i]]

NormalPanel(p) ==
  [p EXCEPT !.region = Given(@, DefaultRegion(p.type)), !.props = NormalProps(p),
            !.inline = [k \in {} |-> k], !.emits = NormalEmits(p),
            !.plain = [f \in DOMAIN @ |-> IF @[f] = "absent" /\ f \in
                         {"region", "priority", "props", "emits", "min_widget_version"}
                       THEN "ok" ELSE @[f]]]

Defaulted == {"manifest_version", "status", "role", "few_shot", "capabilities", "assets", "strings",
              "unit_system_default", "conflicts_with", "combine_priority"}

Normalize(m) ==
  [m EXCEPT !.plain = [f \in DOMAIN @ |-> IF f \in Defaulted /\ @[f] = "absent" THEN "ok" ELSE @[f]],
            !.sections = [s \in DOMAIN @ |-> "ok"],
            !.pricing = NormalPricing(@),
            !.role = Given(@, "primary_eligible"),
            !.priority = Given(@, 50),
            !.panels = [i \in 1..Len(@) |-> NormalPanel(@[i])]]

===============================================================================
