---------------------------- MODULE MCSharedState ----------------------------
(***************************************************************************)
(* Seven skills: two that configure one tool differently and share a list, *)
(* three that declare one slot as no scalar in particular, as text and as  *)
(* a number, one that blocks another and costs almost the window, and one  *)
(* whose price no validator takes.                                         *)
(***************************************************************************)
EXTENDS SharedState

CONSTANTS c1, c2, v1, v2, timer, list

MCToolRefs == {timer, list}
MCEventNames == {"timer_finished", "item_checked", "changed", "action", "complete"}
MCFieldNames == {"id", "name", "qty", "unit", "checked"}
MCEnums == {}
MCWindows == {2048, 4096, U32Max}
MCValues == {v1, v2}

None == [k \in {} |-> k]
\* Of the sections only the required ones are there.
Missing == UNION {DOMAIN SectionRules[s] : s \in DOMAIN SectionRules \ RequiredSections}
PlainFields == [f \in CheckedFields |-> IF f \in Defaulted \cup Missing THEN "absent" ELSE "ok"]
PlainPanel == [f \in DOMAIN PanelRules |-> IF f = "id" THEN "ok" ELSE "absent"]

Panel(id, type, inline) ==
  [id |-> id, type |-> type, plain |-> PlainPanel, region |-> Absent, props |-> None,
   inline |-> inline, emits |-> Absent, binds_tool |-> Absent, binds_state |-> Absent]

Base ==
  [id |-> 1, plain |-> PlainFields,
   sections |-> [s \in Sections |->
                   IF s \in RequiredSections THEN "ok" ELSE "absent"],
   pricing |-> [free |-> TRUE, usd |-> Absent, price |-> Absent],
   role |-> Absent, priority |-> Absent, conflicts |-> {},
   tools |-> <<>>, slots |-> <<>>, panels |-> <<>>,
   strings |-> {}, default_locale |-> Absent,
   cost |-> [prompt |-> 100, tools |-> 1, panels |-> 1]]

TheTool(ref, config, slot) ==
  [ref |-> ref, config |-> config, reads |-> {slot}, writes |-> {slot}, widget |-> Absent]
Slot(slot, access, form, inner) ==
  [slot |-> slot, access |-> access, schema |-> <<>> :> Schema(form, inner, FALSE)]

\* A record of Shop's own that list<item> suits, though it writes the quantity otherwise.
ShopItem ==
  [slot |-> 1, access |-> "read",
   schema |-> (<<>> :> Schema("list<>", "record", FALSE)
               @@ <<"id">> :> Schema("short", "string", FALSE)
               @@ <<"name">> :> Schema("scalar", "any", FALSE)
               @@ <<"qty">> :> Schema("record{}", "any", TRUE)
               @@ <<"qty", "unit">> :> Schema("scalar<>", "string", FALSE))]

Cook ==
  [Base EXCEPT !.tools = <<TheTool(timer, c1, 1)>>,
               !.slots = <<Slot(1, "read_write", "list<>", "item"), Slot(2, "read", "scalar", "any")>>,
               !.panels = <<[Panel(1, "timer_stack", "multi" :> v1) EXCEPT !.binds_tool = timer],
                            Panel(2, "chat", None)>>,
               !.sections["resources"] = "ok", !.sections["localization"] = "ok",
               !.plain["strings"] = "ok", !.strings = {"en"},
               !.plain["default_locale"] = "ok", !.default_locale = "en"]
Shop ==
  [Base EXCEPT !.id = 2, !.tools = <<TheTool(timer, c2, 1), TheTool(list, c1, 1)>>,
               !.slots = <<ShopItem>>,
               !.pricing = [free |-> FALSE, usd |-> 5, price |-> Absent],
               !.panels = <<[Panel(1, "slider", "min" :> v1) EXCEPT !.plain["emits"] = "ok",
                               !.emits = <<[name |-> "changed", to_chat |-> "default"]>>]>>]
Text == [Base EXCEPT !.id = 3, !.sections["compatibility"] = "ok",
                     !.plain["combine_priority"] = "ok", !.priority = 60,
                     !.plain["role"] = "ok", !.role = "secondary_only",
                     !.slots = <<Slot(2, "read_write", "scalar<>", "string")>>]
Count == [Base EXCEPT !.id = 4, !.slots = <<Slot(2, "read_write", "scalar<>", "number")>>,
                      !.tools = <<TheTool(list, c1, 2)>>]
Big == [Base EXCEPT !.id = 5, !.sections["compatibility"] = "ok",
                    !.plain["conflicts_with"] = "ok", !.conflicts = {1},
                    !.cost = [prompt |-> 3000, tools |-> 2, panels |-> 2]]
Cheap == [Base EXCEPT !.id = 6, !.pricing = [free |-> FALSE, usd |-> 4, price |-> 990]]
Huge == [Base EXCEPT !.id = 7, !.cost.tools = U32Max]

MCManifests == {Cook, Shop, Text, Count, Big, Cheap, Huge}
===============================================================================
