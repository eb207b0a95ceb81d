---------------------------- MODULE MCToolRuntime ----------------------------
(* Calls and texts for model checking ToolRuntime. *)
EXTENDS ToolRuntime

MCItem(id, named) == [id |-> id, checked |-> FALSE, named |-> named]
MCList(op, items) ==
  [tool |-> "list_manage", args |-> [form |-> "object", op |-> op, items |-> items,
                                     given |-> op = "set_all"]]

\* An item of its own, changes of the first generated one, a set_all that names
\* an id itself, one that fails after it has used an id, and calls that lack a name,
\* an id or the list.
MCLists ==
  {MCList("add", <<MCItem(0, TRUE)>>), MCList("remove", <<MCItem(1, TRUE)>>),
   MCList("check", <<MCItem(1, TRUE)>>), MCList("uncheck", <<MCItem(1, TRUE)>>),
   MCList("set_all", <<MCItem(0, TRUE), MCItem(2, TRUE), MCItem(0, TRUE)>>),
   MCList("set_all", <<MCItem(0, TRUE), MCItem(0, FALSE)>>),
   MCList("add", <<MCItem(0, FALSE)>>), MCList("remove", <<>>),
   MCList("clear", <<>>)}

MCListRequests == {r.args : r \in {r \in MCLists : ListArgsOk(r.args)}}

MCTimers ==
  {[tool |-> "start_timer", args |-> [form |-> form, label |-> label, seconds |-> seconds]] :
     form \in {"object", "array", "other"}, label \in {"text", "blank"},
     seconds \in {-1, 0} \cup 1..MaxDuration}

MCConversions ==
  {[tool |-> "convert_units", args |-> [form |-> form, domain |-> d, from |-> from, to |-> to,
                                        value |-> 7]] :
     form \in {"object", "array"}, d \in {"mass", "volume", "temperature"},
     from \in {"g", "lb", "cup", "tsp", "F"}, to \in {"oz", "ml", "C"}}

\* Results on either side of the largest number, by way of it, and back again.
MCCalculations ==
  {[tool |-> "calculate", args |-> [form |-> "object", op |-> op, operands |-> operands,
                                    bad |-> bad]] :
     op \in {"add", "sub", "mul", "div"}, bad \in BOOLEAN,
     operands \in {<<1>>, <<9, 1>>, <<9, 2>>, <<9, 2, -3>>, <<9, 2, 0>>, <<-9, 2>>, <<6, 0, 2>>}}

MCDates ==
  {[tool |-> "date_math", args |-> [form |-> "object", base |-> base, op |-> op, days |-> days,
                                    hours |-> hours, minutes |-> minutes, given |-> given]] :
     base \in {-1, 0, 1500}, op \in {"add", "subtract"}, days \in {-1, 0, 1, 2},
     hours \in {0, 1, 30}, minutes \in {-61, 0, 5}, given \in {TRUE}}
  \cup {[tool |-> "date_math", args |-> [form |-> "array", base |-> 0, op |-> "add", days |-> 1,
                                         hours |-> 0, minutes |-> 0, given |-> given]] :
          given \in BOOLEAN}

MCRequests ==
  MCLists \cup MCTimers \cup MCConversions \cup MCCalculations \cup MCDates
  \cup {[tool |-> "teleport", args |-> [form |-> "object"]]}

\* Spans that stand in each other, next to each other, or in a tag that they split; and
\* what is left alone on its line when something else goes.
MCTags == {<<head, tail>> : head \in Heads, tail \in Tails}
MCTokens == {<<t>> : t \in Tokens}
MCJoined(pieces, n) == {FlattenSeq(p) : p \in [1..n -> pieces]}

MCTexts ==
  {<<>>} \cup MCJoined(MCTokens \cup MCTags, 1) \cup MCJoined(MCTokens \cup MCTags, 2)
  \cup MCJoined({<<t>> : t \in {"word", "object", "name:", "nl"}}, 3)
  \cup MCJoined(MCTags \cup {<<t>> : t \in {"<", "tool_result>", "object"}}, 3)
  \cup {<<"<">> \o inner \o <<tail>> \o after :
          inner \in {<<"<", other, "object", "</", other>> : other \in Tails}, tail \in Tails,
          after \in {<<>>} \cup {<<"object", "</", t>> : t \in Tails}}
  \cup {<<"word", "<", "tool_result>", "object", "</", "tool_result>", "name:", "object">>,
        <<"<", "tool_result>", "</", "<", "tool_call>", "tool_result>", "</", "tool_call>">>,
        <<"<", "tool_result>", "<", "tool_result>", "</", "tool_result>", "</", "tool_result>">>,
        <<"object", "name:", "nl", "nl", "object", "nl", "word">>,
        <<"word", "nl", "nl", "nl", "object", "nl", "nl", "word">>,
        <<"name:", "object", "name:", "call", "nl", "word">>}
===============================================================================
