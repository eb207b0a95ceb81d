------------------------------ MODULE ToolRuntime ------------------------------
(***************************************************************************)
(* The tool runtime at its two doors: the interface's tool_call command    *)
(* (main.rs, tools.rs) and the model's calls (inference.rs), which share   *)
(* the timers and the list, and what of the model's prose is shown.        *)
(***************************************************************************)
EXTENDS ToolState, ToolCatalog, ModelOutput

CONSTANTS
  Requests,   \* calls, records [tool, args]
  Texts       \* what the model may write

\* What the checks of a door do not look at: operations are those of the catalogue,
\* numbers are in range when they come out of JSON, and MaxDuration bounds a timer.
ASSUME RequestsAssumption ==
  \A r \in Requests :
    /\ r.tool = "calculate" =>
         /\ r.args.op \in {"add", "sub", "mul", "div"} /\ r.args.operands \in Seq(Int)
         /\ \A i \in 1..Len(r.args.operands) : Fits(r.args.operands[i])
    /\ r.tool = "date_math" =>
         {r.args.base, r.args.days, r.args.hours, r.args.minutes} \subseteq Int
    /\ r.tool = "start_timer" => r.args.seconds \in Int /\ r.args.seconds <= MaxDuration
    /\ r.tool = "list_manage" /\ ListArgsOk(r.args) => r.args \in ListRequests

ASSUME TextsAssumption == Texts \subseteq Seq(Tokens)

VARIABLE answer  \* of the last call or of the text shown last, until it has been read

runtimeVars == <<toolVars, answer>>

Unanswered == [door |-> "none"]
Answer(door, r, result) == [door |-> door, request |-> r, result |-> result]
Shown(written) == [door |-> "chat", written |-> written, text |-> SanitizeProse(Trim(written))]

RuntimeInit == ToolStateInit /\ answer = Unanswered

\* What list_manage answers: a set_all with an item that has no name fails.
ListResult(op) ==
  IF op.op = "set_all" /\ FirstBad(op) # 0 THEN Failed("execution_error") ELSE Ok(<<>>)

\* A call that has passed or failed the checks of its door; `computed` is the result
\* of a tool without state.
Serve(door, r, check, computed) ==
  /\ answer = Unanswered
  /\ IF check # "ok" THEN UNCHANGED toolVars /\ answer' = Answer(door, r, Failed(check))
     ELSE IF r.tool = "start_timer"
       THEN /\ \E t \in Timers : StartTimer(t, r.args.seconds)
            /\ answer' = Answer(door, r, Ok(<<>>))
     ELSE IF r.tool = "list_manage"
       THEN /\ itemSeq + IdsUsed(r.args) <= MaxItemSeq
            /\ ManageList(r.args)
            /\ answer' = Answer(door, r, ListResult(r.args))
     ELSE UNCHANGED toolVars /\ answer' = Answer(door, r, computed)

\* tool_call.
ToolCall(r) ==
  r.tool \in ToolNames /\ Serve("interface", r, UiParse(r.tool, r.args),
                                UiExecute(r.tool, r.args))

\* CatalogToolRunner::run, for a call the model wrote.
ModelCall(r) == Serve("model", r, ValidateAndParse(r.tool, r.args), Execute(r.tool, r.args))

\* Step::Prose in emit_steps.
ModelSays(text) ==
  /\ answer = Unanswered /\ ParseGeneration(text) = "prose"
  /\ answer' = Shown(text)
  /\ UNCHANGED toolVars

ReadAnswer == answer # Unanswered /\ answer' = Unanswered /\ UNCHANGED toolVars

Commands(t) ==
  /\ \/ SpawnTask(t) \/ Tick(t) \/ ResetTimer(t)
     \/ \E running \in BOOLEAN : SetTimerRunning(t, running)
  /\ UNCHANGED answer

RuntimeNext ==
  \/ \E r \in Requests : ToolCall(r) \/ ModelCall(r)
  \/ \E text \in Texts : ModelSays(text)
  \/ ReadAnswer
  \/ \E t \in Timers : Commands(t)

RuntimeFairness ==
  \A t \in Timers : WF_runtimeVars(SpawnTask(t) /\ UNCHANGED answer)
                    /\ WF_runtimeVars(Tick(t) /\ UNCHANGED answer)

RuntimeSpec == RuntimeInit /\ [][RuntimeNext]_runtimeVars /\ RuntimeFairness

-------------------------------------------------------------------------------
Answered(tools) ==
  answer.door \in {"interface", "model"} /\ answer.request.tool \in tools
Computed(tools) == Answered(tools) /\ answer.result.code = "ok"

\* Without a largest number, from left to right.
Exact(a) ==
  LET r[i \in 1..Len(a.operands)] ==
        IF i = 1 THEN a.operands[1]
        ELSE CASE a.op = "add" -> r[i - 1] + a.operands[i]
               [] a.op = "sub" -> r[i - 1] - a.operands[i]
               [] a.op = "mul" -> r[i - 1] * a.operands[i]
               [] OTHER -> r[i - 1] \div a.operands[i]
  IN r

\* A number that is answered is the right one: no calculation that left the
\* range of numbers on its way, and no date whose delta did not fit an integer
\* or whose result the calendar does not hold, is answered with some value
\* (run_calculate and run_date_math look at overflow in different places).
AnswerIsExact ==
  LET a == answer.request.args IN
  /\ Computed({"calculate"}) =>
       /\ answer.result.value = <<Exact(a)[Len(a.operands)]>>
       /\ \A i \in 1..Len(a.operands) : Fits(Exact(a)[i])
  /\ Computed({"date_math"}) =>
       LET delta == 1440 * a.days + 60 * a.hours + a.minutes IN
       /\ answer.result.value = <<IF a.op = "add" THEN a.base + delta ELSE a.base - delta>>
       /\ answer.result.value[1] \in 0..DateMax

\* The two doors, which have their own validation and their own table of units,
\* agree: what the model may call the interface may call, with the same answer,
\* and the other way round for a JSON object (a struct given as an array passes
\* serde only).
DoorsAgree ==
  LET tool == answer.request.tool
      a == answer.request.args
      stateless == ToolNames \ Stateful
  IN /\ answer.door = "model" /\ Answered(ToolNames) /\ ValidateAndParse(tool, a) = "ok" =>
          /\ UiParse(tool, a) = "ok"
          /\ tool \in stateless => answer.result = UiExecute(tool, a)
     /\ answer.door = "interface" /\ a.form = "object" /\ UiParse(tool, a) = "ok" =>
          /\ ValidateAndParse(tool, a) = "ok"
          /\ tool \in stateless => answer.result = Execute(tool, a)

\* A tag in two parts: a beginning that no tag goes on from, and later on the rest of
\* a tag that nothing begins.
Split(text) ==
  \E i, j \in 1..Len(text) :
    /\ i < j /\ text[i] \in Heads /\ text[j] \in Tails
    /\ text[i + 1] \notin Tails /\ text[j - 1] \notin Heads

Span(text, tail) ==
  \E i, j \in 1..Len(text) : i < j /\ Tag(text, i, "<", tail) /\ Tag(text, j, "</", tail)

\* What is shown of the model's prose has no line that is nothing but a result and no
\* echo of one, of whatever text: also when taking one away is what leaves the next one
\* alone on its line.  A whole span of a call or of a result is shown only of a text
\* with a tag in two parts, which a cut has joined behind the one pass over the text
\* (sanitize_prose, strip_spans): neither pass joins the tags of a text that has none.
ShownIsClean ==
  answer.door = "chat" =>
    LET text == answer.text IN
    /\ \A i \in 1..Len(text) : ~Leak(text, i)
    /\ Echoes(text) = {}
    /\ (\E tail \in Tails : Span(text, tail)) => Split(answer.written)
===============================================================================
