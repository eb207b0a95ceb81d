------------------------------ MODULE ToolCatalog ------------------------------
(***************************************************************************)
(* The closed catalogue of tools as pure functions: how the arguments of a *)
(* call are validated at its two doors, the model's (tool_catalog.rs) and  *)
(* the interface's (tools.rs, by serde), and what the stateless tools      *)
(* compute.  A JSON argument is kept as what the checks tell apart: the    *)
(* form of the whole, and for a field its value or that it is bad.         *)
(* Numbers are integers with a largest finite one, a division is cut off,  *)
(* and a converted quantity stays the quotient that would be computed.     *)
(***************************************************************************)
EXTENDS Integers, SequencesExt

CONSTANTS
  FloatMax,   \* the largest finite number of a calculation
  I64Max,     \* the largest integer of the arithmetic on dates
  SpanMax,    \* the most minutes chrono takes as a duration
  DateMax     \* the last minute of the calendar, the first is 0

ASSUME CatalogAssumption == {FloatMax, I64Max, SpanMax, DateMax} \subseteq Nat

ToolNames == {"start_timer", "convert_units", "list_manage", "calculate", "date_math"}
Stateful == {"start_timer", "list_manage"}

Ok(value) == [code |-> "ok", value |-> value]
Failed(code) == [code |-> code]

-------------------------------------------------------------------------------
(* Units, in grams and millilitres: whole, millionths, and 10^-11 beyond.    *)

MassToGrams ==
  [g |-> <<1, 0, 0>>, kg |-> <<1000, 0, 0>>, oz |-> <<28, 349523, 12500>>,
   lb |-> <<453, 592370, 0>>]
VolumeToMl ==
  [ml |-> <<1, 0, 0>>, l |-> <<1000, 0, 0>>, tsp |-> <<4, 928921, 59375>>,
   tbsp |-> <<14, 786764, 78125>>, fl_oz |-> <<29, 573529, 56250>>, cup |-> <<236, 588236, 50000>>]
DomainOf(u) ==
  CASE u \in DOMAIN MassToGrams -> "mass" [] u \in DOMAIN VolumeToMl -> "volume"
    [] OTHER -> "temperature"

(* A definition whose name begins with Mutant is the next one with a plausible
   bug.  No specification uses it: it shows which property the bug breaks. *)
MutantUiMl ==
  [ml |-> <<1, 0, 0>>, l |-> <<1000, 0, 0>>, tsp |-> <<5, 0, 0>>, tbsp |-> <<15, 0, 0>>,
   fl_oz |-> <<29, 573529, 56250>>, cup |-> <<250, 0, 0>>]
\* The tables of tools::unit_math, a second copy.
UiMl ==
  [ml |-> <<1, 0, 0>>, l |-> <<1000, 0, 0>>, tsp |-> <<4, 928921, 59375>>,
   tbsp |-> <<14, 786764, 78125>>, fl_oz |-> <<29, 573529, 56250>>, cup |-> <<236, 588236, 50000>>]
UiGrams ==
  [g |-> <<1, 0, 0>>, kg |-> <<1000, 0, 0>>, oz |-> <<28, 349523, 12500>>,
   lb |-> <<453, 592370, 0>>]

\* value * from / to, or the formula from one scale of temperature to the other.
Quotient(a, grams, ml) ==
  CASE a.domain = "mass" -> <<a.value, grams[a.from], grams[a.to]>>
    [] a.domain = "volume" -> <<a.value, ml[a.from], ml[a.to]>>
    [] OTHER -> <<a.value, <<a.from>>, <<a.to>>>>
RunConvertUnits(a) == Ok(Quotient(a, MassToGrams, VolumeToMl))
UiConvert(a) == Ok(Quotient(a, UiGrams, UiMl))

-------------------------------------------------------------------------------
(* Calculation.  A result that no finite number holds is kept as "inf".      *)

Number(n) == [finite |-> TRUE, n |-> n]
Infinite == [finite |-> FALSE, n |-> 0]
Fits(n) == n <= FloatMax /\ n >= -FloatMax

\* One operation on a number so far and a finite operand: from infinity nothing
\* leads back, zero times infinity is no number either.
Calc(op, acc, x) ==
  LET r == CASE op = "add" -> acc.n + x [] op = "sub" -> acc.n - x
             [] op = "mul" -> acc.n * x [] op = "div" /\ x # 0 -> acc.n \div x
  IN IF acc.finite /\ Fits(r) THEN Number(r) ELSE Infinite

MutantIsFinite(acc) == TRUE
IsFinite(acc) == acc.finite

\* The accumulator after each operand.
Accumulated(a) ==
  LET acc[i \in 1..Len(a.operands)] ==
        IF i = 1 THEN Number(a.operands[1]) ELSE Calc(a.op, acc[i - 1], a.operands[i])
  IN acc

DividesByZero(a) == a.op = "div" /\ \E i \in 2..Len(a.operands) : a.operands[i] = 0

\* run_calculate: left to right, and only the end is looked at.
RunCalculate(a) ==
  IF DividesByZero(a) \/ ~IsFinite(Accumulated(a)[Len(a.operands)])
    THEN Failed("execution_error") ELSE Ok(<<Accumulated(a)[Len(a.operands)].n>>)

-------------------------------------------------------------------------------
(* Dates, in minutes.                                                        *)

InI64(n) == n <= I64Max /\ n >= -I64Max - 1

\* run_date_math: the delta is summed in checked steps, days first.
DeltaSteps(a) == <<a.days * 1440, a.hours * 60, a.days * 1440 + a.hours * 60,
                   a.days * 1440 + a.hours * 60 + a.minutes>>
RunDateMath(a) ==
  LET total == DeltaSteps(a)[4]
      out == IF a.op = "add" THEN a.base + total ELSE a.base - total
  IN IF /\ \A i \in 1..4 : InI64(DeltaSteps(a)[i])
        /\ total <= SpanMax /\ total >= -SpanMax
        /\ out \in 0..DateMax
     THEN Ok(<<out>>) ELSE Failed("execution_error")

-------------------------------------------------------------------------------
(* The model's door: parse_args.  args.form is what the JSON is: an object,  *)
(* an array of all the fields in their order, or something else.             *)

\* A label that is text and not blank; numbers that are numbers, and enough of them.
ReqString(label) == label = "text"
ReqOperands(a) == ~a.bad /\ Len(a.operands) >= 2

\* A number of seconds is a positive u32; -1 stands for anything else.
DurationOk(a) == a.seconds > 0

ItemOf(a) == IF a.items = <<>> THEN [id |-> 0, named |-> FALSE] ELSE a.items[1]

\* What the operation needs: a name to add, a list to replace the list with, an id.
ListArgsOk(a) ==
  CASE a.op = "add" -> ItemOf(a).named
    [] a.op = "set_all" -> a.given
    [] a.op \in {"remove", "check", "uncheck"} -> ItemOf(a).id # 0
    [] OTHER -> FALSE

FieldsOk(tool, a) ==
  CASE tool = "start_timer" -> ReqString(a.label) /\ DurationOk(a)
    [] tool = "convert_units" -> DomainOf(a.from) = a.domain /\ DomainOf(a.to) = a.domain
    [] tool = "list_manage" -> ListArgsOk(a)
    [] tool = "calculate" -> ReqOperands(a)
    [] tool = "date_math" -> a.base >= 0 /\ a.given

ValidateAndParse(tool, a) ==
  IF tool \notin ToolNames THEN "unknown_tool"
  ELSE IF a.form = "object" /\ FieldsOk(tool, a) THEN "ok" ELSE "invalid_args"

\* execute: the stateless tools.
Execute(tool, a) ==
  CASE tool = "convert_units" -> RunConvertUnits(a)
    [] tool = "calculate" -> RunCalculate(a)
    [] tool = "date_math" -> RunDateMath(a)
    [] OTHER -> Failed("execution_error")

-------------------------------------------------------------------------------
(* The interface's door: tools::validate_and_parse and execute.              *)

\* The stateful tools and convert_units are read by serde, which takes an array for
\* a struct; the others go through the catalogue.
UiForms(tool) == IF tool \in {"calculate", "date_math"} THEN {"object"} ELSE {"object", "array"}

UiFieldsOk(tool, a) ==
  CASE tool = "start_timer" -> a.label = "text" /\ a.seconds > 0
    [] tool = "convert_units" -> DomainOf(a.from) = a.domain /\ DomainOf(a.to) = a.domain
    [] tool = "list_manage" -> ListArgsOk(a)
    [] OTHER -> FieldsOk(tool, a)

UiParse(tool, a) ==
  IF a.form \in UiForms(tool) /\ UiFieldsOk(tool, a) THEN "ok" ELSE "invalid_args"

\* execute_stateless, and unit_math for conversions.
UiExecute(tool, a) == IF tool = "convert_units" THEN UiConvert(a) ELSE Execute(tool, a)

===============================================================================
