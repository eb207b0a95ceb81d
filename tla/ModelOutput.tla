------------------------------ MODULE ModelOutput ------------------------------
(***************************************************************************)
(* What the model wrote and what becomes of it (inference.rs): whether it  *)
(* is a call of a tool, and what of its prose may be shown.  A text is a   *)
(* sequence of tokens; white space other than a line end is left out, and  *)
(* an angle bracket with a space after it is a word:                       *)
(*   "word"                     prose                                      *)
(*   "<" "</"                   how a tag begins                           *)
(*   "tool_call>"               how a tag of a call goes on                *)
(*   "tool_result>"             how a tag of a result goes on              *)
(*   "call"                     a JSON object with a name and arguments    *)
(*   "object"                   any other JSON object                      *)
(*   "fn"                       a catalogue tool with arguments in ( )     *)
(*   "name:"                    a catalogue tool and a colon               *)
(*   "nl"                       a line end                                 *)
(* A tag is two tokens side by side, so that cutting out what is between   *)
(* them makes one.                                                         *)
(***************************************************************************)
EXTENDS Integers, SequencesExt, Subsequences

Heads == {"<", "</"}
Tails == {"tool_call>", "tool_result>"}
Tokens == Heads \cup Tails \cup {"word", "call", "object", "fn", "name:", "nl"}
JsonObjects == {"call", "object"}

\* The tag <head, tail> begins at i.
Tag(text, i, head, tail) == i < Len(text) /\ text[i] = head /\ text[i + 1] = tail

\* Where such a tag begins first from place i on, or 0.
NextTag(text, i, head, tail) ==
  LET places == {j \in i..Len(text) : Tag(text, j, head, tail)}
  IN IF places = {} THEN 0 ELSE CHOOSE j \in places : \A k \in places : j <= k

\* trim: no line ends at either side.
Trim(text) ==
  Retained(text, {i \in 1..Len(text) : /\ \E j \in 1..i : text[j] # "nl"
                                       /\ \E j \in i..Len(text) : text[j] # "nl"})

-------------------------------------------------------------------------------
(* parse_generation.                                                         *)

\* extract_tool_call: what is between the first tags, if that is JSON.
Tagged(text, open) ==
  LET close == NextTag(text, open + 2, "</", "tool_call>")
  IN IF close = 0 THEN <<>> ELSE Trim(SubSeq(text, open + 2, close - 1))

\* "tool_call", "malformed" or "prose".  A tag anywhere decides; otherwise the text
\* has to begin with the call, and what follows it is dropped.
ParseGeneration(text) ==
  LET trimmed == Trim(text)
      open == NextTag(text, 1, "<", "tool_call>")
  IN IF open # 0
       THEN IF Tagged(text, open) = <<"call">> THEN "tool_call" ELSE "malformed"
       ELSE IF trimmed # <<>> /\ trimmed[1] \in {"call", "fn"} THEN "tool_call"
       ELSE IF trimmed = <<"object">> THEN "malformed" ELSE "prose"

-------------------------------------------------------------------------------
(* sanitize_prose.                                                           *)

\* The places that strip_spans keeps of what is left from i on: those before the next
\* opening tag, and what it keeps after the closing one.  A tag without its other end
\* stays, with all that follows.  There is one pass: what a cut joins is not read again.
KeptFrom(text, tail) ==
  LET kept[i \in 1..Len(text) + 1] ==
        LET open == NextTag(text, i, "<", tail)
            close == NextTag(text, open + 2, "</", tail)
        IN IF open = 0 \/ close = 0 THEN i..Len(text) ELSE (i..open - 1) \cup kept[close + 2]
  IN kept
StripSpans(text, tail) == Retained(text, KeptFrom(text, tail)[1])

\* An echo from i to j: a tool's name, an object, and nothing else on that line.  Line
\* ends may stand between the two.
IsEcho(text, i, j) ==
  /\ i < j /\ text[i] = "name:" /\ text[j] \in JsonObjects
  /\ \A k \in i + 1..j - 1 : text[k] = "nl"
  /\ j < Len(text) => text[j + 1] = "nl"
Echoes(text) == {e \in (1..Len(text)) \X (1..Len(text)) : IsEcho(text, e[1], e[2])}

WithoutEcho(text) ==
  LET e == CHOOSE e \in Echoes(text) : \A f \in Echoes(text) : e[1] <= f[1]
  IN IF Echoes(text) = {} THEN text ELSE Retained(text, 1..Len(text) \ e[1]..e[2])

\* strip_tool_result_echo_fragments: until there is none.
EchoesLeft(text) ==
  LET left[n \in 0..Len(text)] == IF n = 0 THEN text ELSE WithoutEcho(left[n - 1])
  IN left
StripEchoes(text) == EchoesLeft(text)[Len(text)]

\* A token at i that is a line of its own.
AloneOnLine(text, i) ==
  /\ i = 1 \/ text[i - 1] = "nl"
  /\ i = Len(text) \/ text[i + 1] = "nl"

Leak(text, i) == text[i] = "object" /\ AloneOnLine(text, i)

\* is_non_tool_call_json_leak: such a line goes, with its line end.
DropLeaks(text) ==
  Retained(text, {i \in 1..Len(text) : ~Leak(text, i) /\ (i > 1 => ~Leak(text, i - 1))})

\* collapse_blank_lines: no two blank lines in a row, none at the ends.
CollapseBlankLines(text) ==
  Trim(Retained(text, {i \in 1..Len(text) : i > 2 => \E j \in i - 2..i : text[j] # "nl"}))

Unspanned(text) == StripSpans(StripSpans(text, "tool_result>"), "tool_call>")

(* A definition whose name begins with Mutant is the next one with a plausible
   bug.  No specification uses it: it shows which property the bug breaks. *)
MutantSanitizeProse(text) == CollapseBlankLines(StripEchoes(DropLeaks(Unspanned(text))))
\* Spans, then echoes, then lines that are nothing but a result.
SanitizeProse(text) == CollapseBlankLines(DropLeaks(StripEchoes(Unspanned(text))))

===============================================================================
