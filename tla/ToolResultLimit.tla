--------------------------- MODULE ToolResultLimit ---------------------------
(***************************************************************************)
(* The token limit of tool results (tool_result_optimizer.py): plain text  *)
(* keeps its head and its tail around a notice that names the tokens       *)
(* removed, JSON is compacted by four pairs of limits, and as a last       *)
(* resort reduced to its keys.  A text is its number of tokens; the notice *)
(* is longer the larger the number it names.                               *)
(***************************************************************************)
EXTENDS Naturals, FiniteSets, FiniteSetsExt

CONSTANTS
  Notice(_),      \* tokens of the notice that names n removed tokens
  Shaped(_, _),   \* tokens of a JSON value of n tokens under the i-th limits
  KeyTokens       \* tokens of one key in _preserved_keys

Minus(a, b) == IF a > b THEN a - b ELSE 0

-----------------------------------------------------------------------------
\* _truncate_plain_text

\* render: head, notice and tail on lines of their own.
Rendered(s) == s.head + Notice(s.notice) + (IF s.tail > 0 THEN s.tail + 2 ELSE 1)

StartOf(n, max) ==
  LET room == Minus(max, Notice(n) + 2)
      head == Max({1, (7 * Max({1, room})) \div 10})
  IN [head |-> head, tail |-> Minus(room, head), notice |-> n]

Settled(s, n, max) == Rendered(s) <= max /\ s.notice = Minus(n, Rendered(s))

\* The notice is corrected, and what is too much is cut from the tail, then
\* from the head.
Again(s, n, max) ==
  LET excess == Minus(Rendered(s), max)
      cut    == Min({s.tail, excess})
  IN [head |-> Minus(s.head, excess - cut), tail |-> s.tail - cut,
      notice |-> Minus(n, Rendered(s))]

Rounds == 32

PlainRounds(n, max) ==
  LET round[k \in 1 .. Rounds] ==
        IF k = 1 THEN StartOf(n, max)
        ELSE IF Settled(round[k - 1], n, max) THEN round[k - 1]
        ELSE Again(round[k - 1], n, max)
  IN round[Rounds]

\* When the rounds do not settle only the notice is left.
TruncatedText(n, max) ==
  LET s == PlainRounds(n, max) IN
  IF Settled(s, n, max) THEN Rendered(s) ELSE Notice(Minus(n, Notice(s.notice)))

-----------------------------------------------------------------------------
\* _truncate_json and _minimal_json

\* _json_with_notice: the notice is corrected once, after the value is rendered.
WithNotice(size, n) == size + Notice(Minus(n, size + Notice(n)))

\* The keys that fit, in order, until the first that does not.
MinimalJson(n, max) ==
  LET fitting(k) == \A j \in 1 .. k : WithNotice(j * KeyTokens, n) <= max
      kept       == Max({k \in 0 .. n : fitting(k)})
      size       == WithNotice(kept * KeyTokens, n)
  IN IF size <= max THEN size ELSE Notice(n)

TruncatedJson(n, max) ==
  LET fits == {i \in 1 .. 4 : WithNotice(Shaped(n, i), n) <= max} IN
  IF fits # {} THEN WithNotice(Shaped(n, Min(fits)), n) ELSE MinimalJson(n, max)

-----------------------------------------------------------------------------
\* truncate_large_result
Truncated(n, max, json) ==
  IF n <= max THEN n ELSE IF json THEN TruncatedJson(n, max) ELSE TruncatedText(n, max)
=============================================================================
