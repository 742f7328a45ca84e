---------------------------- MODULE ProviderTurns ----------------------------
(***************************************************************************)
(* A conversation of an OpenAI client with an Anthropic provider: the      *)
(* request is normalized and translated (_to_normalized, translate_request)*)
(* and the provider's event stream is translated line by line into         *)
(* chunks (translated_streamer), while the client may leave and the        *)
(* connection may break; a whole answer goes through _normalize_to_openai. *)
(*                                                                         *)
(* A text and the arguments of a call are the sequence of their pieces; a  *)
(* piece is [id, n], the n-th of a content block.  The arguments are a     *)
(* JSON value when they are all pieces of one block in order.              *)
(***************************************************************************)
EXTENDS Naturals, FiniteSets, SequencesExt

CONSTANTS
  Prompts,      \* what a client may begin with: sequences of messages
  Usages,       \* what message_start may report: [input, output, read, write]
  Outputs,      \* output tokens message_delta may report, 0 when it has no count
  Pieces,       \* pieces of a block
  MaxBlocks,    \* bound on the blocks of a turn
  MaxTurns,     \* bound on the provider's turns in a conversation
  None

Message(role, text) == [role |-> role, text |-> text, calls |-> <<>>, answers |-> None]

\* A conversation begins before the provider has called anything.
ASSUME PromptsCallNothing ==
  Prompts \subseteq Seq({Message(role, <<>>) : role \in {"system", "user", "assistant"}})
ASSUME BoundsAreNaturals == Pieces \in Nat \ {0} /\ MaxBlocks \in Nat /\ MaxTurns \in Nat
ASSUME CountsAreNaturals ==
  /\ Outputs \subseteq Nat
  /\ Usages \subseteq [input : Nat, output : Nat, read : Nat \cup {None},
                        write : Nat \cup {None}]

VARIABLES
  conv,      \* the client's messages: [role, text, calls, answers]
  body,      \* the body the provider got last: [system, messages], or None
  spoken,    \* tool_use blocks of the turns the client took: [id, whole]
  phase,     \* where the provider's stream is
  blocks,    \* content blocks of the turn: [id, type, n]
  reported,  \* the usage the provider reported in this turn
  gen,       \* translated_streamer: "none", "created", "running", "over", "broken",
             \* "dropped"
  tools,     \* openai_tool_index
  usage,     \* usage_acc
  out,       \* chunks yielded
  collected, \* collected: pieces of text
  ledger,    \* rows _log wrote for this stream
  closed     \* resp.aclose was called

stream == <<phase, blocks, reported, gen, tools, usage, out, collected, ledger, closed>>
vars == <<conv, body, spoken, stream>>

NoUsage == [prompt |-> 0, completion |-> 0, cached |-> None, written |-> None]

Fresh(g) ==
  /\ phase' = "asked" /\ blocks' = <<>> /\ reported' = None
  /\ gen' = g /\ tools' = 0 /\ usage' = NoUsage
  /\ out' = <<>> /\ collected' = <<>> /\ ledger' = <<>> /\ closed' = FALSE

Init ==
  /\ conv \in Prompts
  /\ body = None /\ spoken = <<>>
  /\ phase = "asked" /\ blocks = <<>> /\ reported = None
  /\ gen = "none" /\ tools = 0 /\ usage = NoUsage
  /\ out = <<>> /\ collected = <<>> /\ ledger = <<>> /\ closed = FALSE

-----------------------------------------------------------------------------
\* The request: _to_normalized, then AnthropicAdapter.translate_request.

AllPieces(id) == [n \in 1 .. Pieces |-> [id |-> id, n |-> n]]

\* _tool_arguments: what does not parse becomes an empty object.
Decoded(args) ==
  IF args # <<>> /\ args = AllPieces(args[1].id) THEN args[1].id ELSE None

FirstSystem(messages) == SelectInSeq(messages, LAMBDA m : m.role = "system")

\* Content beside tool calls is dropped, and so is every later system message.
Entry(m) ==
  IF m.answers # None
    THEN [role |-> "user", text |-> <<>>, uses |-> <<>>, result |-> m.answers]
  ELSE IF m.calls # <<>>
    THEN [role |-> m.role, text |-> <<>>, result |-> None,
          uses |-> [i \in DOMAIN m.calls |->
                     [id |-> m.calls[i].id, input |-> Decoded(m.calls[i].args)]]]
  ELSE [role |-> m.role, text |-> m.text, uses |-> <<>>, result |-> None]

Translated(messages) ==
  [system   |-> IF FirstSystem(messages) = 0 THEN None ELSE messages[FirstSystem(messages)].text,
   messages |-> FlattenSeq([i \in DOMAIN messages |->
                  IF messages[i].role = "system" THEN <<>> ELSE <<Entry(messages[i])>>])]

\* A streaming request, which may be one that failed before.
Asks ==
  /\ gen \notin {"created", "running"}
  /\ Cardinality({i \in DOMAIN conv : conv[i].role = "assistant"}) < MaxTurns
  /\ body' = Translated(conv)
  /\ Fresh("created")
  /\ UNCHANGED <<conv, spoken>>

-----------------------------------------------------------------------------
\* The provider's lines and what translated_streamer makes of them.  The loop
\* reads until the lines are over: neither message_stop nor an error ends it.

Yields(chunk) == out' = Append(out, chunk)

\* The first iteration of the generator.
Starts ==
  /\ gen = "created"
  /\ gen' = "running"
  /\ UNCHANGED <<conv, body, spoken, phase, blocks, reported, tools, usage, out, collected,
                 ledger, closed>>

\* Usage is merged without zeroing what an earlier event said.
MergedByLast(u) ==   \* the last event wins
  [usage EXCEPT !.prompt = u.input, !.completion = u.output,
                !.cached = IF u.read # None THEN u.read ELSE @,
                !.written = IF u.write # None THEN u.write ELSE @]
Merged(u) ==
  [prompt     |-> IF u.input # 0 THEN u.input ELSE usage.prompt,
   completion |-> IF u.output # 0 THEN u.output ELSE usage.completion,
   cached     |-> IF u.read # None THEN u.read ELSE usage.cached,
   written    |-> IF u.write # None THEN u.write ELSE usage.written]

MessageStart ==
  /\ gen = "running" /\ phase = "asked"
  /\ phase' = "open"
  /\ \E u \in Usages : reported' = u /\ usage' = Merged(u)
  /\ UNCHANGED <<conv, body, spoken, blocks, gen, tools, out, collected, ledger, closed>>

\* content_block_start: a text block is framing, a tool_use block a header.
BlockStart ==
  /\ gen = "running" /\ phase = "open" /\ Len(blocks) < MaxBlocks
  /\ phase' = "block"
  /\ \E type \in {"text", "tool_use"} :
       LET id == <<Len(conv), Len(blocks)>> IN
       /\ blocks' = Append(blocks, [id |-> id, type |-> type, n |-> 0])
       /\ IF type = "tool_use"
          THEN Yields([kind |-> "header", index |-> tools, id |-> id]) /\ tools' = tools + 1
          ELSE UNCHANGED <<out, tools>>
  /\ UNCHANGED <<conv, body, spoken, reported, gen, usage, collected, ledger, closed>>

ArgumentIndexOfBlock == Len(blocks) - 1   \* the provider's index, which counts texts
ArgumentIndex == IF tools > 0 THEN tools - 1 ELSE 0

BlockDelta ==
  LET b     == Last(blocks)
      piece == [id |-> b.id, n |-> b.n + 1]
  IN
  /\ gen = "running" /\ phase = "block" /\ b.n < Pieces
  /\ blocks' = [blocks EXCEPT ![Len(blocks)].n = @ + 1]
  /\ IF b.type = "tool_use"
     THEN Yields([kind |-> "arguments", index |-> ArgumentIndex, piece |-> piece])
          /\ UNCHANGED collected
     ELSE Yields([kind |-> "text", piece |-> piece])
          /\ collected' = Append(collected, piece)
  /\ UNCHANGED <<conv, body, spoken, phase, reported, gen, tools, usage, ledger, closed>>

BlockStop ==
  /\ gen = "running" /\ phase = "block" /\ Last(blocks).n = Pieces
  /\ phase' = "open"
  /\ UNCHANGED <<conv, body, spoken, blocks, reported, gen, tools, usage, out, collected,
                 ledger, closed>>

MessageDelta ==
  /\ gen = "running" /\ phase = "open" /\ blocks # <<>>
  /\ phase' = "closing"
  /\ \E n \in Outputs :
       /\ reported' = [reported EXCEPT !.output = IF n # 0 THEN n ELSE @]
       /\ usage' = Merged([input |-> 0, output |-> n, read |-> None, write |-> None])
  /\ UNCHANGED <<conv, body, spoken, blocks, gen, tools, out, collected, ledger, closed>>

Final == [kind |-> "final", prompt |-> usage.prompt, completion |-> usage.completion,
          cached |-> usage.cached]
Done  == [kind |-> "done"]
DoneSent == Contains(out, Done)

\* A second message_stop changes nothing.
MessageStop ==
  /\ gen = "running" /\ phase \in {"closing", "stopped"}
  /\ phase' = "stopped"
  /\ out' = IF DoneSent THEN out ELSE out \o <<Final, Done>>
  /\ UNCHANGED <<conv, body, spoken, blocks, reported, gen, tools, usage, collected, ledger,
                 closed>>

\* A text delta behind message_stop is yielded and collected like any other;
\* here a stream has at most one.
Stray == [kind |-> "text", piece |-> [id |-> <<Len(conv), MaxBlocks>>, n |-> 1]]
StrayDelta ==
  /\ gen = "running" /\ phase = "stopped"
  /\ ~Contains(out, Stray)
  /\ Yields(Stray)
  /\ collected' = Append(collected, Stray.piece)
  /\ UNCHANGED <<conv, body, spoken, phase, blocks, reported, gen, tools, usage, ledger, closed>>

\* An error event, of which a stream has at most one here; whatever phase it
\* comes in, the provider may go on.
ErrorEvent ==
  /\ gen = "running"
  /\ \A i \in DOMAIN out : out[i].kind # "error"
  /\ Yields([kind |-> "error"])
  /\ UNCHANGED <<conv, body, spoken, phase, blocks, reported, gen, tools, usage, collected,
                 ledger, closed>>

\* A line that is not JSON, of which a stream has at most one here.
MalformedLine ==
  /\ gen = "running"
  /\ \A i \in DOMAIN out : out[i].kind # "comment"
  /\ Yields([kind |-> "comment"])
  /\ UNCHANGED <<conv, body, spoken, phase, blocks, reported, gen, tools, usage, collected,
                 ledger, closed>>

\* The finally clause.
Finally(how) ==
  /\ gen' = how
  /\ closed' = TRUE
  /\ ledger' = Append(ledger, [text |-> collected, read |-> usage.cached,
                               write |-> usage.written])
  /\ UNCHANGED <<conv, body, spoken, phase, blocks, reported, tools, usage, collected>>

\* The lines are over, whether or not message_stop was among them.
EndsAgain ==   \* done_sent is not looked at
  /\ gen = "running"
  /\ Yields(Done)
  /\ Finally("over")
Ends ==
  /\ gen = "running"
  /\ IF DoneSent THEN UNCHANGED out ELSE Yields(Done)
  /\ Finally("over")

\* The connection breaks, a line holds JSON that is no object, or the client
\* leaves: the generator ends where it is.
Breaks ==
  /\ gen = "running"
  /\ UNCHANGED out
  /\ Finally("broken")

\* The client leaves before the first iteration: no code of it ever runs.
LeavesEarly ==
  /\ gen = "created"
  /\ gen' = "dropped"
  /\ UNCHANGED <<conv, body, spoken, phase, blocks, reported, tools, usage, out, collected,
                 ledger, closed>>

-----------------------------------------------------------------------------
\* The client: chunks are put together by their index, up to [DONE]; of what
\* may come behind it here only text would matter.

Texts(chunks) == FlattenSeq([i \in DOMAIN chunks |->
                   IF chunks[i].kind = "text" THEN <<chunks[i].piece>> ELSE <<>>])
UpToDone == SubSeq(out, 1, CHOOSE i \in DOMAIN out : out[i] = Done)
Names(index) == FlattenSeq([i \in DOMAIN out |->
  IF out[i].kind = "header" /\ out[i].index = index THEN <<out[i].id>> ELSE <<>>])
Arguments(index) == FlattenSeq([i \in DOMAIN out |->
  IF out[i].kind = "arguments" /\ out[i].index = index THEN <<out[i].piece>> ELSE <<>>])

CallsReceived ==
  [k \in 1 .. Cardinality({i \in DOMAIN out : out[i].kind = "header"}) |->
    [id |-> Names(k - 1)[1], args |-> Arguments(k - 1)]]

\* The assistant's message, and a result for every call or the user's answer.
Turn(text, calls) ==
  <<[Message("assistant", text) EXCEPT !.calls = calls]>> \o
  IF calls = <<>> THEN <<Message("user", <<>>)>>
  ELSE [i \in DOMAIN calls |-> [Message("tool", <<>>) EXCEPT !.answers = calls[i].id]]

Used(bs) == FlattenSeq([i \in DOMAIN bs |->
              IF bs[i].type = "tool_use" THEN <<bs[i]>> ELSE <<>>])
ToolUses(bs) ==
  [i \in DOMAIN Used(bs) |-> [id |-> Used(bs)[i].id, whole |-> Used(bs)[i].n = Pieces]]

\* A stream that ended with [DONE] is taken into the conversation.
Takes ==
  /\ gen \in {"over", "broken"} /\ DoneSent
  /\ conv' = conv \o Turn(Texts(UpToDone), CallsReceived)
  /\ spoken' = spoken \o ToolUses(blocks)
  /\ Fresh("none")
  /\ UNCHANGED body

\* _normalize_to_openai
WholeCalls(bs) ==
  [i \in DOMAIN Used(bs) |-> [id |-> Used(bs)[i].id, args |-> AllPieces(Used(bs)[i].id)]]

WholeText(bs) == FlattenSeq([i \in DOMAIN bs |->
                   IF bs[i].type = "text" THEN AllPieces(bs[i].id) ELSE <<>>])

\* A request without streaming, and its answer.
AsksWhole ==
  /\ gen \notin {"created", "running"}
  /\ Cardinality({i \in DOMAIN conv : conv[i].role = "assistant"}) < MaxTurns
  /\ \E size \in 1 .. MaxBlocks : \E types \in [1 .. size -> {"text", "tool_use"}] :
       LET bs == [i \in 1 .. size |-> [id |-> <<Len(conv), i - 1>>, type |-> types[i],
                                       n |-> Pieces]]
       IN /\ conv' = conv \o Turn(WholeText(bs), WholeCalls(bs))
          /\ spoken' = spoken \o ToolUses(bs)
  /\ body' = Translated(conv)
  /\ Fresh("none")

Next ==
  \/ Asks \/ AsksWhole \/ Starts \/ LeavesEarly \/ Takes
  \/ MessageStart \/ BlockStart \/ BlockDelta \/ BlockStop \/ MessageDelta \/ MessageStop
  \/ StrayDelta \/ ErrorEvent \/ MalformedLine \/ Ends \/ Breaks

Spec == Init /\ [][Next]_vars

-----------------------------------------------------------------------------
(* Properties *)

\* The calls a provider made come back to it in the next request: every
\* tool_use block of every turn, in order and under its id, with the arguments
\* it streamed or, when its stream ended too early, with none; and every
\* tool_result names a tool_use before it.  This runs through the chunk
\* translation, the client's reassembly and the request translation.
ToolsRoundTrip ==
  gen # "none" =>
    /\ FlattenSeq([i \in DOMAIN body.messages |-> body.messages[i].uses])
         = [i \in DOMAIN spoken |->
             [id |-> spoken[i].id, input |-> IF spoken[i].whole THEN spoken[i].id ELSE None]]
    /\ \A i \in DOMAIN body.messages : body.messages[i].result # None =>
         \E j \in 1 .. i - 1 : \E k \in DOMAIN body.messages[j].uses :
           body.messages[j].uses[k].id = body.messages[i].result

\* The loop of main.py:1428-1519 reads on after message_stop and errors.  Yet a
\* stream that was read to its end has [DONE], and no stream has it twice; what
\* comes behind it is a comment, an error or the text that the provider sent
\* behind its own message_stop, never a call, a block's text or a second final
\* chunk; and where no message_stop came it is the very last chunk.
EndsOnce ==
  /\ gen = "over" => DoneSent
  /\ \A i \in DOMAIN out : out[i] = Done =>
       /\ \A j \in i + 1 .. Len(out) : out[j].kind \in {"comment", "error"} \/ out[j] = Stray
       /\ phase # "stopped" => i = Len(out)

\* However a stream that was started ends, by itself, behind an error, by a
\* break or the client leaving, the upstream response is closed and one ledger
\* row says the text that was yielded, before [DONE] and behind it, and the cache
\* tokens the provider reported; and the final chunk carries the usage of both of
\* the provider's reports.
StreamsAreAccounted ==
  /\ gen \in {"over", "broken"} =>
       /\ closed
       /\ Len(ledger) = 1
       /\ ledger[1].text = Texts(out)
       /\ reported # None => /\ ledger[1].read = reported.read
                             /\ ledger[1].write = reported.write
  /\ \A i \in DOMAIN out : out[i].kind = "final" =>
       /\ out[i].prompt = reported.input
       /\ out[i].completion = reported.output
       /\ out[i].cached = reported.read
=============================================================================
