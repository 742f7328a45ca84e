---------------------------- MODULE RequestRewrite ----------------------------
(***************************************************************************)
(* What chat_completions does to a request before it forwards it: schema   *)
(* minification and tool-result optimization with their caches, the        *)
(* continuation store, the tool-protocol gate and the classifier, the      *)
(* codebase optimizer, L1 cleaning, compression and the conciseness        *)
(* instruction.  A client sends its whole conversation again each turn.    *)
(* The handler does not await on this path, so a request is one step.      *)
(*                                                                         *)
(* A content is its kind, its tokens and the transforms it went through;   *)
(* contents of one kind are the same text.                                 *)
(***************************************************************************)
EXTENDS ToolResultLimit, SequencesExt

CONSTANTS
  Messages,            \* what may be said
  MayFollow(_, _),     \* whether a message may come after a conversation
  MaxMessages,         \* bound on a conversation
  NoTools,             \* arrays of tool schemas are [id, bytes, spare]
  FlagSets,            \* the runtime flags that are on
  Requests,            \* the rest of a request: [tools, choice, header, full,
                       \* working], with header: [concise, pin]
  Trusted,             \* whether the caller has a tenant and a session
  MaxTokens,           \* tool_result_max_tokens
  MaxSaved,            \* v21_tocp_max_entries
  MaxSchemas, MaxSchemaBytes, MaxResults,   \* limits of the caches
  CompressionEnabled, CalibrationGreen, AllowDosePin,
  NotSent

Roles == {"system", "user", "assistant", "tool"}

\* A text as somebody said it: no transform has touched it.
Text == [kind : STRING, tokens : Nat, form : {<<>>}, id : {0}]

Message == [role : Roles, calls : BOOLEAN, args : STRING, type : STRING, content : Text]

ToolArray == [id : STRING, bytes : Nat, spare : Nat]

ListKinds     == {"parts", "jsonparts"}  \* a list of text parts, no string
JsonKinds     == {"json", "object", "jsonparts"}  \* whole blocks of spacious JSON
ImportKinds   == {"imports", "includes"} \* code with one import line, several times
CodeKinds     == {"code"} \cup ImportKinds
ProseKinds    == {"essay", "question"}
LongKinds     == ProseKinds \cup CodeKinds \cup {"json"}  \* should_inject_conciseness
CriticalKinds == {"policy"}              \* with a source block
CitingKinds   == {"question"}            \* asks for what the sources say

ASSUME LimitsArePositive ==
  /\ MaxTokens \in Nat /\ MaxSchemas \in Nat \ {0} /\ MaxSchemaBytes \in Nat \ {0}
  /\ MaxResults \in Nat

\* A form names the result type that a text was filtered for.
ASSUME MessagesAreSaid ==
  \A m \in Messages : m \in Message /\ m.type # "continued"

ASSUME SpareIsPartOfTools ==
  \A r \in Requests : r.tools \in ToolArray /\ r.tools.spare <= r.tools.bytes

\* The limit (at least 32, config.py:68) leaves room for every notice.
ASSUME NoticesFit ==
  \A m \in Messages : \A n \in 0 .. m.content.tokens : Notice(n) \in 0 .. MaxTokens

VARIABLES
  chat,        \* the conversation as the client has it
  flags,       \* runtime flags
  schemas,     \* SchemaCache._cache, oldest first: [key, value, bytes]
  schemaBytes, \* SchemaCache._cached_bytes
  results,     \* _RESULT_CACHE, oldest first: [key, value]
  saved,       \* continuation store: [id, content]
  sent         \* the last request forwarded, and how it was treated

vars == <<chat, flags, schemas, schemaBytes, results, saved, sent>>

Init ==
  /\ chat = <<>>
  /\ flags \in FlagSets
  /\ schemas = <<>> /\ schemaBytes = 0
  /\ results = <<>>
  /\ saved = {}
  /\ sent = NotSent

-----------------------------------------------------------------------------
\* Ordered dictionaries.

HasKey(d, key)  == \E i \in DOMAIN d : d[i].key = key
Place(d, key)   == CHOOSE i \in DOMAIN d : d[i].key = key
Lookup(d, key)  == d[Place(d, key)]
Without(d, key) == IF HasKey(d, key) THEN RemoveAt(d, Place(d, key)) ELSE d
ToEnd(d, e)     == Append(Without(d, e.key), e)
Newest(d, n)    == SubSeq(d, Len(d) - Min({n, Len(d)}) + 1, Len(d))

-----------------------------------------------------------------------------
\* SchemaCache.get_or_compress

Minified(tools) == [tools EXCEPT !.bytes = @ - tools.spare, !.spare = 0]

BytesOf(d) ==
  LET sum[n \in 0 .. Len(d)] == IF n = 0 THEN 0 ELSE sum[n - 1] + d[n].bytes
  IN sum[Len(d)]

\* The oldest entries leave until there is a place and enough bytes.
EvictedToMany(bytes) ==   \* entries are counted, bytes are not
  Min({k \in 0 .. Len(schemas) : k = Len(schemas) \/ Len(schemas) - k < MaxSchemas})
Evicted(bytes) ==
  Min({k \in 0 .. Len(schemas) :
    \/ k = Len(schemas)
    \/ /\ Len(schemas) - k < MaxSchemas
       /\ schemaBytes - BytesOf(SubSeq(schemas, 1, k)) + bytes <= MaxSchemaBytes})

FingerprintByName(tools) == tools.id   \* names without parameters
Fingerprint(tools) == tools

SchemaInserted(tools) ==
  LET bytes == Minified(tools).bytes
      k     == Evicted(bytes)
  IN /\ schemas' = Append(SubSeq(schemas, k + 1, Len(schemas)),
                          [key |-> Fingerprint(tools), value |-> Minified(tools), bytes |-> bytes])
     /\ schemaBytes' = schemaBytes - BytesOf(SubSeq(schemas, 1, k)) + bytes

\* An array that has nothing to spare, or that is too large, is not kept.
Minify(tools) ==
  IF tools = NoTools \/ "schema_minify" \notin flags
    THEN UNCHANGED <<schemas, schemaBytes>>
  ELSE IF "schema_cache" \in flags /\ HasKey(schemas, Fingerprint(tools))
    THEN schemas' = ToEnd(schemas, Lookup(schemas, Fingerprint(tools))) /\ UNCHANGED schemaBytes
  ELSE IF "schema_cache" \in flags /\ tools.spare > 0 /\ Minified(tools).bytes <= MaxSchemaBytes
    THEN SchemaInserted(tools)
  ELSE UNCHANGED <<schemas, schemaBytes>>

ToolsSent(tools, cached) ==
  IF "schema_minify" \notin flags \/ tools = NoTools THEN tools
  ELSE IF "schema_cache" \in flags /\ HasKey(cached, Fingerprint(tools))
    THEN Lookup(cached, Fingerprint(tools)).value
  ELSE Minified(tools)

-----------------------------------------------------------------------------
\* optimize_tool_result

Did(c, step, tokens) == [c EXCEPT !.form = Append(@, step), !.tokens = tokens]

\* filter_result_by_type: the lines of a noisy text that go depend on the type.
FilterByType(c, type) ==
  IF c.kind = "noisy" /\ type # "unknown" THEN Did(c, type, c.tokens - 1) ELSE c

LimitedBesidesNotice(c) ==   \* the notice comes on top
  IF c.tokens <= MaxTokens THEN c
  ELSE Did(c, "cut", MaxTokens + Notice(c.tokens - MaxTokens))
Limited(c) ==
  IF c.tokens <= MaxTokens THEN c
  ELSE Did(c, "cut", Truncated(c.tokens, MaxTokens, c.kind \in JsonKinds))

ResultKeyUntyped(m) == [args |-> m.args, content |-> m.content]
ResultKey(m) == [args |-> m.args, content |-> m.content, type |-> m.type]

\* Lookup and insertion, both under the lock; acc is what was done so far.
OptimizeResult(acc, m) ==
  LET key   == ResultKey(m)
      value == IF HasKey(acc.results, key) THEN Lookup(acc.results, key).value
               ELSE Limited(FilterByType(m.content, m.type))
  IN [out     |-> Append(acc.out, [m EXCEPT !.content = value]),
      results |-> Newest(ToEnd(acc.results, [key |-> key, value |-> value]), MaxResults),
      saved   |-> acc.saved]

\* build_continuation_result, and what is left of the content; the id is one
\* that no content in the store has.
FreshId(store) == Min({n \in 1 .. Cardinality(store) + 1 : \A c \in store : c.id # n})

Continue(acc, m) ==
  LET id == FreshId(acc.saved) IN
  [out     |-> Append(acc.out, [m EXCEPT !.content = [Did(@, "continued", 0) EXCEPT !.id = id]]),
   results |-> acc.results,
   saved   |-> acc.saved \cup {[id |-> id, content |-> m.content]}]

\* A full store falls back to truncation.
Continues(acc, m, full) ==
  /\ Trusted /\ ~full
  /\ m.content.tokens > MaxTokens
  /\ Cardinality(acc.saved) < MaxSaved

\* A result that is a list of parts passes as it came.
StringResult(m) == m.role = "tool" /\ m.content.kind \notin ListKinds

OptimizeMessage(acc, m, full) ==
  IF ~StringResult(m)
    THEN [out |-> Append(acc.out, m), results |-> acc.results, saved |-> acc.saved]
  ELSE IF Continues(acc, m, full) THEN Continue(acc, m)
  ELSE OptimizeResult(acc, m)

OptimizeWith(messages, full, cached) ==
  LET done[n \in 0 .. Len(messages)] ==
        IF n = 0 THEN [out |-> <<>>, results |-> cached, saved |-> saved]
        ELSE OptimizeMessage(done[n - 1], messages[n], full)
  IN done[Len(messages)]

Optimized(messages, full, cached) ==
  IF "tool_results" \in flags THEN OptimizeWith(messages, full, cached)
  ELSE [out |-> messages, results |-> cached, saved |-> saved]

-----------------------------------------------------------------------------
\* Gates: has_tool_calling_state, classify.

IsProtocol(m) == m.role = "tool" \/ m.calls

Calling(messages, request) ==   \* choice: the body has a tool_choice
  \/ request.tools # NoTools \/ request.choice
  \/ \E i \in DOMAIN messages : IsProtocol(messages[i])

LooksLikeCode(c) == c.kind \in CodeKinds \cup JsonKinds

Classify(messages) ==
  IF \E i \in DOMAIN messages : LooksLikeCode(messages[i].content)
  THEN "passthrough" ELSE "compress"

RouteOf(messages, calling) ==
  IF ~calling /\ (CompressionEnabled \/ "l1" \in flags) THEN Classify(messages)
  ELSE "passthrough"

-----------------------------------------------------------------------------
\* optimize_codebase_content: file bodies and shell output by themselves, and
\* each import line by its own number in all messages.

Trimmed(c) == IF c.kind \in CodeKinds THEN Did(c, "trimmed", c.tokens - 1) ELSE c

\* How often the line of a kind stands in one of its texts.
Occurrences(kind) == IF kind = "includes" THEN 4 ELSE 2

Importing(messages, kind) == {i \in DOMAIN messages : messages[i].content.kind = kind}

Repeated(messages) ==
  {kind \in ImportKinds : Occurrences(kind) * Cardinality(Importing(messages, kind)) > 3}

Deduplicated(messages, i) ==
  LET c == messages[i].content IN
  IF c.kind \in Repeated(messages)
  THEN Did(c, IF i = Min(Importing(messages, c.kind)) THEN "first" ELSE "dup", c.tokens - 1)
  ELSE c

OptimizeCodebase(messages, calling) ==
  IF calling THEN messages
  ELSE [i \in DOMAIN messages |->
         [messages[i] EXCEPT !.content = Trimmed(Deduplicated(messages, i))]]

-----------------------------------------------------------------------------
\* l1_clean.clean_messages

Compacted(m) ==
  IF m.content.kind \in JsonKinds /\ m.content.form = <<>>
  THEN [m EXCEPT !.content = Did(m.content, "compact", m.content.tokens - 1)] ELSE m

\* An empty system block, or one that repeats the block before it: the raw
\* content is compared with a content that is clean already.
Dropped(out, m) ==
  /\ m.role = "system" /\ m.content.kind \notin ListKinds
  /\ \/ m.content.kind = "blank"
     \/ /\ out # <<>>
        /\ Last(out).role = "system"
        /\ Last(out).content = m.content

CleanOne(out, m, calling, on) ==   \* on: the runtime flags
  IF m.role = "tool" /\ ~m.calls
    THEN Append(out, IF "tool_clean" \in on THEN Compacted(m) ELSE m)
  ELSE IF m.calls THEN Append(out, m)
  ELSE IF calling THEN Append(out, IF m.role = "system" THEN Compacted(m) ELSE m)
  ELSE IF Dropped(out, m) THEN out
  ELSE Append(out, Compacted(m))

CleanMessages(messages, calling, on) ==
  LET out[n \in 0 .. Len(messages)] ==
        IF n = 0 THEN <<>> ELSE CleanOne(out[n - 1], messages[n], calling, on)
  IN out[Len(messages)]

CleanedButLast(messages, calling, on) ==   \* the newest message is left alone
  IF "l1" \in on /\ messages # <<>>
  THEN Append(CleanMessages(Front(messages), calling, on), Last(messages)) ELSE messages
Cleaned(messages, calling, on) ==
  IF "l1" \in on THEN CleanMessages(messages, calling, on) ELSE messages

-----------------------------------------------------------------------------
\* Compression and the conciseness instruction of the compress route.

\* compress_messages: the compressor may fail, and the text stays as it is.
Compressed(messages, working) ==
  [i \in DOMAIN messages |->
    IF messages[i].role # "system" /\ messages[i].content.kind \in ProseKinds /\ working
    THEN [messages[i] EXCEPT !.content = Did(@, "lossy", @.tokens - 1)] ELSE messages[i]]

\* select_dose_tier, after grounded_answer_risk.
Scanned(messages) ==
  {messages[i].content.kind : i \in {j \in DOMAIN messages :
                                       messages[j].role \in {"system", "user"}}}

DoseTier(messages) ==
  IF Scanned(messages) \cap CriticalKinds # {}
    THEN IF CalibrationGreen THEN "bounded" ELSE "none"
  ELSE IF Scanned(messages) \cap CitingKinds # {} THEN "bounded"
  ELSE "full"

LastUser(messages) == SelectLastInSeq(messages, LAMBDA m : m.role = "user")

ShouldInject(messages) ==
  LastUser(messages) # 0 /\ messages[LastUser(messages)].content.kind \in LongKinds

Concise(header) ==
  \/ header.concise = "on"
  \/ header.concise = "absent" /\ "concise" \in flags

PinnedTier(messages, header) ==
  IF AllowDosePin /\ header.pin # "absent" THEN header.pin ELSE DoseTier(messages)

Instruction(messages, route, header) ==
  IF route = "compress" /\ Concise(header) /\ ShouldInject(messages)
  THEN PinnedTier(messages, header) ELSE "none"

\* inject_conciseness: into the first system message, or before all others.
Injected(messages, tier) ==
  IF tier = "none" THEN messages
  ELSE IF messages # <<>> /\ messages[1].role = "system"
    THEN [messages EXCEPT ![1].content = Did(@, tier, @.tokens + 1)]
  ELSE <<[role |-> "system", calls |-> FALSE, args |-> "", type |-> "unknown",
          content |-> [kind |-> "instruction", tokens |-> 1, form |-> <<tier>>, id |-> 0]]>>
       \o messages

-----------------------------------------------------------------------------
\* The body that is forwarded, given the outcome of the tool-result stage.

Body(messages, cached, request) ==
  LET calling == Calling(messages, request)
      route   == RouteOf(messages, calling)
      clean   == Cleaned(OptimizeCodebase(messages, calling), calling, flags)
      tier    == Instruction(clean, route, request.header)
  IN [messages |-> IF route = "compress"
                   THEN Injected(Compressed(clean, request.working), tier) ELSE clean,
      tools    |-> ToolsSent(request.tools, cached),
      request  |-> request,
      treated  |-> [flags |-> flags, calling |-> calling, route |-> route, tier |-> tier,
                    working |-> request.working,
                    repeated |-> IF calling THEN {} ELSE Repeated(messages)]]

Says(m) ==
  /\ Len(chat) < MaxMessages
  /\ MayFollow(chat, m)
  /\ chat' = Append(chat, m)
  /\ UNCHANGED <<flags, schemas, schemaBytes, results, saved, sent>>

\* Another conversation begins.
Starts ==
  /\ chat # <<>>
  /\ chat' = <<>> /\ sent' = NotSent
  /\ UNCHANGED <<flags, schemas, schemaBytes, results, saved>>

\* request.full is full_output, request.working the compressor's state.
Sends(request) ==
  LET stage == Optimized(chat, request.full, results) IN
  /\ chat # <<>>
  /\ Minify(request.tools)
  /\ results' = stage.results
  /\ saved' = stage.saved
  /\ sent' = Body(stage.out, schemas, request)
  /\ UNCHANGED <<chat, flags>>

\* A runtime override is written or removed.
Flips ==
  /\ flags' \in FlagSets \ {flags}
  /\ UNCHANGED <<chat, schemas, schemaBytes, results, saved, sent>>

Restarts ==
  /\ schemas' = <<>> /\ schemaBytes' = 0
  /\ results' = <<>>
  /\ saved' = {}
  /\ UNCHANGED <<chat, flags, sent>>

\* The lifetime of the continuations has passed.
Expires ==
  /\ saved' = {}
  /\ UNCHANGED <<chat, flags, schemas, schemaBytes, results, sent>>

Next ==
  \/ \E m \in Messages : Says(m)
  \/ \E request \in Requests : Sends(request)
  \/ Starts \/ Flips \/ Restarts \/ Expires

Spec == Init /\ [][Next]_vars

-----------------------------------------------------------------------------
(* Properties *)

\* Two requests that get the same treatment, down to which import lines are
\* repeated, and have no tool result in the continuation store (each save draws
\* a fresh id, which the model sees).
SameTreatment(a, b) ==
  /\ a.treated = b.treated
  /\ \A body \in {a, b} : \A i \in DOMAIN body.messages :
       ~Contains(body.messages[i].content.form, "continued")

\* The provider's prompt cache works on prefixes: what was forwarded for a
\* conversation is a prefix of what is forwarded when the conversation has
\* grown and the same treatment is chosen, so a later message rewrites an
\* earlier one through the treatment only: the route, the dose tier, or an
\* import line that now stands more than three times
\* (main.py:870-880, l1_clean.clean_messages, codebase_optimizer.py:237-250).
PrefixSurvives ==
  [][NotSent \notin {sent, sent'} /\ SameTreatment(sent, sent')
       => IsPrefix(sent.messages, sent'.messages)]_sent

\* The result cache and the schema cache never change what is forwarded: it is
\* what the same request would send with both caches empty, whatever was
\* cached, evicted or computed under other flags before.
CachesAreTransparent ==
  [][sent' \notin {sent, NotSent} =>
       sent' = Body(Optimized(chat, sent'.request.full, <<>>).out, <<>>, sent'.request)]_sent

\* The schema cache's byte counter is the sum of its entries and never over
\* its limit, both caches respect their number of entries, and no key is
\* stored twice, after any sequence of insertions, hits and evictions.
CacheAccountsAddUp ==
  /\ schemaBytes = BytesOf(schemas)
  /\ schemaBytes <= MaxSchemaBytes
  /\ Len(schemas) <= MaxSchemas
  /\ Len(results) <= MaxResults
  /\ \A d \in {schemas, results} : \A i, j \in DOMAIN d : d[i].key = d[j].key => i = j

\* With tool-result optimization on, a tool result that is a string is forwarded
\* within the token limit, or as a preview whose id leads to the whole content of
\* that very result in the continuation store and to nothing else, also when the
\* store is full or the message is sent again.  A list of parts has no limit: it
\* passes (tool_result_optimizer.py:293), no longer than it came and no preview.
ResultsBoundedOrRetrievable ==
  [][sent' \notin {sent, NotSent} => \A i \in DOMAIN sent'.messages :
       LET m == sent'.messages[i] IN
       "tool_results" \in flags /\ m.role = "tool" =>
         \/ m.content.tokens <= MaxTokens /\ ~Contains(m.content.form, "continued")
         \/ \E c \in saved' :
              /\ {d \in saved' : d.id = m.content.id} = {c}
              /\ chat[i].role = "tool" /\ chat[i].content = c.content
         \/ /\ chat[i].role = "tool" /\ chat[i].content.kind \in ListKinds
            /\ m.content.tokens <= chat[i].content.tokens
            /\ ~Contains(m.content.form, "continued")]_sent

\* l1_clean.py:26 and l1-taxonomy.md:83: cleaning a cleaned conversation
\* changes nothing.
CleanIsIdempotent ==
  \A calling \in BOOLEAN :
    LET once == CleanMessages(chat, calling, flags)
    IN CleanMessages(once, calling, flags) = once
=============================================================================
