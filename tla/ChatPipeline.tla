---------------------------- MODULE ChatPipeline ----------------------------
(***************************************************************************)
(* The request path of proxy/main.py: chat_completions and _relay.  The    *)
(* proxy is one asyncio process, so the code between two awaits is one     *)
(* action and requests interleave only at the awaits: the embedding call,  *)
(* the upstream call, reading a rejected body, the retry, reading the      *)
(* answer and streaming it.  What requests share is the set of models that *)
(* were seen to insist on reasoning, the exact-prefix index, the semantic  *)
(* store (both in PostgreSQL, each call one transaction) and the runtime   *)
(* override of the semantic cache.                                         *)
(*                                                                         *)
(* Token counts are abstracted to which parts of the request they count,   *)
(* a response body to its kind, a prompt to its exact prefix and its       *)
(* meaning; compression, conciseness and L1 rewrite the body without       *)
(* touching the control modelled here.                                     *)
(***************************************************************************)
EXTENDS Naturals, Sequences

CONSTANTS
  Requests,            \* handler invocations
  Inputs,              \* the requests that clients send
  Models,
  Prompts,
  Prefix,              \* Prefix[p]: all messages of p but the last
  Near(_, _),          \* whether two prompts are within the calibrated distance
  Provider,            \* Provider[m]: name of the adapter, or NoProvider
  NoProvider,
  Mandatory,           \* models whose upstream refuses the injected control
  ProviderRouting,     \* settings.provider_routing
  CacheEnabled,        \* settings.cache_enabled
  SemanticConfigured,  \* settings.semantic_cache_max_cosine_distance is set
  DisableReasoning,    \* settings.disable_reasoning_by_default
  Outcomes,            \* what upstreams answer to a request they accept
  NoInput

Input == [json : BOOLEAN,        \* the body is a JSON object
          model : Models, prompt : Prompts,
          stream : BOOLEAN,
          ownControl : BOOLEAN,  \* carries reasoning or thinking_level itself
          tools : BOOLEAN]       \* carries tool definitions

ASSUME InputsAreInputs == Inputs \subseteq Input /\ NoInput \notin Input
ASSUME ProvidersOfModels == /\ DOMAIN Provider = Models
                            /\ DOMAIN Prefix = Prompts
                            /\ Mandatory \subseteq Models
ASSUME SwitchesAreBoolean ==
  {ProviderRouting, CacheEnabled, SemanticConfigured, DisableReasoning}
    \subseteq BOOLEAN

Bodies == {"json",         \* JSON whose "error", if any, is an object with a text
           "mandatory",    \* the error that names reasoning as mandatory
           "odd",          \* JSON that the code takes for an object and is none,
                           \* be it the body, its "error" or its "usage"
           "html",         \* not JSON, or the null of a 200
           "undecodable"}  \* not even UTF-8

ASSUME OutcomesAreResponses ==
  Outcomes \subseteq [status : {200, 400, 500}, body : Bodies \ {"mandatory"}]

VARIABLES
  pc,         \* the await each request is suspended in
  input,      \* what the client sent
  snapshot,   \* runtime_flags["semantic_cache_enabled"] of the request
  lookup,     \* history: what became of the cache lookups of the request
  label,      \* cache_status
  armed,      \* semantic scope, embedding and prompt hash are all set
  sent,       \* upstream calls so far: was the injected control in the body?
  evidence,   \* value of the x-token-saver-reasoning header to be
  counted,    \* the parts of the forwarded body that in_after counts
  resp,       \* status and body kind of the last upstream response
  ledger,     \* _log calls so far, with whether the row was written
  answer,     \* what the client saw
  mandatory,  \* _reasoning_mandatory_models
  index,      \* live rows of cache_entries
  replies,    \* live rows of the semantic cache, and whose answer each holds
  override    \* the runtime override of semantic_cache_enabled

shared == <<mandatory, index, replies, override>>
vars == <<pc, input, snapshot, lookup, label, armed, sent, evidence, counted, resp,
          ledger, answer, shared>>

Phases == {"idle", "embedding", "forwarding", "rejected", "retrying",
           "passing", "buffering", "opening", "streaming", "left", "done"}
NoResp == [status |-> 0, body |-> "none"]
Replay(r) == [status |-> 200, shape |-> "replay", evidence |-> "none", from |-> r]
NoAnswer == [status |-> 0, shape |-> "none", evidence |-> "none"]

Init ==
  /\ pc = [r \in Requests |-> "idle"]
  /\ input = [r \in Requests |-> NoInput]
  /\ snapshot = [r \in Requests |-> FALSE]
  /\ lookup = [r \in Requests |-> "none"]
  /\ label = [r \in Requests |-> "miss"]
  /\ armed = [r \in Requests |-> FALSE]
  /\ sent = [r \in Requests |-> <<>>]
  /\ evidence = [r \in Requests |-> "none"]
  /\ counted = [r \in Requests |-> {}]
  /\ resp = [r \in Requests |-> NoResp]
  /\ ledger = [r \in Requests |-> <<>>]
  /\ answer = [r \in Requests |-> NoAnswer]
  /\ mandatory = {}
  /\ index = {}
  /\ replies = {}
  /\ override \in BOOLEAN

-----------------------------------------------------------------------------
\* What the steps share.

\* Providers that the 400 handling trusts to be a reasoning rejection.
Served(m) == IF ProviderRouting THEN Provider[m] ELSE "legacy"
Retryable(m) == Served(m) \in {"openrouter", "openai", "legacy"}
Unroutable(m) == ProviderRouting /\ Provider[m] = NoProvider

\* _log: the row is written, or the failure is counted and swallowed.
Log(r, status, cache, parts) ==
  \E written \in BOOLEAN :
    ledger' = [ledger EXCEPT ![r] = Append(@,
      [status |-> status, cache |-> cache, parts |-> parts, written |-> written])]

Answered(r, status, shape, note) ==
  /\ pc' = [pc EXCEPT ![r] = "done"]
  /\ answer' = [answer EXCEPT ![r] =
       [status |-> status, shape |-> shape, evidence |-> note]]

\* An exception nobody catches: the server answers a bare 500.
Crash(r) ==
  /\ Answered(r, 500, "crash", "none")
  /\ UNCHANGED <<input, snapshot, lookup, label, armed, sent, evidence, counted, resp,
                 ledger, shared>>

IndexKey(q) == <<q.model, Prefix[q.prompt]>>
ScopeWithoutParameters(q) == <<q.model, FALSE>>
SemanticScope(q) == <<q.model, q.tools>>
Parts(q) == {"messages"} \cup (IF q.tools THEN {"tools"} ELSE {})

-----------------------------------------------------------------------------
\* From the cache lookups to the upstream call, with no await in between.

InjectsKnown(q) ==      \* forgets the models that refused before
  /\ DisableReasoning
  /\ ~q.ownControl
  /\ ~(ProviderRouting /\ Provider[q.model] = "google")
Injects(q) ==
  /\ DisableReasoning
  /\ ~q.ownControl
  /\ q.model \notin mandatory
  /\ ~(ProviderRouting /\ Provider[q.model] = "google")

Dispatch(r, q, cache) ==
  /\ label' = [label EXCEPT ![r] = cache]
  /\ evidence' = [evidence EXCEPT ![r] = IF Injects(q) THEN "injected" ELSE "none"]
  /\ counted' = [counted EXCEPT ![r] = Parts(q)]
  /\ IF Unroutable(q.model)
     THEN /\ Log(r, 400, cache, Parts(q))      \* UnknownProviderError
          /\ Answered(r, 400, "envelope", "none")
          /\ UNCHANGED sent
     ELSE /\ pc' = [pc EXCEPT ![r] = "forwarding"]
          /\ sent' = [sent EXCEPT ![r] = Append(@, Injects(q))]
          /\ UNCHANGED <<ledger, answer>>

\* The exact-prefix index: a lookup that misses records the prefix, and the
\* body is only labelled, never answered.  A database that is down is a miss
\* of the lookup and records nothing.
Indexed(q) == CacheEnabled /\ ProviderRouting /\ Provider[q.model] # NoProvider
ExactHit(q, readable) == Indexed(q) /\ readable /\ IndexKey(q) \in index
Recorded(q, writable) ==
  IF Indexed(q) /\ writable THEN index \cup {IndexKey(q)} ELSE index

SeeksSemantic(q, hit) ==
  SemanticConfigured /\ override /\ ~q.stream /\ ~hit /\ ~Unroutable(q.model)

Receive(r) == \E q \in Inputs, readable, writable \in BOOLEAN :
  LET hit == ExactHit(q, readable) IN
  /\ pc[r] = "idle"
  /\ q.json
  /\ input' = [input EXCEPT ![r] = q]
  /\ snapshot' = [snapshot EXCEPT ![r] = override]
  /\ lookup' = [lookup EXCEPT ![r] = IF hit THEN "exact_hit" ELSE "none"]
  /\ index' = Recorded(q, writable)
  /\ \/ /\ SeeksSemantic(q, hit)
        /\ pc' = [pc EXCEPT ![r] = "embedding"]
        /\ UNCHANGED <<label, sent, evidence, counted, ledger, answer>>
     \/ /\ ~SeeksSemantic(q, hit)
        /\ Dispatch(r, q, IF hit THEN "exact_hit" ELSE "miss")
  /\ UNCHANGED <<armed, resp, mandatory, replies, override>>

\* acquire_embedding found no vector: an ordinary miss that stores nothing.
EmbeddingFails(r) ==
  /\ pc[r] = "embedding"
  /\ Dispatch(r, input[r], "miss")
  /\ UNCHANGED <<input, snapshot, lookup, armed, resp, shared>>

Compatible(q) == {e \in replies : e.scope = SemanticScope(q)}

\* The index is approximate: the row it finds is near enough, if not the
\* nearest.  A row that is odd is found as well and never replayed, since
\* count_output raises on it: SemanticUnavailable.
Replayable(q) ==
  {e \in Compatible(q) : Near(e.prompt, q.prompt) /\ resp[e.from].body = "json"}

SemanticHit(r) ==
  /\ pc[r] = "embedding"
  /\ Replayable(input[r]) # {}
  /\ label' = [label EXCEPT ![r] = "semantic_hit"]
  /\ Log(r, 200, "semantic_hit", Parts(input[r]))
  /\ pc' = [pc EXCEPT ![r] = "done"]
  /\ \E e \in Replayable(input[r]) :
       answer' = [answer EXCEPT ![r] = Replay(e.from)]
  /\ UNCHANGED <<input, snapshot, lookup, armed, sent, evidence, counted, resp, shared>>

\* The row that the lookup finds is too far away, or it finds none, which may
\* happen though a near row is there.
MissLabels(q) ==
  {"miss"} \cup {"semantic_threshold_miss" : e \in Compatible(q)}

SemanticMiss(r) ==
  /\ pc[r] = "embedding"
  /\ armed' = [armed EXCEPT ![r] = TRUE]
  /\ lookup' = [lookup EXCEPT ![r] = IF @ = "none" THEN "missed" ELSE @]
  /\ \E cache \in MissLabels(input[r]) : Dispatch(r, input[r], cache)
  /\ UNCHANGED <<input, snapshot, resp, shared>>

\* The lookup failed, or found a response that cannot be replayed: nothing is
\* stored later.
ArmedAfterFailure(r) ==      \* the scope is not reset
  /\ pc[r] = "embedding"
  /\ lookup' = [lookup EXCEPT ![r] = IF @ = "none" THEN "failed" ELSE @]
  /\ armed' = [armed EXCEPT ![r] = TRUE]
  /\ Dispatch(r, input[r], "miss")
  /\ UNCHANGED <<input, snapshot, resp, shared>>
SemanticUnavailable(r) ==
  /\ pc[r] = "embedding"
  /\ lookup' = [lookup EXCEPT ![r] = IF @ = "none" THEN "failed" ELSE @]
  /\ Dispatch(r, input[r], "miss")
  /\ UNCHANGED <<input, snapshot, armed, resp, shared>>

-----------------------------------------------------------------------------
\* The upstream answers, or does not.

\* What an upstream may answer: the refusal only to the injected control.
Refused(r) == sent[r] # <<>> /\ sent[r][Len(sent[r])] /\ input[r].model \in Mandatory
Responses(r) ==
  IF Refused(r)
  THEN {o \in Outcomes : o.status # 200} \cup {[status |-> 400, body |-> "mandatory"]}
  ELSE Outcomes

\* _relay begins: a streaming request is given its StreamingResponse at once,
\* with whatever status and body come, any other waits for the whole body.
Relay(r, res) ==
  /\ resp' = [resp EXCEPT ![r] = res]
  /\ IF input[r].stream
     THEN /\ pc' = [pc EXCEPT ![r] = "opening"]
          /\ answer' = [answer EXCEPT ![r] =
               [status |-> res.status, shape |-> "provider", evidence |-> evidence[r]]]
     ELSE pc' = [pc EXCEPT ![r] = "buffering"] /\ UNCHANGED answer

\* A 400 to an injected control is looked into before it is relayed.
LooksIntoBuffered(r, res) ==      \* overlooks streaming requests
  /\ evidence[r] = "injected" /\ res.status = 400 /\ Retryable(input[r].model)
  /\ ~input[r].stream
LooksInto(r, res) ==
  evidence[r] = "injected" /\ res.status = 400 /\ Retryable(input[r].model)

UpstreamAnswers(r) == \E res \in Responses(r) :
  /\ pc[r] = "forwarding"
  /\ \/ /\ LooksInto(r, res)
        /\ pc' = [pc EXCEPT ![r] = "rejected"]
        /\ resp' = [resp EXCEPT ![r] = res]
        /\ UNCHANGED answer
     \/ /\ ~LooksInto(r, res)
        /\ Relay(r, res)
  /\ UNCHANGED <<input, snapshot, lookup, label, armed, sent, evidence, counted,
                 ledger, shared>>

UpstreamUnreachable(r) == \E status \in {502, 504} :   \* ConnectError, timeout
  /\ pc[r] = "forwarding"
  /\ Log(r, status, label[r], counted[r])
  /\ Answered(r, status, "envelope", "none")
  /\ UNCHANGED <<input, snapshot, lookup, label, armed, sent, evidence, counted, resp,
                 shared>>

\* Any other transport error, such as a connection closed in mid-answer.
UpstreamBreaks(r) == pc[r] = "forwarding" /\ Crash(r)

\* The rejected body is read: the refusal teaches the proxy and is retried
\* without the control, any other 400 is relayed in the envelope.
RetriedWithControl(r) ==      \* retry_body keeps the injected keys
  /\ pc[r] = "rejected"
  /\ resp[r].body = "mandatory"
  /\ mandatory' = mandatory \cup {input[r].model}
  /\ evidence' = [evidence EXCEPT ![r] = "retried"]
  /\ counted' = [counted EXCEPT ![r] = {"messages"}]
  /\ sent' = [sent EXCEPT ![r] = Append(@, TRUE)]
  /\ pc' = [pc EXCEPT ![r] = "retrying"]
  /\ UNCHANGED <<input, snapshot, lookup, label, armed, resp, ledger, answer, index,
                 replies, override>>
RetriedAfterAny400(r) ==      \* does not look for "mandatory" in the message
  /\ pc[r] = "rejected"
  /\ resp[r].body \in {"mandatory", "json"}
  /\ mandatory' = mandatory \cup {input[r].model}
  /\ evidence' = [evidence EXCEPT ![r] = "retried"]
  /\ counted' = [counted EXCEPT ![r] = {"messages"}]
  /\ sent' = [sent EXCEPT ![r] = Append(@, FALSE)]
  /\ pc' = [pc EXCEPT ![r] = "retrying"]
  /\ UNCHANGED <<input, snapshot, lookup, label, armed, resp, ledger, answer, index,
                 replies, override>>
RejectionRetried(r) ==
  /\ pc[r] = "rejected"
  /\ resp[r].body = "mandatory"
  /\ mandatory' = mandatory \cup {input[r].model}
  /\ evidence' = [evidence EXCEPT ![r] = "retried"]
  /\ counted' = [counted EXCEPT ![r] = {"messages"}]
  /\ sent' = [sent EXCEPT ![r] = Append(@, FALSE)]
  /\ pc' = [pc EXCEPT ![r] = "retrying"]
  /\ UNCHANGED <<input, snapshot, lookup, label, armed, resp, ledger, answer, index,
                 replies, override>>

RelayedTwice(r) ==      \* falls through to _relay after the 400 was logged
  /\ pc[r] = "rejected"
  /\ resp[r].body \in {"json", "html"}
  /\ Log(r, 400, label[r], counted[r])
  /\ Relay(r, resp[r])
  /\ UNCHANGED <<input, snapshot, lookup, label, armed, sent, evidence, counted, shared>>
RejectionRelayed(r) ==
  /\ pc[r] = "rejected"
  /\ resp[r].body \in {"json", "html"}
  /\ Log(r, 400, label[r], counted[r])
  /\ Answered(r, 400, "envelope", "rejected")
  /\ UNCHANGED <<input, snapshot, lookup, label, armed, sent, evidence, counted, resp,
                 shared>>

\* json.loads(...).get("error", {}).get("message", "") raises on such bodies,
\* and so does a connection that breaks while the body is read.
RejectionUnreadable(r) == pc[r] = "rejected" /\ Crash(r)

RetryAnswers(r) == \E res \in Responses(r) :
  /\ pc[r] = "retrying"
  /\ Relay(r, res)
  /\ UNCHANGED <<input, snapshot, lookup, label, armed, sent, evidence, counted,
                 ledger, shared>>

\* The retry is outside the try block: timeouts and refused connections too.
RetryFails(r) == pc[r] = "retrying" /\ Crash(r)

-----------------------------------------------------------------------------
\* The body of a buffered answer is read: the rest of _relay.

StoresByFlag(r) ==       \* reads the runtime override again
  override /\ ~input[r].stream /\ resp[r].status = 200 /\ resp[r].body \in {"json", "odd"}
Stores(r) ==
  armed[r] /\ resp[r].status = 200 /\ resp[r].body \in {"json", "odd"}

\* One transaction replaces the row of the same scope and prompt.
Stored(r) ==
  {e \in replies : e.scope # SemanticScope(input[r]) \/ e.prompt # input[r].prompt}
    \cup {[scope |-> SemanticScope(input[r]), prompt |-> input[r].prompt, from |-> r]}

Shape(res) ==
  CASE res.status >= 400 /\ res.body # "html" -> "envelope"
    [] res.status = 200 /\ res.body \in {"json", "odd"} -> "rendered"
    [] OTHER -> "provider"

RelayFinishes(r) ==
  /\ pc[r] = "buffering"
  /\ resp[r].body # "undecodable"
  /\ Log(r, resp[r].status, label[r], counted[r])
  /\ Answered(r, resp[r].status, Shape(resp[r]), evidence[r])
  /\ \/ Stores(r) /\ replies' = Stored(r)
     \/ UNCHANGED replies           \* not eligible or too large, or the store failed
  /\ UNCHANGED <<input, snapshot, lookup, label, armed, sent, evidence, counted, resp,
                 mandatory, index, override>>

\* json.loads of bytes that are not UTF-8 raises UnicodeDecodeError, which is
\* not a JSONDecodeError; or the connection breaks while the body is read.
RelayBreaks(r) == pc[r] = "buffering" /\ Crash(r)

\* The generator is entered: from here its finally clause is sure to run.
StreamStarts(r) ==
  /\ pc[r] = "opening"
  /\ pc' = [pc EXCEPT ![r] = "streaming"]
  /\ UNCHANGED <<input, snapshot, lookup, label, armed, sent, evidence, counted, resp,
                 ledger, answer, shared>>

\* The client leaves before: a generator that was never entered has no finally
\* clause to run.
LeavesEarly(r) ==
  /\ pc[r] = "opening"
  /\ pc' = [pc EXCEPT ![r] = "left"]
  /\ UNCHANGED <<input, snapshot, lookup, label, armed, sent, evidence, counted, resp,
                 ledger, answer, shared>>

\* However the stream ends, the generator's finally clause writes the row.
StreamEnds(r) ==
  /\ pc[r] = "streaming"
  /\ Log(r, resp[r].status, label[r], counted[r])
  /\ pc' = [pc EXCEPT ![r] = "done"]
  /\ UNCHANGED <<input, snapshot, lookup, label, armed, sent, evidence, counted, resp,
                 answer, shared>>

-----------------------------------------------------------------------------
\* JSON that is no object, or bytes that are not UTF-8: nothing catches what
\* body.get or json.loads raises.
Malformed(r) == \E q \in Inputs :
  /\ pc[r] = "idle"
  /\ ~q.json
  /\ input' = [input EXCEPT ![r] = q]
  /\ Answered(r, 500, "crash", "none")
  /\ UNCHANGED <<snapshot, lookup, label, armed, sent, evidence, counted, resp, ledger,
                 shared>>

\* A body that is not JSON is forwarded as it came and relayed, not streamed.
PassThrough(r) == \E q \in Inputs :
  /\ pc[r] = "idle"
  /\ ~q.json
  /\ input' = [input EXCEPT ![r] = [q EXCEPT !.stream = FALSE]]
  /\ sent' = [sent EXCEPT ![r] = <<FALSE>>]
  /\ pc' = [pc EXCEPT ![r] = "passing"]
  /\ UNCHANGED <<snapshot, lookup, label, armed, evidence, counted, resp, ledger,
                 answer, shared>>

PassThroughAnswers(r) == \E res \in Responses(r) :
  /\ pc[r] = "passing"
  /\ Relay(r, res)
  /\ UNCHANGED <<input, snapshot, lookup, label, armed, sent, evidence, counted,
                 ledger, shared>>

PassThroughFails(r) == pc[r] = "passing" /\ Crash(r)

-----------------------------------------------------------------------------
\* Around the requests: the dashboard's switch, and rows that expire.
Flip == override' = ~override
        /\ UNCHANGED <<pc, input, snapshot, lookup, label, armed, sent, evidence, counted,
                       resp, ledger, answer, mandatory, index, replies>>

PrefixExpires == \E k \in index :
  /\ index' = index \ {k}
  /\ UNCHANGED <<pc, input, snapshot, lookup, label, armed, sent, evidence, counted,
                 resp, ledger, answer, mandatory, replies, override>>

ReplyExpires == \E e \in replies :
  /\ replies' = replies \ {e}
  /\ UNCHANGED <<pc, input, snapshot, lookup, label, armed, sent, evidence, counted,
                 resp, ledger, answer, mandatory, index, override>>

Step(r) ==
  \/ EmbeddingFails(r) \/ SemanticHit(r) \/ SemanticMiss(r) \/ SemanticUnavailable(r)
  \/ UpstreamAnswers(r) \/ UpstreamUnreachable(r) \/ UpstreamBreaks(r)
  \/ RejectionRetried(r) \/ RejectionRelayed(r) \/ RejectionUnreadable(r)
  \/ RetryAnswers(r) \/ RetryFails(r)
  \/ RelayFinishes(r) \/ RelayBreaks(r)
  \/ StreamStarts(r) \/ LeavesEarly(r) \/ StreamEnds(r)
  \/ PassThroughAnswers(r) \/ PassThroughFails(r)

Next ==
  \/ \E r \in Requests : Receive(r) \/ Malformed(r) \/ PassThrough(r) \/ Step(r)
  \/ Flip \/ PrefixExpires \/ ReplyExpires

Spec == Init /\ [][Next]_vars

-----------------------------------------------------------------------------
(***************************************************************************)
(* Type correctness of the request path.                                   *)
(***************************************************************************)
Labels == {"miss", "exact_hit", "semantic_threshold_miss", "semantic_hit"}
Lookups == {"none", "exact_hit", "missed", "failed"}
Statuses == {200, 400, 500, 502, 504}
Shapes == {"envelope", "rendered", "provider", "crash"}
Notes == {"none", "injected", "retried", "rejected"}
Row == [status : Statuses, cache : Labels,
        parts : SUBSET {"messages", "tools"}, written : BOOLEAN]
StoredReply == [scope : Models \X BOOLEAN, prompt : Prompts, from : Requests]

TypeOK ==
  /\ pc \in [Requests -> Phases]
  /\ input \in [Requests -> Input \cup {NoInput}]
  /\ \A r \in Requests : pc[r] # "idle" => input[r] # NoInput
  /\ snapshot \in [Requests -> BOOLEAN]
  /\ lookup \in [Requests -> Lookups]
  /\ label \in [Requests -> Labels]
  /\ armed \in [Requests -> BOOLEAN]
  /\ sent \in [Requests -> Seq(BOOLEAN)]
  /\ evidence \in [Requests -> Notes]
  /\ counted \in [Requests -> SUBSET {"messages", "tools"}]
  /\ resp \in [Requests -> [status : Statuses, body : Bodies] \cup {NoResp}]
  /\ ledger \in [Requests -> Seq(Row)]
  /\ answer \in [Requests -> [status : Statuses, shape : Shapes, evidence : Notes]
                               \cup {Replay(r) : r \in Requests} \cup {NoAnswer}]
  /\ mandatory \subseteq Models
  /\ index \subseteq Models \X {Prefix[p] : p \in Prompts}
  /\ replies \subseteq StoredReply
  /\ override \in BOOLEAN

Crashed(r) == answer[r].shape = "crash"

(***************************************************************************)
(* One ledger row per request that chat_completions answers, whatever path *)
(* the answer takes: never two, and the row that is written (or counted in *)
(* LEDGER_WRITE_FAILURES) has the status that the client saw.  The one     *)
(* answer without a row is a stream whose client leaves before its         *)
(* generator is entered.                                                   *)
(***************************************************************************)
OneRowPerAnswer ==
  \A r \in Requests :
    /\ Len(ledger[r]) <= 1
    /\ pc[r] = "done" /\ ~Crashed(r) =>
         Len(ledger[r]) = 1 /\ ledger[r][1].status = answer[r].status
    /\ pc[r] = "left" => input[r].stream /\ resp[r].status = answer[r].status

(***************************************************************************)
(* The reasoning control is tried at most once per request, and whatever   *)
(* the interleaving with other requests to the same model, a second call   *)
(* is made only bare and only after the proxy learned from a refusal:      *)
(* chat_completions, "retry once without our control".                     *)
(***************************************************************************)
OneBareRetry ==
  \A r \in Requests :
    /\ Len(sent[r]) <= 2
    /\ Len(sent[r]) = 2 => /\ sent[r] = <<TRUE, FALSE>>
                           /\ input[r].model \in mandatory

(***************************************************************************)
(* _reasoning_mandatory_models names only models that do refuse, so no     *)
(* other failure switches the cost control off for a model.                *)
(***************************************************************************)
OnlyRefusersLearned == mandatory \subseteq Mandatory

(***************************************************************************)
(* A client whose request went to OpenRouter, to OpenAI or to the legacy   *)
(* upstream, whatever prefix the model has, never gets the 400 that the    *)
(* proxy's own control provoked, streaming or not: _forward_routed's       *)
(* comment on the retry that a returned prefix name once skipped.          *)
(***************************************************************************)
RetriesRefusals(m) == ~ProviderRouting \/ Provider[m] \in {"openrouter", "openai"}

RefusalNeverSurfaces ==
  \A r \in Requests :
    answer[r].status = 400 /\ RetriesRefusals(input[r].model) => resp[r].body # "mandatory"

(***************************************************************************)
(* Once a model is known to refuse the control, no request sends it the    *)
(* control again, not even one that was waiting for its embedding when the *)
(* proxy learned it.                                                       *)
(***************************************************************************)
KnownRefusersSpared ==
  [][\A r \in Requests :
       sent'[r] # sent[r] /\ sent'[r][Len(sent'[r])] => input'[r].model \notin mandatory]_vars

(***************************************************************************)
(* What the semantic cache replays, now or later, is the JSON with which   *)
(* another client was answered 200, for the same model and parameters and  *)
(* a prompt within the calibrated distance: never an error, nor anything   *)
(* that was streamed or relayed as bytes.                                  *)
(***************************************************************************)
Genuine(from) ==
  /\ answer[from].status = 200
  /\ answer[from].shape = "rendered"
  /\ ~input[from].stream

MayAnswer(q1, q2) ==      \* what q1 was answered may answer q2
  q1.model = q2.model /\ q1.tools = q2.tools /\ Near(q1.prompt, q2.prompt)

ReplaysAreGenuine ==
  /\ \A e \in replies : Genuine(e.from)
  /\ \A r \in Requests : answer[r].shape = "replay" =>
       /\ Genuine(answer[r].from)
       /\ MayAnswer(input[answer[r].from], input[r])

(***************************************************************************)
(* "A dashboard flip mid-flight never alters this request": a request that *)
(* started with the semantic cache off is neither answered from it nor     *)
(* stored in it, however often the override flips meanwhile.               *)
(***************************************************************************)
FlipSparesInFlight ==
  /\ \A e \in replies : snapshot[e.from]
  /\ \A r \in Requests : answer[r].shape = "replay" \/ armed[r] => snapshot[r]

(***************************************************************************)
(* An exact hit is terminal for cache attribution: such a request is       *)
(* forwarded, and neither it nor a request whose semantic lookup failed or *)
(* was never made fills the semantic cache, however long after the lookup  *)
(* its answer comes.                                                       *)
(***************************************************************************)
OnlyCleanMissesFill ==
  \A r \in Requests :
    (armed[r] \/ \E e \in replies : e.from = r) => lookup[r] = "missed"

-----------------------------------------------------------------------------
(***************************************************************************)
(* What the repository says of the request path and the code does not do.  *)
(***************************************************************************)

\* README.md: "every request is recorded in the Postgres requests ledger"
\* (or its failure counted, _log): not one that was forwarded and then ends in an
\* uncaught exception, nor a stream that is left before it begins.
EveryRequestRecorded ==
  \A r \in Requests :
    pc[r] \in {"done", "left"} /\ sent[r] # <<>> => ledger[r] # <<>>

=============================================================================
