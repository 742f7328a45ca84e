# Verification of the Token Saver proxy

Token Saver (`src/token-saver/`) is an OpenAI-compatible proxy that makes chat
requests cheaper: it rewrites a request (tool schemas, tool results, JSON in
messages, prompt compression, concise-answer hints), answers it from a semantic
cache when it may, forwards it to the provider of its model, and keeps a ledger
row for each request. It is one asyncio process (`proxy/main.py`, FastAPI under
uvicorn); PostgreSQL with pgvector is optional and may be shared by several
such processes.

This directory models the parts of it that keep state and can go wrong in ways a
test hardly reaches. The modules are plain TLA+, checked by TLC on small
instances; what matters most is proved with TLAPS for all instances.

## 1. Inventory

### Components with state

| component | source | state | operations | what is hard | correct means |
|---|---|---|---|---|---|
| chat request pipeline | `main.py` 439-1660 | per request: body, cache label, evidence header, response; shared: `_reasoning_mandatory_models` | `chat_completions`, `_forward_routed`, `_relay` and its streamers | every `await` lets other requests run; ten ways to end; a retry | one ledger row per answer, one bare retry, nothing replayed that is not a genuine answer to the same question |
| exact-prefix index | `caching.py` | `cache_entries` rows with a lifetime | `lookup`, `record` | written before the call is known to succeed | labels only, never an answer; a hit bars the semantic cache |
| semantic cache | `semantic_cache.py`, two migrations | two tables, paired by a reference | `lookup_result`, `store_response`, `_cleanup_candidate` | transactions of several processes and versions, crashes between statements | rows paired, one entry per identity, a hit is a current answer of the same version |
| continuation store (TOCP) | `tocp.py` | ordered dictionary with limits and a lifetime | `save`, `get_segment`, `get_range`, `cleanup` | limits, lazy purge, wall clock | limits hold, nothing unexpired evicted, scopes isolated |
| runtime settings | `settings.py`, API in `main.py` 1796-1913 | overrides in `app_settings` or a JSON file | `snapshot`, `effective`, `write_override`, `delete_override` | outages, unreadable file, one read per setting | every value a request uses was in force; overrides survive |
| proxy keys and tenants | `main.py` 206-435, 2061-2176 | `api_keys`, `tenants` | create, rotate, revoke, resolve scope | concurrent administrators; a key retired between the scope lookup of a call and its access to the store | one active successor, retired stays retired, the successor reaches what was saved |
| incremental file reads (IDCP) | `idcp.py` | `idcp_file_versions` | `read` | advisory lock versus `created_at` | a diff applies to the version its base names; versions fork only behind a late writer |
| history compression (MTCC) | `mtcc.py` | bounded turn store | `save`, `retrieve`, `compress_history` | partial saves | limits, isolation |
| tool schema cache | `tool_protocol.py` | LRU by entries and bytes | `get_or_compress`, `clear` | byte accounting; outlives flags | both limits, never changes what is forwarded |
| tool result cache and limit | `tool_result_optimizer.py` | LRU | `optimize_tool_result` | keys, notices as long as the number they name, a full continuation store | text results within the limit or retrievable, the cache never shows |
| stream translation | `main.py` 1412-1533, `providers/anthropic.py` | per stream: chunk index, usage, collected text | events to chunks, chunks to the next request | events behind the last one, order of the last chunks, clients that leave | tool calls come back as made, one `[DONE]`, closed and recorded once begun |
| ledger | `stats.py`, `db.py` | SQLite or PostgreSQL rows, a failure counter | `log_request`, aggregates | a cutover between two databases | a row or a counted failure; append-only |
| ledger backfill | `scripts/backfill_postgres.py`, `scripts/backfill_measurement_tag.py` | a marker table, tags | `run_backfill` of both | overlapping runs, table locks, deadlocks | all or nothing, no row slips across the cutover |

### Components without state

The transforms of a request: classifier and dose tiers, codebase optimizer, L1
cleaning, prompt compression, the request side of the provider adapters. A
client sends its whole conversation again each turn, so they are pure functions
with a property over time: `RequestRewrite` and `ProviderTurns` model them.

Provider registry (a route is a function of the model), drift tripwire, strategy
registry, turn budgets (ATBA), deferred tools, configuration and prices, KPI and
dashboard reports, start-up, and the offline benchmark harness. `PROJECT.json`
says of each why it is or is not modelled, and lists the hazards of the code,
each at its line.

### How they interact

```
client -> chat_completions -- snapshot() --> settings store
             |  rewrite: schemas, tool results, code, JSON, compression (no await)
             |  lookup/record ------------> exact-prefix index   (PostgreSQL)
             |  acquire_embedding (await) -> embedding upstream
             |  lookup_result ------------> semantic cache       (PostgreSQL)
             |  save ---------------------> continuation store   (in process)
             |  _forward_routed (await) --> provider upstream
             |  mandatory 400: learn, retry once (await)
             +- _relay (await body, or stream) -- store_response --> semantic cache
                        +- _log --> ledger
             |               (translated_streamer for Anthropic)
model -> retrieve_tool_result -> key scope -> continuation store
administrator -> create/rotate/revoke -> api_keys          (PostgreSQL)
backfill scripts -> ledger                                  (PostgreSQL)
administrator -> PUT/DELETE /api/settings -> settings store
```

Inside a process nothing is preempted: control changes hands at an `await` only,
so code between two awaits is one action. The calls into PostgreSQL are
synchronous and block the event loop, so they interleave only with other
processes.

## 2. Modules

| module | models | role |
|---|---|---|
| `ChatPipeline` | `chat_completions`, `_relay` and what they share | the core |
| `ChatPipelineProofs` | | theorems |
| `RequestRewrite` | what happens to a body before it is forwarded | pure transforms and three in-process stores |
| `ToolResultLimit` | the token limit of tool results | arithmetic, used by `RequestRewrite` |
| `RequestRewriteProofs` | | theorems about both |
| `ProviderTurns` | streams and turns with an Anthropic provider | |
| `ProviderTurnsProofs` | | theorems |
| `ContinuationRetention` | what the continuation store promises | abstract |
| `ContinuationStore` | `tocp.py` | detailed, implements the former |
| `ProxyKeys` | `api_keys` under concurrent administrators | |
| `ToolResults` | calls with proxy keys to the continuation store | composes (EXTENDS) `ProxyKeys` and `ContinuationStore` |
| `ToolResultsProofs` | | theorems about the three |
| `SemanticReplay` | what the semantic cache promises | abstract |
| `SemanticCache` | `semantic_cache.py` over two tables | detailed, implements the former |
| `SemanticCacheProofs` | | theorems, the refinement among them |
| `SettingsStore` | `settings.py` and its API | |
| `SettingsStoreProofs` | | theorems |
| `FileVersions` | `idcp.py` | |
| `FileVersionsProofs` | | theorems |
| `RequestLedger` | `log_request` and both backfill scripts | |
| `RequestLedgerProofs` | | theorems |
| `MC*` | instances for TLC | |

### ChatPipeline

`pc[r]` names the await that request `r` is suspended in: `embedding`,
`forwarding` (the first upstream call), `rejected` (reading the body of a 400),
`retrying`, `passing` (a body that is not JSON), `buffering`, `opening` (a
streaming response whose generator nobody has entered yet) and `streaming`; `left`
is a client that went before the generator was entered, so that its `finally`
clause never runs and no row is written (`LeavesEarly`).
Actions are named after what resumes the request. `Receive` is everything from
the snapshot of the runtime flags over the exact-prefix index to the first
await; `Dispatch` is the part from the cache decision to the upstream call,
shared by the four ways to get there; it tests the set of refusing models after
the embedding await, as the code does. `Log` is `_log`: the row is written or its
failure is counted. `Crash` is an exception that no handler catches. `Malformed`
is a body that is JSON but no object: it ends before anything is forwarded.

Abstractions. A prompt is its exact prefix plus its identity. Whether the cosine
distance of two prompts is within the calibrated limit is the relation
`Near(_, _)`: any of the near rows may be found (`Replayable`), since which one is
nearest is the metric's business, and none may be, because the vector index is
approximate (`MissLabels`). An odd 200 (JSON that is no object where the code
takes it for one) is stored like any other, but is never replayed: `count_output`
raises on it, the request goes on as `SemanticUnavailable`, and the row stays until
it expires. `lookup` is history: what became of a request's lookups. Tool
definitions stand for all request parameters. A body is one
of five kinds, chosen by what the code does with them. Tokens are abstracted to
which parts of the request they count. The rewriting of bodies is left to
`RequestRewrite`: it has no await, and the properties here do not see it. The
semantic store is one transaction here; `SemanticCache` refines it. `counted`,
`sent` and `ledger` are observations of what is forwarded and logged.

### RequestRewrite and ToolResultLimit

A content is its kind, its number of tokens and the list of transforms it went
through (`form`); contents of the same kind are the same text. That is what the
properties tell apart: whether a forwarded message is what it was the turn
before, whether a cached value is what would be computed now, and how long a
tool result is. The stages follow `chat_completions`: `Minify` and `ToolsSent`
(`SchemaCache`), `Optimized` (`optimize_tool_result` and the continuation
store), `Calling` and `Classify` (the protocol gate and the classifier),
`OptimizeCodebase`, `Cleaned` (`l1_clean`), `Compressed` and `Injected` (the
compress route with its dose tiers). `Body` is the composition; it takes the
caches as arguments, so that `CachesAreTransparent` can ask for the body that
empty caches would give. A tool result whose content is a list of parts
(`ListKinds`) is no `StringResult` and passes unbounded and unsaved. Imports are
counted per line: `Importing` has the messages with a line, a content has it
`Occurrences` times, and `Repeated` are the lines that the whole conversation has
more than three times. Stages that carry something from message to message
(the result cache, what was kept so far, a sum of bytes) are recursive functions
over the length, so that they can be reasoned about. Environment actions: a
conversation grows, another one starts, flags are flipped, the process restarts,
the continuations expire.

Assumptions on the constants: limits are positive; a message as it is said has
been through no transform (`MessagesAreSaid`); minification saves no more bytes
than there are (`SpareIsPartOfTools`); and a notice fits in the limit
(`NoticesFit`), which `config.py:68` sees to: at least 32 tokens, for a line of
nine words and a number.

`ToolResultLimit` computes the numbers of tokens that `_truncate_plain_text`
(32 rounds of correcting a notice that names its own effect) and
`_truncate_json` end with. The tokens of a notice and of a JSON value under a
set of limits are parameters.

### ProviderTurns

One action per line of the provider's stream (`message_start` ...
`message_stop`, `error`, a line that is no JSON), per way a stream can end, and
for the client: it asks, leaves before or after the first iteration, or takes a
stream that ended with `[DONE]` into its conversation. The loop reads on after
`message_stop` and after an error, so behind them the provider may send text
(`StrayDelta`), another `message_stop`, an `error`, and lines that are no JSON. The
instance has one stray text and one error in a stream; blocks and tool calls
behind `message_stop` are not modelled. The arguments of a call
are a sequence of pieces that name their block: `Decoded` is `_tool_arguments`, which
succeeds for all pieces of one block in order and gives an empty object
otherwise. So a wrong chunk index shows up in the next request, where
`ToolsRoundTrip` looks. The client that puts chunks together and the provider
that sends events are external; they follow the two published protocols as the
code expects them.

### ContinuationStore and ContinuationRetention

Every operation runs under a lock and is one action (`StoreInit`, `StoreNext`,
`StoreSpec`: `ToolResults` extends the module and has names of its own);
`issued` and `denied` are history. The random id is any id that was never handed out. The abstract module
drops grants the moment they lapse; the mapping hides the entries that wait for
the purge.

### ProxyKeys and ToolResults

A rotation or revocation is two actions: `SELECT ... FOR UPDATE` has the row
lock, and the writes with `COMMIT`; in between the administrator's process may
crash (`RollsBack`). `root` is history: the key a key descends from. In
`ToolResults` a call presents any key that was handed out, in a session; `ScopeOf`
is `_resolve_proxy_key_scope`, which reads the database in a transaction of its
own. So a call is more than one step: `Resolves` fixes the scope, and `Saves` (one
per tool result, until `ChatEnds`) or `Reads` uses it. The process has one call at
a time, because its handler does not yield in between; the administrators of
other processes do commit there, and the clock moves. A call without a scope
(`Unscoped`) does nothing. `savedBy` is history.

### SemanticCache and SemanticReplay

One action per SQL statement: the `DELETE`s of a store with their waits for row
locks, the `INSERT` with its wait for the unique index, `COMMIT`, `ROLLBACK`; the
lookup's two transactions; the `UPDATE` of the hit count; and the two `DELETE`s of
the cleanup. `held` has the entries and `removed` the responses that an open
transaction has locked, so a transaction that waits may hold what another one
waits for. The foreign key cascades from a response to its entry and finds
nothing, since both the store and the cleanup delete the entry first. The rules
of READ COMMITTED that the code relies on are external definitions
(`DeleteResumes`, `WaitsToInsert`, `LockedByOther`). A process may restart at any point,
with either version. `SemanticReplay` has a set of pairs and an atomic `Replay`;
the mapping is: a pair is an entry whose response exists.

### SettingsStore

An operation begins, reads the settings it wants one at a time and ends; between
two reads other processes write and the store goes up and down. `up` means that
the database answers, or that the file can be parsed. The file has one owner,
the table is shared. `inForce` is history: the values each setting had while the
operation was reading, by the precedence that the module's docstring fixes.

### FileVersions

One file of one scope, because rows and advisory locks of others are disjoint.
A transaction fixes `now()` with its first statement (`Begin`), waits for the
advisory lock, reads the latest version by `created_at` and appends its own
(`Read`), and commits or rolls back later, with its caller. `base` is history: the
version a version was added on top of. No code of the running proxy opens these
transactions yet, so the callers are any.

### RequestLedger

One action per statement of `log_request` and of both scripts, with the four
lock modes of PostgreSQL they take on `requests`; `held` is released by the end
of a transaction only. The checksum of the SQLite ledger is its number of rows,
which only grows. `Aborts` is a crash anywhere; `DeadlockFound` is what
PostgreSQL does about a circle of waits. Ids count committed and open rows
together, as a sequence does.

## 3. Runs

| run | instance | states | time | shows |
|---|---|---|---|---|
| `store` | 3 ids, 2 scopes, 2 places, contents of 0, 2, 3, 5 characters, segments of 2, clock to 2 | 43 k | 0:20 | limits, retention, isolation, segments, refinement |
| `tool_results` | 3 keys, 2 administrators, 2 tenants, one session, one continuation, a clock that steps back | 336 k | 0:35 | lineages, retirement, access through rotations, denial is final |
| `chat` | 2 requests, 9 kinds of input, 12 kinds of answer, caches off | 1.05 M | 1:05 | ledger, retry, learning |
| `chat_caches` | 2 requests, both caches, 3 prompts (2 near), odd answers, flipping override | 1.44 M | 1:15 | what is stored and replayed |
| `semantic` | 2 proxies, 2 versions, 3 prompts (2 near), 3 references, clock to 1 | 115 k | 0:25 | pairing, identity, waits, quarantine, refinement |
| `settings` | 2 proxies, 2 settings, both back ends | 45 k | 0:10 | values in force, overrides survive |
| `file_versions` | 2 readers, 3 contents, 3 versions, clock to 2 | 300 k | 0:15 | the versions form a chain but for late writers, reads can be rebuilt |
| `ledger` | 1 writer, 2 backfills, 1 tag run, 2 source rows, fairness | 37 k | 0:25 | all or nothing, complete cutover, append-only, transactions end |
| `rewrite` | conversations of 3 messages out of 11, 2 sets of flags, 6 requests | 140 k | 2:10 | stable prefixes, transparent caches, bounded results |
| `stream` | 2 turns of 2 blocks of 2 pieces, 2 usages, output counts of 0 and 7 or none, a stray text, an error and a bad line per stream | 620 k | 1:35 | round trip of tool calls, one `[DONE]`, accounting |
| `chat_recorded`, `rewrite_idempotent` | one request; two system blocks | | | violated: see section 6 |

Why these bounds are enough. Two requests are all that share one model, one
cache row or one prompt; each request takes part in each hazard at most once
(one retry, one store), and a third adds no new order between two. A prompt that
is near another one and one that is far from both tell a replay of a similar
question from one of any question. Two proxies
and three references give two stores that meet at a row which a third one
committed, and a store that supersedes another one while a lookup is between its
transactions. Three ids for two places make room scarce with one id
to spare, and the four contents are empty, exactly a segment, a segment and a
bit, and larger than the store. Two settings are needed to tear a snapshot or to
lose one by writing the other. Three keys are two rotations of one key, or one
rotation and a key of another tenant; a rotation between the scope lookup of a
call and its store needs no more. Two readers contend for one advisory lock,
and three versions give one to expire, one to be stale against and one to
append. Two backfills contend for the marker table and the marker, one tag run
is enough for a deadlock with a backfill, and a source of 0, 1 or 2 rows is
empty, unchanged or grown between two readings. Three messages are a call with
two results, two system blocks with a user message, or a prefix that grows
twice; of the two import lines, one is repeated within a single message and the
other crosses the threshold in the second, so that one may cross while the other
is already over. With limits of two schemas, eight bytes, one result and one
continuation the bytes bind in the schema cache, the entries in the result cache,
and the store fills. Two blocks are the least that shift the
index of a tool call; two turns bring the calls of one back in the request of
the other. `MaxTime` lets something expire; `MaxOffset` reaches beyond the
longest content.

What the bounds leave to the proofs: both pipeline runs have provider routing on,
so a refusal with routing off is covered by `RefusalsAreAbsorbed` alone; and in
`rewrite` the limit on the number of schemas never binds before that on their bytes,
so its eviction is covered by `CachesBalance` alone.

Deadlock is checked in the runs with a step that is always possible: a tick or
step of the clock, a flip, an outage, a refused call. In `rewrite` and `stream`
it is not: a client may send nothing more. That the waits of a transaction end is
a property of its own (`NoCircle`, `EveryTransactionEnds`).

Every property of a passing run has a mutant in `PROJECT.json`: a plausible bug in
a mapped definition, kept beside it in the module, that makes TLC find the
property violated.

### Fairness

Only `RequestLedger!FairSpec` assumes any: PostgreSQL carries out a statement whose
locks are free (strong fairness for the steps that need a lock others take and
release again and again, weak for the commit of a writer) and aborts one member of
a circle of waits. Crashes, new calls and new runs are not relied on.

`ChatPipeline` states no fairness, hence nothing about requests that end: the code
guarantees none. The timeout of its httpx calls (`main.py:298-301`, 323-326) limits
the pause between two reads, so an upstream that drips never trips it, and a
streaming answer to a client that stops reading has no limit at all.

## 4. Proofs

All theorems hold for every value of the constants, from the named assumptions
of the modules, which TLC evaluates in the runs. Every safety property of every
passing run is stated by a theorem.

Some proofs need induction. The library's induction theorems take an operator as
parameter, which no installed prover instantiates; the proofs therefore use the
induction over a *set*: a set of natural numbers that has 0 and is closed under
the successor has all of them (`NatSetInduction`), and in the same way for
sequences (`SeqSetInduction`) and the subsets of a finite set
(`SubsetInduction`). Each is derived from the well-foundedness of the order.

`ToolResultsProofs`, first part, about the continuation store:

- `TypeCorrect`, `EntriesBounded`: the invariant is the type invariant with the
  limit on entries; `EntriesBounded` rests on the cardinality of a finite set
  with one element more.
- `CallerInvariant`: the inductive invariant behind `ScopeIsolation` and
  `DenialIsFinal`. An entry is what was issued under its id, a denied id has no
  entry, and a reply is consistent with what was issued. Denial and purge
  are one step.
- `CharactersBounded`: the number of characters stored is a fold over the entries,
  `MapThenSumSet`, that is, a recursive function which CHOOSEs the next element.
  `AddsExist` shows by `SubsetInduction` that the function exists,
  `AddsAgree` that its sum does not depend on the order of the choices; from them
  `TotalGrows` and `TotalShrinks`, one entry more or less. The theorem then
  follows the code: a save is refused unless the sum and the new content fit, and
  everything else only takes entries away.
- `SegmentsAreContent` is about the arithmetic of segments: with the least multiple
  of the segment size that reaches the length (`Divided`), the announced offsets
  are the starts of the segments (`AnnouncedBegins`), and every character lies
  in exactly one of them (`InOneSegment`).
- `UnexpiredRetained` and `StoreImplementsRetention` are about a clock that does
  not step back, as the promise itself is; the refinement takes each operation to
  the abstract action of the same outcome, and purges and ticks to a stutter or an
  `Advance`. `ToolResults` is where the clock may be set back.

`ToolResultsProofs`, second part, about the keys and the composition: `KeysInv` adds to the types and to `OneActivePerLineage`
that an open transaction holds the row lock of its key, that a rotation's key is
still active (nobody else could retire it), and that the root of a key exists,
so that a fresh key belongs to no lineage yet. Every step of the composition is
a step of the keys or leaves them alone, which carries the invariant over to
`ToolResults`. `LineagesHaveOneActive` and `RetirementIsFinal` follow.
`DeniedForGood` needs only that what is denied is gone and that no id is handed
out twice, wherever the clock is set. For `SuccessorsInherit` the invariant
(`AccessInv`) says as well that the scope of a call in hand is the tenant and
session of its key, active or retired since, that an entry belongs to the tenant of
the key that saved it, and that whoever was denied asked for nothing or for
another scope's entry; since tenants of existing keys never change, one lineage
in one session is one scope.

`SemanticCacheProofs`: `SInv` says what each process has at hand where it
stands, which locks it holds there, that locked rows are still committed and locked
by nobody else, that a reference names one row (committed, about to be
inserted, or remembered by a lookup), and that no two transactions are at their
commit with one identity. From it `TablesStayPaired`, `IdentitiesStayUnique`,
`VersionsStayApart` and the refinement `CacheImplementsReplay`: a commit is a
`Put`, a cleanup an `Evict`, and a hit replays a pair that is committed when the
response is read, since a response with that reference proves that the candidate
is still there. `WaitsEnd` is about waits for the locks on entries, on responses
and for the unique index. Stores and cleanups lock an entry before its response, so
who wants an entry holds nothing (`EntryFirst`) and who wants a response has locked
its entry and never waits (`ResponsesAreFree`); a store inserts last. So every
process has a stage (wanting an entry, inserting without and with a deletion of its
own, anything else) and waits only for processes at a lower one: no circle can
close, with any number of proxies.

`SettingsStoreProofs`: `SettingsTyped`, `ReadingsWereInForce`,
`OnlyWritersChange`. The inductive invariant is that a proxy that reads has the
value now in force of every setting in its history, and all that it has read; a
proxy that does not read has read nothing.

`FileVersionsProofs`: `VersionsFormAChain`, `ReadsCanBeRebuilt`, `VersionsTyped`.
The invariant adds that only the holder of the advisory lock has an answer that
names versions, or rows to commit: so while it is open, the rows that `_latest`
chose from cannot change. `ChainInv`, for `VersionsFormAChain`, says that a draft is
based on the latest version and has the greatest id, and that the rows alive at any
time have a newest one by `created_at`. A second version on the base of v is then
possible only if `_latest` still prefers the base, that is, if v was created before
it (`CommitForks`).

`ChatPipelineProofs`: every safety property of the ledger, the retry and the
learned models, for any number of requests, models, inputs and answers.
(`PipelineTyped`, `EveryAnswerHasItsRow`, `RetriesAreBare`, `OnlyRefusalsTeach`,
`RefusalsAreAbsorbed`, `LearnedIsRemembered`.) None of the properties is inductive:
that a finished request has one row needs that an unfinished one has none, that a
retry is bare needs which calls were made in each phase. The invariant `IInv` is
the type invariant, `OnlyRefusersLearned`, and for each request `Progress`: what
holds in each phase of `pc` of its calls, its response, its answer and its row.
`EvidenceIsTrue` ties the evidence header to the call that was made;
`RefusalHandled` says where the response to a refusal may have gone. The proof has a
frame lemma (a step of one request leaves the others alone; what they share only
grows or is not mentioned) and one lemma per group of actions.

`EveryAnswerHasItsRow` leaves out, as the property does, the stream that its client
left before it began. The same module has `OnlyGenuineReplays`,
`FlipsSpareRequests` and `CleanMissesFill`, from `CacheInv` on top of `IInv`: a
request waits for its embedding only if it began with the cache on, it is armed only
by lookups that missed (`ArmedByMiss`: no exact hit, no failure), and a row of the
cache has a finished, armed request as its source. A replay stays genuine because a
finished request takes no step (`DoneStays`). `Near` is any relation: the theorem
says that a replay is for the same scope and a near prompt, not that near prompts
ask the same.

`RequestLedgerProofs`: `BackfillsAreAllOrNothing`, `NoRowSlipsAcross`,
`LedgerIsAppendOnly`, for any number of proxies and runs of both scripts.
`LedgerInv` says which rows and locks each process has at each of its statements,
that no two processes hold locks that conflict, that runs about to commit bring
different new markers, and that uncommitted rows have ids beyond the cutover. A tag
run at its stamp therefore runs beside no uncommitted row (`StampingIsAlone`). That
the largest id of a finite table exists (`FiniteHasMax`) is proved with the
well-foundedness of finite subsets.

`ProviderTurnsProofs`: `ToolsRoundTripHolds`, `EndsOnceHolds` and
`StreamsAreAccountedHolds`, for conversations of any number of turns, blocks and
pieces, with an error and a bad line anywhere, text and further `message_stop`s behind the
first one, and streams that end or break at any point. `IInv` is the type invariant with

- `Assembled`, the heart of it: what an OpenAI client has put together of the
  chunks yielded so far is, call by call, what the provider has streamed so far.
  It needs that the index a chunk carries counts the tool blocks and not the
  blocks, and that a piece goes to the call that is open;
- `Beginning` and `Ending`: what has been yielded before the first event, and
  that there is one `[DONE]`, once `message_stop` or the end has come, with
  nothing behind it but errors, comments and stray text (`MayTrail`,
  `TrailingChunk`);
- `Accounting`: the recorded text and cache tokens are those of what has been
  yielded and reported at each point, however it ends;
- `CallsKept`: the translated conversation has the calls of each turn in
  order and each result names a call before it.

The translation of a conversation is a flattened sequence of sequences; the
lemmas about `FlattenSeq` (one more turn appends its translation) are by induction
over sequences. The assumptions say that prompts contain no calls, that bounds
are natural numbers and that counts of tokens are.

`RequestRewriteProofs`: four theorems, for conversations of any length, any
messages, flags and limits. That the recursive functions over messages exist and
satisfy their equations comes first, by `NatSetInduction` (`BytesUnfold`,
`StageUnfolds`, `CleanUnfolds`, `RoundsTyped`); so do the ordered dictionaries,
whose keys stay distinct under removal, moving to the end and cutting off the
oldest (`WithoutIs`, `ToEndIs`, `NewestIs`).

- `CachesBalance`: a dictionary's bytes are those of its two parts
  (`BytesSplit`), and moving an entry to the end changes nothing (`BytesToEnd`).
  So what an eviction subtracts is what leaves, and since an array that is
  larger than the limit is never inserted, enough entries can always leave.
- `ForwardedWithoutCaches`: `CacheInv` says that each entry of the schema cache
  has the minified form of its own key, and each entry of the result cache what
  would be computed for its key now (`EntryOf`, `Sound`). The key has to contain
  all that the computation depends on; flags are not among it. A stage over a sound
  cache and over an empty one then yield the same messages
  (`StageTransparent`) by induction over the messages; so does the body.
- `ForwardedResults`: the stage yields for each tool result that is a text either a
  text within the limit (`TruncatedWithin`: whether or not the 32 rounds settle, by
  `NoticesFit`) or a preview whose id leads to its content; a list of parts it
  returns as it came. `FreshIs` shows by
  counting that a fresh id exists, so no id is given twice (`SavedSound`).
  The rest of the way keeps both. With tools in play it maps message by message
  (`CleanCalling`), so position i of what is forwarded is message i; without
  tools there is no tool result at all, nor does a stage make one
  (`CleanKeepsPlain`, `InjectedKeepsPlain`).
- `ForwardedPrefixes`: `SentInv` says that what was forwarded is the final form of
  what the stage would make of the first n messages of the conversation, for
  some n, unless it shows a preview. Each later stage takes prefixes to prefixes
  (`CodebasePre`, `CleanPre`, `CompressedPre`, `InjectedPre`), given the same
  treatment: the flags, the route and the tier are in it, and the set of import
  lines that are repeated. Where nothing is a preview the stage itself does so, whatever is
  in its cache (`NoPreview`, `TreatIs`).

Only model-checked: liveness (`EveryTransactionEnds`), which TLAPS does not cover.

## 5. Order of the work and what is left

`ContinuationStore` came first (small, complete, with proofs: the pattern for
the other stores), then `ChatPipeline` (the most important behaviour),
`SemanticCache` (the hardest interleavings), `SettingsStore`, the keys and file
versions, the ledger with its scripts, the rewriting of requests and the
streams; the proofs followed each time the runs agreed.

Left, models: the turn store of MTCC, once something calls it; request and error
translation of the remaining provider features; blocks and tool calls behind a
`message_stop`. Left, proofs: lemmas beyond what
the properties need, such as that `TruncatedText` names the tokens it removed
whenever its rounds settle, and an abstract specification of the settings store
with a refinement to prove. Liveness stays with TLC.

The runs are kept few on purpose: related properties share an instance.

## 6. Where the code and its documents disagree

Two runs show what TLC finds when a sentence of the repository is stated as a
property; `PROJECT.json` quotes each.

- `chat_recorded`: forwarded requests that end in an uncaught exception (a transport error
  that is neither a timeout nor a refused connection, any failure of the retry,
  an error body of an odd shape, a body that is not UTF-8) have no ledger row, nor
  have streams that their client left before they began.
- `rewrite_idempotent`: cleaning twice can drop a system block that cleaning once
  kept, because the raw content of a block is compared with the clean content of
  the block before it.

Met while reading and modelling, without a run:

- The evidence header still says `injected` on relayed failures other than the
  rewritten 400s (`main.py:1218-1220` and 1359).
- After the reasoning retry the ledger's forwarded tokens count the messages
  without the tool schemas (`main.py:746` and 1207).
- With an unreadable settings file `GET /api/settings` lists the defaults with
  200 (`settings.py:271-277`), and the next PUT replaces the file. The lock of the
  file store is local to a process.
- An upstream error of a streaming request is passed on as the provider wrote
  it, although the comment at `main.py:1134-1137` says that all failures share one
  envelope.
- With `COMPRESSION_ENABLED=false` and L1 cleaning on, a request still takes the
  compress route (`main.py:813-818`; `README.md:157` of the repository says
  otherwise).
- The exact-prefix key is recorded before the request is forwarded, so the retry
  of a failed call counts as an exact hit; `caching.py` only labels requests, while
  the repository's README says that the exact cache replays answers.
- Rows of the semantic cache that expired are deleted only when their identity is
  stored again.
- An odd 200 (JSON that is no object, or whose `usage` is none) is stored in the
  semantic cache when the request was armed (`main.py:1625-1638`). It is never
  replayed, but while it is the nearest row and alive, near prompts find it, fail
  and are not stored either.
- `_truncate_plain_text` can oscillate where the number in its notice gains a
  digit, and then keeps only the notice; `_json_with_notice` corrects its number
  once, which may be one off in width.
- An import line is removed from older messages when a newer one brings that
  line's number above three, each line at its own time
  (`codebase_optimizer.py:237-250`): the one transform that rewrites a forwarded prefix
  (`PrefixSurvives` counts another set of repeated lines as another treatment).
- The comment at `main.py:752-755` says that completed `role=tool` results are
  bounded. One whose content is a list of parts is returned unchanged
  (`tool_result_optimizer.py:293-294`), however long, and not saved;
  `ResultsBoundedOrRetrievable` speaks of texts.
- The fingerprint of a tool array sorts the keys of its JSON, while a forwarded
  schema keeps the order of the array that filled the cache: `CachesAreTransparent`
  holds up to the order of keys.
- The docstring at `main.py:1414` says that `[DONE]` terminates the stream. The loop
  reads on, so an error or text behind `message_stop` is yielded behind `[DONE]`.
- A tool result above the limit is saved in the continuation store under a new
  id each time the conversation is sent; `full_output` skips the store but not
  the truncation.
- IDCP's docstring says that a base mismatch always returns the full content;
  `unchanged` is decided first (`idcp.py:88-91`). The caller then holds the right
  content, so `AnswersRebuild` holds.
- IDCP's advisory lock does not make the versions of a file a chain: a transaction
  that waited for it commits a version whose `created_at`, the time it began, is
  older than that of the version it is based on, so the next reader takes that
  base as the latest once more and adds a second version to it
  (`OnlyLateWritersFork`).
- A second tag run stamps organic rows written after the first one. Two
  backfills of a source that grew in between can both commit, each with its own
  marker, if each counted and verified before the other committed: the earlier
  rows are then there twice. `MarkerMeansCopiedOnce` therefore speaks of each
  marker.
- The Anthropic translation drops `temperature`, text beside tool calls and every
  system message after the first; a translated stream always finishes with
  `stop`; unknown events are dropped, against a docstring.
- A client that leaves before the first iteration of a stream leaves it unclosed
  and unrecorded (`LeavesEarly` in `ProviderTurns` and in `ChatPipeline`).

## 7. Not modelled

- Text: tokenisation, regular expressions, the neural compressor, byte-level JSON
  scanning, diffs. The models keep what the code decides about a text and how
  long it becomes.
- The embedding metric, HTTP details, authorisation and validation of the
  administrator's API (refusals that change nothing).
- History compression (`mtcc.py`): called by its replay script only; its store
  repeats the checks of `ContinuationStore`.
- Drift tripwire, strategy registry, turn budgets, deferred tools: pure functions
  whose result nothing in the request path acts on.
- SQL reports, the dashboard, start-up migrations, configuration, the benchmark
  harness: read-only, run once, or not part of the proxy.
