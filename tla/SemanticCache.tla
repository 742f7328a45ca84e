--------------------------- MODULE SemanticCache ----------------------------
(***************************************************************************)
(* The semantic response cache of proxy/semantic_cache.py over PostgreSQL, *)
(* shared by several proxy processes, which may run different versions     *)
(* during a rollout.  Inside a process lookup_result and store_response    *)
(* run without an await, so a process is in one of them at a time; between *)
(* processes their statements interleave as READ COMMITTED lets them.  A   *)
(* store is one transaction: delete the pair of the same identity, insert  *)
(* the response and the entry, commit; a lookup is one transaction to find *)
(* the candidate, one to read its response, and one to count the hit, or   *)
(* to clean up when the response cannot be read.  The row locks that these *)
(* take are modelled; the foreign key of entry to response cascades on a   *)
(* deletion, which finds nothing, since the entry is always deleted first. *)
(*                                                                         *)
(* Provider, model, embedding model and request parameters are part of the *)
(* identity as the version is; one version per proxy stands for all of     *)
(* them.  An entry and its response are created together, so the reference *)
(* names both.                                                             *)
(***************************************************************************)
EXTENDS Naturals, FiniteSets

CONSTANTS
  Proxies,      \* uvicorn processes that share the database
  Versions,     \* (embedding_version, quality_version) namespaces
  Prompts,      \* canonical prompts
  Refs,         \* values of uuid4, never drawn twice
  Near(_, _),   \* Near(p, q): cosine distance within max_cosine_distance
  TTL,          \* semantic_cache_ttl_seconds
  Nothing,
  MaxTime       \* bound: the clock stops here

ASSUME TTLIsPositive == TTL \in Nat \ {0}
ASSUME MaxTimeIsNatural == MaxTime \in Nat

Entry == [version : Versions, prompt : Prompts, ref : Refs, expires : Nat]
ASSUME NothingIsNoEntry == Nothing \notin Entry

VARIABLES
  now,        \* the database's clock
  entries,    \* committed rows of semantic_cache_entries
  responses,  \* committed rows of semantic_cache_responses
  drawn,      \* history: references drawn so far
  version,    \* version[p]: what process p derives at its start
  pc,         \* pc[p]: what process p executes next, one of Stations
  asked,      \* asked[p]: the prompt process p looks up
  target,     \* the candidate of a lookup, the row a DELETE waits for
  held,       \* held[p]: entries that p's open transaction has locked, to
              \* delete them or to count a hit
  removed,    \* removed[p]: responses that p's open transaction has deleted
  new,        \* new[p]: the pair that p's transaction inserts
  reply       \* reply[p]: the hit that p serves

tables == <<entries, responses>>
vars == <<now, tables, drawn, version, pc, asked, target, held, removed, new, reply>>

NoReply == [kind |-> "none"]

Stations ==
  {"idle",
   "delete", "waiting", "responses", "insert", "commit",           \* store_response
   "read", "count", "counted", "clean", "cleanMore", "cleaned"}    \* lookup_result

Init ==
  /\ now = 0
  /\ entries = {}
  /\ responses = {}
  /\ drawn = {}
  /\ version \in [Proxies -> Versions]
  /\ pc = [p \in Proxies |-> "idle"]
  /\ asked = [p \in Proxies |-> Nothing]
  /\ target = [p \in Proxies |-> Nothing]
  /\ held = [p \in Proxies |-> {}]
  /\ removed = [p \in Proxies |-> {}]
  /\ new = [p \in Proxies |-> Nothing]
  /\ reply = [p \in Proxies |-> NoReply]

Response(e) == [ref |-> e.ref, expires |-> e.expires]
SameIdentity(a, b) == a.version = b.version /\ a.prompt = b.prompt

\* A row lock is held until the transaction that took it ends.
LockedByOther(p, e) == \E o \in Proxies \ {p} : e \in held[o]
ResponseLocked(p, row) == \E o \in Proxies \ {p} : row \in removed[o]

-----------------------------------------------------------------------------
\* store_response

\* now() is the start of the transaction, for the expiry as well.
StoreBegins(p, prompt) == \E ref \in Refs \ drawn :
  /\ pc[p] = "idle"
  /\ pc' = [pc EXCEPT ![p] = "delete"]
  /\ drawn' = drawn \cup {ref}
  /\ new' = [new EXCEPT ![p] = [version |-> version[p], prompt |-> prompt,
                                ref |-> ref, expires |-> now + TTL]]
  /\ UNCHANGED <<now, tables, version, asked, target, held, removed, reply>>

\* The DELETE repeats every column of the identity index.
SupersededAnyVersion(p) == {e \in entries : e.prompt = new[p].prompt}
Superseded(p) == {e \in entries : SameIdentity(e, new[p])}

\* DELETE ... RETURNING: blocks on a row that another transaction has locked.
Delete(p) ==
  /\ pc[p] = "delete"
  /\ \/ /\ \A e \in Superseded(p) : ~LockedByOther(p, e)
        /\ held' = [held EXCEPT ![p] = Superseded(p)]
        /\ pc' = [pc EXCEPT ![p] = "responses"]
        /\ UNCHANGED target
     \/ \E e \in Superseded(p) :
        /\ LockedByOther(p, e)
        /\ target' = [target EXCEPT ![p] = e]
        /\ pc' = [pc EXCEPT ![p] = "waiting"]
        /\ UNCHANGED held
  /\ UNCHANGED <<now, tables, drawn, version, asked, removed, new, reply>>

\* The lock is free: the row is deleted if it is still there.  A row that was
\* committed since the statement began is not seen.
DeleteResumes(p) ==
  /\ pc[p] = "waiting"
  /\ ~LockedByOther(p, target[p])
  /\ held' = [held EXCEPT ![p] = entries \cap {target[p]}]
  /\ target' = [target EXCEPT ![p] = Nothing]
  /\ pc' = [pc EXCEPT ![p] = "responses"]
  /\ UNCHANGED <<now, tables, drawn, version, asked, removed, new, reply>>

\* The responses of the old pairs, by the references that RETURNING gave.
KeepsResponses(p) ==      \* the old response row is not deleted
  /\ pc[p] = "responses"
  /\ pc' = [pc EXCEPT ![p] = "insert"]
  /\ UNCHANGED <<now, tables, drawn, version, asked, target, held, removed, new, reply>>
DeletesResponses(p) ==
  /\ pc[p] = "responses"
  /\ \A e \in held[p] : ~ResponseLocked(p, Response(e))
  /\ removed' = [removed EXCEPT ![p] = {Response(e) : e \in held[p]}]
  /\ pc' = [pc EXCEPT ![p] = "insert"]
  /\ UNCHANGED <<now, tables, drawn, version, asked, target, held, new, reply>>

\* The unique index: rows of the same identity that stand in the way of the
\* insert, and transactions whose outcome the insert waits for.
Conflicts(p) == {e \in entries \ held[p] : SameIdentity(e, new[p])}
WaitsToInsert(p, o) ==
  \/ \E e \in Conflicts(p) : e \in held[o]
  \/ pc[o] = "commit" /\ SameIdentity(new[o], new[p])

InsertBlind(p) ==      \* no unique index on the identity
  /\ pc[p] = "insert"
  /\ pc' = [pc EXCEPT ![p] = "commit"]
  /\ UNCHANGED <<now, tables, drawn, version, asked, target, held, removed, new, reply>>
Insert(p) ==
  /\ pc[p] = "insert"
  /\ \A o \in Proxies \ {p} : ~WaitsToInsert(p, o)
  /\ Conflicts(p) = {}
  /\ pc' = [pc EXCEPT ![p] = "commit"]
  /\ UNCHANGED <<now, tables, drawn, version, asked, target, held, removed, new, reply>>

Ends(p) ==
  /\ pc' = [pc EXCEPT ![p] = "idle"]
  /\ asked' = [asked EXCEPT ![p] = Nothing]
  /\ target' = [target EXCEPT ![p] = Nothing]
  /\ held' = [held EXCEPT ![p] = {}]
  /\ removed' = [removed EXCEPT ![p] = {}]
  /\ new' = [new EXCEPT ![p] = Nothing]

Commit(p) ==
  /\ pc[p] = "commit"
  /\ entries' = (entries \ held[p]) \cup {new[p]}
  /\ responses' = (responses \ removed[p]) \cup {Response(new[p])}
  /\ Ends(p)
  /\ UNCHANGED <<now, drawn, version, reply>>

\* A unique violation, no provider row, a lost connection: all is rolled back
\* and store_response returns None.
Rollback(p) ==
  /\ pc[p] \in {"delete", "waiting", "responses", "insert", "commit"}
  /\ Ends(p)
  /\ UNCHANGED <<now, tables, drawn, version, reply>>

-----------------------------------------------------------------------------
\* lookup_result

CompatibleAnyVersion(p) == {e \in entries : e.expires > now}
Compatible(p) == {e \in entries : e.version = version[p] /\ e.expires > now}

\* The nearest row, found through an approximate index: any compatible row may
\* come first.  One that is too far, or none, ends the lookup at once.
Seek(p, prompt) == \E e \in Compatible(p) :
  /\ pc[p] = "idle"
  /\ Near(e.prompt, prompt)
  /\ asked' = [asked EXCEPT ![p] = prompt]
  /\ target' = [target EXCEPT ![p] = e]
  /\ pc' = [pc EXCEPT ![p] = "read"]
  /\ UNCHANGED <<now, tables, drawn, version, held, removed, new, reply>>

Readable(e) == Response(e) \in responses /\ e.expires > now

\* What the lookup is going to return.
ReadHit(p) ==
  /\ pc[p] = "read"
  /\ Readable(target[p])
  /\ reply' = [reply EXCEPT ![p] = [kind |-> "hit", ref |-> target[p].ref,
                                    version |-> version[p], prompt |-> asked[p]]]
  /\ pc' = [pc EXCEPT ![p] = "count"]
  /\ UNCHANGED <<now, tables, drawn, version, asked, target, held, removed, new>>

\* UPDATE ... SET hit_count: waits for who has locked the row, locks it, and
\* finds none if it was deleted.
Counts(p) ==
  /\ pc[p] = "count"
  /\ ~LockedByOther(p, target[p])
  /\ held' = [held EXCEPT ![p] = entries \cap {target[p]}]
  /\ pc' = [pc EXCEPT ![p] = "counted"]
  /\ UNCHANGED <<now, tables, drawn, version, asked, target, removed, new, reply>>

\* It commits or fails, and the hit is returned either way.
CountEnds(p) ==
  /\ pc[p] \in {"count", "counted"}
  /\ Ends(p)
  /\ reply' = [reply EXCEPT ![p] = NoReply]
  /\ UNCHANGED <<now, tables, drawn, version>>

\* The response is gone or expired, or the database fails on it.
ReadFails(p) ==
  /\ pc[p] = "read"
  /\ pc' = [pc EXCEPT ![p] = "clean"]
  /\ UNCHANGED <<now, tables, drawn, version, asked, target, held, removed, new, reply>>

\* _cleanup_candidate: two DELETEs, which wait as the store's do, and commit.
CleanOrderResponseFirst == <<"response", "entry">>
CleanOrder == <<"entry", "response">>

Cleans(p, row) ==      \* the next DELETE of p is that of the row
  \/ pc[p] = "clean" /\ CleanOrder[1] = row
  \/ pc[p] = "cleanMore" /\ CleanOrder[2] = row
CleanAdvances(p) ==
  pc' = [pc EXCEPT ![p] = IF @ = "clean" THEN "cleanMore" ELSE "cleaned"]

CleansEntry(p) ==
  /\ Cleans(p, "entry")
  /\ ~LockedByOther(p, target[p])
  /\ held' = [held EXCEPT ![p] = entries \cap {target[p]}]
  /\ CleanAdvances(p)
  /\ UNCHANGED <<now, tables, drawn, version, asked, target, removed, new, reply>>

CleansResponse(p) ==
  /\ Cleans(p, "response")
  /\ ~ResponseLocked(p, Response(target[p]))
  /\ removed' = [removed EXCEPT ![p] = responses \cap {Response(target[p])}]
  /\ CleanAdvances(p)
  /\ UNCHANGED <<now, tables, drawn, version, asked, target, held, new, reply>>

CleanCommits(p) ==
  /\ pc[p] = "cleaned"
  /\ entries' = entries \ held[p]
  /\ responses' = responses \ removed[p]
  /\ Ends(p)
  /\ UNCHANGED <<now, drawn, version, reply>>

CleanFails(p) ==
  /\ pc[p] \in {"clean", "cleanMore", "cleaned"}
  /\ Ends(p)
  /\ UNCHANGED <<now, tables, drawn, version, reply>>

-----------------------------------------------------------------------------
\* A process dies and comes back, perhaps upgraded or rolled back: its open
\* transaction is rolled back by the database.
Restart(p) == \E v \in Versions :
  /\ version' = [version EXCEPT ![p] = v]
  /\ Ends(p)
  /\ reply' = [reply EXCEPT ![p] = NoReply]
  /\ UNCHANGED <<now, tables, drawn>>

Tick ==
  /\ now < MaxTime
  /\ now' = now + 1
  /\ UNCHANGED <<tables, drawn, version, pc, asked, target, held, removed, new, reply>>

StoreStep(p) ==
  Delete(p) \/ DeleteResumes(p) \/ DeletesResponses(p) \/ Insert(p) \/ Commit(p)

LookupStep(p) ==
  \/ ReadHit(p) \/ Counts(p) \/ CountEnds(p)
  \/ ReadFails(p) \/ CleansEntry(p) \/ CleansResponse(p) \/ CleanCommits(p)
  \/ CleanFails(p)

Next ==
  \/ \E p \in Proxies :
       \/ \E prompt \in Prompts : StoreBegins(p, prompt) \/ Seek(p, prompt)
       \/ StoreStep(p) \/ Rollback(p) \/ LookupStep(p) \/ Restart(p)
  \/ Tick

Spec == Init /\ [][Next]_vars

-----------------------------------------------------------------------------
(***************************************************************************)
(* "entry/response expires_at must be identical (one transaction)": the    *)
(* committed tables pair every entry with exactly one response of the same *)
(* expiry, and no response is left behind by a supersession, a cleanup or  *)
(* a crash between two statements.                                         *)
(***************************************************************************)
RowsArePaired ==
  /\ responses = {Response(e) : e \in entries}
  /\ \A e, f \in entries : e.ref = f.ref => e = f

(***************************************************************************)
(* A store replaces the entry of its identity, "not duplicated", also when *)
(* two processes store the same prompt at once.                            *)
(***************************************************************************)
OneEntryPerIdentity ==
  \A e, f \in entries : SameIdentity(e, f) => e = f

(***************************************************************************)
(* Versions are namespaces: an unexpired entry disappears only because the *)
(* same identity was stored again or because a lookup could not read it;   *)
(* so a rollback of the release finds the old version's entries readable.  *)
(***************************************************************************)
QuarantineKeepsEntries ==
  [][\A e \in entries \ entries' :
       \/ \E f \in entries' : SameIdentity(e, f)
       \/ \E p \in Proxies : pc[p] = "cleaned" /\ target[p] = e]_vars

(***************************************************************************)
(* Stores, cleanups and counted hits never deadlock, whatever row locks    *)
(* they hold in either table: transactions wait for who has locked an      *)
(* entry or a response and for an insert of the same identity, and among   *)
(* any that are under way one waits for none of the others.                *)
(***************************************************************************)
WaitsFor(p, o) ==
  \/ /\ pc[p] \in {"waiting", "count"} \/ Cleans(p, "entry")
     /\ target[p] \in held[o]
  \/ pc[p] = "responses" /\ \E e \in held[p] : Response(e) \in removed[o]
  \/ Cleans(p, "response") /\ Response(target[p]) \in removed[o]
  \/ pc[p] = "insert" /\ WaitsToInsert(p, o)

NoCircle ==
  \A some \in (SUBSET Proxies) \ {{}} : \E p \in some : \A o \in some \ {p} : ~WaitsFor(p, o)

-----------------------------------------------------------------------------
(***************************************************************************)
(* The refinement: a pair of committed rows is an abstract pair.           *)
(***************************************************************************)
Replayable == {e \in entries : Response(e) \in responses}

Promise == INSTANCE SemanticReplay WITH pairs <- Replayable

(***************************************************************************)
(* Statements and transactions never show: a hit replays what the cache    *)
(* holds at that moment for the version that asks, near enough and not     *)
(* expired, although candidate and response are read in two transactions.  *)
(***************************************************************************)
ImplementsReplay == Promise!Spec

=============================================================================
