----------------------------- MODULE ToolResults -----------------------------
(***************************************************************************)
(* Continuations behind proxy keys: a call presents a key and a session    *)
(* id, _resolve_proxy_key_scope turns them into a (tenant, session) scope, *)
(* and the continuation store saves under, or reads with, that scope.      *)
(* Composes ContinuationStore (one process) with ProxyKeys (the database   *)
(* that all processes share).  The handlers do not yield between the scope *)
(* and the store, so the calls of a process follow one another; but the    *)
(* scope is read in a transaction of its own, and before the call reaches  *)
(* the store an administrator may commit through another process, and the  *)
(* clock moves.                                                            *)
(***************************************************************************)
EXTENDS ProxyKeys, ContinuationStore

CONSTANTS
  Sessions,        \* values of the X-Session-Id header
  NoSession        \* the session of no call

ASSUME ScopesArePairs == Scopes = Tenants \X Sessions

NoScope == <<>>

\* What a call presents, the scope it was given, and what it does with it: a chat
\* request saves tool results, a retrieval reads one.
NoCall == [key |-> NoKey, session |-> NoSession, scope |-> NoScope, op |-> "over"]

VARIABLES
  call,       \* the call in hand, or the retrieval that reply answers
  savedBy     \* history: savedBy[i] is the call that saved continuation i

vars == <<keyVars, storeVars, call, savedBy>>

Init ==
  /\ KeysInit
  /\ StoreInit
  /\ call = NoCall
  /\ savedBy = [i \in Ids |-> NoCall]

-----------------------------------------------------------------------------
\* _resolve_proxy_key_scope for a key and a session id.
ScopeOf(k, s) == IF Active(k) THEN <<rows[k].tenant, s>> ELSE NoScope

\* A call arrives and is given a scope.
Resolves(k, s, op) ==
  /\ call.op = "over"
  /\ ScopeOf(k, s) # NoScope
  /\ call' = [key |-> k, session |-> s, scope |-> ScopeOf(k, s), op |-> op]
  /\ reply' = [result |-> "none"]
  /\ UNCHANGED <<keyVars, now, entries, issued, denied, savedBy>>

\* It is given none: a retired key, a credential of the caller's own, no
\* session id, or a database that does not answer.  retrieve_tool_result gives
\* 401; a chat request saves no tool result but truncates it.
Unscoped ==
  /\ call.op = "over"
  /\ call' = NoCall
  /\ reply' = [result |-> "unauthorized"]
  /\ UNCHANGED <<keyVars, now, entries, issued, denied, savedBy>>

\* A chat request saves a tool result, perhaps one of several.
Saves ==
  /\ call.op = "chat"
  /\ \E output \in Content :
       \/ SaveOk(call.scope, output)
       \/ SaveTooLarge(call.scope, output)
       \/ SaveFull(call.scope, output)
  /\ savedBy' = IF reply'.result = "saved" THEN [savedBy EXCEPT ![reply'.id] = call]
                ELSE savedBy
  /\ UNCHANGED <<keyVars, call>>

\* It has no more results to save.
ChatEnds ==
  /\ call.op = "chat"
  /\ call' = NoCall
  /\ UNCHANGED <<keyVars, storeVars, savedBy>>

\* A read by segment; by range it differs only in the piece that is returned.
Reads ==
  /\ call.op = "retrieve"
  /\ \E i \in Ids :
       \/ GetDenied(i, call.scope)
       \/ \E k \in 0 .. MaxOffset : GetSegment(i, call.scope, k)
  /\ call' = [call EXCEPT !.op = "over"]
  /\ UNCHANGED <<keyVars, savedBy>>

\* time.time() is the wall clock: an adjustment may set it back.
StepsBack ==
  /\ now > 0
  /\ now' = now - 1
  /\ UNCHANGED <<entries, issued, denied, reply>>

ClockMoves ==
  /\ Tick \/ StepsBack
  /\ UNCHANGED <<keyVars, call, savedBy>>

AdministratorActs ==
  /\ KeysNext
  /\ UNCHANGED <<storeVars, call, savedBy>>

Next ==
  \/ \E k \in ApiKeys, s \in Sessions, op \in {"chat", "retrieve"} : Resolves(k, s, op)
  \/ Unscoped \/ Saves \/ ChatEnds \/ Reads
  \/ ClockMoves
  \/ AdministratorActs

Spec == Init /\ [][Next]_vars

-----------------------------------------------------------------------------
(***************************************************************************)
(* Rotation does not strand what the predecessor saved: a key of the same  *)
(* lineage in the same session is told "not found" only of a continuation  *)
(* that has left the store, also when the key that saved it, or the one    *)
(* that asks, was rotated between the scope lookup of its call and the     *)
(* store.                                                                  *)
(***************************************************************************)
RotationKeepsAccess ==
  /\ reply.result = "not_found"
  /\ savedBy[reply.id] # NoCall
  /\ savedBy[reply.id].session = call.session
  /\ root[savedBy[reply.id].key] = root[call.key]
  => entries[reply.id] = NoEntry
=============================================================================
