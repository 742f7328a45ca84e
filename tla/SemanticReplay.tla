--------------------------- MODULE SemanticReplay ---------------------------
(***************************************************************************)
(* What the semantic cache promises to the request path, without tables or *)
(* transactions: at most one answer per identity, the identity being the   *)
(* version of the proxy and the prompt; a hit replays an answer that is in *)
(* the cache at that moment, was stored under the version of the proxy     *)
(* that asks, for a prompt near enough, and has not expired.  An answer    *)
(* may vanish at any time, and a miss is always allowed.                   *)
(***************************************************************************)
EXTENDS Naturals

CONSTANTS
  Proxies, Versions, Prompts, Refs,
  Near(_, _),      \* whether two prompts are within the calibrated distance
  TTL

VARIABLES
  now,
  pairs,    \* answers that can be replayed
  reply     \* reply[p]: what proxy p replays

vars == <<now, pairs, reply>>

Pair == [version : Versions, prompt : Prompts, ref : Refs, expires : Nat]

NoReply == [kind |-> "none"]

Init ==
  /\ now = 0
  /\ pairs = {}
  /\ reply = [p \in Proxies |-> NoReply]

SameIdentity(a, b) == a.version = b.version /\ a.prompt = b.prompt

\* An answer expires at most TTL after it was put, and replaces its like.
Put ==
  /\ UNCHANGED <<now, reply>>
  /\ \E v \in Versions, prompt \in Prompts, ref \in Refs, expires \in 0 .. now + TTL :
       LET new == [version |-> v, prompt |-> prompt, ref |-> ref, expires |-> expires] IN
       /\ \A a \in pairs : a.ref # ref
       /\ pairs' = {a \in pairs : ~SameIdentity(a, new)} \cup {new}

Evict ==
  /\ UNCHANGED <<now, reply>>
  /\ pairs' \in SUBSET pairs

Replay(p, v, prompt) == \E a \in pairs :
  /\ a.version = v
  /\ Near(a.prompt, prompt)
  /\ a.expires > now
  /\ reply' = [reply EXCEPT ![p] =
       [kind |-> "hit", ref |-> a.ref, version |-> v, prompt |-> prompt]]
  /\ UNCHANGED <<now, pairs>>

Return(p) == reply' = [reply EXCEPT ![p] = NoReply] /\ UNCHANGED <<now, pairs>>

Advance == now' = now + 1 /\ UNCHANGED <<pairs, reply>>

Next ==
  \/ Evict \/ Put \/ Advance
  \/ \E p \in Proxies :
       Return(p) \/ \E v \in Versions, prompt \in Prompts : Replay(p, v, prompt)

Spec == Init /\ [][Next]_vars

=============================================================================
