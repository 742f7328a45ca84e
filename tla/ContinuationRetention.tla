------------------------ MODULE ContinuationRetention ------------------------
(***************************************************************************)
(* What the continuation store of the proxy promises, without its data     *)
(* structures: a granted continuation stays readable by the scope that     *)
(* saved it until its time to live is over, whatever anybody else saves;   *)
(* it is readable by nobody else and never afterwards; a new continuation  *)
(* is refused only when the continuations that are still alive leave no    *)
(* room for it.                                                            *)
(***************************************************************************)
EXTENDS Naturals

CONSTANTS
  Ids,             \* continuation ids
  Scopes,          \* (tenant, session) pairs
  Content,         \* tool outputs
  Size,            \* Size[c] is the length of c in characters
  TTL,             \* lifetime of a continuation
  MaxTotalChars,   \* a content longer than this is never accepted
  NoGrant,         \* value of an id that grants nothing
  HasRoom(_, _)    \* HasRoom(g, c): beside the grants g there is room for c

VARIABLES
  now,             \* the clock
  live,            \* live[i]: the grant behind id i, or NoGrant
  reply            \* what the last operation returned

vars == <<now, live, reply>>

Grant == [scope : Scopes, content : Content, expires : Nat]

\* A grant at time t, if it has not lapsed by then.
AliveAt(g, t) == g # NoGrant /\ g.expires > t

Init ==
  /\ now = 0
  /\ live = [i \in Ids |-> NoGrant]
  /\ reply = [result |-> "none"]

Advance ==
  /\ now' = now + 1
  /\ live' = [i \in Ids |-> IF AliveAt(live[i], now') THEN live[i] ELSE NoGrant]
  /\ UNCHANGED reply

Accept(i, s, c) ==
  /\ reply' = [result |-> "saved", id |-> i, scope |-> s, content |-> c]
  /\ HasRoom(live, c)
  /\ live[i] = NoGrant
  /\ live' = [live EXCEPT ![i] = [scope |-> s, content |-> c, expires |-> now + TTL]]
  /\ UNCHANGED now

Refuse(s, c) ==
  /\ reply' = [result |-> "store_full", scope |-> s, content |-> c]
  /\ Size[c] > MaxTotalChars \/ ~HasRoom(live, c)
  /\ UNCHANGED <<now, live>>

Serve(i, s) ==
  /\ live[i] # NoGrant
  /\ live[i].scope = s
  /\ \E from, to \in 0 .. Size[live[i].content] :
       /\ from <= to
       /\ reply' = [result |-> "ok", id |-> i, scope |-> s,
                    content |-> live[i].content, from |-> from, to |-> to]
  /\ UNCHANGED <<now, live>>

Deny(i, s) ==
  /\ reply' = [result |-> "not_found", id |-> i, scope |-> s]
  /\ live[i] = NoGrant \/ live[i].scope # s
  /\ UNCHANGED <<now, live>>

OutOfRange(i, s) ==
  /\ reply' = [result |-> "invalid_range", id |-> i, scope |-> s]
  /\ UNCHANGED <<now, live>>

Next ==
  \/ Advance
  \/ \E s \in Scopes, c \in Content :
       \/ Refuse(s, c)
       \/ \E i \in Ids : Accept(i, s, c)
  \/ \E i \in Ids, s \in Scopes :
       \/ Serve(i, s)
       \/ Deny(i, s)
       \/ OutOfRange(i, s)

Spec == Init /\ [][Next]_vars

=============================================================================
