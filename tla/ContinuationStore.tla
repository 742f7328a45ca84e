-------------------------- MODULE ContinuationStore --------------------------
(***************************************************************************)
(* The in-process continuation store of proxy/tocp.py: a tool output too   *)
(* long for the model is saved under a random id, the model gets its first *)
(* segment and the id, and the caller fetches the rest by segment or by    *)
(* character range.  Every operation runs under the store's lock, so it is *)
(* one action; expired entries stay in the dictionary until the next       *)
(* operation purges them.  The dictionary is ordered, but no operation     *)
(* evicts by that order, so the order is not modelled.                     *)
(***************************************************************************)
EXTENDS Naturals, FiniteSets, FiniteSetsExt

CONSTANTS
  Ids,             \* values of secrets.token_urlsafe, never handed out twice
  Scopes,          \* (tenant, session) pairs the callers authenticate as
  Content,         \* tool outputs
  Size,            \* Size[c] is the length of c in characters
  TTL,             \* ttl_seconds
  MaxEntries,      \* max_entries
  MaxTotalChars,   \* max_total_chars
  SegmentChars,    \* segment_chars
  NoEntry,         \* value of an id that is not in the dictionary
  MaxTime,         \* bound: the clock stops here
  MaxOffset        \* bound on the segment indexes and offsets callers ask for

ASSUME LimitsArePositive ==
  /\ TTL \in Nat \ {0}
  /\ MaxEntries \in Nat \ {0}
  /\ MaxTotalChars \in Nat \ {0}
  /\ SegmentChars \in Nat \ {0}

ASSUME BoundsAreNaturals == MaxTime \in Nat /\ MaxOffset \in Nat

ASSUME SizesAreNaturals == Size \in [Content -> Nat]

ASSUME IdsAreFinite == IsFiniteSet(Ids)

Entry == [scope : Scopes, content : Content, expires : Nat]

ASSUME NoEntryIsNoEntry == NoEntry \notin Entry

VARIABLES
  now,      \* time.time()
  entries,  \* _entries: the dictionary, NoEntry where the id is absent
  issued,   \* history: the entry saved under each id that was handed out
  denied,   \* history: ids whose own scope was told "not found"
  reply     \* what the last operation returned or raised

storeVars == <<now, entries, issued, denied, reply>>

Keys == {i \in Ids : entries[i] # NoEntry}

\* sum(len(entry.content) for entry in entries.values())
TotalChars(e) ==
  MapThenSumSet(LAMBDA i : Size[e[i].content], {i \in Ids : e[i] # NoEntry})

ExpiredEarly(entry) == entry # NoEntry /\ entry.expires <= now + 1  \* off by one
Expired(entry) == entry # NoEntry /\ entry.expires <= now

\* The dictionary after _purge_expired.
Purged == [i \in Ids |-> IF Expired(entries[i]) THEN NoEntry ELSE entries[i]]

StoreInit ==
  /\ now = 0
  /\ entries = [i \in Ids |-> NoEntry]
  /\ issued = [i \in Ids |-> NoEntry]
  /\ denied = {}
  /\ reply = [result |-> "none"]

-----------------------------------------------------------------------------
\* save

\* The content fits beside the entries of the dictionary e.
FitsOnePastLimit(e, c) ==      \* len(entries) > max_entries
  /\ Cardinality({i \in Ids : e[i] # NoEntry}) <= MaxEntries
  /\ TotalChars(e) + Size[c] <= MaxTotalChars
FitsWithoutTheNew(e, c) ==     \* the new content is not counted
  /\ Cardinality({i \in Ids : e[i] # NoEntry}) < MaxEntries
  /\ TotalChars(e) <= MaxTotalChars
Fits(e, c) ==
  /\ Cardinality({i \in Ids : e[i] # NoEntry}) < MaxEntries
  /\ TotalChars(e) + Size[c] <= MaxTotalChars

SaveOk(s, c) ==
  /\ Size[c] <= MaxTotalChars
  /\ Fits(Purged, c)
  /\ \E i \in Ids :
       LET entry == [scope |-> s, content |-> c, expires |-> now + TTL] IN
       /\ issued[i] = NoEntry
       /\ entries' = [Purged EXCEPT ![i] = entry]
       /\ issued' = [issued EXCEPT ![i] = entry]
       /\ reply' = [result |-> "saved", id |-> i, scope |-> s, content |-> c]
  /\ UNCHANGED <<now, denied>>

\* The oversize check comes before the lock: nothing is purged.
SaveTooLarge(s, c) ==
  /\ Size[c] > MaxTotalChars
  /\ reply' = [result |-> "store_full", scope |-> s, content |-> c]
  /\ UNCHANGED <<now, entries, issued, denied>>

SaveFullUnpurged(s, c) ==      \* expired entries still take room
  /\ Size[c] <= MaxTotalChars
  /\ ~Fits(entries, c)
  /\ entries' = Purged
  /\ reply' = [result |-> "store_full", scope |-> s, content |-> c]
  /\ UNCHANGED <<now, issued, denied>>
SaveFull(s, c) ==
  /\ Size[c] <= MaxTotalChars
  /\ ~Fits(Purged, c)
  /\ entries' = Purged
  /\ reply' = [result |-> "store_full", scope |-> s, content |-> c]
  /\ UNCHANGED <<now, issued, denied>>

-----------------------------------------------------------------------------
\* get_segment and get_range

AuthorizedAnyScope(i, s) == Purged[i] # NoEntry
Authorized(i, s) == Purged[i] # NoEntry /\ Purged[i].scope = s

Piece(i, s, from, to) ==
  [result |-> "ok", id |-> i, scope |-> s,
   content |-> entries[i].content, from |-> from, to |-> to]

\* _authorized raises ContinuationNotFound, the same for a missing, an
\* expired and somebody else's continuation.
GetDeniedWithoutPurge(i, s) ==
  /\ ~Authorized(i, s)
  /\ denied' = IF issued[i] # NoEntry /\ issued[i].scope = s
               THEN denied \cup {i} ELSE denied
  /\ reply' = [result |-> "not_found", id |-> i, scope |-> s]
  /\ UNCHANGED <<now, entries, issued>>
GetDenied(i, s) ==
  /\ ~Authorized(i, s)
  /\ entries' = Purged
  /\ denied' = IF issued[i] # NoEntry /\ issued[i].scope = s
               THEN denied \cup {i} ELSE denied
  /\ reply' = [result |-> "not_found", id |-> i, scope |-> s]
  /\ UNCHANGED <<now, issued>>

\* start >= len(content) and not (index == 0 and not content)
SegmentOutsideLoose(i, k) ==     \* start > len(content)
  k * SegmentChars > Size[entries[i].content]
SegmentOutside(i, k) ==
  LET size == Size[entries[i].content] IN
  k * SegmentChars >= size /\ ~(k = 0 /\ size = 0)

Smaller(a, b) == IF a <= b THEN a ELSE b

SegmentEnd(i, k) == Smaller((k + 1) * SegmentChars, Size[entries[i].content])

GetSegment(i, s, k) ==
  /\ Authorized(i, s)
  /\ entries' = Purged
  /\ reply' = IF SegmentOutside(i, k)
              THEN [result |-> "invalid_range", id |-> i, scope |-> s]
              ELSE Piece(i, s, k * SegmentChars, SegmentEnd(i, k))
  /\ UNCHANGED <<now, issued, denied>>

GetRange(i, s, from, to) ==
  /\ from < to
  /\ Authorized(i, s)
  /\ entries' = Purged
  /\ reply' = IF to > Size[entries[i].content]
              THEN [result |-> "invalid_range", id |-> i, scope |-> s]
              ELSE Piece(i, s, from, to)
  /\ UNCHANGED <<now, issued, denied>>

\* An empty or backward range is refused before the lock is taken.
GetRangeBackward(i, s) ==
  /\ reply' = [result |-> "invalid_range", id |-> i, scope |-> s]
  /\ UNCHANGED <<now, entries, issued, denied>>

-----------------------------------------------------------------------------
\* cleanup and the size property do nothing but purge.
Cleanup ==
  /\ entries' = Purged
  /\ UNCHANGED <<now, issued, denied, reply>>

\* time.time() moves on; ToolResults also lets it be set back.
Tick ==
  /\ now < MaxTime
  /\ now' = now + 1
  /\ UNCHANGED <<entries, issued, denied, reply>>

Save == \E s \in Scopes, c \in Content :
  SaveOk(s, c) \/ SaveTooLarge(s, c) \/ SaveFull(s, c)

Get == \E i \in Ids, s \in Scopes :
  \/ GetDenied(i, s)
  \/ GetRangeBackward(i, s)
  \/ \E k \in 0..MaxOffset : GetSegment(i, s, k)
  \/ \E from, to \in 0..MaxOffset : GetRange(i, s, from, to)

StoreNext == Save \/ Get \/ Cleanup \/ Tick

StoreSpec == StoreInit /\ [][StoreNext]_storeVars

-----------------------------------------------------------------------------
\* What an envelope of build_continuation_result tells the model.

\* available_segments: math.ceil(len(content) / segment_chars)
AvailableSegments(c) == (Size[c] + SegmentChars - 1) \div SegmentChars

\* The preview is the first segment of the content.
PreviewChars(c) == Smaller(SegmentChars, Size[c])

-----------------------------------------------------------------------------
(***************************************************************************)
(* Type correctness of the store.                                          *)
(***************************************************************************)
Reply ==
  [result : {"none"}]
    \cup [result : {"store_full"}, scope : Scopes, content : Content]
    \cup [result : {"saved"}, id : Ids, scope : Scopes, content : Content]
    \cup [result : {"not_found", "invalid_range"}, id : Ids, scope : Scopes]
    \cup [result : {"ok"}, id : Ids, scope : Scopes, content : Content,
          from : Nat, to : Nat]

StoreTypeOK ==
  /\ now \in Nat
  /\ entries \in [Ids -> Entry \cup {NoEntry}]
  /\ issued \in [Ids -> Entry \cup {NoEntry}]
  /\ denied \subseteq Ids
  /\ reply \in Reply

(***************************************************************************)
(* Neither limit of the store is ever exceeded, counting the entries that  *)
(* have expired and wait to be purged as well: the memory bound of         *)
(* ContinuationStore.save.                                                 *)
(***************************************************************************)
EntryLimit == Cardinality(Keys) <= MaxEntries
CharLimit == TotalChars(entries) <= MaxTotalChars

(***************************************************************************)
(* "unexpired continuations are never evicted" (StoreCapacityExceeded):    *)
(* what was handed out is in the dictionary unchanged until it expires, no *)
(* matter how full the store became.                                       *)
(***************************************************************************)
Retained ==
  \A i \in Ids : issued[i] # NoEntry /\ issued[i].expires > now =>
    entries[i] = issued[i]

(***************************************************************************)
(* Whatever get_segment and get_range return was saved under that id by    *)
(* the very scope that asks, and is a piece of that content.               *)
(***************************************************************************)
ServedToItsScope ==
  reply.result = "ok" =>
    /\ issued[reply.id].scope = reply.scope
    /\ issued[reply.id].content = reply.content
    /\ reply.from <= reply.to
    /\ reply.to <= Size[reply.content]

(***************************************************************************)
(* Once its own scope was told that a continuation is gone, it is never    *)
(* served again, whatever is saved in between and even when the clock      *)
(* steps back before its expiry: denial and purge happen together.         *)
(***************************************************************************)
NoResurrection == reply.result = "ok" => reply.id \notin denied

(***************************************************************************)
(* The segments an envelope announces are the whole content: every         *)
(* announced index is served, none beyond them is (the single segment 0 of *)
(* an empty content apart), and put side by side they give the content     *)
(* back exactly once.  get_segment for the owner of a live continuation.   *)
(***************************************************************************)
SegmentsCoverContent ==
  \A i \in Keys :
    LET c == entries[i].content
        announced == 0 .. AvailableSegments(c) - 1
    IN /\ \A k \in 0 .. AvailableSegments(c) :
            SegmentOutside(i, k) <=> k \notin announced /\ Size[c] > 0
       /\ \A p \in 0 .. Size[c] - 1 :
            Cardinality({k \in announced :
              k * SegmentChars <= p /\ p < SegmentEnd(i, k)}) = 1

-----------------------------------------------------------------------------
(***************************************************************************)
(* The refinement: an abstract grant is a dictionary entry that has not    *)
(* expired, so the laziness of the purge is invisible to every caller.     *)
(***************************************************************************)
LiveEntries == [i \in Ids |-> IF Expired(entries[i]) THEN NoEntry ELSE entries[i]]

Retention == INSTANCE ContinuationRetention
               WITH live <- LiveEntries, NoGrant <- NoEntry, HasRoom <- Fits

(***************************************************************************)
(* The store with its lazy purge implements the abstract promise: refused  *)
(* only for want of live room, served exactly while alive, denied exactly  *)
(* when not.                                                               *)
(***************************************************************************)
ImplementsRetention == Retention!Spec

=============================================================================
