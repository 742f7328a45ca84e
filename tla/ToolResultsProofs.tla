-------------------------- MODULE ToolResultsProofs --------------------------
(***************************************************************************)
(* Proofs about the continuation store of tocp.py, for every set of ids,   *)
(* scopes and contents and every value of the limits, and about the proxy  *)
(* keys in front of it, for any number of keys, tenants, administrators    *)
(* and sessions.  The argument for the keys: an open transaction holds the *)
(* row lock of its key, and a rotation found it active, so nobody retires  *)
(* the key before the rotation commits; a fresh key is the root of nobody  *)
(* yet.                                                                    *)
(***************************************************************************)
EXTENDS ToolResults, FiniteSetTheorems, WellFoundedInduction, TLAPS

USE LimitsArePositive, BoundsAreNaturals, SizesAreNaturals, NoEntryIsNoEntry

-----------------------------------------------------------------------------
(***************************************************************************)
(* Purging yields a dictionary again, and only ever removes entries.       *)
(***************************************************************************)
LEMMA PurgedType ==
  ASSUME StoreTypeOK
  PROVE  /\ Purged \in [Ids -> Entry \cup {NoEntry}]
         /\ \A i \in Ids : Purged[i] # NoEntry => Purged[i] = entries[i]
         /\ \A i \in Ids : Purged[i] # NoEntry => Purged[i].expires > now
BY DEF StoreTypeOK, Purged, Expired, Entry

(***************************************************************************)
(* A new entry saved by save is an entry.                                  *)
(***************************************************************************)
LEMMA NewEntryType ==
  ASSUME StoreTypeOK, NEW s \in Scopes, NEW c \in Content
  PROVE  [scope |-> s, content |-> c, expires |-> now + TTL] \in Entry
BY DEF StoreTypeOK, Entry

(***************************************************************************)
(* The bounds of a served segment are offsets into the content: get_segment *)
(* after its range check.                                                  *)
(***************************************************************************)
LEMMA SegmentBounds ==
  ASSUME StoreTypeOK, NEW i \in Ids, entries[i] # NoEntry, NEW k \in Nat,
         ~SegmentOutside(i, k)
  PROVE  /\ k * SegmentChars \in Nat
         /\ SegmentEnd(i, k) \in Nat
         /\ k * SegmentChars <= SegmentEnd(i, k)
         /\ SegmentEnd(i, k) <= Size[entries[i].content]
<1> DEFINE size == Size[entries[i].content]
<1>1. size \in Nat
  BY DEF StoreTypeOK, Entry
<1>2. k * SegmentChars \in Nat
  OBVIOUS
<1>3. (k + 1) * SegmentChars = k * SegmentChars + SegmentChars
  OBVIOUS
<1>4. k * SegmentChars < size \/ (k = 0 /\ size = 0)
  BY <1>1, <1>2 DEF SegmentOutside
<1>5. CASE k * SegmentChars < size
  <2> HIDE DEF size
  <2>1. SegmentEnd(i, k) = IF (k + 1) * SegmentChars <= size
                           THEN (k + 1) * SegmentChars ELSE size
    BY DEF SegmentEnd, Smaller, size
  <2> DEFINE from == k * SegmentChars
  <2>2. from \in Nat /\ from < size
    BY <1>2, <1>5
  <2>3. SegmentEnd(i, k) = IF from + SegmentChars <= size
                           THEN from + SegmentChars ELSE size
    BY <1>3, <2>1
  <2> HIDE DEF from
  <2>4. SegmentEnd(i, k) \in Nat /\ from <= SegmentEnd(i, k) /\ SegmentEnd(i, k) <= size
    BY <1>1, <2>2, <2>3
  <2>5. QED
    BY <1>2, <2>4 DEF size, from
<1>6. CASE k = 0 /\ size = 0
  BY <1>6 DEF SegmentEnd, Smaller
<1>7. QED
  BY <1>4, <1>5, <1>6

-----------------------------------------------------------------------------
(***************************************************************************)
(* StoreTypeOK is an invariant of the store: every operation of tocp.py    *)
(* keeps the dictionary well typed and answers with a reply of the right   *)
(* shape.                                                                  *)
(***************************************************************************)
THEOREM TypeCorrect == StoreSpec => []StoreTypeOK
<1>1. StoreInit => StoreTypeOK
  BY DEF StoreInit, StoreTypeOK, Reply
<1>2. StoreTypeOK /\ [StoreNext]_storeVars => StoreTypeOK'
  <2> SUFFICES ASSUME StoreTypeOK, [StoreNext]_storeVars
               PROVE  StoreTypeOK'
    OBVIOUS
  <2>1. ASSUME NEW s \in Scopes, NEW c \in Content, SaveOk(s, c)
        PROVE  StoreTypeOK'
    <3>1. PICK i \in Ids :
            LET entry == [scope |-> s, content |-> c, expires |-> now + TTL] IN
            /\ entries' = [Purged EXCEPT ![i] = entry]
            /\ issued' = [issued EXCEPT ![i] = entry]
            /\ reply' = [result |-> "saved", id |-> i, scope |-> s, content |-> c]
      BY <2>1 DEF SaveOk
    <3>2. entries' \in [Ids -> Entry \cup {NoEntry}]
      BY <3>1, PurgedType, NewEntryType
    <3>3. issued' \in [Ids -> Entry \cup {NoEntry}]
      BY <3>1, NewEntryType DEF StoreTypeOK
    <3>4. reply' \in Reply
      BY <3>1 DEF Reply
    <3>5. QED
      BY <2>1, <3>2, <3>3, <3>4 DEF SaveOk, StoreTypeOK
  <2>2. ASSUME NEW s \in Scopes, NEW c \in Content,
               SaveTooLarge(s, c) \/ SaveFull(s, c)
        PROVE  StoreTypeOK'
    <3>1. reply' \in Reply
      BY <2>2 DEF SaveTooLarge, SaveFull, Reply
    <3>2. QED
      BY <2>2, <3>1, PurgedType DEF SaveTooLarge, SaveFull, StoreTypeOK
  <2>3. ASSUME NEW i \in Ids, NEW s \in Scopes,
               GetDenied(i, s) \/ GetRangeBackward(i, s)
        PROVE  StoreTypeOK'
    <3>1. reply' \in Reply
      BY <2>3 DEF GetDenied, GetRangeBackward, Reply
    <3>2. QED
      BY <2>3, <3>1, PurgedType DEF GetDenied, GetRangeBackward, StoreTypeOK
  <2>4. ASSUME NEW i \in Ids, NEW s \in Scopes, NEW k \in 0..MaxOffset, GetSegment(i, s, k)
        PROVE  StoreTypeOK'
    <3>1. entries[i] # NoEntry /\ entries[i].content \in Content
      BY <2>4, PurgedType DEF GetSegment, Authorized, StoreTypeOK, Entry
    <3>2. CASE SegmentOutside(i, k)
      <4>1. reply' \in Reply
        BY <2>4, <3>2 DEF GetSegment, Reply
      <4>2. QED
        BY <2>4, <4>1, PurgedType DEF GetSegment, StoreTypeOK
    <3>3. CASE ~SegmentOutside(i, k)
      <4>1. k * SegmentChars \in Nat /\ SegmentEnd(i, k) \in Nat
        BY <3>1, <3>3, SegmentBounds
      <4>2. reply' = Piece(i, s, k * SegmentChars, SegmentEnd(i, k))
        BY <2>4, <3>3 DEF GetSegment
      <4>3. reply' \in Reply
        BY <3>1, <4>1, <4>2 DEF Piece, Reply
      <4>4. QED
        BY <2>4, <4>3, PurgedType DEF GetSegment, StoreTypeOK
    <3>4. QED
      BY <3>2, <3>3
  <2>5. ASSUME NEW i \in Ids, NEW s \in Scopes, NEW from \in 0..MaxOffset,
               NEW to \in 0..MaxOffset, GetRange(i, s, from, to)
        PROVE  StoreTypeOK'
    <3>1. entries[i] # NoEntry /\ entries[i].content \in Content
      BY <2>5, PurgedType DEF GetRange, Authorized, StoreTypeOK, Entry
    <3>2. reply' \in Reply
      BY <2>5, <3>1 DEF GetRange, Piece, Reply
    <3>3. QED
      BY <2>5, <3>2, PurgedType DEF GetRange, StoreTypeOK
  <2>6. CASE Cleanup
    BY <2>6, PurgedType DEF Cleanup, StoreTypeOK
  <2>7. CASE Tick
    BY <2>7 DEF Tick, StoreTypeOK
  <2>9. CASE UNCHANGED storeVars
    BY <2>9 DEF storeVars, StoreTypeOK
  <2>10. QED
    BY <2>1, <2>2, <2>3, <2>4, <2>5, <2>6, <2>7, <2>9 DEF StoreNext, Save, Get
<1>3. QED
  BY <1>1, <1>2, PTL DEF StoreSpec

-----------------------------------------------------------------------------
(***************************************************************************)
(* The entry limit.  A set of ids is finite, and purging does not add to   *)
(* the ids in the dictionary.                                              *)
(***************************************************************************)
LEMMA PurgeDoesNotGrow ==
  ASSUME StoreTypeOK
  PROVE  LET left == {i \in Ids : Purged[i] # NoEntry} IN
         /\ IsFiniteSet(Keys) /\ IsFiniteSet(left)
         /\ Cardinality(left) \in Nat
         /\ Cardinality(left) <= Cardinality(Keys)
<1> DEFINE left == {i \in Ids : Purged[i] # NoEntry}
<1>1. left \subseteq Keys
  BY PurgedType DEF Keys
<1>2. IsFiniteSet(Keys)
  BY IdsAreFinite, FS_Subset DEF Keys
<1>3. QED
  BY <1>1, <1>2, FS_Subset, FS_CardinalityType

(***************************************************************************)
(* The store never holds more than max_entries entries: save purges, then  *)
(* compares, then inserts, all under one lock.                             *)
(***************************************************************************)
THEOREM EntriesBounded == StoreSpec => []EntryLimit
<1>1. StoreInit => EntryLimit
  <2> SUFFICES ASSUME StoreInit PROVE EntryLimit
    OBVIOUS
  <2>1. Keys = {}
    BY DEF StoreInit, Keys
  <2>2. QED
    BY <2>1, FS_EmptySet DEF EntryLimit
<1>2. StoreTypeOK /\ EntryLimit /\ [StoreNext]_storeVars => EntryLimit'
  <2> SUFFICES ASSUME StoreTypeOK, EntryLimit, [StoreNext]_storeVars
               PROVE  EntryLimit'
    OBVIOUS
  <2> DEFINE left == {i \in Ids : Purged[i] # NoEntry}
  <2>1. ASSUME NEW s \in Scopes, NEW c \in Content, SaveOk(s, c)
        PROVE  EntryLimit'
    <3>1. PICK i \in Ids :
            entries' = [Purged EXCEPT
                          ![i] = [scope |-> s, content |-> c, expires |-> now + TTL]]
      BY <2>1 DEF SaveOk
    <3>2. Keys' \subseteq left \cup {i}
      BY <3>1, PurgedType DEF Keys
    <3>3. IsFiniteSet(left) /\ Cardinality(left) \in Nat
      BY PurgeDoesNotGrow
    <3>4. IsFiniteSet(left \cup {i}) /\ Cardinality(left \cup {i}) <= Cardinality(left) + 1
      <4> HIDE DEF left
      <4>1. QED
        BY <3>3, FS_AddElement
    <3>5. Cardinality(Keys') <= Cardinality(left \cup {i})
      BY <3>2, <3>4, FS_Subset
    <3>6. Cardinality(left) < MaxEntries
      BY <2>1 DEF SaveOk, Fits
    <3>7. Cardinality(Keys') \in Nat /\ Cardinality(left \cup {i}) \in Nat
      BY <3>2, <3>4, FS_Subset, FS_CardinalityType
    <3>8. QED
      BY <3>3, <3>4, <3>5, <3>6, <3>7 DEF EntryLimit
  <2>2. ASSUME entries' = Purged
        PROVE  EntryLimit'
    <3>1. Keys' = left
      BY <2>2 DEF Keys
    <3>2. Cardinality(Keys) \in Nat
      BY PurgeDoesNotGrow, FS_CardinalityType
    <3>3. QED
      BY <3>1, <3>2, PurgeDoesNotGrow DEF EntryLimit
  <2>3. ASSUME entries' = entries
        PROVE  EntryLimit'
    BY <2>3 DEF EntryLimit, Keys
  <2>4. QED
    BY <2>1, <2>2, <2>3 DEF StoreNext, Save, Get, SaveTooLarge, SaveFull, GetDenied, GetSegment,
       GetRange, GetRangeBackward, Cleanup, Tick, storeVars
<1>3. QED
  BY <1>1, <1>2, TypeCorrect, PTL DEF StoreSpec

-----------------------------------------------------------------------------
(***************************************************************************)
(* The invariant behind the promises to a caller.  A dictionary entry is   *)
(* what was issued under its id; a reply that carries content carries a    *)
(* piece of what was issued to the scope that asked; an id once denied to  *)
(* its own scope is out of the dictionary for good, because ids are never  *)
(* issued twice.                                                           *)
(***************************************************************************)
Faithful == \A i \in Ids : entries[i] # NoEntry => entries[i] = issued[i]

DeniedIsGone == \A i \in denied : entries[i] = NoEntry /\ issued[i] # NoEntry

ServedWasIssued == reply.result = "ok" =>
  /\ issued[reply.id] # NoEntry
  /\ issued[reply.id].scope = reply.scope
  /\ issued[reply.id].content = reply.content
  /\ reply.from <= reply.to
  /\ reply.to <= Size[reply.content]

CallerInv == Faithful /\ DeniedIsGone /\ ServedWasIssued /\ NoResurrection

(***************************************************************************)
(* A step that leaves the issued ids alone and at most purges keeps the    *)
(* two parts of the invariant that speak of the dictionary.                *)
(***************************************************************************)
LEMMA PurgeKeepsFaithful ==
  ASSUME StoreTypeOK, Faithful, DeniedIsGone, issued' = issued,
         entries' = entries \/ entries' = Purged
  PROVE  Faithful' /\ (denied' = denied => DeniedIsGone')
<1>1. \A i \in Ids : entries'[i] # NoEntry => entries'[i] = entries[i]
  BY PurgedType
<1>2. QED
  BY <1>1 DEF Faithful, DeniedIsGone, StoreTypeOK

(***************************************************************************)
(* CallerInv is an invariant of the store, also of one whose clock steps   *)
(* back.                                                                   *)
(***************************************************************************)
THEOREM CallerInvariant == StoreSpec => []CallerInv
<1> USE DEF CallerInv
<1>1. StoreInit => CallerInv
  BY DEF StoreInit, Faithful, DeniedIsGone, ServedWasIssued, NoResurrection
<1>2. StoreTypeOK /\ CallerInv /\ [StoreNext]_storeVars => CallerInv'
  <2> SUFFICES ASSUME StoreTypeOK, CallerInv, [StoreNext]_storeVars
               PROVE  CallerInv'
    OBVIOUS
  <2>1. ASSUME NEW s \in Scopes, NEW c \in Content, SaveOk(s, c)
        PROVE  CallerInv'
    <3>1. PICK i \in Ids :
            LET entry == [scope |-> s, content |-> c, expires |-> now + TTL] IN
            /\ issued[i] = NoEntry
            /\ entries' = [Purged EXCEPT ![i] = entry]
            /\ issued' = [issued EXCEPT ![i] = entry]
            /\ reply' = [result |-> "saved", id |-> i, scope |-> s, content |-> c]
      BY <2>1 DEF SaveOk
    <3>2. Faithful'
      BY <3>1, PurgedType DEF Faithful, StoreTypeOK
    <3>3. denied' = denied /\ i \notin denied
      BY <2>1, <3>1 DEF SaveOk, DeniedIsGone
    <3>4. \A j \in denied : entries'[j] = NoEntry /\ issued'[j] = issued[j]
      BY <3>1, <3>3, PurgedType DEF DeniedIsGone, StoreTypeOK
    <3>5. DeniedIsGone'
      BY <3>3, <3>4 DEF DeniedIsGone
    <3>6. reply'.result = "saved"
      BY <3>1
    <3>7. QED
      BY <3>2, <3>5, <3>6 DEF ServedWasIssued, NoResurrection
  <2>2. ASSUME NEW s \in Scopes, NEW c \in Content,
               SaveTooLarge(s, c) \/ SaveFull(s, c)
        PROVE  CallerInv'
    BY <2>2, PurgeKeepsFaithful
       DEF SaveTooLarge, SaveFull, ServedWasIssued, NoResurrection
  <2>3. ASSUME NEW i \in Ids, NEW s \in Scopes, GetDenied(i, s)
        PROVE  CallerInv'
    <3>1. Faithful'
      BY <2>3, PurgeKeepsFaithful DEF GetDenied
    <3>2. reply'.result = "not_found"
      BY <2>3 DEF GetDenied
    <3>3. issued[i] # NoEntry /\ issued[i].scope = s => Purged[i] = NoEntry
      BY <2>3, PurgedType DEF GetDenied, Authorized, Faithful
    <3>4. \A j \in denied : Purged[j] = NoEntry
      BY PurgedType DEF DeniedIsGone, StoreTypeOK
    <3>5. DeniedIsGone'
      BY <2>3, <3>3, <3>4 DEF GetDenied, DeniedIsGone
    <3>6. QED
      BY <3>1, <3>2, <3>5 DEF ServedWasIssued, NoResurrection
  <2>4. ASSUME NEW i \in Ids, NEW s \in Scopes, GetRangeBackward(i, s)
        PROVE  CallerInv'
    BY <2>4, PurgeKeepsFaithful DEF GetRangeBackward, ServedWasIssued, NoResurrection
  <2>5. ASSUME NEW i \in Ids, NEW s \in Scopes, NEW from \in Nat, NEW to \in Nat,
               Authorized(i, s), from <= to, to <= Size[entries[i].content],
               reply' = Piece(i, s, from, to)
        PROVE  issued' = issued /\ denied' = denied => (ServedWasIssued /\ NoResurrection)'
    <3>1. entries[i] # NoEntry /\ entries[i] = issued[i] /\ entries[i].scope = s
      BY <2>5, PurgedType DEF Authorized, Faithful
    <3>2. i \notin denied
      BY <3>1 DEF DeniedIsGone
    <3>3. QED
      BY <2>5, <3>1, <3>2 DEF Piece, ServedWasIssued, NoResurrection
  <2>6. ASSUME NEW i \in Ids, NEW s \in Scopes, NEW k \in 0..MaxOffset, GetSegment(i, s, k)
        PROVE  CallerInv'
    <3>1. Faithful' /\ DeniedIsGone'
      BY <2>6, PurgeKeepsFaithful DEF GetSegment
    <3>2. CASE SegmentOutside(i, k)
      BY <2>6, <3>1, <3>2 DEF GetSegment, ServedWasIssued, NoResurrection
    <3>3. CASE ~SegmentOutside(i, k)
      <4>1. entries[i] # NoEntry
        BY <2>6, PurgedType DEF GetSegment, Authorized
      <4>2. /\ k * SegmentChars \in Nat /\ SegmentEnd(i, k) \in Nat
            /\ k * SegmentChars <= SegmentEnd(i, k)
            /\ SegmentEnd(i, k) <= Size[entries[i].content]
        BY <3>3, <4>1, SegmentBounds
      <4>3. Authorized(i, s) /\ reply' = Piece(i, s, k * SegmentChars, SegmentEnd(i, k))
        BY <2>6, <3>3 DEF GetSegment
      <4>4. (ServedWasIssued /\ NoResurrection)'
        BY <2>5, <2>6, <4>2, <4>3 DEF GetSegment
      <4>5. QED
        BY <3>1, <4>4
    <3>4. QED
      BY <3>2, <3>3
  <2>7. ASSUME NEW i \in Ids, NEW s \in Scopes, NEW from \in 0..MaxOffset,
               NEW to \in 0..MaxOffset, GetRange(i, s, from, to)
        PROVE  CallerInv'
    <3>1. Faithful' /\ DeniedIsGone'
      BY <2>7, PurgeKeepsFaithful DEF GetRange
    <3>2. CASE to > Size[entries[i].content]
      BY <2>7, <3>1, <3>2 DEF GetRange, ServedWasIssued, NoResurrection
    <3>3. CASE ~(to > Size[entries[i].content])
      <4>1. Size[entries[i].content] \in Nat
        BY <2>7, PurgedType DEF GetRange, Authorized, StoreTypeOK, Entry
      <4>2. (ServedWasIssued /\ NoResurrection)'
        BY <2>5, <2>7, <3>3, <4>1 DEF GetRange
      <4>3. QED
        BY <3>1, <4>2
    <3>4. QED
      BY <3>2, <3>3
  <2>8. CASE Cleanup \/ Tick \/ UNCHANGED storeVars
    BY <2>8, PurgeKeepsFaithful
       DEF Cleanup, Tick, storeVars, ServedWasIssued, NoResurrection
  <2>9. QED
    BY <2>1, <2>2, <2>3, <2>4, <2>6, <2>7, <2>8 DEF StoreNext, Save, Get
<1>3. QED
  BY <1>1, <1>2, TypeCorrect, PTL DEF StoreSpec

(***************************************************************************)
(* Nobody but the scope that saved a continuation is ever served any of    *)
(* it, and what is served is a piece of what was saved: _authorized.       *)
(***************************************************************************)
THEOREM ScopeIsolation == StoreSpec => []ServedToItsScope
<1>1. CallerInv => ServedToItsScope
  BY DEF CallerInv, ServedWasIssued, ServedToItsScope
<1>2. QED
  BY <1>1, CallerInvariant, PTL

(***************************************************************************)
(* A continuation its owner was told is gone is never served again         *)
(* (_purge_expired in _authorized).                                        *)
(***************************************************************************)
THEOREM DenialIsFinal == StoreSpec => []NoResurrection
<1>1. CallerInv => NoResurrection
  BY DEF CallerInv
<1>2. QED
  BY <1>1, CallerInvariant, PTL

-----------------------------------------------------------------------------
(***************************************************************************)
(* "unexpired continuations are never evicted": what was issued is in the  *)
(* dictionary until it expires.                                            *)
(***************************************************************************)
THEOREM UnexpiredRetained == StoreSpec => []Retained
<1>1. StoreInit => Retained
  BY DEF StoreInit, Retained
<1>2. StoreTypeOK /\ Retained /\ [StoreNext]_storeVars => Retained'
  <2> SUFFICES ASSUME StoreTypeOK, Retained, [StoreNext]_storeVars
               PROVE  Retained'
    OBVIOUS
  <2>1. \A i \in Ids : issued[i] # NoEntry /\ issued[i].expires > now =>
          Purged[i] = issued[i]
    BY DEF Retained, Purged, Expired, StoreTypeOK, Entry
  <2>2. ASSUME NEW s \in Scopes, NEW c \in Content, SaveOk(s, c)
        PROVE  Retained'
    <3>1. PICK i \in Ids :
            LET entry == [scope |-> s, content |-> c, expires |-> now + TTL] IN
            /\ entries' = [Purged EXCEPT ![i] = entry]
            /\ issued' = [issued EXCEPT ![i] = entry]
      BY <2>2 DEF SaveOk
    <3>2. now' = now
      BY <2>2 DEF SaveOk
    <3>3. \A j \in Ids : j # i => entries'[j] = Purged[j] /\ issued'[j] = issued[j]
      BY <3>1, PurgedType DEF StoreTypeOK
    <3>4. entries'[i] = issued'[i]
      BY <3>1, PurgedType DEF StoreTypeOK
    <3>5. QED
      BY <2>1, <3>2, <3>3, <3>4 DEF Retained
  <2>3. ASSUME entries' = Purged \/ entries' = entries, issued' = issued,
               now' = now \/ now' = now + 1
        PROVE  Retained'
    <3>1. \A i \in Ids : issued'[i] # NoEntry /\ issued'[i].expires > now' =>
            issued[i].expires > now
      BY <2>3 DEF StoreTypeOK, Entry
    <3>2. QED
      BY <2>1, <2>3, <3>1 DEF Retained
  <2>4. QED
    BY <2>2, <2>3 DEF StoreNext, Save, Get, SaveTooLarge, SaveFull, GetDenied,
       GetSegment, GetRange, GetRangeBackward, Cleanup, Tick, storeVars
<1>3. QED
  BY <1>1, <1>2, TypeCorrect, PTL DEF StoreSpec

-----------------------------------------------------------------------------
(***************************************************************************)
(* The store implements ContinuationRetention.  The abstract grants are    *)
(* the entries a purge would leave; the abstract room is the room after a  *)
(* purge.                                                                  *)
(***************************************************************************)
LEMMA LiveIsPurged == LiveEntries = Purged
BY DEF LiveEntries, Purged

(***************************************************************************)
(* A step that at most purges leaves the live entries as they are.         *)
(***************************************************************************)
LEMMA PurgeIsInvisible ==
  ASSUME StoreTypeOK, now' = now, entries' = entries \/ entries' = Purged
  PROVE  LiveEntries' = LiveEntries
<1>1. CASE entries' = entries
  BY <1>1 DEF LiveEntries, Expired
<1>2. CASE entries' = Purged
  BY <1>2 DEF LiveEntries, Purged, Expired, StoreTypeOK
<1>3. QED
  BY <1>1, <1>2

(***************************************************************************)
(* Every behaviour of the lazily purged store is one of the eager one.     *)
(***************************************************************************)
THEOREM StoreImplementsRetention == StoreSpec => ImplementsRetention
<1>1. StoreInit => Retention!Init
  BY DEF StoreInit, Retention!Init, LiveEntries, Expired
<1>2. StoreTypeOK /\ CallerInv /\ [StoreNext]_storeVars => [Retention!Next]_(Retention!vars)
  <2> SUFFICES ASSUME StoreTypeOK, CallerInv, [StoreNext]_storeVars
               PROVE  Retention!Next \/ UNCHANGED Retention!vars
    OBVIOUS
  <2>1. ASSUME NEW s \in Scopes, NEW c \in Content, SaveOk(s, c)
        PROVE  Retention!Next
    <3> DEFINE entry == [scope |-> s, content |-> c, expires |-> now + TTL]
    <3>1. PICK i \in Ids :
            /\ issued[i] = NoEntry
            /\ entries' = [Purged EXCEPT ![i] = entry]
            /\ reply' = [result |-> "saved", id |-> i, scope |-> s, content |-> c]
      BY <2>1 DEF SaveOk
    <3>2. now' = now /\ Fits(LiveEntries, c)
      BY <2>1, LiveIsPurged DEF SaveOk
    <3>3. LiveEntries' = [LiveEntries EXCEPT ![i] = entry]
      BY <3>1, <3>2, PurgedType DEF LiveEntries, Purged, Expired, StoreTypeOK
    <3>4. LiveEntries[i] = NoEntry
      BY <3>1, LiveIsPurged, PurgedType DEF CallerInv, Faithful
    <3>5. Retention!Accept(i, s, c)
      BY <3>1, <3>2, <3>3, <3>4 DEF Retention!Accept
    <3>6. QED
      BY <3>5 DEF Retention!Next
  <2>2. ASSUME NEW s \in Scopes, NEW c \in Content,
               SaveTooLarge(s, c) \/ SaveFull(s, c)
        PROVE  Retention!Next
    <3>1. Size[c] > MaxTotalChars \/ ~Fits(LiveEntries, c)
      BY <2>2, LiveIsPurged DEF SaveFull, SaveTooLarge
    <3>2. Retention!Refuse(s, c)
      BY <2>2, <3>1, PurgeIsInvisible DEF SaveTooLarge, SaveFull, Retention!Refuse
    <3>3. QED
      BY <3>2 DEF Retention!Next
  <2>3. ASSUME NEW i \in Ids, NEW s \in Scopes, GetDenied(i, s)
        PROVE  Retention!Next
    <3>1. Retention!Deny(i, s)
      BY <2>3, LiveIsPurged, PurgeIsInvisible DEF GetDenied, Authorized, Retention!Deny
    <3>2. QED
      BY <3>1 DEF Retention!Next
  <2>4. ASSUME NEW i \in Ids, NEW s \in Scopes,
               reply' = [result |-> "invalid_range", id |-> i, scope |-> s],
               now' = now, entries' = entries \/ entries' = Purged
        PROVE  Retention!Next
    <3>1. Retention!OutOfRange(i, s)
      BY <2>4, PurgeIsInvisible DEF Retention!OutOfRange
    <3>2. QED
      BY <3>1 DEF Retention!Next
  <2>5. ASSUME NEW i \in Ids, NEW s \in Scopes, NEW from \in Nat, NEW to \in Nat,
               Authorized(i, s), from <= to, to <= Size[entries[i].content],
               reply' = Piece(i, s, from, to), now' = now, entries' = Purged
        PROVE  Retention!Next
    <3>1. /\ LiveEntries[i] = entries[i] /\ LiveEntries[i] # NoEntry
          /\ LiveEntries[i].scope = s
      BY <2>5, LiveIsPurged, PurgedType DEF Authorized
    <3>2. Size[LiveEntries[i].content] \in Nat
      BY <3>1 DEF StoreTypeOK, Entry
    <3>3. LiveEntries' = LiveEntries
      BY <2>5, PurgeIsInvisible
    <3>4. from \in 0 .. Size[LiveEntries[i].content] /\ to \in 0 .. Size[LiveEntries[i].content]
      BY <2>5, <3>1, <3>2
    <3>5. reply' = [result |-> "ok", id |-> i, scope |-> s,
                    content |-> LiveEntries[i].content, from |-> from, to |-> to]
      BY <2>5, <3>1 DEF Piece
    <3>6. Retention!Serve(i, s)
      BY <2>5, <3>1, <3>3, <3>4, <3>5 DEF Retention!Serve
    <3>7. QED
      BY <3>6 DEF Retention!Next
  <2>6. ASSUME NEW i \in Ids, NEW s \in Scopes, NEW k \in 0..MaxOffset, GetSegment(i, s, k)
        PROVE  Retention!Next
    <3>1. CASE SegmentOutside(i, k)
      BY <2>4, <2>6, <3>1 DEF GetSegment
    <3>2. CASE ~SegmentOutside(i, k)
      <4>1. entries[i] # NoEntry
        BY <2>6, PurgedType DEF GetSegment, Authorized
      <4>2. /\ k * SegmentChars \in Nat /\ SegmentEnd(i, k) \in Nat
            /\ k * SegmentChars <= SegmentEnd(i, k)
            /\ SegmentEnd(i, k) <= Size[entries[i].content]
        BY <3>2, <4>1, SegmentBounds
      <4>3. /\ Authorized(i, s) /\ now' = now /\ entries' = Purged
            /\ reply' = Piece(i, s, k * SegmentChars, SegmentEnd(i, k))
        BY <2>6, <3>2 DEF GetSegment
      <4>4. QED
        BY <2>5, <4>2, <4>3
    <3>3. QED
      BY <3>1, <3>2
  <2>7. ASSUME NEW i \in Ids, NEW s \in Scopes, NEW from \in 0..MaxOffset,
               NEW to \in 0..MaxOffset, GetRange(i, s, from, to)
        PROVE  Retention!Next
    <3>1. CASE to > Size[entries[i].content]
      BY <2>4, <2>7, <3>1 DEF GetRange
    <3>2. CASE ~(to > Size[entries[i].content])
      <4>1. Size[entries[i].content] \in Nat
        BY <2>7, PurgedType DEF GetRange, Authorized, StoreTypeOK, Entry
      <4>2. QED
        BY <2>5, <2>7, <3>2, <4>1 DEF GetRange
    <3>3. QED
      BY <3>1, <3>2
  <2>8. CASE Cleanup \/ UNCHANGED storeVars
    BY <2>8, PurgeIsInvisible DEF Cleanup, storeVars, Retention!vars
  <2>9. CASE Tick
    <3>1. now' = now + 1 /\ reply' = reply /\ entries' = entries
      BY <2>9 DEF Tick
    <3>2. \A i \in Ids : Expired(entries[i]) => Expired(entries[i])'
      BY <3>1 DEF Expired, StoreTypeOK, Entry
    <3>3. LiveEntries' = [i \in Ids |->
            IF Retention!AliveAt(LiveEntries[i], now') THEN LiveEntries[i] ELSE NoEntry]
      BY <3>1, <3>2 DEF LiveEntries, Expired, Retention!AliveAt, StoreTypeOK, Entry
    <3>4. Retention!Advance
      BY <3>1, <3>3 DEF Retention!Advance
    <3>5. QED
      BY <3>4 DEF Retention!Next
  <2>10. QED
    BY <2>1, <2>2, <2>3, <2>4, <2>6, <2>7, <2>8, <2>9
       DEF StoreNext, Save, Get, GetRangeBackward
<1>3. QED
  BY <1>1, <1>2, TypeCorrect, CallerInvariant, PTL DEF StoreSpec, ImplementsRetention, Retention!Spec

-----------------------------------------------------------------------------
(***************************************************************************)
(* Induction over the subsets of a finite set, with a set of sets for the  *)
(* predicate.                                                              *)
(***************************************************************************)
LEMMA NatSetInduction ==
  ASSUME NEW S \in SUBSET Nat, 0 \in S, \A n \in S : n + 1 \in S
  PROVE  S = Nat
<1> DEFINE Bad == Nat \ S
<1>1. ASSUME Bad # {} PROVE FALSE
  <2> HIDE DEF Bad
  <2>1. PICK m \in Bad : \A k \in Bad : ~(<<k, m>> \in OpToRel(<, Nat))
    BY <1>1, NatLessThanWellFounded, WFMin DEF Bad
  <2>2. m # 0 /\ m \in Nat
    BY DEF Bad
  <2>3. m - 1 \in Nat /\ m - 1 < m /\ (m - 1) + 1 = m
    BY <2>2
  <2>4. m - 1 \notin Bad
    BY <2>1, <2>2, <2>3 DEF OpToRel
  <2>5. (m - 1) + 1 \in S
    BY <2>3, <2>4 DEF Bad
  <2> QED BY <2>3, <2>5 DEF Bad
<1> QED BY <1>1

LEMMA SubsetInduction ==
  ASSUME NEW S, IsFiniteSet(S), NEW F \in SUBSET (SUBSET S),
         \A s \in SUBSET S : (\A x \in s : s \ {x} \in F) => s \in F
  PROVE  F = SUBSET S
<1> DEFINE N == {n \in Nat : \A s \in SUBSET S : Cardinality(s) = n => s \in F}
<1>1. 0 \in N
  <2>1. ASSUME NEW s \in SUBSET S, Cardinality(s) = 0 PROVE s \in F
    <3>1. s = {}
      BY <2>1, FS_Subset, FS_EmptySet
    <3> QED BY <3>1
  <2> QED BY <2>1
<1>2. ASSUME NEW n \in N PROVE n + 1 \in N
  <2>1. ASSUME NEW s \in SUBSET S, Cardinality(s) = n + 1 PROVE s \in F
    <3>1. ASSUME NEW x \in s PROVE s \ {x} \in F
      <4>1. IsFiniteSet(s)
        BY FS_Subset
      <4>2. Cardinality(s \ {x}) = Cardinality(s) - 1
        BY <4>1, FS_RemoveElement
      <4>3. Cardinality(s \ {x}) = n
        BY <2>1, <4>2
      <4> QED BY <4>3
    <3> QED BY <3>1
  <2> QED BY <2>1
<1> HIDE DEF N
<1>3. N \in SUBSET Nat
  BY DEF N
<1>4. N = Nat
  BY <1>1, <1>2, <1>3, NatSetInduction
<1>5. \A s \in SUBSET S : Cardinality(s) \in Nat
  BY FS_Subset, FS_CardinalityType
<1> QED BY <1>4, <1>5 DEF N

-----------------------------------------------------------------------------
(***************************************************************************)
(* The sum that MapThenSumSet is: f[s] adds up w over s, one element that  *)
(* CHOOSE names after the other, so that its value must be shown not to    *)
(* depend on the order.                                                    *)
(***************************************************************************)
Some(s) == CHOOSE x \in s : TRUE

Adds(f, w, S) ==
  f = [s \in SUBSET S |-> IF s = {} THEN 0 ELSE w[Some(s)] + f[s \ {Some(s)}]]

LEMMA AddsExist ==
  ASSUME NEW S, IsFiniteSet(S), NEW w
  PROVE  \E f : Adds(f, w, S)
<1> DEFINE Up(n) == {s \in SUBSET S : Cardinality(s) <= n}
           Step(f, n) == [s \in Up(n) |->
                           IF s = {} THEN 0 ELSE w[Some(s)] + f[s \ {Some(s)}]]
           N == {n \in Nat : \E f : f = Step(f, n)}
<1>1. \A s \in SUBSET S : IsFiniteSet(s) /\ Cardinality(s) \in Nat
  BY FS_Subset, FS_CardinalityType
<1>2. ASSUME NEW s \in SUBSET S, s # {}, NEW n \in Nat, Cardinality(s) <= n + 1
      PROVE  s \ {Some(s)} \in Up(n)
  <2>1. Some(s) \in s
    BY <1>2 DEF Some
  <2>2. Cardinality(s \ {Some(s)}) = Cardinality(s) - 1
    BY <1>1, <2>1, FS_RemoveElement
  <2> QED BY <1>1, <1>2, <2>2
<1>3. 0 \in N
  <2> DEFINE z == [s \in Up(0) |-> 0]
  <2>1. \A s \in Up(0) : s = {}
    BY <1>1, FS_EmptySet
  <2>2. z = Step(z, 0)
    <3> HIDE DEF Up
    <3> QED BY <2>1
  <2> QED BY <2>2
<1>4. ASSUME NEW n \in N PROVE n + 1 \in N
  <2>1. PICK f : f = Step(f, n)
    OBVIOUS
  <2> DEFINE g == Step(f, n + 1)
  <2>2. ASSUME NEW s \in Up(n) PROVE g[s] = f[s]
    <3>1. s \in Up(n + 1)
      BY <1>1
    <3>2. g[s] = IF s = {} THEN 0 ELSE w[Some(s)] + f[s \ {Some(s)}]
      <4> HIDE DEF Up
      <4> QED BY <3>1, Zenon
    <3>3. f[s] = IF s = {} THEN 0 ELSE w[Some(s)] + f[s \ {Some(s)}]
      <4> HIDE DEF Up
      <4> QED BY <2>1, Zenon
    <3> QED BY <3>2, <3>3, Zenon
  <2>3. ASSUME NEW s \in Up(n + 1)
        PROVE  (IF s = {} THEN 0 ELSE w[Some(s)] + f[s \ {Some(s)}])
                 = IF s = {} THEN 0 ELSE w[Some(s)] + g[s \ {Some(s)}]
    <3>1. CASE s # {}
      <4>1. s \ {Some(s)} \in Up(n)
        BY <1>2, <3>1
      <4>2. g[s \ {Some(s)}] = f[s \ {Some(s)}]
        <5> HIDE DEF Up, g
        <5> QED BY <2>2, <4>1
      <4> HIDE DEF g
      <4> QED BY <4>2, Zenon
    <3> QED BY <3>1
  <2>4. g = Step(g, n + 1)
    <3>1. g = [s \in Up(n + 1) |-> IF s = {} THEN 0 ELSE w[Some(s)] + f[s \ {Some(s)}]]
      BY Zenon
    <3> HIDE DEF g, Up
    <3> QED BY <2>3, <3>1, Zenon
  <2> HIDE DEF Step, g
  <2> QED BY <2>4
<1> HIDE DEF N
<1>5. N \in SUBSET Nat
  BY DEF N
<1>6. Cardinality(S) \in N
  <2>1. N = Nat
    BY <1>3, <1>4, <1>5, NatSetInduction
  <2> QED BY <1>1, <2>1
<1>7. PICK f : f = Step(f, Cardinality(S))
  <2> HIDE DEF Step
  <2> QED BY <1>6 DEF N
<1>8. Up(Cardinality(S)) = SUBSET S
  BY FS_Subset
<1>9. Adds(f, w, S)
  <2> HIDE DEF Up
  <2> QED BY <1>7, <1>8, Zenon DEF Adds
<1> QED BY <1>9

\* What a sum is at the empty set and at others.
LEMMA AddsStep ==
  ASSUME NEW S, NEW w, NEW f, Adds(f, w, S), NEW s \in SUBSET S
  PROVE  /\ s = {} => f[s] = 0
         /\ s # {} => /\ Some(s) \in s
                      /\ f[s] = w[Some(s)] + f[s \ {Some(s)}]
<1>1. f[s] = IF s = {} THEN 0 ELSE w[Some(s)] + f[s \ {Some(s)}]
  BY Zenon DEF Adds
<1>2. s # {} => Some(s) \in s
  BY DEF Some
<1> QED BY <1>1, <1>2

LEMMA AddsTyped ==
  ASSUME NEW S, IsFiniteSet(S), NEW w \in [S -> Nat], NEW f, Adds(f, w, S)
  PROVE  \A s \in SUBSET S : f[s] \in Nat
<1> DEFINE F == {s \in SUBSET S : f[s] \in Nat}
<1>1. ASSUME NEW s \in SUBSET S, \A x \in s : s \ {x} \in F PROVE s \in F
  <2>1. CASE s = {}
    <3>1. f[s] = 0
      BY <2>1, AddsStep
    <3> QED BY <3>1
  <2>2. CASE s # {}
    <3>1. Some(s) \in s /\ f[s] = w[Some(s)] + f[s \ {Some(s)}]
      BY <2>2, AddsStep
    <3>2. w[Some(s)] \in Nat /\ f[s \ {Some(s)}] \in Nat
      BY <1>1, <3>1
    <3>3. \A a, b \in Nat : a + b \in Nat
      OBVIOUS
    <3> QED BY <3>1, <3>2, <3>3
  <2> QED BY <2>1, <2>2
<1> HIDE DEF F
<1>2. F \in SUBSET (SUBSET S)
  BY DEF F
<1>3. F = SUBSET S
  BY <1>1, <1>2, SubsetInduction
<1> QED BY <1>3 DEF F

LEMMA AddsAgree ==
  ASSUME NEW S, IsFiniteSet(S), NEW T, NEW w, NEW v, NEW f, NEW g,
         S \subseteq T, Adds(f, w, S), Adds(g, v, T), \A x \in S : w[x] = v[x]
  PROVE  \A s \in SUBSET S : f[s] = g[s]
<1> DEFINE F == {s \in SUBSET S : f[s] = g[s]}
<1>1. ASSUME NEW s \in SUBSET S, \A x \in s : s \ {x} \in F PROVE s \in F
  <2>1. s \in SUBSET T
    OBVIOUS
  <2>2. CASE s = {}
    <3>1. f[s] = 0
      BY <2>2, AddsStep
    <3>2. g[s] = 0
      BY <2>1, <2>2, AddsStep
    <3> QED BY <3>1, <3>2
  <2>3. CASE s # {}
    <3>1. Some(s) \in s /\ f[s] = w[Some(s)] + f[s \ {Some(s)}]
      BY <2>3, AddsStep
    <3>2. g[s] = v[Some(s)] + g[s \ {Some(s)}]
      BY <2>1, <2>3, AddsStep
    <3>3. w[Some(s)] = v[Some(s)] /\ f[s \ {Some(s)}] = g[s \ {Some(s)}]
      BY <1>1, <3>1
    <3> QED BY <3>1, <3>2, <3>3
  <2> QED BY <2>2, <2>3
<1> HIDE DEF F
<1>2. F \in SUBSET (SUBSET S)
  BY DEF F
<1>3. F = SUBSET S
  BY <1>1, <1>2, SubsetInduction
<1> QED BY <1>3 DEF F

\* Any element may be taken out first.
LEMMA AddsOne ==
  ASSUME NEW S, IsFiniteSet(S), NEW w \in [S -> Nat], NEW f, Adds(f, w, S)
  PROVE  \A s \in SUBSET S : \A x \in s : f[s] = w[x] + f[s \ {x}]
<1> DEFINE F == {s \in SUBSET S : \A x \in s : f[s] = w[x] + f[s \ {x}]}
<1>1. ASSUME NEW s \in SUBSET S, \A x \in s : s \ {x} \in F PROVE s \in F
  <2> SUFFICES ASSUME NEW x \in s PROVE f[s] = w[x] + f[s \ {x}]
    OBVIOUS
  <2> DEFINE c == Some(s)
  <2>1. c \in s /\ f[s] = w[c] + f[s \ {c}]
    BY AddsStep
  <2> HIDE DEF c
  <2>2. CASE c = x
    BY <2>1, <2>2
  <2>3. CASE c # x
    <3>1. f[s \ {c}] = w[x] + f[(s \ {c}) \ {x}]
      BY <1>1, <2>1, <2>3
    <3>2. f[s \ {x}] = w[c] + f[(s \ {x}) \ {c}]
      BY <1>1, <2>1, <2>3
    <3>3. (s \ {x}) \ {c} = (s \ {c}) \ {x} /\ (s \ {c}) \ {x} \in SUBSET S
      OBVIOUS
    <3>4. f[(s \ {c}) \ {x}] \in Nat
      BY <3>3, AddsTyped
    <3>5. w[c] \in Nat /\ w[x] \in Nat
      BY <2>1
    <3>6. \A k, a, b \in Nat : a + (b + k) = b + (a + k)
      OBVIOUS
    <3>7. w[c] + (w[x] + f[(s \ {c}) \ {x}]) = w[x] + (w[c] + f[(s \ {c}) \ {x}])
      BY <3>4, <3>5, <3>6
    <3> QED BY ONLY <2>1, <3>1, <3>2, <3>3, <3>7, Zenon
  <2> QED BY <2>2, <2>3
<1> HIDE DEF F
<1>2. F \in SUBSET (SUBSET S)
  BY DEF F
<1>3. F = SUBSET S
  BY <1>1, <1>2, SubsetInduction
<1> QED BY <1>3 DEF F

\* Less adds up to less.
LEMMA AddsMonotone ==
  ASSUME NEW S, IsFiniteSet(S), NEW w \in [S -> Nat], NEW f, Adds(f, w, S), NEW t \in SUBSET S
  PROVE  \A s \in SUBSET S : t \subseteq s => f[t] <= f[s]
<1> DEFINE F == {s \in SUBSET S : t \subseteq s => f[t] <= f[s]}
<1>1. ASSUME NEW s \in SUBSET S, \A x \in s : s \ {x} \in F PROVE s \in F
  <2> SUFFICES ASSUME t \subseteq s PROVE f[t] <= f[s]
    OBVIOUS
  <2>1. f[t] \in Nat /\ f[s] \in Nat /\ \A x \in s : f[s \ {x}] \in Nat /\ w[x] \in Nat
    BY AddsTyped
  <2>2. CASE s = t
    BY <2>1, <2>2
  <2>3. CASE s # t
    <3>1. PICK x \in s : x \notin t
      BY <2>3
    <3>2. f[t] <= f[s \ {x}]
      BY <1>1, <3>1
    <3>3. f[s] = w[x] + f[s \ {x}]
      BY AddsOne
    <3>4. \A k, a, b \in Nat : a <= b => a <= k + b
      OBVIOUS
    <3>5. f[s \ {x}] \in Nat /\ w[x] \in Nat /\ f[t] \in Nat
      BY <2>1, <3>1
    <3>6. f[t] <= w[x] + f[s \ {x}]
      BY <3>2, <3>4, <3>5
    <3> QED BY <3>3, <3>6, Zenon
  <2> QED BY <2>2, <2>3
<1> HIDE DEF F
<1>2. F \in SUBSET (SUBSET S)
  BY DEF F
<1>3. F = SUBSET S
  BY <1>1, <1>2, SubsetInduction
<1> QED BY <1>3 DEF F

-----------------------------------------------------------------------------
(***************************************************************************)
(* The characters in a dictionary.                                         *)
(***************************************************************************)
Occupied(e) == {i \in Ids : e[i] # NoEntry}
Weight(e) == [i \in Ids |-> IF e[i] = NoEntry THEN 0 ELSE Size[e[i].content]]

LEMMA WeightTyped ==
  ASSUME NEW e \in [Ids -> Entry \cup {NoEntry}]
  PROVE  Weight(e) \in [Ids -> Nat]
BY DEF Weight, Entry

LEMMA TotalIs ==
  ASSUME NEW e \in [Ids -> Entry \cup {NoEntry}]
  PROVE  \E f : Adds(f, Weight(e), Ids) /\ TotalChars(e) = f[Occupied(e)]
<1> DEFINE K == Occupied(e)
           Iter(h) == h = [s \in SUBSET K |->
                            IF s = {} THEN 0
                            ELSE LET x == CHOOSE x \in s : TRUE
                                 IN Size[e[x].content] + h[s \ {x}]]
           total == CHOOSE h : Iter(h)
<1>1. K \subseteq Ids /\ IsFiniteSet(K)
  BY IdsAreFinite, FS_Subset DEF Occupied
<1>2. PICK f : Adds(f, Weight(e), Ids)
  BY IdsAreFinite, AddsExist
<1>3. ASSUME NEW h PROVE Iter(h) <=> Adds(h, Weight(e), K)
  <2>1. ASSUME NEW s \in SUBSET K
        PROVE  (IF s = {} THEN 0 ELSE LET x == CHOOSE x \in s : TRUE
                                      IN Size[e[x].content] + h[s \ {x}])
                 = IF s = {} THEN 0 ELSE Weight(e)[Some(s)] + h[s \ {Some(s)}]
    <3>1. CASE s # {}
      <4>1. Some(s) \in K
        BY <3>1 DEF Some
      <4>2. Weight(e)[Some(s)] = Size[e[Some(s)].content]
        BY <4>1 DEF Weight, Occupied
      <4> QED BY <4>2, Zenon DEF Some
    <3> QED BY <3>1
  <2> HIDE DEF K
  <2> QED BY <2>1, Zenon DEF Adds
<1>4. TotalChars(e) = total[K]
  BY Zenon DEF TotalChars, MapThenSumSet, MapThenFoldSet, Occupied
<1>5. Iter(total)
  <2>1. \E h : Iter(h)
    <3> HIDE DEF K, Iter
    <3> QED BY <1>1, <1>3, AddsExist
  <2> HIDE DEF Iter
  <2> QED BY <2>1, Zenon
<1> HIDE DEF K, Iter, total
<1>6. Adds(total, Weight(e), K)
  BY <1>3, <1>5
<1>7. total[K] = f[K]
  BY <1>1, <1>2, <1>6, AddsAgree
<1> QED BY <1>2, <1>4, <1>7 DEF K

\* A new entry adds its content, and a purge adds nothing.
LEMMA TotalGrows ==
  ASSUME NEW e \in [Ids -> Entry \cup {NoEntry}], NEW i \in Ids, e[i] = NoEntry,
         NEW entry \in Entry
  PROVE  /\ TotalChars(e) \in Nat
         /\ TotalChars([e EXCEPT ![i] = entry]) = Size[entry.content] + TotalChars(e)
<1> DEFINE d == [e EXCEPT ![i] = entry]
<1>1. d \in [Ids -> Entry \cup {NoEntry}] /\ d[i] = entry /\ entry # NoEntry
  OBVIOUS
<1>2. \A j \in Ids : j # i => d[j] = e[j]
  OBVIOUS
<1> HIDE DEF d
<1>3. Occupied(d) \in SUBSET Ids /\ i \in Occupied(d) /\ Occupied(d) \ {i} = Occupied(e)
  BY <1>1, <1>2 DEF Occupied
<1>4. PICK f : Adds(f, Weight(e), Ids) /\ TotalChars(e) = f[Occupied(e)]
  BY TotalIs
<1>5. PICK g : Adds(g, Weight(d), Ids) /\ TotalChars(d) = g[Occupied(d)]
  BY <1>1, TotalIs
<1>6. g[Occupied(d)] = Weight(d)[i] + g[Occupied(e)]
  BY <1>1, <1>3, <1>5, IdsAreFinite, WeightTyped, AddsOne
<1>7. Weight(d)[i] = Size[entry.content]
  BY <1>1 DEF Weight
<1>8. g[Occupied(e)] = f[Occupied(e)]
  <2> DEFINE K == Occupied(e)
  <2>1. K \subseteq Ids /\ IsFiniteSet(K) /\ i \notin K
    BY <1>3, IdsAreFinite, FS_Subset
  <2>2. PICK h : Adds(h, Weight(e), K)
    BY <2>1, AddsExist
  <2>3. \A x \in K : Weight(e)[x] = Weight(d)[x]
    BY <1>2, <2>1 DEF Weight
  <2> HIDE DEF K
  <2>4. h[K] = f[K]
    BY <1>4, <2>1, <2>2, AddsAgree
  <2>5. h[K] = g[K]
    BY <1>5, <2>1, <2>2, <2>3, AddsAgree
  <2> QED BY <2>4, <2>5 DEF K
<1>9. TotalChars(e) \in Nat
  BY <1>3, <1>4, IdsAreFinite, WeightTyped, AddsTyped
<1> QED BY <1>4, <1>5, <1>6, <1>7, <1>8, <1>9 DEF d

LEMMA TotalShrinks ==
  ASSUME NEW e \in [Ids -> Entry \cup {NoEntry}], NEW d \in [Ids -> Entry \cup {NoEntry}],
         \A i \in Ids : d[i] # NoEntry => d[i] = e[i]
  PROVE  TotalChars(d) \in Nat /\ TotalChars(e) \in Nat /\ TotalChars(d) <= TotalChars(e)
<1>1. PICK f : Adds(f, Weight(e), Ids) /\ TotalChars(e) = f[Occupied(e)]
  BY TotalIs
<1>2. PICK g : Adds(g, Weight(d), Ids) /\ TotalChars(d) = g[Occupied(d)]
  BY TotalIs
<1> DEFINE K == Occupied(d)
<1>3. /\ K \subseteq Occupied(e) /\ K \in SUBSET Ids /\ Occupied(e) \in SUBSET Ids
      /\ IsFiniteSet(K)
  BY IdsAreFinite, FS_Subset DEF Occupied
<1>4. PICK h : Adds(h, Weight(e), K)
  BY <1>3, AddsExist
<1>5. \A x \in K : Weight(e)[x] = Weight(d)[x]
  BY DEF Weight, Occupied
<1> HIDE DEF K
<1>6. h[K] = f[K] /\ h[K] = g[K]
  BY <1>1, <1>2, <1>3, <1>4, <1>5, AddsAgree
<1>7. f[K] <= f[Occupied(e)]
  BY <1>1, <1>3, IdsAreFinite, WeightTyped, AddsMonotone
<1>8. g[K] \in Nat /\ f[Occupied(e)] \in Nat
  BY <1>1, <1>2, <1>3, IdsAreFinite, WeightTyped, AddsTyped
<1> QED BY <1>1, <1>2, <1>6, <1>7, <1>8 DEF K

(***************************************************************************)
(* The store never holds more than max_total_chars characters, the expired *)
(* entries that wait to be purged included: save purges, adds the new      *)
(* content to what is left, compares and inserts.                          *)
(***************************************************************************)
THEOREM CharactersBounded == StoreSpec => []CharLimit
<1>1. StoreInit => CharLimit
  <2> SUFFICES ASSUME StoreInit PROVE CharLimit
    OBVIOUS
  <2>1. entries \in [Ids -> Entry \cup {NoEntry}] /\ Occupied(entries) = {}
    BY DEF StoreInit, Occupied
  <2>2. PICK f : Adds(f, Weight(entries), Ids) /\ TotalChars(entries) = f[Occupied(entries)]
    BY <2>1, TotalIs
  <2>3. f[{}] = 0
    <3>1. {} \in SUBSET Ids
      OBVIOUS
    <3>2. Adds(f, Weight(entries), Ids)
      BY <2>2
    <3> QED BY ONLY <3>1, <3>2, AddsStep
  <2> QED BY <2>1, <2>2, <2>3 DEF CharLimit
<1>2. StoreTypeOK /\ CallerInv /\ CharLimit /\ [StoreNext]_storeVars => CharLimit'
  <2> SUFFICES ASSUME StoreTypeOK, CallerInv, CharLimit, [StoreNext]_storeVars
               PROVE  CharLimit'
    OBVIOUS
  <2>1. ASSUME NEW s \in Scopes, NEW c \in Content, SaveOk(s, c)
        PROVE  CharLimit'
    <3> DEFINE entry == [scope |-> s, content |-> c, expires |-> now + TTL]
    <3>1. PICK i \in Ids : issued[i] = NoEntry /\ entries' = [Purged EXCEPT ![i] = entry]
      BY <2>1 DEF SaveOk
    <3>2. Purged[i] = NoEntry
      BY <3>1, PurgedType DEF CallerInv, Faithful
    <3>3. entry \in Entry /\ entry.content = c
      BY NewEntryType
    <3> HIDE DEF entry
    <3>4. TotalChars(Purged) \in Nat /\ TotalChars(entries') = Size[c] + TotalChars(Purged)
      BY <3>1, <3>2, <3>3, PurgedType, TotalGrows
    <3>5. TotalChars(Purged) + Size[c] <= MaxTotalChars
      BY <2>1 DEF SaveOk, Fits
    <3> QED BY <3>4, <3>5 DEF CharLimit
  <2>2. ASSUME entries' = Purged
        PROVE  CharLimit'
    <3>1. /\ TotalChars(Purged) \in Nat /\ TotalChars(entries) \in Nat
          /\ TotalChars(Purged) <= TotalChars(entries)
      BY PurgedType, TotalShrinks DEF StoreTypeOK
    <3>2. TotalChars(Purged) <= MaxTotalChars
      BY <3>1 DEF CharLimit
    <3> QED BY <2>2, <3>2 DEF CharLimit
  <2>3. ASSUME entries' = entries
        PROVE  CharLimit'
    BY <2>3 DEF CharLimit
  <2> QED
    BY <2>1, <2>2, <2>3 DEF StoreNext, Save, Get, SaveTooLarge, SaveFull, GetDenied, GetSegment,
       GetRange, GetRangeBackward, Cleanup, Tick, storeVars
<1> QED BY <1>1, <1>2, TypeCorrect, CallerInvariant, PTL DEF StoreSpec

-----------------------------------------------------------------------------
(***************************************************************************)
(* The segments of a content.                                              *)
(***************************************************************************)
LEMMA TimesMonotone ==
  ASSUME NEW a \in Nat, NEW b \in Nat
  PROVE  /\ a * SegmentChars \in Nat
         /\ (a + 1) * SegmentChars = a * SegmentChars + SegmentChars
         /\ a < b => a * SegmentChars + SegmentChars <= b * SegmentChars
<1>1. a * SegmentChars \in Nat /\ b * SegmentChars \in Nat
  OBVIOUS
<1>2. (a + 1) * SegmentChars = a * SegmentChars + SegmentChars
  OBVIOUS
<1>3. ASSUME a < b PROVE a * SegmentChars + SegmentChars <= b * SegmentChars
  <2> DEFINE d == b - (a + 1)
  <2>1. d \in Nat /\ b = (a + 1) + d
    BY <1>3
  <2> HIDE DEF d
  <2>2. b * SegmentChars = (a + 1) * SegmentChars + d * SegmentChars /\ d * SegmentChars \in Nat
    BY <2>1
  <2> QED BY <1>1, <1>2, <2>2
<1> QED BY <1>1, <1>2, <1>3

LEMMA Divided ==
  ASSUME NEW a \in Nat
  PROVE  /\ a \div SegmentChars \in Nat
         /\ (a \div SegmentChars) * SegmentChars <= a
         /\ a < (a \div SegmentChars) * SegmentChars + SegmentChars
OBVIOUS

\* An index is announced just when its segment begins inside the content.
LEMMA AnnouncedBegins ==
  ASSUME NEW c \in Content, NEW k \in Nat
  PROVE  /\ AvailableSegments(c) \in Nat
         /\ k < AvailableSegments(c) <=> k * SegmentChars < Size[c]
<1> DEFINE n == AvailableSegments(c)
<1>1. Size[c] \in Nat /\ Size[c] + SegmentChars - 1 \in Nat
  OBVIOUS
<1>2. /\ n \in Nat
      /\ n * SegmentChars <= Size[c] + SegmentChars - 1
      /\ Size[c] + SegmentChars - 1 < n * SegmentChars + SegmentChars
  BY <1>1, Divided DEF AvailableSegments
<1> HIDE DEF n
<1>3. n * SegmentChars \in Nat /\ k * SegmentChars \in Nat
  BY <1>2, TimesMonotone
<1>4. CASE k < n
  <2>1. k * SegmentChars + SegmentChars <= n * SegmentChars
    BY <1>2, <1>4, TimesMonotone
  <2> QED BY <1>1, <1>2, <1>3, <1>4, <2>1 DEF n
<1>5. CASE k = n
  <2>1. Size[c] <= k * SegmentChars
    BY <1>1, <1>2, <1>3, <1>5
  <2> QED BY <1>1, <1>2, <1>3, <1>5, <2>1 DEF n
<1>6. CASE k > n
  <2>1. n * SegmentChars + SegmentChars <= k * SegmentChars
    BY <1>2, <1>6, TimesMonotone
  <2> QED BY <1>1, <1>2, <1>3, <1>6, <2>1 DEF n
<1> QED BY <1>2, <1>4, <1>5, <1>6

\* Every character is in exactly one announced segment.
LEMMA InOneSegment ==
  ASSUME StoreTypeOK, NEW i \in Keys, NEW p \in 0 .. Size[entries[i].content] - 1
  PROVE  {k \in 0 .. AvailableSegments(entries[i].content) - 1 :
            k * SegmentChars <= p /\ p < SegmentEnd(i, k)} = {p \div SegmentChars}
<1> DEFINE c == entries[i].content
           q == p \div SegmentChars
<1>1. c \in Content /\ Size[c] \in Nat /\ p \in Nat /\ p < Size[c]
  BY DEF StoreTypeOK, Keys, Entry
<1> HIDE DEF c
<1>2. q \in Nat /\ q * SegmentChars <= p /\ p < q * SegmentChars + SegmentChars
  BY <1>1, Divided
<1> HIDE DEF q
<1>3. q * SegmentChars \in Nat /\ AvailableSegments(c) \in Nat /\ q < AvailableSegments(c)
  <2>1. q * SegmentChars \in Nat
    BY <1>2, TimesMonotone
  <2>2. q * SegmentChars < Size[c]
    BY <1>1, <1>2, <2>1
  <2> QED BY <1>1, <1>2, <2>1, <2>2, AnnouncedBegins
<1>4. ASSUME NEW k \in Nat
      PROVE  k * SegmentChars <= p /\ p < SegmentEnd(i, k) <=> k = q
  <2>1. /\ k * SegmentChars \in Nat
        /\ (k + 1) * SegmentChars = k * SegmentChars + SegmentChars
    BY TimesMonotone
  <2>2. SegmentEnd(i, k) = IF k * SegmentChars + SegmentChars <= Size[c]
                           THEN k * SegmentChars + SegmentChars ELSE Size[c]
    BY <2>1 DEF SegmentEnd, Smaller, c
  <2>3. CASE k < q
    <3>1. k * SegmentChars + SegmentChars <= q * SegmentChars
      BY <1>2, <2>3, TimesMonotone
    <3>2. ~(p < SegmentEnd(i, k))
      BY <1>1, <1>2, <1>3, <2>1, <2>2, <3>1
    <3> QED BY <1>2, <2>3, <3>2
  <2>4. CASE k > q
    <3>1. q * SegmentChars + SegmentChars <= k * SegmentChars
      BY <1>2, <2>4, TimesMonotone
    <3>2. ~(k * SegmentChars <= p)
      BY <1>1, <1>2, <1>3, <2>1, <3>1
    <3> QED BY <1>2, <2>4, <3>2
  <2>5. CASE k = q
    <3>1. p < SegmentEnd(i, k)
      BY <1>1, <1>2, <1>3, <2>2, <2>5
    <3> QED BY <1>2, <2>5, <3>1
  <2> QED BY <1>2, <2>3, <2>4, <2>5
<1>5. q \in 0 .. AvailableSegments(c) - 1
  BY <1>2, <1>3
<1>6. \A k \in 0 .. AvailableSegments(c) - 1 : k \in Nat
  BY <1>3
<1> QED BY <1>4, <1>5, <1>6 DEF c, q

(***************************************************************************)
(* For contents of every size and every segment_chars: what an envelope    *)
(* announces (available_segments) is exactly what get_segment serves, and  *)
(* each character is in exactly one of the segments.                       *)
(***************************************************************************)
THEOREM SegmentsAreContent == StoreSpec => []SegmentsCoverContent
<1>1. StoreTypeOK => SegmentsCoverContent
  <2> SUFFICES ASSUME StoreTypeOK, NEW i \in Keys
               PROVE  LET c == entries[i].content
                          announced == 0 .. AvailableSegments(c) - 1
                      IN /\ \A k \in 0 .. AvailableSegments(c) :
                              SegmentOutside(i, k) <=> k \notin announced /\ Size[c] > 0
                         /\ \A p \in 0 .. Size[c] - 1 :
                              Cardinality({k \in announced :
                                k * SegmentChars <= p /\ p < SegmentEnd(i, k)}) = 1
    BY DEF SegmentsCoverContent
  <2> DEFINE c == entries[i].content
             announced == 0 .. AvailableSegments(c) - 1
  <2>1. c \in Content /\ Size[c] \in Nat
    BY DEF StoreTypeOK, Keys, Entry
  <2>2. ASSUME NEW k \in 0 .. AvailableSegments(c)
        PROVE  SegmentOutside(i, k) <=> k \notin announced /\ Size[c] > 0
    <3> HIDE DEF c
    <3>1. AvailableSegments(c) \in Nat
      BY <2>1, AnnouncedBegins
    <3>2. k \in Nat /\ k * SegmentChars \in Nat
      BY <3>1, TimesMonotone
    <3>3. k \in announced <=> k * SegmentChars < Size[c]
      BY <2>1, <3>1, <3>2, AnnouncedBegins
    <3>4. SegmentOutside(i, k) <=> k * SegmentChars >= Size[c] /\ ~(k = 0 /\ Size[c] = 0)
      BY DEF SegmentOutside, c
    <3>5. Size[c] = 0 => k = 0
      <4>1. ASSUME Size[c] = 0, k > 0 PROVE FALSE
        <5>1. 0 < AvailableSegments(c) /\ 0 * SegmentChars = 0
          BY <3>1, <3>2, <4>1
        <5> QED BY <2>1, <4>1, <5>1, AnnouncedBegins
      <4> QED BY <3>2, <4>1
    <3> QED BY <2>1, <3>2, <3>3, <3>4, <3>5
  <2>3. ASSUME NEW p \in 0 .. Size[c] - 1
        PROVE  Cardinality({k \in announced :
                 k * SegmentChars <= p /\ p < SegmentEnd(i, k)}) = 1
    <3>1. {k \in announced : k * SegmentChars <= p /\ p < SegmentEnd(i, k)}
            = {p \div SegmentChars}
      BY InOneSegment
    <3> QED BY <3>1, FS_Singleton
  <2> QED BY <2>2, <2>3
<1> QED BY <1>1, TypeCorrect, PTL

-----------------------------------------------------------------------------
USE NullsAreNoValues

\* What an open transaction can rely on.
TransactionsHoldLocks ==
  \A a \in Admins :
    task[a] # Idle =>
      /\ task[a].op \in {"rotate", "revoke"}
      /\ task[a].key \in ApiKeys
      /\ Exists(task[a].key)
      /\ lock[task[a].key] = a
      /\ task[a].op = "rotate" => Active(task[a].key)

RootsExist == \A k \in ApiKeys : Exists(k) => root[k] \in ApiKeys /\ Exists(root[k])

KeysInv ==
  /\ KeysTypeOK
  /\ TransactionsHoldLocks
  /\ RootsExist
  /\ OneActivePerLineage

\* What a step may do to the row of a key.
RowsOnlyRetire ==
  \A k \in ApiKeys : Exists(k) =>
    /\ Exists(k)'
    /\ rows'[k].tenant = rows[k].tenant
    /\ rows[k].status = "revoked" => rows'[k] = rows[k]
    /\ rows[k].status # "active" => rows'[k].status # "active"

-----------------------------------------------------------------------------
LEMMA NewRowTyped ==
  ASSUME NEW t \in Tenants
  PROVE  /\ NewRow(t) \in KeyRow
         /\ NewRow(t) # NoKey
         /\ NewRow(t).tenant = t
         /\ NewRow(t).status = "active"
BY DEF NewRow, KeyRow, Status

LEMMA RowTyped ==
  ASSUME KeysInv, NEW k \in ApiKeys, Exists(k)
  PROVE  rows[k] \in KeyRow /\ rows[k].tenant \in Tenants
BY DEF KeysInv, KeysTypeOK, Exists, KeyRow

LEMMA KeysInitInv == KeysInit => KeysInv
BY DEF KeysInit, KeysInv, KeysTypeOK, TransactionsHoldLocks, RootsExist,
       OneActivePerLineage, Idle, Exists

-----------------------------------------------------------------------------
\* The end of a transaction frees its key only.
LEMMA EndsTyped ==
  ASSUME KeysInv, NEW a \in Admins, task[a] # Idle, Ends(a)
  PROVE  /\ lock' \in [ApiKeys -> Admins \cup {NoAdmin}]
         /\ task' \in [Admins -> [op : {"none", "rotate", "revoke"},
                                  key : ApiKeys \cup {NoKey}]]
         /\ task'[a] = Idle
         /\ \A b \in Admins \ {a} : task'[b] = task[b]
         /\ \A k \in ApiKeys \ {task[a].key} : lock'[k] = lock[k]
<1>1. Idle \in [op : {"none", "rotate", "revoke"}, key : ApiKeys \cup {NoKey}]
  BY DEF Idle
<1> QED BY <1>1 DEF KeysInv, KeysTypeOK, Ends

\* Nobody else has a transaction on the key of a.
LEMMA KeysAreLockedApart ==
  ASSUME KeysInv, NEW a \in Admins, NEW b \in Admins, a # b,
         task[a] # Idle, task[b] # Idle
  PROVE  task[a].key # task[b].key
BY DEF KeysInv, TransactionsHoldLocks

LEMMA CreateKeepsInv ==
  ASSUME KeysInv, NEW t \in Tenants, Create(t)
  PROVE  KeysInv' /\ RowsOnlyRetire
<1>1. PICK k \in ApiKeys :
        /\ ~Exists(k)
        /\ rows' = [rows EXCEPT ![k] = NewRow(t)]
        /\ root' = [root EXCEPT ![k] = k]
        /\ UNCHANGED <<lock, task>>
  BY DEF Create
<1>2. /\ rows'[k] = NewRow(t) /\ root'[k] = k
      /\ \A j \in ApiKeys \ {k} : rows'[j] = rows[j] /\ root'[j] = root[j]
  BY <1>1 DEF KeysInv, KeysTypeOK
<1>3. KeysTypeOK'
  BY <1>1, NewRowTyped DEF KeysInv, KeysTypeOK
<1>4. TransactionsHoldLocks'
  BY <1>1, <1>2 DEF KeysInv, TransactionsHoldLocks, Exists, Active
<1>5. RootsExist'
  BY <1>1, <1>2, NewRowTyped DEF KeysInv, RootsExist, Exists
<1>6. OneActivePerLineage'
  <2> SUFFICES ASSUME NEW i \in ApiKeys, NEW j \in ApiKeys,
                      Exists(i)', Exists(j)', root'[i] = root'[j], i # j
               PROVE  rows'[i].tenant = rows'[j].tenant /\ ~(Active(i)' /\ Active(j)')
    BY DEF OneActivePerLineage
  <2>1. i # k /\ j # k
    BY <1>1, <1>2 DEF KeysInv, RootsExist, Exists
  <2> QED BY <1>2, <2>1 DEF KeysInv, OneActivePerLineage, Exists, Active
<1>7. KeysInv'
  BY <1>3, <1>4, <1>5, <1>6 DEF KeysInv
<1>8. RowsOnlyRetire
  BY <1>1, <1>2 DEF RowsOnlyRetire, Exists
<1> QED BY <1>7, <1>8

\* A step that leaves the rows alone retires none.
LEMMA UnchangedRows ==
  ASSUME rows' = rows
  PROVE  RowsOnlyRetire
BY DEF RowsOnlyRetire, Exists

LEMMA LockedKeepsInv ==
  ASSUME KeysInv, NEW a \in Admins, NEW k \in ApiKeys,
         RotateBegins(a, k) \/ RevokeBegins(a, k)
  PROVE  KeysInv' /\ RowsOnlyRetire
<1>1. PICK op \in {"rotate", "revoke"} : Locked(a, k, op) /\ (op = "rotate" => Active(k))
  BY DEF RotateBegins, RevokeBegins
<1>2. /\ UNCHANGED <<rows, root>>
      /\ lock'[k] = a /\ \A j \in ApiKeys \ {k} : lock'[j] = lock[j]
      /\ task'[a] = [op |-> op, key |-> k]
      /\ \A b \in Admins \ {a} : task'[b] = task[b]
  BY <1>1 DEF Locked, KeysInv, KeysTypeOK
<1>3. KeysTypeOK'
  BY <1>1 DEF KeysInv, KeysTypeOK, Locked
<1>4. TransactionsHoldLocks'
  <2> SUFFICES ASSUME NEW b \in Admins, task'[b] # Idle
               PROVE  /\ task'[b].op \in {"rotate", "revoke"}
                      /\ task'[b].key \in ApiKeys
                      /\ Exists(task'[b].key)
                      /\ lock'[task'[b].key] = b
                      /\ task'[b].op = "rotate" => Active(task'[b].key)
    BY <1>2 DEF TransactionsHoldLocks, Idle, Exists, Active
  <2>1. CASE b = a
    BY <1>1, <1>2, <2>1 DEF Locked
  <2>2. CASE b # a
    <3>1. task[b].key # k
      BY <1>1, <1>2, <2>2 DEF Locked, KeysInv, TransactionsHoldLocks
    <3> QED BY <1>2, <2>2, <3>1 DEF KeysInv, TransactionsHoldLocks
  <2> QED BY <2>1, <2>2
<1>5. RootsExist' /\ OneActivePerLineage'
  BY <1>2 DEF KeysInv, RootsExist, OneActivePerLineage, Exists, Active
<1>6. KeysInv'
  BY <1>3, <1>4, <1>5 DEF KeysInv
<1> QED BY <1>2, <1>6, UnchangedRows

LEMMA RotateKeepsInv ==
  ASSUME KeysInv, NEW a \in Admins, RotateCommits(a)
  PROVE  KeysInv' /\ RowsOnlyRetire
<1> DEFINE old == task[a].key
<1>1. PICK new \in ApiKeys :
        /\ ~Exists(new)
        /\ rows' = [rows EXCEPT ![old].status = "rotated",
                                ![new] = NewRow(rows[old].tenant)]
        /\ root' = [root EXCEPT ![new] = root[old]]
  BY DEF RotateCommits
<1>2. task[a] # Idle /\ Ends(a)
  BY DEF RotateCommits, Idle
<1>3. old \in ApiKeys /\ Active(old) /\ Exists(old) /\ old # new
  BY <1>1, <1>2 DEF RotateCommits, KeysInv, TransactionsHoldLocks, Active
<1> HIDE DEF old
<1>4. rows[old] \in KeyRow /\ rows[old].tenant \in Tenants
  BY <1>3, RowTyped
<1>5. /\ rows'[old] = [rows[old] EXCEPT !.status = "rotated"]
      /\ rows'[new] = NewRow(rows[old].tenant)
      /\ \A j \in ApiKeys \ {old, new} : rows'[j] = rows[j]
      /\ root'[new] = root[old]
      /\ \A j \in ApiKeys \ {new} : root'[j] = root[j]
  BY <1>1, <1>3 DEF KeysInv, KeysTypeOK
<1>6. rows'[old] \in KeyRow /\ rows'[old].tenant = rows[old].tenant
                            /\ rows'[old].status = "rotated"
  BY <1>4, <1>5 DEF KeyRow, Status
<1>7. NewRow(rows[old].tenant) \in KeyRow
  BY <1>4, NewRowTyped
<1>8. \A k \in ApiKeys : Exists(k)' <=> Exists(k) \/ k = new
  BY <1>3, <1>5, <1>6, <1>7 DEF Exists
<1>9. KeysTypeOK'
  <2>1. rows' \in [ApiKeys -> KeyRow \cup {NoKey}]
    BY <1>1, <1>3, <1>5, <1>6, <1>7 DEF KeysInv, KeysTypeOK
  <2> QED BY <1>1, <1>2, <1>3, <2>1, EndsTyped DEF KeysInv, KeysTypeOK
<1>10. TransactionsHoldLocks'
  <2> SUFFICES ASSUME NEW b \in Admins, task'[b] # Idle
               PROVE  /\ task'[b].op \in {"rotate", "revoke"}
                      /\ task'[b].key \in ApiKeys
                      /\ Exists(task[b].key)'
                      /\ lock'[task'[b].key] = b
                      /\ task'[b].op = "rotate" => Active(task[b].key)'
    BY DEF TransactionsHoldLocks, Idle, Exists, Active
  <2>1. b # a /\ task'[b] = task[b]
    BY <1>2, EndsTyped
  <2>2. task[b].key # old
    BY <1>2, <2>1, KeysAreLockedApart DEF old
  <2>3. task[b].key \in ApiKeys /\ task[b].key # new
    BY <1>1, <2>1 DEF KeysInv, TransactionsHoldLocks
  <2>4. rows'[task[b].key] = rows[task[b].key] /\ lock'[task[b].key] = lock[task[b].key]
    BY <1>2, <1>5, <2>2, <2>3, EndsTyped DEF old
  <2> QED BY <2>1, <2>4 DEF KeysInv, TransactionsHoldLocks, Exists, Active
<1>11. RootsExist'
  BY <1>1, <1>3, <1>5, <1>8 DEF KeysInv, RootsExist
<1>12. OneActivePerLineage'
  <2> SUFFICES ASSUME NEW i \in ApiKeys, NEW j \in ApiKeys,
                      Exists(i)', Exists(j)', root'[i] = root'[j], i # j
               PROVE  rows'[i].tenant = rows'[j].tenant /\ ~(Active(i)' /\ Active(j)')
    BY DEF OneActivePerLineage
  <2>1. ASSUME NEW k \in ApiKeys \ {new}, Exists(k)
        PROVE  /\ rows'[k].tenant = rows[k].tenant
               /\ Active(k)' => Active(k) /\ k # old
    BY <1>5, <1>6, <2>1 DEF Active, Exists
  <2>2. ASSUME NEW k \in ApiKeys \ {new}, Exists(k), root'[k] = root'[new]
        PROVE  rows'[k].tenant = rows'[new].tenant /\ ~Active(k)'
    <3>1. root[k] = root[old]
      BY <1>5, <2>2
    <3>2. rows[k].tenant = rows[old].tenant /\ (Active(k) => k = old)
      BY <1>3, <2>2, <3>1 DEF KeysInv, OneActivePerLineage
    <3>3. rows'[new].tenant = rows[old].tenant
      BY <1>4, <1>5, NewRowTyped
    <3> QED BY <2>1, <2>2, <3>2, <3>3
  <2>3. CASE i = new
    BY <1>8, <2>2, <2>3
  <2>4. CASE j = new
    BY <1>8, <2>2, <2>4
  <2>5. CASE i # new /\ j # new
    <3>1. /\ Exists(i) /\ Exists(j) /\ root[i] = root[j]
      BY <1>5, <1>8, <2>5
    <3>2. rows[i].tenant = rows[j].tenant /\ ~(Active(i) /\ Active(j))
      BY <3>1 DEF KeysInv, OneActivePerLineage
    <3> QED BY <2>1, <2>5, <3>1, <3>2
  <2> QED BY <2>3, <2>4, <2>5
<1>13. RowsOnlyRetire
  <2> SUFFICES ASSUME NEW k \in ApiKeys, Exists(k)
               PROVE  /\ Exists(k)'
                      /\ rows'[k].tenant = rows[k].tenant
                      /\ rows[k].status = "revoked" => rows'[k] = rows[k]
                      /\ rows[k].status # "active" => rows'[k].status # "active"
    BY DEF RowsOnlyRetire
  <2>1. k # new /\ Exists(k)'
    BY <1>1, <1>8
  <2>2. CASE k = old
    BY <1>3, <1>6, <2>1, <2>2 DEF Active
  <2>3. CASE k # old
    BY <1>5, <2>1, <2>3
  <2> QED BY <2>2, <2>3
<1>14. KeysInv'
  BY <1>9, <1>10, <1>11, <1>12 DEF KeysInv
<1> QED BY <1>13, <1>14

LEMMA RevokeKeepsInv ==
  ASSUME KeysInv, NEW a \in Admins, RevokeCommits(a)
  PROVE  KeysInv' /\ RowsOnlyRetire
<1> DEFINE key == task[a].key
<1>1. task[a] # Idle /\ Ends(a) /\ UNCHANGED root
  BY DEF RevokeCommits, Idle
<1>2. key \in ApiKeys /\ Exists(key)
  BY <1>1 DEF KeysInv, TransactionsHoldLocks
<1>3. rows' = [rows EXCEPT ![key] = Revoked(a)]
  BY DEF RevokeCommits
<1>4. rows[key] \in KeyRow
  BY <1>2, RowTyped
<1>5. /\ Revoked(a) \in KeyRow
      /\ Revoked(a).tenant = rows[key].tenant
      /\ Revoked(a).status = "revoked"
      /\ rows[key].status = "revoked" => Revoked(a) = rows[key]
  BY <1>4 DEF Revoked, KeyRow, Status
<1>6. rows'[key] = Revoked(a) /\ \A j \in ApiKeys \ {key} : rows'[j] = rows[j]
  BY <1>2, <1>3 DEF KeysInv, KeysTypeOK
<1> HIDE DEF key
<1>7. \A k \in ApiKeys : /\ Exists(k)' <=> Exists(k)
                         /\ rows'[k].tenant = rows[k].tenant
                         /\ Active(k)' => Active(k)
  BY <1>2, <1>4, <1>5, <1>6 DEF Exists, Active
<1>8. KeysTypeOK'
  BY <1>1, <1>3, <1>5, EndsTyped DEF KeysInv, KeysTypeOK
<1>9. TransactionsHoldLocks'
  <2> SUFFICES ASSUME NEW b \in Admins, task'[b] # Idle
               PROVE  /\ task'[b].op \in {"rotate", "revoke"}
                      /\ task'[b].key \in ApiKeys
                      /\ Exists(task[b].key)'
                      /\ lock'[task'[b].key] = b
                      /\ task'[b].op = "rotate" => Active(task[b].key)'
    BY DEF TransactionsHoldLocks, Idle, Exists, Active
  <2>1. b # a /\ task'[b] = task[b]
    BY <1>1, EndsTyped
  <2>2. task[b].key # key /\ task[b].key \in ApiKeys
    BY <1>1, <2>1, KeysAreLockedApart DEF key, KeysInv, TransactionsHoldLocks
  <2>3. rows'[task[b].key] = rows[task[b].key] /\ lock'[task[b].key] = lock[task[b].key]
    BY <1>1, <1>6, <2>2, EndsTyped DEF key
  <2> QED BY <2>1, <2>3 DEF KeysInv, TransactionsHoldLocks, Exists, Active
<1>10. RootsExist'
  BY <1>1, <1>7 DEF KeysInv, RootsExist
<1>11. OneActivePerLineage'
  BY <1>1, <1>7 DEF KeysInv, OneActivePerLineage
<1>12. KeysInv'
  BY <1>8, <1>9, <1>10, <1>11 DEF KeysInv
<1>13. RowsOnlyRetire
  BY <1>2, <1>5, <1>6, <1>7 DEF RowsOnlyRetire
<1> QED BY <1>12, <1>13

LEMMA RollbackKeepsInv ==
  ASSUME KeysInv, NEW a \in Admins, RollsBack(a)
  PROVE  KeysInv' /\ RowsOnlyRetire
<1>1. task[a] # Idle /\ Ends(a) /\ UNCHANGED <<rows, root>>
  BY DEF RollsBack
<1>2. KeysTypeOK'
  BY <1>1, EndsTyped DEF KeysInv, KeysTypeOK
<1>3. TransactionsHoldLocks'
  <2> SUFFICES ASSUME NEW b \in Admins, task'[b] # Idle
               PROVE  /\ task'[b].op \in {"rotate", "revoke"}
                      /\ task'[b].key \in ApiKeys
                      /\ Exists(task'[b].key)
                      /\ lock'[task'[b].key] = b
                      /\ task'[b].op = "rotate" => Active(task'[b].key)
    BY <1>1 DEF TransactionsHoldLocks, Idle, Exists, Active
  <2>1. b # a /\ task'[b] = task[b]
    BY <1>1, EndsTyped
  <2>2. task[b].key # task[a].key /\ task[b].key \in ApiKeys
    BY <1>1, <2>1, KeysAreLockedApart DEF KeysInv, TransactionsHoldLocks
  <2>3. lock'[task[b].key] = lock[task[b].key]
    BY <1>1, <2>2, EndsTyped
  <2> QED BY <2>1, <2>3 DEF KeysInv, TransactionsHoldLocks
<1>4. RootsExist' /\ OneActivePerLineage'
  BY <1>1 DEF KeysInv, RootsExist, OneActivePerLineage, Exists, Active
<1>5. KeysInv'
  BY <1>2, <1>3, <1>4 DEF KeysInv
<1> QED BY <1>1, <1>5, UnchangedRows

-----------------------------------------------------------------------------
LEMMA KeysStep ==
  ASSUME KeysInv, [KeysNext]_keyVars
  PROVE  KeysInv' /\ RowsOnlyRetire
<1>1. ASSUME NEW t \in Tenants, Create(t) PROVE KeysInv' /\ RowsOnlyRetire
  BY <1>1, CreateKeepsInv
<1>2. ASSUME NEW a \in Admins, NEW k \in ApiKeys, RotateBegins(a, k) \/ RevokeBegins(a, k)
      PROVE  KeysInv' /\ RowsOnlyRetire
  BY <1>2, LockedKeepsInv
<1>3. ASSUME NEW a \in Admins, RotateCommits(a) PROVE KeysInv' /\ RowsOnlyRetire
  BY <1>3, RotateKeepsInv
<1>4. ASSUME NEW a \in Admins, RevokeCommits(a) PROVE KeysInv' /\ RowsOnlyRetire
  BY <1>4, RevokeKeepsInv
<1>5. ASSUME NEW a \in Admins, RollsBack(a) PROVE KeysInv' /\ RowsOnlyRetire
  BY <1>5, RollbackKeepsInv
<1>6. ASSUME UNCHANGED keyVars PROVE KeysInv' /\ RowsOnlyRetire
  <2>1. UNCHANGED <<rows, lock, task, root>>
    BY <1>6 DEF keyVars
  <2>2. KeysInv'
    BY <2>1 DEF KeysInv, KeysTypeOK, TransactionsHoldLocks, RootsExist,
                OneActivePerLineage, Exists, Active, Idle
  <2> QED BY <2>1, <2>2, UnchangedRows
<1> QED BY <1>1, <1>2, <1>3, <1>4, <1>5, <1>6 DEF KeysNext

\* Every step of the composition is a step of the keys or leaves them alone.
LEMMA StepsOnKeys == [Next]_vars => [KeysNext]_keyVars
BY DEF Next, vars, keyVars, Resolves, Unscoped, Saves, ChatEnds, Reads, ClockMoves,
       AdministratorActs

LEMMA KeysInvariantHolds == Spec => []KeysInv
<1>1. Init => KeysInv
  BY KeysInitInv DEF Init
<1>2. KeysInv /\ [Next]_vars => KeysInv'
  BY StepsOnKeys, KeysStep
<1> QED BY <1>1, <1>2, PTL DEF Spec

(***************************************************************************)
(* The keys and the transactions on them are type correct.                 *)
(***************************************************************************)
THEOREM KeysTyped == Spec => []KeysTypeOK
<1>1. KeysInv => KeysTypeOK
  BY DEF KeysInv
<1> QED BY <1>1, KeysInvariantHolds, PTL

(***************************************************************************)
(* rotate_api_key leaves one active key in a lineage and keeps its tenant, *)
(* however many administrators rotate and revoke at once.                  *)
(***************************************************************************)
THEOREM LineagesHaveOneActive == Spec => []OneActivePerLineage
<1>1. KeysInv => OneActivePerLineage
  BY DEF KeysInv
<1> QED BY <1>1, KeysInvariantHolds, PTL

(***************************************************************************)
(* A key that was rotated or revoked stays retired, and the timestamp of   *)
(* a revocation stays (rotate_api_key, revoke_api_key).                    *)
(***************************************************************************)
THEOREM RetirementIsFinal == Spec => RetiredForGood
<1> DEFINE A == \A k \in ApiKeys : Exists(k) =>
                  /\ rows[k].status = "revoked" => rows'[k] = rows[k]
                  /\ rows[k].status # "active" => rows'[k].status # "active"
<1>1. KeysInv /\ [Next]_vars => [A]_rows
  BY StepsOnKeys, KeysStep DEF RowsOnlyRetire
<1>2. [][A]_rows <=> RetiredForGood
  BY DEF RetiredForGood
<1> HIDE DEF A
<1> QED BY <1>1, <1>2, KeysInvariantHolds, PTL DEF Spec

-----------------------------------------------------------------------------
\* A call has a key, and the scope of its tenant: a tenant is for good, though
\* the key may have been retired since.
CallBacked ==
  call.op # "over" =>
    /\ call.key \in ApiKeys
    /\ Exists(call.key)
    /\ call.scope = <<rows[call.key].tenant, call.session>>

\* What is in the store belongs to the tenant of the key that saved it.
EntriesBacked ==
  /\ savedBy = [i \in Ids |-> savedBy[i]]
  /\ \A i \in Ids : entries[i] # NoEntry =>
       /\ savedBy[i].key \in ApiKeys
       /\ Exists(savedBy[i].key)
       /\ entries[i].scope = <<rows[savedBy[i].key].tenant, savedBy[i].session>>

\* Who was told "not found" asked for nothing, or for another scope's entry.
DenialsJustified ==
  reply.result = "not_found" =>
    /\ reply.id \in Ids
    /\ call.key \in ApiKeys
    /\ Exists(call.key)
    /\ entries[reply.id] # NoEntry =>
         entries[reply.id].scope # <<rows[call.key].tenant, call.session>>

\* While a call is in hand it has not been told "not found".
NotToldYet == call.op # "over" => reply.result # "not_found"

Access == CallBacked /\ NotToldYet /\ EntriesBacked /\ DenialsJustified

AccessInv == KeysInv /\ Access

\* The scope of a call is that of an existing key.
LEMMA ResolvesBacked ==
  ASSUME NEW k \in ApiKeys, NEW s \in Sessions, NEW op \in {"chat", "retrieve"},
         Resolves(k, s, op)
  PROVE  CallBacked' /\ NotToldYet' /\ reply'.result = "none"
<1>1. ScopeOf(k, s) = <<rows[k].tenant, s>> /\ Exists(k)
  BY DEF Resolves, ScopeOf, Active
<1> QED BY <1>1 DEF Resolves, CallBacked, NotToldYet, Exists, keyVars

LEMMA SavesKeepAccess ==
  ASSUME AccessInv, Saves
  PROVE  Access'
<1> DEFINE s == call.scope
           c == call
<1>1. /\ call' = c /\ UNCHANGED keyVars /\ c.op = "chat"
      /\ savedBy' = IF reply'.result = "saved" THEN [savedBy EXCEPT ![reply'.id] = c]
                    ELSE savedBy
  BY DEF Saves
<1>2. c.key \in ApiKeys /\ Exists(c.key) /\ s = <<rows[c.key].tenant, c.session>>
  BY <1>1 DEF AccessInv, Access, CallBacked
<1>3. rows' = rows /\ CallBacked'
  BY <1>1 DEF keyVars, AccessInv, Access, CallBacked, Exists
<1>4. PICK output \in Content :
        SaveOk(s, output) \/ SaveTooLarge(s, output) \/ SaveFull(s, output)
  BY DEF Saves
<1> HIDE DEF s, c
<1>5. \A i \in Ids : Purged[i] # NoEntry => Purged[i] = entries[i]
  BY DEF Purged
<1>6. CASE SaveOk(s, output)
  <2>1. PICK i \in Ids :
          /\ entries' = [Purged EXCEPT ![i] =
                           [scope |-> s, content |-> output, expires |-> now + TTL]]
          /\ reply' = [result |-> "saved", id |-> i, scope |-> s, content |-> output]
    BY <1>6 DEF SaveOk
  <2>2. savedBy' = [savedBy EXCEPT ![i] = c]
    BY <1>1, <2>1
  <2>3. /\ entries'[i].scope = s
        /\ savedBy' = [j \in Ids |-> savedBy'[j]] /\ savedBy'[i] = c
        /\ \A j \in Ids \ {i} : savedBy'[j] = savedBy[j] /\ entries'[j] = Purged[j]
    BY <2>1, <2>2 DEF AccessInv, Access, EntriesBacked, Purged
  <2>4. EntriesBacked'
    BY <1>2, <1>3, <1>5, <2>3 DEF AccessInv, Access, EntriesBacked, Exists
  <2>5. DenialsJustified'
    BY <2>1 DEF DenialsJustified
  <2>6. NotToldYet'
    BY <2>1 DEF NotToldYet
  <2> QED BY <1>3, <2>4, <2>5, <2>6 DEF Access
<1>7. CASE SaveTooLarge(s, output)
  <2>1. entries' = entries /\ reply'.result = "store_full"
    BY <1>7 DEF SaveTooLarge
  <2>2. savedBy' = savedBy
    BY <1>1, <2>1
  <2> QED BY <1>3, <2>1, <2>2
          DEF AccessInv, Access, NotToldYet, EntriesBacked, DenialsJustified, Exists
<1>8. CASE SaveFull(s, output)
  <2>1. entries' = Purged /\ reply'.result = "store_full"
    BY <1>8 DEF SaveFull
  <2>2. savedBy' = savedBy
    BY <1>1, <2>1
  <2> QED BY <1>3, <1>5, <2>1, <2>2
          DEF AccessInv, Access, NotToldYet, EntriesBacked, DenialsJustified, Exists
<1> QED BY <1>4, <1>6, <1>7, <1>8

LEMMA ReadsKeepAccess ==
  ASSUME AccessInv, Reads
  PROVE  Access'
<1> DEFINE s == call.scope
           c == [call EXCEPT !.op = "over"]
<1>1. /\ call' = c /\ UNCHANGED keyVars /\ savedBy' = savedBy /\ call.op = "retrieve"
  BY DEF Reads
<1>2. call.key \in ApiKeys /\ Exists(call.key) /\ s = <<rows[call.key].tenant, call.session>>
  BY <1>1 DEF AccessInv, Access, CallBacked
<1>3. rows' = rows
  BY <1>1 DEF keyVars
<1>4. PICK i \in Ids :
        GetDenied(i, s) \/ \E k \in 0 .. MaxOffset : GetSegment(i, s, k)
  BY DEF Reads
<1>10. CallBacked' /\ NotToldYet'
  BY <1>1, <1>2, <1>3 DEF CallBacked, NotToldYet, Exists
<1>11. call'.key = call.key /\ call'.session = call.session
  BY <1>1
<1> HIDE DEF s, c
<1>5. entries' = Purged
  BY <1>4 DEF GetDenied, GetSegment
<1>6. \A j \in Ids : Purged[j] # NoEntry => Purged[j] = entries[j]
  BY DEF Purged
<1>7. EntriesBacked'
  BY <1>1, <1>3, <1>5, <1>6 DEF AccessInv, Access, EntriesBacked, Exists
<1>8. CASE GetDenied(i, s)
  <2>1. reply'.id = i /\ (Purged[i] = NoEntry \/ Purged[i].scope # s)
    BY <1>8 DEF GetDenied, Authorized
  <2>2. DenialsJustified'
    BY <1>2, <1>3, <1>5, <1>11, <2>1 DEF DenialsJustified, Exists
  <2> QED BY <1>7, <1>10, <2>2 DEF Access
<1>9. CASE \E k \in 0 .. MaxOffset : GetSegment(i, s, k)
  <2>1. reply'.result # "not_found"
    BY <1>9 DEF GetSegment, Piece
  <2> QED BY <1>7, <1>10, <2>1 DEF Access, DenialsJustified
<1> QED BY <1>4, <1>8, <1>9

LEMMA NextAccessInv == AccessInv /\ [Next]_vars => AccessInv'
<1> SUFFICES ASSUME AccessInv, [Next]_vars PROVE AccessInv'
  OBVIOUS
<1>1. /\ KeysInv'
      /\ \A k \in ApiKeys : Exists(k) => Exists(k)' /\ rows'[k].tenant = rows[k].tenant
  BY StepsOnKeys, KeysStep DEF AccessInv, Access, RowsOnlyRetire
<1>2. ASSUME UNCHANGED <<entries, reply, call, savedBy>>
      PROVE  Access'
  BY <1>1, <1>2 DEF AccessInv, Access, CallBacked, NotToldYet, EntriesBacked, DenialsJustified
<1>3. ASSUME NEW k \in ApiKeys, NEW s \in Sessions, NEW op \in {"chat", "retrieve"},
             Resolves(k, s, op)
      PROVE  Access'
  <2>1. UNCHANGED <<rows, entries, savedBy>>
    BY <1>3 DEF Resolves, keyVars
  <2> QED BY <1>3, <2>1, ResolvesBacked
          DEF AccessInv, Access, EntriesBacked, DenialsJustified, Exists
<1>4. CASE Unscoped
  BY <1>1, <1>4
     DEF Unscoped, NoCall, AccessInv, Access, CallBacked, NotToldYet, EntriesBacked,
         DenialsJustified
<1>5. CASE Saves
  BY <1>5, SavesKeepAccess, <1>1 DEF AccessInv
<1>6. CASE ChatEnds
  <2>1. UNCHANGED <<rows, entries, savedBy, reply>> /\ call'.op = "over"
    BY <1>6 DEF ChatEnds, keyVars, storeVars, NoCall
  <2>2. DenialsJustified'
    BY <1>6, <2>1 DEF ChatEnds, AccessInv, Access, NotToldYet, DenialsJustified
  <2>3. CallBacked' /\ NotToldYet'
    BY <2>1 DEF CallBacked, NotToldYet
  <2>4. EntriesBacked'
    BY <2>1 DEF AccessInv, Access, EntriesBacked, Exists
  <2> QED BY <1>1, <2>2, <2>3, <2>4 DEF AccessInv, Access
<1>7. CASE Reads
  BY <1>7, ReadsKeepAccess, <1>1 DEF AccessInv
<1>8. CASE ClockMoves
  BY <1>1, <1>2, <1>8 DEF ClockMoves, Tick, StepsBack, AccessInv
<1>9. CASE AdministratorActs
  BY <1>1, <1>2, <1>9 DEF AdministratorActs, storeVars, AccessInv
<1>10. CASE UNCHANGED vars
  BY <1>1, <1>2, <1>10 DEF vars, storeVars, AccessInv
<1> QED BY <1>1, <1>3, <1>4, <1>5, <1>6, <1>7, <1>8, <1>9, <1>10 DEF Next, AccessInv

(***************************************************************************)
(* After a rotation the successor still reads what its predecessor saved   *)
(* in the same session (rotate_api_key copies the tenant, _authorized      *)
(* compares tenant and session).                                           *)
(***************************************************************************)
THEOREM SuccessorsInherit == Spec => []RotationKeepsAccess
<1>1. Init => AccessInv
  BY KeysInitInv DEF Init, NoCall, StoreInit, AccessInv, Access, CallBacked, NotToldYet,
                        EntriesBacked, DenialsJustified
<1>2. AccessInv => RotationKeepsAccess
  BY DEF AccessInv, Access, KeysInv, OneActivePerLineage, EntriesBacked, DenialsJustified,
         RotationKeepsAccess
<1> QED BY <1>1, <1>2, NextAccessInv, PTL DEF Spec

-----------------------------------------------------------------------------
\* What the store holds is what was saved, and nothing that was denied.
DenialsAreFinal ==
  /\ issued = [i \in Ids |-> issued[i]]
  /\ \A i \in Ids : entries[i] # NoEntry => entries[i] = issued[i]
  /\ \A i \in denied : i \in Ids /\ issued[i] # NoEntry /\ entries[i] = NoEntry
  /\ NoResurrection

\* A purge only removes.
LEMMA PurgeRemoves == \A i \in Ids : Purged[i] = NoEntry \/ Purged[i] = entries[i]
BY DEF Purged

\* A step of the store that hands out no id and serves nothing.
LEMMA PurgesKeepDenials ==
  ASSUME DenialsAreFinal, entries' = entries \/ entries' = Purged,
         UNCHANGED <<issued, denied>>, reply'.result # "ok"
  PROVE  DenialsAreFinal'
BY PurgeRemoves DEF DenialsAreFinal, NoResurrection

LEMMA SavesKeepDenials ==
  ASSUME DenialsAreFinal, Saves
  PROVE  DenialsAreFinal'
<1> DEFINE s == call.scope
<1>1. PICK output \in Content :
        SaveOk(s, output) \/ SaveTooLarge(s, output) \/ SaveFull(s, output)
  BY DEF Saves
<1> HIDE DEF s
<1>2. CASE SaveOk(s, output)
  <2> DEFINE entry == [scope |-> s, content |-> output, expires |-> now + TTL]
  <2>1. PICK i \in Ids :
          /\ issued[i] = NoEntry
          /\ entries' = [Purged EXCEPT ![i] = entry]
          /\ issued' = [issued EXCEPT ![i] = entry]
          /\ reply' = [result |-> "saved", id |-> i, scope |-> s, content |-> output]
          /\ denied' = denied
    BY <1>2 DEF SaveOk
  <2> HIDE DEF entry
  <2>2. /\ entries'[i] = entry /\ issued'[i] = entry
        /\ \A j \in Ids \ {i} : entries'[j] = Purged[j] /\ issued'[j] = issued[j]
        /\ issued' = [j \in Ids |-> issued'[j]]
    BY <2>1 DEF DenialsAreFinal, Purged
  <2>3. i \notin denied
    BY <2>1 DEF DenialsAreFinal
  <2> QED BY <2>1, <2>2, <2>3, PurgeRemoves
          DEF DenialsAreFinal, NoResurrection
<1>3. CASE SaveTooLarge(s, output) \/ SaveFull(s, output)
  BY <1>3, PurgesKeepDenials DEF SaveTooLarge, SaveFull
<1> QED BY <1>1, <1>2, <1>3

LEMMA ReadsKeepDenials ==
  ASSUME DenialsAreFinal, Reads
  PROVE  DenialsAreFinal'
<1> DEFINE s == call.scope
<1>1. PICK i \in Ids :
        GetDenied(i, s) \/ \E k \in 0 .. MaxOffset : GetSegment(i, s, k)
  BY DEF Reads
<1> HIDE DEF s
<1>2. CASE GetDenied(i, s)
  <2>1. /\ entries' = Purged /\ issued' = issued /\ reply'.result = "not_found"
        /\ denied' = IF issued[i] # NoEntry /\ issued[i].scope = s
                     THEN denied \cup {i} ELSE denied
        /\ Purged[i] = NoEntry \/ Purged[i].scope # s
    BY <1>2 DEF GetDenied, Authorized
  <2>2. i \in denied' => i \in denied \/ (issued[i] # NoEntry /\ Purged[i] = NoEntry)
    BY <2>1, PurgeRemoves DEF DenialsAreFinal
  <2> QED BY <2>1, <2>2, PurgeRemoves DEF DenialsAreFinal, NoResurrection
<1>3. ASSUME NEW k \in 0 .. MaxOffset, GetSegment(i, s, k) PROVE DenialsAreFinal'
  <2>1. /\ Purged[i] # NoEntry
        /\ entries' = Purged /\ issued' = issued /\ denied' = denied
        /\ reply'.id = i
    BY <1>3 DEF GetSegment, Authorized, Piece
  <2>2. i \notin denied
    BY <2>1, PurgeRemoves DEF DenialsAreFinal
  <2> QED BY <2>1, <2>2, PurgeRemoves DEF DenialsAreFinal, NoResurrection
<1> QED BY <1>1, <1>2, <1>3

(***************************************************************************)
(* Whose continuation was reported as gone never gets it again, whichever  *)
(* keys ask and wherever the clock is set (_authorized purges first).      *)
(***************************************************************************)
THEOREM DeniedForGood == Spec => []NoResurrection
<1>1. Init => DenialsAreFinal
  <2> SUFFICES ASSUME Init PROVE DenialsAreFinal
    OBVIOUS
  <2>1. /\ entries = [i \in Ids |-> NoEntry] /\ issued = [i \in Ids |-> NoEntry]
        /\ denied = {} /\ reply.result # "ok"
    BY DEF Init, StoreInit
  <2> QED BY <2>1 DEF DenialsAreFinal, NoResurrection
<1>2. DenialsAreFinal /\ [Next]_vars => DenialsAreFinal'
  <2> SUFFICES ASSUME DenialsAreFinal, [Next]_vars PROVE DenialsAreFinal'
    OBVIOUS
  <2>1. CASE Unscoped
    BY <2>1, PurgesKeepDenials DEF Unscoped
  <2>2. CASE Saves
    BY <2>2, SavesKeepDenials
  <2>3. CASE Reads
    BY <2>3, ReadsKeepDenials
  <2>4. ASSUME NEW k \in ApiKeys, NEW s \in Sessions, NEW op \in {"chat", "retrieve"},
               Resolves(k, s, op)
        PROVE  DenialsAreFinal'
    BY <2>4, PurgesKeepDenials DEF Resolves
  <2>5. ASSUME UNCHANGED <<entries, issued, denied, reply>> PROVE DenialsAreFinal'
    BY <2>5 DEF DenialsAreFinal, NoResurrection
  <2>6. CASE ChatEnds \/ ClockMoves \/ AdministratorActs \/ UNCHANGED vars
    BY <2>5, <2>6
       DEF ChatEnds, ClockMoves, Tick, StepsBack, AdministratorActs, vars, storeVars
  <2> QED BY <2>1, <2>2, <2>3, <2>4, <2>6 DEF Next
<1>3. DenialsAreFinal => NoResurrection
  BY DEF DenialsAreFinal
<1> QED BY <1>1, <1>2, <1>3, PTL DEF Spec
=============================================================================
