------------------------- MODULE FileVersionsProofs -------------------------
(***************************************************************************)
(* Proofs about FileVersions, for any number of readers, contents and      *)
(* requests and any clock.  The argument: an answer other than "deleted"   *)
(* is given under the advisory lock and rows are drafted only then, so     *)
(* while one is open nobody else can commit a row of the file: the base    *)
(* that it names is still the current version when its row is committed.   *)
(***************************************************************************)
EXTENDS FileVersions, TLAPS

\* Only the holder of the lock has an answer that names versions, or rows to
\* commit.
LockIsHeld ==
  \A p \in Readers :
    /\ Answered(p) => holder = p
    /\ draft[p] # {} => Answered(p)

\* Up to its commit the base that an answer names is what _latest would return
\* to that transaction.
BaseIsCurrent ==
  \A p \in Readers : Answered(p) => answer[p].base = IdIn(Latest(p))

IInv == TypeOK /\ LockIsHeld /\ BaseIsCurrent /\ AnswersRebuild

LEMMA ChosenIsIn ==
  ASSUME NEW S, S # {}
  PROVE  (CHOOSE v \in S : TRUE) \in S
OBVIOUS

LEMMA IdInTyped ==
  ASSUME NEW S, S \subseteq Version
  PROVE  IdIn(S) \in Ids \cup {None}
<1>1. CASE S = {} BY <1>1 DEF IdIn
<1>2. CASE S # {} BY <1>2, ChosenIsIn DEF IdIn, Version
<1> QED BY <1>1, <1>2

LEMMA LatestInTable ==
  ASSUME NEW p \in Readers
  PROVE  Latest(p) \subseteq table
BY DEF Latest, Live

\* What _latest returns depends on the table and the time of the transaction.
LEMMA LatestUnchanged ==
  ASSUME NEW p \in Readers, table' = table, begun'[p] = begun[p]
  PROVE  /\ Latest(p)' = Latest(p)
         /\ IdIn(Latest(p))' = IdIn(Latest(p))
BY DEF Latest, Live, Newer, IdIn

LEMMA KindTyped ==
  ASSUME NEW q, NEW S
  PROVE  Kind(q, S) \in {"full", "unchanged", "diff", "deleted"}
BY DEF Kind, KindAgainst

\* A deletion is never answered by Read, which holds the lock.
LEMMA KindOfContent ==
  ASSUME NEW q, NEW S, q.content # None
  PROVE  Kind(q, S) # "deleted"
BY DEF Kind, KindAgainst

\* The kind fits the version it is relative to.
LEMMA KindRebuilds ==
  ASSUME NEW q, NEW S, q.content # None, Kind(q, S) \in {"unchanged", "diff"}
  PROVE  \E v \in S :
           /\ v.id = IdIn(S)
           /\ Kind(q, S) = "unchanged" => v.content = q.content
           /\ Kind(q, S) = "diff" => /\ <<v.content, q.content>> \in SmallDiff
                                     /\ q.expected \in {None, v.id}
<1> DEFINE v == CHOOSE w \in S : TRUE
<1>1. S # {}
  BY DEF Kind
<1>2. v \in S
  BY <1>1, ChosenIsIn
<1>3. v.id = IdIn(S)
  BY <1>1 DEF IdIn
<1>4. Kind(q, S) = KindAgainst(q, v)
  BY <1>1 DEF Kind
<1> HIDE DEF v
<1>5. Kind(q, S) = "unchanged" => v.content = q.content
  BY <1>4 DEF KindAgainst
<1>6. Kind(q, S) = "diff" => /\ <<v.content, q.content>> \in SmallDiff
                             /\ q.expected \in {None, v.id}
  BY <1>4 DEF KindAgainst, FallsBack, Stale
<1> QED BY <1>2, <1>3, <1>5, <1>6

-----------------------------------------------------------------------------
LEMMA InitIInv == Init => IInv
<1> SUFFICES ASSUME Init PROVE IInv
  OBVIOUS
<1>1. NoRequest \in Request /\ NoAnswer \in Answer
  BY DEF NoRequest, Request, NoAnswer, Answer
<1>2. TypeOK
  BY <1>1, BoundsAreNaturals DEF Init, TypeOK
<1>3. \A p \in Readers : ~Answered(p) /\ draft[p] = {}
  BY DEF Init, Answered
<1> QED BY <1>2, <1>3 DEF IInv, LockIsHeld, BaseIsCurrent, AnswersRebuild

\* What a step that leaves the table, and all that concerns r, preserves.
LEMMA UntouchedReader ==
  ASSUME IInv, NEW r \in Readers, table \subseteq table',
         phase'[r] = phase[r], begun'[r] = begun[r], request'[r] = request[r],
         draft'[r] = draft[r], answer'[r] = answer[r],
         Answered(r) => table' = table /\ holder' = holder
  PROVE  /\ Answered(r)' => holder' = r
         /\ draft'[r] # {} => Answered(r)'
         /\ Answered(r)' => answer'[r].base = IdIn(Latest(r))'
         /\ Answered(r)' /\ answer'[r].kind \in {"unchanged", "diff"} =>
              \E v \in table' :
                /\ v.id = answer'[r].base
                /\ answer'[r].kind = "unchanged" => v.content = request'[r].content
                /\ answer'[r].kind = "diff" =>
                     /\ <<v.content, request'[r].content>> \in SmallDiff
                     /\ request'[r].expected \in {None, v.id}
<1>1. Answered(r)' <=> Answered(r)
  BY DEF Answered
<1>2. ASSUME Answered(r) PROVE IdIn(Latest(r))' = IdIn(Latest(r))
  BY <1>2, LatestUnchanged
<1>3. Answered(r) => answer[r].base = IdIn(Latest(r))
  BY DEF IInv, BaseIsCurrent
<1>4. Answered(r)' => holder' = r
  BY <1>1 DEF IInv, LockIsHeld
<1>5. draft'[r] # {} => Answered(r)'
  BY <1>1 DEF IInv, LockIsHeld
<1>6. Answered(r)' => answer'[r].base = IdIn(Latest(r))'
  BY <1>1, <1>2, <1>3
<1>7. Answered(r)' /\ answer'[r].kind \in {"unchanged", "diff"} =>
              \E v \in table' :
                /\ v.id = answer'[r].base
                /\ answer'[r].kind = "unchanged" => v.content = request'[r].content
                /\ answer'[r].kind = "diff" =>
                     /\ <<v.content, request'[r].content>> \in SmallDiff
                     /\ request'[r].expected \in {None, v.id}
  BY <1>1 DEF IInv, AnswersRebuild
<1> QED BY <1>4, <1>5, <1>6, <1>7

-----------------------------------------------------------------------------
LEMMA TypePreserved ==
  ASSUME IInv, [Next]_vars
  PROVE  TypeOK'
<1> USE DEF IInv, TypeOK
<1>1. ASSUME NEW p \in Readers, NEW q \in Requests, Begin(p, q) PROVE TypeOK'
  BY <1>1, RequestsAreCalls DEF Begin
<1>2. ASSUME NEW p \in Readers, ReadDeleted(p) PROVE TypeOK'
  <2>1. IdIn(Latest(p)) \in Ids \cup {None}
    BY LatestInTable, IdInTyped
  <2>2. [kind |-> "deleted", base |-> IdIn(Latest(p)), version |-> None] \in Answer
    BY <2>1 DEF Answer
  <2> QED BY <1>2, <2>2 DEF ReadDeleted
<1>3. ASSUME NEW p \in Readers, Read(p) PROVE TypeOK'
  <2> DEFINE kind == Kind(request[p], Latest(p))
             base == IdIn(Latest(p))
  <2>1. base \in Ids \cup {None}
    BY LatestInTable, IdInTyped
  <2>2. kind \in {"full", "unchanged", "diff", "deleted"}
    BY KindTyped
  <2>3. lastId + 1 \in Ids /\ lastId + 1 \in 0 .. MaxId
    BY <1>3, BoundsAreNaturals DEF Read, Ids
  <2>4. Row(p) \in Version
    <3>1. request[p].content \in Content
      BY <1>3 DEF Read, Request
    <3>2. begun[p] \in Nat /\ begun[p] + TTL \in Nat
      BY BoundsAreNaturals
    <3> QED BY <2>1, <2>3, <3>1, <3>2 DEF Row, Version
  <2> DEFINE fresh == [kind |-> kind, base |-> base,
                       version |-> IF kind = "unchanged" THEN base ELSE lastId + 1]
  <2>5. fresh \in Answer
    BY <2>1, <2>2, <2>3 DEF Answer
  <2>6. answer' = [answer EXCEPT ![p] = fresh]
    BY <1>3 DEF Read
  <2>7. answer' \in [Readers -> Answer]
    BY <2>5, <2>6
  <2>8. draft' \in [Readers -> SUBSET Version]
    BY <1>3, <2>4 DEF Read
  <2>9. lastId' \in 0 .. MaxId
    BY <1>3, <2>3 DEF Read
  <2> QED BY <1>3, <2>7, <2>8, <2>9 DEF Read
<1>4. ASSUME NEW p \in Readers, Ends(p), table' \in {table, table \cup draft[p]} PROVE TypeOK'
  <2>1. NoRequest \in Request /\ NoAnswer \in Answer
    BY DEF NoRequest, Request, NoAnswer, Answer
  <2> QED BY <1>4, <2>1 DEF Ends
<1>5. CASE Tick
  BY <1>5, BoundsAreNaturals DEF Tick
<1>6. CASE UNCHANGED vars
  BY <1>6 DEF vars
<1> QED BY <1>1, <1>2, <1>3, <1>4, <1>5, <1>6 DEF Next, Commit, Rollback

\* The invariants for one reader.
Sound(p) ==
  /\ Answered(p) => holder = p
  /\ draft[p] # {} => Answered(p)
  /\ Answered(p) => answer[p].base = IdIn(Latest(p))
  /\ Answered(p) /\ answer[p].kind \in {"unchanged", "diff"} =>
       \E v \in table :
         /\ v.id = answer[p].base
         /\ answer[p].kind = "unchanged" => v.content = request[p].content
         /\ answer[p].kind = "diff" =>
              /\ <<v.content, request[p].content>> \in SmallDiff
              /\ request[p].expected \in {None, v.id}

\* The reader that gets its answer.
LEMMA ReadIsSound ==
  ASSUME IInv, NEW p \in Readers, Read(p)
  PROVE  Sound(p)'
<1> DEFINE kind == Kind(request[p], Latest(p))
           base == IdIn(Latest(p))
<1>1. /\ answer'[p].kind = kind /\ answer'[p].base = base
      /\ phase'[p] = "answered" /\ holder' = p
      /\ request'[p] = request[p] /\ table' = table /\ begun'[p] = begun[p]
  BY DEF Read, IInv, TypeOK
<1>2. request[p].content # None
  BY DEF Read
<1>3. kind # "deleted"
  BY <1>2, KindOfContent
<1>4. base' = base
  BY <1>1, LatestUnchanged
<1>5. Answered(p)'
  BY <1>1, <1>3 DEF Answered
<1>6. ASSUME kind \in {"unchanged", "diff"}
      PROVE  \E v \in Latest(p) :
               /\ v.id = base
               /\ kind = "unchanged" => v.content = request[p].content
               /\ kind = "diff" => /\ <<v.content, request[p].content>> \in SmallDiff
                                  /\ request[p].expected \in {None, v.id}
  BY <1>2, <1>6, KindRebuilds
<1>7. Latest(p) \subseteq table'
  BY <1>1, LatestInTable
<1> HIDE DEF kind, base
<1>8. answer'[p].kind \in {"unchanged", "diff"} =>
       \E v \in table' :
         /\ v.id = answer'[p].base
         /\ answer'[p].kind = "unchanged" => v.content = request'[p].content
         /\ answer'[p].kind = "diff" =>
              /\ <<v.content, request'[p].content>> \in SmallDiff
              /\ request'[p].expected \in {None, v.id}
  BY <1>1, <1>6, <1>7
<1>9. answer'[p].base = IdIn(Latest(p))'
  BY <1>1, <1>4 DEF base
<1> QED BY <1>1, <1>5, <1>8, <1>9 DEF Sound

LEMMA SoundPreserved ==
  ASSUME IInv, [Next]_vars
  PROVE  \A r \in Readers : Sound(r)'
<1> SUFFICES ASSUME NEW r \in Readers PROVE Sound(r)'
  OBVIOUS
<1>1. ASSUME table \subseteq table',
             phase'[r] = phase[r], begun'[r] = begun[r], request'[r] = request[r],
             draft'[r] = draft[r], answer'[r] = answer[r],
             Answered(r) => table' = table /\ holder' = holder
      PROVE  Sound(r)'
  BY <1>1, UntouchedReader DEF Sound
<1>2. ASSUME ~Answered(r)', draft'[r] = {} PROVE Sound(r)'
  BY <1>2 DEF Sound
<1>3. ASSUME NEW p \in Readers, NEW q \in Requests, Begin(p, q) PROVE Sound(r)'
  <2>1. CASE p = r
    BY <1>2, <1>3, <2>1 DEF Begin, IInv, TypeOK, LockIsHeld, Answered
  <2>2. CASE p # r
    BY <1>1, <1>3, <2>2 DEF Begin, IInv, TypeOK
  <2> QED BY <2>1, <2>2
<1>4. ASSUME NEW p \in Readers, ReadDeleted(p) PROVE Sound(r)'
  <2>1. CASE p = r
    BY <1>2, <1>4, <2>1 DEF ReadDeleted, IInv, TypeOK, LockIsHeld, Answered
  <2>2. CASE p # r
    BY <1>1, <1>4, <2>2 DEF ReadDeleted, IInv, TypeOK
  <2> QED BY <2>1, <2>2
<1>5. ASSUME NEW p \in Readers, Read(p) PROVE Sound(r)'
  <2>1. CASE p = r
    BY <1>5, <2>1, ReadIsSound
  <2>2. CASE p # r
    <3>1. ~Answered(r)
      BY <1>5, NoneIsNoValue DEF Read, IInv, LockIsHeld
    <3> QED BY <1>1, <1>5, <2>2, <3>1 DEF Read, IInv, TypeOK
  <2> QED BY <2>1, <2>2
<1>6. ASSUME NEW p \in Readers, Ends(p), table' = table \/ table' = table \cup draft[p]
      PROVE  Sound(r)'
  <2>1. CASE p = r
    BY <1>2, <1>6, <2>1 DEF Ends, IInv, TypeOK, Answered
  <2>2. CASE p # r
    <3>1. Answered(r) => holder' = holder /\ draft[p] = {}
      BY <1>6, <2>2 DEF Ends, IInv, LockIsHeld
    <3> QED BY <1>1, <1>6, <2>2, <3>1 DEF Ends, IInv, TypeOK
  <2> QED BY <2>1, <2>2
<1>7. CASE Tick
  BY <1>1, <1>7 DEF Tick
<1>8. CASE UNCHANGED vars
  BY <1>1, <1>8 DEF vars
<1> QED BY <1>3, <1>4, <1>5, <1>6, <1>7, <1>8 DEF Next, Commit, Rollback

LEMMA NextIInv == IInv /\ [Next]_vars => IInv'
<1> SUFFICES ASSUME IInv, [Next]_vars PROVE IInv'
  OBVIOUS
<1>1. TypeOK'
  BY TypePreserved
<1>2. \A r \in Readers : Sound(r)'
  BY SoundPreserved
<1>3. LockIsHeld' /\ BaseIsCurrent' /\ AnswersRebuild'
  BY <1>2 DEF Sound, LockIsHeld, BaseIsCurrent, AnswersRebuild
<1> QED BY <1>1, <1>3 DEF IInv

LEMMA InvariantHolds == Spec => []IInv
BY InitIInv, NextIInv, PTL DEF Spec

(***************************************************************************)
(* The table and the transactions are type correct, whatever is read.      *)
(***************************************************************************)
THEOREM VersionsTyped == Spec => []TypeOK
<1>1. IInv => TypeOK
  BY DEF IInv
<1> QED BY <1>1, InvariantHolds, PTL

(***************************************************************************)
(* Whoever holds the base that an answer names can rebuild what was read   *)
(* (prepare_file_read).                                                    *)
(***************************************************************************)
THEOREM ReadsCanBeRebuilt == Spec => []AnswersRebuild
<1>1. IInv => AnswersRebuild
  BY DEF IInv
<1> QED BY <1>1, InvariantHolds, PTL

-----------------------------------------------------------------------------
(***************************************************************************)
(* The versions of a file as a chain.                                      *)
(***************************************************************************)
RowsSound ==
  \A v \in table :
    /\ v.id <= lastId
    /\ v.expires = v.created + TTL
    /\ v.base # None => v.base < v.id

IdsUnique == \A v, w \in table : v.id = w.id => v = w

\* At any time the rows still alive have a newest one (the table is finite).
HasNewest ==
  \A t \in Nat : (\E v \in table : v.expires > t) =>
    \E m \in table :
      /\ m.expires > t
      /\ \A w \in table \ {m} : w.expires > t => Newer(m, w)

\* What a transaction is about to commit.
DraftSound(p) ==
  \A w \in draft[p] :
    /\ draft[p] = {w}
    /\ w.id <= lastId
    /\ \A v \in table : v.id < w.id
    /\ w.created = begun[p]
    /\ w.expires = begun[p] + TTL
    /\ w.base = IdIn(Latest(p))

ChainInv ==
  /\ RowsSound
  /\ IdsUnique
  /\ HasNewest
  /\ \A p \in Readers : DraftSound(p)
  /\ OnlyLateWritersFork

LEMMA InitChainInv == Init => ChainInv
BY DEF Init, ChainInv, RowsSound, IdsUnique, HasNewest, DraftSound,
       OnlyLateWritersFork

\* _latest returns a version whenever one is alive.
LEMMA AliveHasLatest ==
  ASSUME IInv, ChainInv, NEW p \in Readers, Live(p) # {}
  PROVE  Latest(p) # {}
<1>1. begun[p] \in Nat
  BY DEF IInv, TypeOK
<1>2. PICK m \in table : /\ m.expires > begun[p]
                         /\ \A w \in table \ {m} : w.expires > begun[p] => Newer(m, w)
  BY <1>1 DEF Live, ChainInv, HasNewest
<1> QED BY <1>2 DEF Latest, Live

LEMMA LatestIs ==
  ASSUME NEW p \in Readers, Latest(p) # {}
  PROVE  \E b \in table :
           /\ b.id = IdIn(Latest(p)) /\ b.expires > begun[p]
           /\ \A w \in Live(p) \ {b} : Newer(b, w)
<1> DEFINE b == CHOOSE v \in Latest(p) : TRUE
<1>1. b \in Latest(p)
  BY ChosenIsIn
<1>2. b.id = IdIn(Latest(p))
  BY DEF IdIn
<1> HIDE DEF b
<1> QED BY <1>1, <1>2 DEF Latest, Live

\* The row that Read drafts.
LEMMA ReadDrafts ==
  ASSUME IInv, ChainInv, NEW p \in Readers, Read(p)
  PROVE  DraftSound(p)'
<1>1. /\ table' = table /\ begun'[p] = begun[p] /\ draft'[p] \subseteq {Row(p)}
      /\ draft'[p] # {} => lastId' = lastId + 1
  BY DEF Read, IInv, TypeOK
<1>2. IdIn(Latest(p))' = IdIn(Latest(p))
  BY <1>1, LatestUnchanged
<1>3. Row(p).id = lastId + 1 /\ Row(p).base = IdIn(Latest(p))
      /\ Row(p).created = begun[p] /\ Row(p).expires = begun[p] + TTL
  BY DEF Row
<1>4. \A v \in table : v.id < lastId + 1
  BY BoundsAreNaturals DEF ChainInv, RowsSound, IInv, TypeOK, Version, Ids
<1>5. lastId \in Nat
  BY BoundsAreNaturals DEF IInv, TypeOK
<1> HIDE DEF Row
<1> QED BY <1>1, <1>2, <1>3, <1>4, <1>5 DEF DraftSound

\* A draft stays sound while its reader does nothing: the lock keeps the rest
\* out.
LEMMA DraftKept ==
  ASSUME IInv, ChainInv, [Next]_vars, NEW r \in Readers, draft'[r] = draft[r],
         begun'[r] = begun[r], draft[r] # {} => table' = table
  PROVE  DraftSound(r)'
<1>1. lastId <= lastId' /\ lastId \in Nat /\ lastId' \in Nat
  BY TypePreserved, BoundsAreNaturals
     DEF IInv, TypeOK, Next, vars, Begin, ReadDeleted, Read, Commit, Rollback, Ends, Tick
<1>2. \A w \in draft[r] : w.id \in Nat
  BY BoundsAreNaturals DEF IInv, TypeOK, Version, Ids
<1>3. draft[r] # {} => IdIn(Latest(r))' = IdIn(Latest(r))
  BY LatestUnchanged
<1> QED BY <1>1, <1>2, <1>3 DEF DraftSound, ChainInv

LEMMA DraftsPreserved ==
  ASSUME IInv, ChainInv, [Next]_vars
  PROVE  \A r \in Readers : DraftSound(r)'
<1> SUFFICES ASSUME NEW r \in Readers PROVE DraftSound(r)'
  OBVIOUS
<1>1. ASSUME draft'[r] = draft[r], begun'[r] = begun[r], draft[r] # {} => table' = table
      PROVE  DraftSound(r)'
  BY <1>1, DraftKept
<1>2. ASSUME draft'[r] = {} PROVE DraftSound(r)'
  BY <1>2 DEF DraftSound
<1>3. ASSUME NEW p \in Readers, NEW q \in Requests, Begin(p, q) PROVE DraftSound(r)'
  <2>1. CASE p = r
    BY <1>2, <1>3, <2>1 DEF Begin, IInv, TypeOK, LockIsHeld, Answered
  <2>2. CASE p # r
    BY <1>1, <1>3, <2>2 DEF Begin, IInv, TypeOK
  <2> QED BY <2>1, <2>2
<1>4. ASSUME NEW p \in Readers, ReadDeleted(p) PROVE DraftSound(r)'
  BY <1>1, <1>4 DEF ReadDeleted
<1>5. ASSUME NEW p \in Readers, Read(p) PROVE DraftSound(r)'
  <2>1. CASE p = r
    BY <1>5, <2>1, ReadDrafts
  <2>2. CASE p # r
    BY <1>1, <1>5, <2>2 DEF Read, IInv, TypeOK
  <2> QED BY <2>1, <2>2
<1>6. ASSUME NEW p \in Readers, Ends(p), table' = table \/ table' = table \cup draft[p]
      PROVE  DraftSound(r)'
  <2>1. CASE p = r
    BY <1>2, <1>6, <2>1 DEF Ends, IInv, TypeOK
  <2>2. CASE p # r
    <3>1. draft[r] # {} => draft[p] = {}
      BY <2>2 DEF IInv, LockIsHeld
    <3> QED BY <1>1, <1>6, <2>2, <3>1 DEF Ends, IInv, TypeOK
  <2> QED BY <2>1, <2>2
<1>7. CASE Tick
  BY <1>1, <1>7 DEF Tick
<1>8. CASE UNCHANGED vars
  BY <1>1, <1>8 DEF vars
<1> QED BY <1>3, <1>4, <1>5, <1>6, <1>7, <1>8 DEF Next, Commit, Rollback

-----------------------------------------------------------------------------
\* A row w is committed.
LEMMA NewestPreserved ==
  ASSUME IInv, ChainInv, NEW w \in Version, table' = table \cup {w},
         \A v \in table : v.id < w.id
  PROVE  HasNewest'
<1> SUFFICES ASSUME NEW t \in Nat, NEW u \in table', u.expires > t
             PROVE  \E m \in table' :
                      /\ m.expires > t
                      /\ \A x \in table' \ {m} : x.expires > t => Newer(m, x)
  BY DEF HasNewest, Newer
<1>1. CASE w.expires > t
  <2>1. CASE \E v \in table : v.expires > t
    <3>1. PICK m \in table : /\ m.expires > t
                             /\ \A x \in table \ {m} : x.expires > t => Newer(m, x)
      BY <2>1 DEF ChainInv, HasNewest
    <3>2. m \in Version /\ table \subseteq Version
      BY DEF IInv, TypeOK
    <3>3. CASE Newer(m, w)
      BY <3>1, <3>3
    <3>4. CASE ~Newer(m, w)
      <4>1. Newer(w, m) /\ w.created >= m.created
        BY <3>2, <3>4 DEF Newer, Version, Ids
      <4>2. ASSUME NEW x \in table, x.expires > t PROVE Newer(w, x)
        <5>1. x = m \/ Newer(m, x)
          BY <3>1, <4>2
        <5>2. x \in Version /\ x.id < w.id
          BY <3>2
        <5> QED BY <3>2, <4>1, <5>1, <5>2 DEF Newer, Version, Ids
      <4> QED BY <1>1, <4>2
    <3> QED BY <3>3, <3>4
  <2>2. CASE ~\E v \in table : v.expires > t
    BY <1>1, <2>2
  <2> QED BY <2>1, <2>2
<1>2. CASE ~(w.expires > t)
  <2>1. PICK m \in table : /\ m.expires > t
                           /\ \A x \in table \ {m} : x.expires > t => Newer(m, x)
    BY <1>2 DEF ChainInv, HasNewest
  <2> QED BY <1>2, <2>1
<1> QED BY <1>1, <1>2

\* Another version v on the base of the row w that is committed.
LEMMA CommitForks ==
  ASSUME IInv, ChainInv, NEW p \in Readers, NEW w \in draft[p],
         NEW v \in table, v.base = w.base
  PROVE  IF v.base = None THEN v.expires <= w.created
         ELSE \E b \in table : b.id = v.base /\ v.created < b.created
<1>1. w.base = IdIn(Latest(p)) /\ w.created = begun[p]
  BY DEF ChainInv, DraftSound
<1>2. v \in Version /\ begun[p] \in Nat /\ TTL \in Nat
  BY BoundsAreNaturals DEF IInv, TypeOK
<1>3. CASE Latest(p) = {}
  <2>1. v \notin Live(p)
    BY <1>3, AliveHasLatest
  <2>2. v.base = None
    BY <1>1, <1>3 DEF IdIn
  <2> QED BY <1>1, <1>2, <2>1, <2>2 DEF Live, Version
<1>4. CASE Latest(p) # {}
  <2>1. PICK b \in table :
          /\ b.id = IdIn(Latest(p)) /\ b.expires > begun[p]
          /\ \A x \in Live(p) \ {b} : Newer(b, x)
    BY <1>4, LatestIs
  <2>2. b \in Version
    BY DEF IInv, TypeOK
  <2>3. v.base = b.id /\ v.base # None
    BY <1>1, <2>1, <2>2, NoneIsNoValue DEF Version, Ids
  <2>4. b.id < v.id /\ v # b
    BY <2>2, <2>3 DEF ChainInv, RowsSound, Version, Ids
  <2>5. v.created < b.created
    <3>1. CASE v \in Live(p)
      <4>1. Newer(b, v)
        BY <2>1, <2>4, <3>1
      <4> QED BY <1>2, <2>2, <2>4, <4>1 DEF Newer, Version, Ids
    <3>2. CASE v \notin Live(p)
      <4>1. v.expires <= begun[p]
        BY <1>2, <3>2 DEF Live, Version
      <4>2. v.expires = v.created + TTL /\ b.expires = b.created + TTL
        BY DEF ChainInv, RowsSound
      <4> QED BY <1>2, <2>1, <2>2, <4>1, <4>2 DEF Version
    <3> QED BY <3>1, <3>2
  <2> QED BY <2>3, <2>5
<1> QED BY <1>3, <1>4

\* The table after the commit of p.
LEMMA CommitKeepsChain ==
  ASSUME IInv, ChainInv, NEW p \in Readers, NEW w \in draft[p],
         table' = table \cup draft[p], lastId' = lastId
  PROVE  RowsSound' /\ IdsUnique' /\ HasNewest' /\ OnlyLateWritersFork'
<1>1. /\ draft[p] = {w} /\ w.id <= lastId /\ \A v \in table : v.id < w.id
      /\ w.created = begun[p] /\ w.expires = begun[p] + TTL
      /\ w.base = IdIn(Latest(p))
  BY DEF ChainInv, DraftSound
<1>2. w \in Version /\ table \subseteq Version
  BY DEF IInv, TypeOK
<1>3. table' = table \cup {w}
  BY <1>1
<1>4. w.base # None => w.base < w.id
  <2>1. CASE Latest(p) = {}
    BY <1>1, <2>1 DEF IdIn
  <2>2. CASE Latest(p) # {}
    BY <1>1, <2>2, LatestIs
  <2> QED BY <2>1, <2>2
<1>5. RowsSound'
  BY <1>1, <1>3, <1>4 DEF ChainInv, RowsSound
<1>6. IdsUnique'
  BY <1>1, <1>2, <1>3 DEF ChainInv, IdsUnique, Version, Ids
<1>7. HasNewest'
  BY <1>1, <1>2, <1>3, NewestPreserved
<1>8. OnlyLateWritersFork'
  <2> SUFFICES ASSUME NEW v \in table', NEW x \in table', v.base = x.base, v.id < x.id
               PROVE  IF v.base = None THEN v.expires <= x.created
                      ELSE \E b \in table' : b.id = v.base /\ v.created < b.created
    BY DEF OnlyLateWritersFork
  <2>1. v # w
    BY <1>1, <1>2, <1>3 DEF Version, Ids
  <2>2. v \in table
    BY <1>3, <2>1
  <2>3. CASE x = w
    BY <1>3, <2>2, <2>3, CommitForks
  <2>4. CASE x \in table
    BY <1>3, <2>2, <2>4 DEF ChainInv, OnlyLateWritersFork
  <2> QED BY <1>3, <2>3, <2>4
<1> QED BY <1>5, <1>6, <1>7, <1>8

LEMMA NextChainInv == IInv /\ ChainInv /\ [Next]_vars => ChainInv'
<1> SUFFICES ASSUME IInv, ChainInv, [Next]_vars PROVE ChainInv'
  OBVIOUS
<1>1. lastId <= lastId' /\ lastId \in Nat /\ lastId' \in Nat
  BY TypePreserved, BoundsAreNaturals
     DEF IInv, TypeOK, Next, vars, Begin, ReadDeleted, Read, Commit, Rollback, Ends, Tick
<1>2. ASSUME table' = table
      PROVE  RowsSound' /\ IdsUnique' /\ HasNewest' /\ OnlyLateWritersFork'
  <2>1. \A v \in table : v.id \in Nat
    BY BoundsAreNaturals DEF IInv, TypeOK, Version, Ids
  <2>2. RowsSound'
    BY <1>1, <1>2, <2>1 DEF ChainInv, RowsSound
  <2>3. IdsUnique' /\ OnlyLateWritersFork'
    BY <1>2 DEF ChainInv, IdsUnique, OnlyLateWritersFork
  <2>4. HasNewest'
    BY <1>2 DEF ChainInv, HasNewest, Newer
  <2> QED BY <2>2, <2>3, <2>4
<1>3. ASSUME NEW p \in Readers, Commit(p)
      PROVE  RowsSound' /\ IdsUnique' /\ HasNewest' /\ OnlyLateWritersFork'
  <2>1. table' = table \cup draft[p] /\ lastId' = lastId
    BY <1>3 DEF Commit, Ends
  <2>2. CASE draft[p] = {}
    BY <1>2, <2>1, <2>2
  <2>3. CASE draft[p] # {}
    BY <2>1, <2>3, CommitKeepsChain
  <2> QED BY <2>2, <2>3
<1>4. RowsSound' /\ IdsUnique' /\ HasNewest' /\ OnlyLateWritersFork'
  BY <1>2, <1>3 DEF Next, vars, Begin, ReadDeleted, Read, Rollback, Tick
<1> QED BY <1>4, DraftsPreserved DEF ChainInv

(***************************************************************************)
(* Two versions without a base are never alive together, and only a late   *)
(* writer makes a second version on the same base possible (IDCPStore.read *)
(* under the advisory lock, _latest by created_at), whatever waits, fails  *)
(* or expires and however many transactions read the file.                 *)
(***************************************************************************)
THEOREM VersionsFormAChain == Spec => []OnlyLateWritersFork
<1>1. Init => IInv /\ ChainInv
  BY InitIInv, InitChainInv
<1>2. IInv /\ ChainInv /\ [Next]_vars => (IInv /\ ChainInv)'
  BY NextIInv, NextChainInv
<1>3. ChainInv => OnlyLateWritersFork
  BY DEF ChainInv
<1> QED BY <1>1, <1>2, <1>3, PTL DEF Spec
=============================================================================
