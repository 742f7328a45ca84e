------------------------- MODULE RequestLedgerProofs -------------------------
(***************************************************************************)
(* What holds of the requests table for any number of proxies, backfills   *)
(* and tag runs, and sources of any length.                                *)
(***************************************************************************)
EXTENDS RequestLedger, FiniteSetTheorems, WellFoundedInduction, TLAPS

-----------------------------------------------------------------------------
\* Largest ids.

LEMMA FiniteHasMax ==
  ASSUME NEW S \in SUBSET Nat, IsFiniteSet(S), S # {}
  PROVE  Max(S) \in S /\ \A y \in S : y <= Max(S)
<1> DEFINE HasMax(T) == \E x \in T : \A y \in T : x >= y
           Bad == {T \in FiniteSubsetsOf(Nat) : T # {} /\ ~HasMax(T)}
<1>1. Bad = {}
  <2> SUFFICES ASSUME Bad # {} PROVE FALSE
    OBVIOUS
  <2>1. IsWellFoundedOn(StrictSubsetOrdering(Nat), FiniteSubsetsOf(Nat))
    BY FS_StrictSubsetOrderingWellFounded
  <2>2. PICK T \in Bad : \A U \in Bad : ~(<<U, T>> \in StrictSubsetOrdering(Nat))
    <3>1. Bad \subseteq FiniteSubsetsOf(Nat)
      OBVIOUS
    <3> HIDE DEF Bad
    <3> QED BY <2>1, <3>1, WFMin
  <2>3. PICK x \in T : TRUE
    OBVIOUS
  <2> DEFINE U == T \ {x}
  <2>4. U \in FiniteSubsetsOf(Nat) /\ <<U, T>> \in StrictSubsetOrdering(Nat)
    <3>1. T \in SUBSET Nat /\ IsFiniteSet(T)
      BY DEF FiniteSubsetsOf
    <3>2. IsFiniteSet(U)
      BY <3>1, FS_RemoveElement
    <3> QED BY <2>3, <3>1, <3>2 DEF FiniteSubsetsOf, StrictSubsetOrdering
  <2>5. U = {} \/ HasMax(U)
    BY <2>2, <2>4
  <2>6. T \subseteq Nat
    BY DEF FiniteSubsetsOf
  <2>7. HasMax(T)
    <3>1. CASE U = {}
      <4>1. T = {x}
        BY <2>3, <3>1
      <4> QED BY <2>6, <4>1
    <3>2. CASE HasMax(U)
      <4>1. PICK m \in U : \A y \in U : m >= y
        BY <3>2
      <4>2. CASE x >= m
        <5>1. \A y \in T : x >= y
          BY <2>6, <4>1, <4>2
        <5> QED BY <2>3, <5>1
      <4>3. CASE ~(x >= m)
        <5>1. m \in T /\ \A y \in T : m >= y
          BY <2>6, <4>1, <4>3
        <5> QED BY <5>1
      <4> QED BY <4>2, <4>3
    <3> QED BY <2>5, <3>1, <3>2
  <2> QED BY <2>7
<1>2. S \in FiniteSubsetsOf(Nat)
  BY DEF FiniteSubsetsOf
<1>3. HasMax(S)
  BY <1>1, <1>2
<1> HIDE DEF Bad
<1>4. Max(S) \in S /\ \A y \in S : Max(S) >= y
  BY <1>3 DEF Max
<1> QED BY <1>4

LEMMA IdsAreFinite ==
  ASSUME NEW R, IsFiniteSet(R)
  PROVE  IsFiniteSet({r.id : r \in R})
<1> DEFINE I == {r.id : r \in R}
           idOf == [r \in R |-> r.id]
<1>1. idOf \in Surjection(R, I)
  BY DEF Surjection
<1> QED BY <1>1, FS_Surjection

-----------------------------------------------------------------------------
\* The invariant.

\* Rows that copy all of a source of n rows, each once.
IsCopy(R, n) ==
  /\ \A r \in R : r.by = n
  /\ {r.from : r \in R} = 1 .. n
  /\ \A r, s \in R : r.from = s.from => r = s

LedgerTyped ==
  /\ source \in 0 .. MaxSource
  /\ rows \in SUBSET Row /\ IsFiniteSet(rows)
  /\ markers \in SUBSET (0 .. MaxSource)
  /\ pc \in [Procs -> {"idle", "waiting", "check", "count", "insert", "mark", "commit",
                       "alter", "stamp"}]
  /\ held \in [Procs -> SUBSET Modes]
  /\ checksum \in [Procs -> (0 .. MaxSource) \cup {None}]
  /\ added \in [Procs -> SUBSET Row]
  /\ \A p \in Procs : IsFiniteSet(added[p])
  /\ cutover \in Nat \cup {None}

\* What a process has inserted and locked, at each of its statements.
Stage(p) ==
  /\ added[p] # {} => pc[p] \in {"mark", "commit"} /\ "RowExclusive" \in held[p]
  /\ p \in Writers => pc[p] \in {"idle", "commit"} /\ \A r \in added[p] : r.by = None
  /\ p \in Taggers =>
       /\ pc[p] \in {"idle", "alter", "stamp"}
       /\ pc[p] # "idle" => "ShareRowExclusive" \in held[p]
  /\ p \in Backfills =>
       /\ pc[p] \notin {"alter", "stamp"}
       /\ pc[p] # "idle" => checksum[p] \in 0 .. MaxSource
       /\ pc[p] \in {"mark", "commit"} => IsCopy(added[p], checksum[p])

LocksAgree ==
  \A p, q \in Procs : p # q => \A m \in held[p], n \in held[q] : ~Conflict(m, n)

\* A transaction that was open at the cutover, or began later, has larger ids.
NothingSlipsIn ==
  cutover # None =>
    /\ cutover \in {0} \cup {r.id : r \in rows}
    /\ \A p \in Procs : \A r \in added[p] : r.id > cutover

\* Of the runs that are about to commit, each brings a marker of its own.
MarkersToCome ==
  \A b \in Backfills : pc[b] = "commit" =>
    /\ checksum[b] \notin markers
    /\ \A c \in Backfills \ {b} : pc[c] = "commit" => checksum[c] # checksum[b]

LedgerInv ==
  /\ LedgerTyped
  /\ \A p \in Procs : Stage(p)
  /\ LocksAgree
  /\ NothingSlipsIn
  /\ CutoverIsComplete
  /\ MarkersToCome
  /\ MarkerMeansCopiedOnce

\* The sequence is ahead of every row, committed or not.
LEMMA LastIdTops ==
  ASSUME LedgerTyped
  PROVE  /\ LastId \in Nat
         /\ \A r \in rows : r.id <= LastId
         /\ \A p \in Procs : \A r \in added[p] : r.id <= LastId
<1> DEFINE Open == {added[p] : p \in Procs}
           All == rows \cup UNION Open
           Is == {r.id : r \in All}
<1>1. IsFiniteSet(Open)
  <2>1. added \in Surjection(Procs, Open)
    BY DEF Surjection, LedgerTyped
  <2> QED BY <2>1, FS_Surjection, ProcessesAreFinite
<1>2. IsFiniteSet(UNION Open)
  BY <1>1, FS_UNION DEF LedgerTyped
<1>3. IsFiniteSet(All)
  BY <1>2, FS_Union DEF LedgerTyped
<1>4. All \subseteq Row
  BY DEF LedgerTyped
<1>5. \A r \in rows : r \in All
  OBVIOUS
<1>6. \A p \in Procs : \A r \in added[p] : r \in All
  OBVIOUS
<1>7. LastId = Max({0} \cup Is)
  BY DEF LastId
<1> HIDE DEF All, Open
<1>8. IsFiniteSet(Is)
  BY <1>3, IdsAreFinite
<1>9. Is \subseteq Nat /\ \A r \in All : r.id \in Is
  BY <1>4 DEF Row
<1> HIDE DEF Is
<1>10. IsFiniteSet({0} \cup Is)
  BY <1>8, FS_Union, FS_Singleton
<1>11. {0} \cup Is \in SUBSET Nat /\ {0} \cup Is # {}
  BY <1>9
<1>12. Max({0} \cup Is) \in {0} \cup Is /\ \A y \in {0} \cup Is : y <= Max({0} \cup Is)
  BY <1>10, <1>11, FiniteHasMax
<1> QED BY <1>5, <1>6, <1>7, <1>9, <1>11, <1>12

LEMMA UpperIdTops ==
  ASSUME LedgerTyped
  PROVE  /\ UpperId \in Nat
         /\ UpperId \in {0} \cup {r.id : r \in rows}
         /\ \A r \in rows : r.id <= UpperId
<1>1. CASE rows = {}
  BY <1>1 DEF UpperId
<1>2. CASE rows # {}
  <2> DEFINE Is == {r.id : r \in rows}
  <2>1. IsFiniteSet(Is)
    BY IdsAreFinite DEF LedgerTyped
  <2>2. Is \in SUBSET Nat /\ Is # {}
    <3>1. \A r \in rows : r.id \in Nat
      BY DEF LedgerTyped, Row
    <3>2. PICK r \in rows : TRUE
      BY <1>2
    <3> QED BY <3>1, <3>2
  <2>3. UpperId = Max(Is)
    BY <1>2 DEF UpperId
  <2>4. Max(Is) \in Is /\ \A y \in Is : y <= Max(Is)
    <3> HIDE DEF Is
    <3> QED BY <2>1, <2>2, FiniteHasMax
  <2> QED BY <2>2, <2>3, <2>4
<1> QED BY <1>1, <1>2

\* What a backfill inserts.
LEMMA CopiesAreCopies ==
  ASSUME LedgerTyped, NEW n \in 0 .. MaxSource
  PROVE  /\ CopiesOf(n) \in SUBSET Row
         /\ IsFiniteSet(CopiesOf(n))
         /\ IsCopy(CopiesOf(n), n)
         /\ \A r \in CopiesOf(n) : r.id > LastId
<1>1. LastId \in Nat
  BY LastIdTops
<1> DEFINE copy(i) == [id |-> LastId + i, from |-> i, by |-> n, tag |-> ""]
           f == [i \in 1 .. n |-> copy(i)]
<1>2. \A i \in 1 .. n : copy(i) \in Row
  BY <1>1, BoundsAreNaturals DEF Row
<1>3. CopiesOf(n) = {copy(i) : i \in 1 .. n}
  BY DEF CopiesOf
<1>4. \A i \in 1 .. n : copy(i).id > LastId /\ copy(i).from = i /\ copy(i).by = n
  BY <1>1
<1> HIDE DEF copy
<1>5. f \in Surjection(1 .. n, CopiesOf(n))
  BY <1>3 DEF Surjection
<1>6. IsFiniteSet(CopiesOf(n))
  BY <1>5, FS_Surjection, FS_Interval, BoundsAreNaturals
<1> HIDE DEF f
<1>7. IsCopy(CopiesOf(n), n)
  <2>1. \A r \in CopiesOf(n) : r.by = n
    BY <1>3, <1>4
  <2>2. {r.from : r \in CopiesOf(n)} = {copy(i).from : i \in 1 .. n}
    BY <1>3
  <2>3. {copy(i).from : i \in 1 .. n} = 1 .. n
    BY <1>4
  <2>4. ASSUME NEW r \in CopiesOf(n), NEW s \in CopiesOf(n), r.from = s.from PROVE r = s
    <3>1. PICK i \in 1 .. n : r = copy(i)
      BY <1>3
    <3>2. PICK j \in 1 .. n : s = copy(j)
      BY <1>3
    <3> QED BY <1>4, <2>4, <3>1, <3>2
  <2> QED BY <2>1, <2>2, <2>3, <2>4 DEF IsCopy
<1> QED BY <1>2, <1>3, <1>4, <1>6, <1>7

-----------------------------------------------------------------------------
\* Steps of one process.

\* p alone moves, and its row locks agree with the others'.
Moves(p) ==
  /\ \E at \in {"idle", "waiting", "check", "count", "insert", "mark", "commit",
                "alter", "stamp"} : pc' = [pc EXCEPT ![p] = at]
  /\ \/ held' = held
     \/ held' = [held EXCEPT ![p] = {}]
     \/ \E mode \in Modes : Takes(p, mode)

LEMMA LocksStayCompatible ==
  ASSUME LedgerTyped, LocksAgree, NEW p \in Procs, Moves(p)
  PROVE  /\ held' \in [Procs -> SUBSET Modes]
         /\ LocksAgree'
         /\ \A q \in Procs \ {p} : held'[q] = held[q]
<1>1. CASE held' = held
  BY <1>1 DEF LedgerTyped, LocksAgree
<1>2. CASE held' = [held EXCEPT ![p] = {}]
  BY <1>2 DEF LedgerTyped, LocksAgree
<1>3. ASSUME NEW mode \in Modes, Takes(p, mode)
      PROVE  /\ held' \in [Procs -> SUBSET Modes]
             /\ LocksAgree'
             /\ \A q \in Procs \ {p} : held'[q] = held[q]
  <2>1. /\ held' = [held EXCEPT ![p] = held[p] \cup {mode}]
        /\ \A q \in Procs \ {p} : \A n \in held[q] : ~Conflict(mode, n)
    BY <1>3 DEF Takes, Free, Blocks
  <2>2. \A m, n : Conflict(m, n) => Conflict(n, m)
    BY DEF Conflict
  <2>3. /\ held' \in [Procs -> SUBSET Modes]
        /\ held'[p] = held[p] \cup {mode}
        /\ \A q \in Procs \ {p} : held'[q] = held[q]
    BY <2>1 DEF LedgerTyped
  <2>4. LocksAgree'
    BY <2>1, <2>2, <2>3 DEF LocksAgree
  <2> QED BY <2>3, <2>4
<1> QED BY <1>1, <1>2, <1>3 DEF Moves

\* A step that at most drops what p had inserted, short of a commit.
Quiet(p) ==
  /\ Moves(p)
  /\ UNCHANGED <<rows, markers, cutover, source>>
  /\ checksum' \in [Procs -> (0 .. MaxSource) \cup {None}]
  /\ \A q \in Procs \ {p} : checksum'[q] = checksum[q]
  /\ added' = added \/ added' = [added EXCEPT ![p] = {}]

\* The rest of the invariant does not depend on where p stands.
LEMMA QuietStep ==
  ASSUME LedgerInv, NEW p \in Procs, Quiet(p), Stage(p)',
         p \in Backfills /\ pc'[p] = "commit" =>
           /\ checksum'[p] \notin markers
           /\ \A b \in Backfills \ {p} : pc[b] = "commit" => checksum[b] # checksum'[p]
  PROVE  LedgerInv'
<1>1. /\ held' \in [Procs -> SUBSET Modes] /\ LocksAgree'
      /\ \A q \in Procs \ {p} : held'[q] = held[q]
  BY LocksStayCompatible DEF LedgerInv, Quiet
<1>2. /\ pc' \in [Procs -> {"idle", "waiting", "check", "count", "insert", "mark", "commit",
                            "alter", "stamp"}]
      /\ \A q \in Procs \ {p} : pc'[q] = pc[q]
  BY DEF LedgerInv, LedgerTyped, Quiet, Moves
<1>3. /\ added' \in [Procs -> SUBSET Row]
      /\ \A q \in Procs \ {p} : added'[q] = added[q]
      /\ added'[p] = added[p] \/ added'[p] = {}
  BY DEF LedgerInv, LedgerTyped, Quiet
<1>4. \A q \in Procs : IsFiniteSet(added'[q])
  BY <1>3, FS_EmptySet DEF LedgerInv, LedgerTyped
<1>5. UNCHANGED <<rows, markers, cutover, source>>
      /\ checksum' \in [Procs -> (0 .. MaxSource) \cup {None}]
      /\ \A q \in Procs \ {p} : checksum'[q] = checksum[q]
  BY DEF Quiet
<1>6. LedgerTyped'
  BY <1>1, <1>2, <1>3, <1>4, <1>5 DEF LedgerInv, LedgerTyped
<1>7. \A q \in Procs : Stage(q)'
  <2> SUFFICES ASSUME NEW q \in Procs \ {p} PROVE Stage(q)'
    OBVIOUS
  <2>1. Stage(q)
    BY DEF LedgerInv
  <2>2. pc'[q] = pc[q] /\ held'[q] = held[q] /\ checksum'[q] = checksum[q] /\ added'[q] = added[q]
    BY <1>1, <1>2, <1>3, <1>5
  <2> QED BY <2>1, <2>2 DEF Stage
<1>8. NothingSlipsIn' /\ CutoverIsComplete'
  BY <1>3, <1>5 DEF LedgerInv, NothingSlipsIn, CutoverIsComplete
<1>9. MarkersToCome'
  <2> SUFFICES ASSUME NEW b \in Backfills, pc'[b] = "commit"
               PROVE  /\ checksum'[b] \notin markers
                      /\ \A c \in Backfills \ {b} : pc'[c] = "commit" => checksum'[c] # checksum'[b]
    BY <1>5 DEF MarkersToCome
  <2>1. Backfills \subseteq Procs
    BY DEF Procs
  <2>2. MarkersToCome
    BY DEF LedgerInv
  <2>3. CASE b = p
    BY <1>2, <1>5, <2>1, <2>3
  <2>4. CASE b # p
    <3>1. checksum[b] \notin markers /\ checksum'[b] = checksum[b] /\ pc[b] = "commit"
      BY <1>2, <1>5, <2>1, <2>2, <2>4 DEF MarkersToCome
    <3>2. ASSUME NEW c \in Backfills \ {b}, pc'[c] = "commit" PROVE checksum'[c] # checksum'[b]
      <4>1. CASE c = p
        BY <3>1, <3>2, <2>4, <4>1
      <4>2. CASE c # p
        BY <1>2, <1>5, <2>1, <2>2, <3>1, <3>2, <4>2 DEF MarkersToCome
      <4> QED BY <4>1, <4>2
    <3> QED BY <3>1, <3>2
  <2> QED BY <2>3, <2>4
<1>10. MarkerMeansCopiedOnce'
  BY <1>5 DEF LedgerInv, MarkerMeansCopiedOnce
<1> QED BY <1>1, <1>6, <1>7, <1>8, <1>9, <1>10 DEF LedgerInv

\* An open transaction inserts rows.
LEMMA InsertStep ==
  ASSUME LedgerInv, NEW p \in Procs, NEW new \in SUBSET Row, IsFiniteSet(new),
         \A r \in new : r.id > LastId,
         Moves(p), added' = [added EXCEPT ![p] = new],
         UNCHANGED <<rows, markers, cutover, source, checksum>>, Stage(p)',
         p \in Backfills => pc'[p] = "mark"
  PROVE  LedgerInv'
<1>1. /\ held' \in [Procs -> SUBSET Modes] /\ LocksAgree'
      /\ \A q \in Procs \ {p} : held'[q] = held[q]
  BY LocksStayCompatible DEF LedgerInv
<1>2. /\ pc' \in [Procs -> {"idle", "waiting", "check", "count", "insert", "mark", "commit",
                            "alter", "stamp"}]
      /\ \A q \in Procs \ {p} : pc'[q] = pc[q]
  BY DEF LedgerInv, LedgerTyped, Moves
<1>3. /\ added' \in [Procs -> SUBSET Row]
      /\ \A q \in Procs \ {p} : added'[q] = added[q]
      /\ added'[p] = new
  BY DEF LedgerInv, LedgerTyped
<1>4. \A q \in Procs : IsFiniteSet(added'[q])
  BY <1>3 DEF LedgerInv, LedgerTyped
<1>5. LedgerTyped'
  BY <1>1, <1>2, <1>3, <1>4 DEF LedgerInv, LedgerTyped
<1>6. \A q \in Procs : Stage(q)'
  <2> SUFFICES ASSUME NEW q \in Procs \ {p} PROVE Stage(q)'
    OBVIOUS
  <2>1. Stage(q)
    BY DEF LedgerInv
  <2>2. pc'[q] = pc[q] /\ held'[q] = held[q] /\ checksum'[q] = checksum[q] /\ added'[q] = added[q]
    BY <1>1, <1>2, <1>3
  <2> QED BY <2>1, <2>2 DEF Stage
<1>7. NothingSlipsIn'
  <2> SUFFICES ASSUME cutover # None
               PROVE  /\ cutover \in {0} \cup {r.id : r \in rows}
                      /\ \A q \in Procs : \A r \in added'[q] : r.id > cutover
    BY DEF NothingSlipsIn
  <2>1. /\ cutover \in {0} \cup {r.id : r \in rows}
        /\ \A q \in Procs : \A r \in added[q] : r.id > cutover
    BY DEF LedgerInv, NothingSlipsIn
  <2>2. LastId \in Nat /\ (\A r \in rows : r.id <= LastId) /\ cutover \in Nat
    <3>1. LedgerTyped
      BY DEF LedgerInv
    <3>2. cutover \in Nat
      BY <3>1 DEF LedgerTyped
    <3> QED BY <3>1, <3>2, LastIdTops
  <2>3. cutover <= LastId
    BY <2>1, <2>2
  <2>4. ASSUME NEW r \in new PROVE r.id > cutover
    <3>1. r.id \in Nat /\ r.id > LastId
      BY DEF Row
    <3> QED BY <2>2, <2>3, <3>1
  <2> QED BY <1>3, <2>1, <2>4
<1>8. MarkersToCome'
  <2>1. Backfills \subseteq Procs
    BY DEF Procs
  <2> QED BY <1>2, <2>1 DEF LedgerInv, MarkersToCome
<1>9. CutoverIsComplete' /\ MarkerMeansCopiedOnce'
  BY DEF LedgerInv, CutoverIsComplete, MarkerMeansCopiedOnce
<1> QED BY <1>1, <1>5, <1>6, <1>7, <1>8, <1>9 DEF LedgerInv

\* A transaction commits; what it inserted gets its marker, if it is a backfill.
LEMMA CommitStep ==
  ASSUME LedgerInv, NEW p \in Procs, pc[p] = "commit", p \notin Taggers, Ends(p),
         rows' = rows \cup added[p],
         markers' = IF p \in Backfills THEN markers \cup {checksum[p]} ELSE markers,
         UNCHANGED <<cutover, source>>
  PROVE  LedgerInv'
<1>1. /\ pc' \in [Procs -> {"idle", "waiting", "check", "count", "insert", "mark", "commit",
                            "alter", "stamp"}]
      /\ pc'[p] = "idle"
      /\ \A q \in Procs \ {p} : pc'[q] = pc[q]
  BY DEF LedgerInv, LedgerTyped, Ends, Goes
<1>2. Moves(p)
  BY DEF Ends, Goes, Moves
<1>3. /\ held' \in [Procs -> SUBSET Modes] /\ LocksAgree'
      /\ \A q \in Procs \ {p} : held'[q] = held[q]
  BY <1>2, LocksStayCompatible DEF LedgerInv
<1>4. /\ added' \in [Procs -> SUBSET Row]
      /\ \A q \in Procs \ {p} : added'[q] = added[q]
      /\ added'[p] = {}
  BY DEF LedgerInv, LedgerTyped, Ends
<1>5. \A q \in Procs : IsFiniteSet(added'[q])
  BY <1>4, FS_EmptySet DEF LedgerInv, LedgerTyped
<1>6. /\ checksum' \in [Procs -> (0 .. MaxSource) \cup {None}]
      /\ \A q \in Procs \ {p} : checksum'[q] = checksum[q]
  BY DEF LedgerInv, LedgerTyped, Ends
<1>7. rows' \in SUBSET Row /\ IsFiniteSet(rows')
  BY FS_Union DEF LedgerInv, LedgerTyped
<1>8. Stage(p) /\ (p \in Backfills => checksum[p] \in 0 .. MaxSource)
  BY DEF LedgerInv, Stage
<1>9. markers' \in SUBSET (0 .. MaxSource)
  BY <1>8 DEF LedgerInv, LedgerTyped
<1>10. LedgerTyped'
  BY <1>1, <1>3, <1>4, <1>5, <1>6, <1>7, <1>9 DEF LedgerInv, LedgerTyped
<1>11. \A q \in Procs : Stage(q)'
  <2>1. Stage(p)'
    BY <1>1, <1>4 DEF Stage
  <2>2. ASSUME NEW q \in Procs \ {p} PROVE Stage(q)'
    <3>1. Stage(q)
      BY DEF LedgerInv
    <3>2. pc'[q] = pc[q] /\ held'[q] = held[q] /\ checksum'[q] = checksum[q]
          /\ added'[q] = added[q]
      BY <1>1, <1>3, <1>4, <1>6
    <3> QED BY <3>1, <3>2 DEF Stage
  <2> QED BY <2>1, <2>2
<1>12. NothingSlipsIn'
  BY <1>4 DEF LedgerInv, NothingSlipsIn
<1>13. CutoverIsComplete'
  <2> SUFFICES ASSUME cutover # None, NEW r \in rows', r.id <= cutover PROVE r.tag # ""
    BY DEF CutoverIsComplete
  <2>1. CASE r \in rows
    BY <2>1 DEF LedgerInv, CutoverIsComplete
  <2>2. CASE r \in added[p]
    <3>1. NothingSlipsIn /\ LedgerTyped
      BY DEF LedgerInv
    <3>2. r.id > cutover
      BY <2>2, <3>1 DEF NothingSlipsIn
    <3>3. r \in Row /\ cutover \in Nat
      BY <2>2, <3>1 DEF LedgerTyped
    <3>4. r.id \in Nat
      BY <3>3 DEF Row
    <3>5. \A m, n \in Nat : m > n => ~(m <= n)
      OBVIOUS
    <3> QED BY <3>2, <3>3, <3>4, <3>5, Zenon
  <2> QED BY <2>1, <2>2
<1>14. MarkersToCome'
  <2>1. Backfills \subseteq Procs
    BY DEF Procs
  <2>2. ASSUME NEW b \in Backfills, pc'[b] = "commit"
        PROVE  /\ checksum'[b] \notin markers'
               /\ \A c \in Backfills \ {b} : pc'[c] = "commit" => checksum'[c] # checksum'[b]
    <3>1. b # p /\ b \in Procs
      BY <1>1, <2>1, <2>2
    <3>2. pc[b] = "commit" /\ checksum'[b] = checksum[b]
      BY <1>1, <1>6, <2>2, <3>1
    <3>3. /\ checksum[b] \notin markers
          /\ \A c \in Backfills \ {b} : pc[c] = "commit" => checksum[c] # checksum[b]
      BY <3>2 DEF LedgerInv, MarkersToCome
    <3>4. checksum[b] \notin markers'
      BY <3>1, <3>3
    <3>5. ASSUME NEW c \in Backfills \ {b}, pc'[c] = "commit" PROVE checksum'[c] # checksum'[b]
      <4>1. c # p /\ c \in Procs
        BY <1>1, <2>1, <3>5
      <4> QED BY <1>1, <1>6, <3>2, <3>3, <3>5, <4>1
    <3> QED BY <3>2, <3>4, <3>5
  <2> QED BY <2>2 DEF MarkersToCome
<1>15. MarkerMeansCopiedOnce'
  <2> SUFFICES ASSUME NEW n \in 0 .. MaxSource
               PROVE  LET copies == {r \in rows' : r.by = n} IN
                      /\ {r.from : r \in copies} = IF n \in markers' THEN 1 .. n ELSE {}
                      /\ \A r, s \in copies : r.from = s.from => r = s
    BY DEF MarkerMeansCopiedOnce
  <2> DEFINE before == {r \in rows : r.by = n}
             after == {r \in rows' : r.by = n}
  <2>1. /\ {r.from : r \in before} = IF n \in markers THEN 1 .. n ELSE {}
        /\ \A r, s \in before : r.from = s.from => r = s
    BY DEF LedgerInv, MarkerMeansCopiedOnce
  <2>2. CASE p \in Backfills /\ n = checksum[p]
    <3>1. n \notin markers /\ n \in markers'
      BY <2>2 DEF LedgerInv, MarkersToCome
    <3>2. before = {}
      BY <2>1, <3>1
    <3>3. IsCopy(added[p], n)
      BY <1>8, <2>2 DEF Stage
    <3>4. after = added[p]
      BY <3>2, <3>3 DEF IsCopy
    <3> HIDE DEF after
    <3>5. /\ {r.from : r \in after} = 1 .. n
          /\ \A r, s \in after : r.from = s.from => r = s
      BY <3>3, <3>4 DEF IsCopy
    <3> QED BY <3>1, <3>5 DEF after
  <2>3. CASE ~(p \in Backfills /\ n = checksum[p])
    <3>1. \A r \in added[p] : r.by # n
      <4>1. CASE p \in Backfills
        BY <1>8, <2>3, <4>1 DEF Stage, IsCopy
      <4>2. CASE p \in Writers
        <5>1. n # None
          BY NoneIsNoNumber
        <5> QED BY <1>8, <4>2, <5>1 DEF Stage
      <4> QED BY <4>1, <4>2 DEF Procs
    <3>2. after = before
      BY <3>1
    <3>3. n \in markers' <=> n \in markers
      BY <2>3
    <3> QED BY <2>1, <3>2, <3>3
  <2> QED BY <2>2, <2>3
<1> QED BY <1>3, <1>10, <1>11, <1>12, <1>13, <1>14, <1>15 DEF LedgerInv

\* While a tag run holds its lock nobody has an uncommitted row.
LEMMA StampingIsAlone ==
  ASSUME LedgerInv, NEW t \in Taggers, pc[t] = "stamp"
  PROVE  \A p \in Procs : added[p] = {}
<1>1. Taggers \subseteq Procs
  BY DEF Procs
<1>2. Stage(t) /\ LocksAgree
  BY <1>1 DEF LedgerInv
<1>3. "ShareRowExclusive" \in held[t]
  BY <1>2 DEF Stage
<1>4. ASSUME NEW p \in Procs, added[p] # {} PROVE FALSE
  <2>1. pc[p] \in {"mark", "commit"} /\ "RowExclusive" \in held[p]
    BY <1>4 DEF LedgerInv, Stage
  <2>2. p # t
    BY <2>1
  <2>3. Conflict("ShareRowExclusive", "RowExclusive")
    BY DEF Conflict
  <2> QED BY <1>1, <1>2, <1>3, <2>1, <2>2, <2>3 DEF LocksAgree
<1> QED BY <1>4

LEMMA StampStep ==
  ASSUME LedgerInv, NEW t \in Taggers, TaggerStamps(t)
  PROVE  LedgerInv'
<1> DEFINE stamp(r) == IF r.id <= UpperId /\ r.tag = ""
                       THEN [r EXCEPT !.tag = "pre_p6_6_backfill"] ELSE r
<1>1. t \in Procs /\ LedgerTyped /\ \A q \in Procs : added[q] = {}
  BY StampingIsAlone DEF LedgerInv, Procs, TaggerStamps
<1>2. rows' = {stamp(r) : r \in rows}
  BY DEF TaggerStamps, Stamped
<1>3. \A r \in rows : /\ stamp(r) \in Row
                      /\ stamp(r).id = r.id /\ stamp(r).from = r.from /\ stamp(r).by = r.by
                      /\ stamp(r).tag = IF r.id <= UpperId /\ r.tag = ""
                                        THEN "pre_p6_6_backfill" ELSE r.tag
  BY <1>1 DEF LedgerTyped, Row
<1>4. rows' \in SUBSET Row /\ IsFiniteSet(rows')
  <2> HIDE DEF stamp
  <2> DEFINE f == [r \in rows |-> stamp(r)]
  <2>1. f \in Surjection(rows, rows')
    BY <1>2 DEF Surjection
  <2>2. IsFiniteSet(rows)
    BY <1>1 DEF LedgerTyped
  <2> QED BY <1>2, <1>3, <2>1, <2>2, FS_Surjection
<1> HIDE DEF stamp
<1>5. /\ pc' \in [Procs -> {"idle", "waiting", "check", "count", "insert", "mark", "commit",
                            "alter", "stamp"}]
      /\ pc'[t] = "idle"
      /\ \A q \in Procs \ {t} : pc'[q] = pc[q]
  BY <1>1 DEF LedgerTyped, TaggerStamps, Ends, Goes
<1>6. Moves(t)
  BY DEF TaggerStamps, Ends, Goes, Moves
<1>7. /\ held' \in [Procs -> SUBSET Modes] /\ LocksAgree'
      /\ \A q \in Procs \ {t} : held'[q] = held[q]
  BY <1>1, <1>6, LocksStayCompatible DEF LedgerInv
<1>8. added' \in [Procs -> SUBSET Row] /\ \A q \in Procs : added'[q] = {}
  BY <1>1 DEF LedgerTyped, TaggerStamps, Ends
<1>9. /\ checksum' \in [Procs -> (0 .. MaxSource) \cup {None}]
      /\ \A q \in Procs \ {t} : checksum'[q] = checksum[q]
      /\ source' = source /\ markers' = markers
  BY <1>1 DEF LedgerTyped, TaggerStamps, Ends
<1>10. cutover' = IF cutover = None THEN UpperId ELSE cutover
  BY DEF TaggerStamps
<1>11. UpperId \in Nat /\ UpperId \in {0} \cup {r.id : r \in rows}
       /\ \A r \in rows : r.id <= UpperId
  BY <1>1, UpperIdTops
<1>12. cutover' \in Nat \cup {None}
  BY <1>1, <1>10, <1>11 DEF LedgerTyped
<1>13. LedgerTyped'
  BY <1>1, <1>4, <1>5, <1>7, <1>8, <1>9, <1>12, FS_EmptySet DEF LedgerTyped
<1>14. \A q \in Procs : Stage(q)'
  <2>1. Stage(t)'
    BY <1>1, <1>5, <1>8, KindsDiffer DEF Stage
  <2>2. ASSUME NEW q \in Procs \ {t} PROVE Stage(q)'
    <3>1. Stage(q)
      BY DEF LedgerInv
    <3>2. pc'[q] = pc[q] /\ held'[q] = held[q] /\ checksum'[q] = checksum[q]
          /\ added'[q] = added[q]
      BY <1>1, <1>5, <1>7, <1>8, <1>9
    <3> QED BY <3>1, <3>2 DEF Stage
  <2> QED BY <2>1, <2>2
<1>15. \A r \in rows : \E s \in rows' : s.id = r.id
  BY <1>2, <1>3
<1>16. NothingSlipsIn'
  <2>1. cutover' # None => cutover' \in {0} \cup {r.id : r \in rows}
    BY <1>10, <1>11 DEF LedgerInv, NothingSlipsIn
  <2>2. cutover' # None => cutover' \in {0} \cup {r.id : r \in rows'}
    BY <1>15, <2>1
  <2> QED BY <1>8, <2>2 DEF NothingSlipsIn
<1>17. CutoverIsComplete'
  <2>1. ASSUME NEW r \in rows PROVE stamp(r).tag # ""
    BY <1>3, <1>11
  <2> QED BY <1>2, <2>1 DEF CutoverIsComplete
<1>18. MarkersToCome'
  <2>1. \A b \in Backfills : b \in Procs /\ b # t
    BY KindsDiffer DEF Procs
  <2> QED BY <1>5, <1>9, <2>1 DEF LedgerInv, MarkersToCome
<1>19. MarkerMeansCopiedOnce'
  <2> SUFFICES ASSUME NEW n \in 0 .. MaxSource
               PROVE  LET copies == {r \in rows' : r.by = n} IN
                      /\ {r.from : r \in copies} = IF n \in markers' THEN 1 .. n ELSE {}
                      /\ \A r, s \in copies : r.from = s.from => r = s
    BY DEF MarkerMeansCopiedOnce
  <2> DEFINE before == {r \in rows : r.by = n}
             after == {r \in rows' : r.by = n}
  <2>1. /\ {r.from : r \in before} = IF n \in markers THEN 1 .. n ELSE {}
        /\ \A r, s \in before : r.from = s.from => r = s
    BY DEF LedgerInv, MarkerMeansCopiedOnce
  <2>2. after = {stamp(r) : r \in before}
    BY <1>2, <1>3
  <2>3. \A r \in before : stamp(r).from = r.from
    BY <1>3
  <2> HIDE DEF before, after
  <2>4. {r.from : r \in after} = {r.from : r \in before}
    BY <2>2, <2>3
  <2>5. ASSUME NEW r \in after, NEW s \in after, r.from = s.from PROVE r = s
    <3>1. PICK r0 \in before : r = stamp(r0)
      BY <2>2
    <3>2. PICK s0 \in before : s = stamp(s0)
      BY <2>2
    <3> QED BY <2>1, <2>3, <2>5, <3>1, <3>2
  <2> QED BY <1>9, <2>1, <2>4, <2>5 DEF after
<1> QED BY <1>7, <1>13, <1>14, <1>16, <1>17, <1>18, <1>19 DEF LedgerInv

-----------------------------------------------------------------------------
\* The actions.

\* A transaction ends without a commit that matters here.
LEMMA EndingStep ==
  ASSUME LedgerInv, NEW p \in Procs, Ends(p), UNCHANGED <<rows, markers, cutover, source>>
  PROVE  LedgerInv'
<1>1. Quiet(p)
  <2>1. Moves(p)
    BY DEF Moves, Ends, Goes
  <2> QED BY <2>1 DEF Quiet, Ends, LedgerInv, LedgerTyped
<1>2. pc'[p] = "idle" /\ added'[p] = {}
  BY DEF Ends, Goes, LedgerInv, LedgerTyped
<1>3. Stage(p)'
  BY <1>2 DEF Stage
<1> QED BY <1>1, <1>2, <1>3, QuietStep

\* A transaction goes on without inserting anything.
LEMMA GoingStep ==
  ASSUME LedgerInv, NEW p \in Procs, p \in Backfills \cup Taggers,
         NEW at \in {"waiting", "check", "count", "insert", "commit", "alter", "stamp"},
         Goes(p, at), Moves(p), UNCHANGED <<rows, markers, cutover, source, added>>,
         checksum' = checksum \/ checksum' = [checksum EXCEPT ![p] = source],
         added[p] # {} => at = "commit" /\ held' = held,
         p \in Backfills =>
           /\ at \notin {"alter", "stamp"}
           /\ checksum'[p] \in 0 .. MaxSource
           /\ at = "commit" =>
                /\ IsCopy(added[p], checksum'[p])
                /\ checksum'[p] \notin markers
                /\ \A b \in Backfills \ {p} : pc[b] = "commit" => checksum[b] # checksum'[p],
         p \in Taggers => at \in {"alter", "stamp"} /\ "ShareRowExclusive" \in held'[p]
  PROVE  LedgerInv'
<1>1. LedgerTyped /\ Stage(p)
  BY DEF LedgerInv
<1>2. Quiet(p)
  BY <1>1 DEF Quiet, LedgerTyped
<1>3. pc'[p] = at
  BY <1>1 DEF LedgerTyped, Goes
<1>4. Stage(p)'
  <2>1. added'[p] # {} => pc'[p] = "commit" /\ "RowExclusive" \in held'[p]
    BY <1>1, <1>3 DEF Stage
  <2>2. p \notin Writers
    BY KindsDiffer
  <2>3. p \in Backfills /\ pc'[p] \in {"mark", "commit"} => IsCopy(added'[p], checksum'[p])
    BY <1>3
  <2> QED BY <1>3, <2>1, <2>2, <2>3, KindsDiffer DEF Stage
<1> QED BY <1>2, <1>3, <1>4, QuietStep

LEMMA NextNumber == \A n \in Nat : n + 1 \in Nat /\ n + 1 > n
OBVIOUS

LEMMA LogStep ==
  ASSUME LedgerInv, NEW w \in Writers,
         (\E tag \in {"", "harness"} : LogInserts(w, tag)) \/ LogCommits(w)
  PROVE  LedgerInv'
<1>1. w \in Procs /\ LedgerTyped /\ Stage(w) /\ w \notin Backfills /\ w \notin Taggers
  BY KindsDiffer DEF LedgerInv, Procs
<1>2. ASSUME NEW tag \in {"", "harness"}, LogInserts(w, tag) PROVE LedgerInv'
  <2> DEFINE row == [id |-> LastId + 1, from |-> Live, by |-> None, tag |-> tag]
  <2>1. LastId \in Nat
    BY <1>1, LastIdTops
  <2>2. row \in Row /\ row.id > LastId /\ row.by = None
    <3>1. LastId + 1 \in Nat /\ LastId + 1 > LastId
      BY <2>1, NextNumber, Zenon
    <3>2. tag \in {"", "harness", "pre_p6_6_backfill"}
      OBVIOUS
    <3>3. row \in Row
      BY <3>1, <3>2 DEF Row
    <3> QED BY <3>1, <3>3
  <2>3. /\ added' = [added EXCEPT ![w] = {row}]
        /\ Takes(w, "RowExclusive") /\ Goes(w, "commit")
        /\ UNCHANGED <<rows, markers, cutover, source, checksum>>
    BY <1>2 DEF LogInserts
  <2> HIDE DEF row
  <2>4. Moves(w)
    BY <2>3 DEF Moves, Goes, Modes
  <2>5. pc'[w] = "commit" /\ added'[w] = {row} /\ "RowExclusive" \in held'[w]
    BY <1>1, <2>3 DEF LedgerTyped, Goes, Takes
  <2>6. Stage(w)'
    BY <1>1, <2>2, <2>5 DEF Stage
  <2>7. {row} \in SUBSET Row /\ IsFiniteSet({row}) /\ \A r \in {row} : r.id > LastId
    BY <2>2, FS_Singleton
  <2> QED BY <1>1, <2>3, <2>4, <2>6, <2>7, InsertStep
<1>3. ASSUME LogCommits(w) PROVE LedgerInv'
  BY <1>1, <1>3, CommitStep DEF LogCommits
<1> QED BY <1>2, <1>3

LEMMA BackfillKeepsInv ==
  ASSUME LedgerInv, NEW b \in Backfills, BackfillStarts(b) \/ BackfillStep(b)
  PROVE  LedgerInv'
<1>1. b \in Procs /\ b \notin Taggers /\ b \notin Writers /\ LedgerTyped /\ Stage(b)
  BY KindsDiffer DEF LedgerInv, Procs
<1>2. ASSUME BackfillStarts(b) PROVE LedgerInv'
  <2>1. PICK at \in {"waiting", "check"} : Goes(b, at)
    BY <1>2 DEF BackfillStarts
  <2>2. /\ pc[b] = "idle"
        /\ checksum' = [checksum EXCEPT ![b] = source]
        /\ UNCHANGED <<rows, markers, cutover, source, added, held>>
    BY <1>2 DEF BackfillStarts
  <2>3. Moves(b)
    BY <2>1, <2>2 DEF Moves, Goes
  <2>4. added[b] = {} /\ checksum'[b] \in 0 .. MaxSource
    BY <1>1, <2>2 DEF Stage, LedgerTyped
  <2> QED BY <1>1, <2>1, <2>2, <2>3, <2>4, GoingStep
<1>3. ASSUME BackfillResumes(b) PROVE LedgerInv'
  <2>1. pc[b] = "waiting" /\ UNCHANGED <<rows, markers, cutover, source>>
    BY <1>3 DEF BackfillResumes
  <2>2. Ends(b) \/ (Goes(b, "check") /\ UNCHANGED <<held, checksum, added>>)
    BY <1>3 DEF BackfillResumes
  <2>3. CASE Ends(b)
    BY <1>1, <2>1, <2>3, EndingStep
  <2>4. CASE Goes(b, "check") /\ UNCHANGED <<held, checksum, added>>
    <3>1. Moves(b)
      BY <2>4 DEF Moves, Goes
    <3>2. added[b] = {} /\ checksum'[b] \in 0 .. MaxSource
      BY <1>1, <2>1, <2>4 DEF Stage
    <3> QED BY <1>1, <2>1, <2>4, <3>1, <3>2, GoingStep
  <2> QED BY <2>2, <2>3, <2>4
<1>4. ASSUME BackfillChecks(b) PROVE LedgerInv'
  <2>1. pc[b] = "check" /\ UNCHANGED <<rows, markers, cutover, source>>
    BY <1>4 DEF BackfillChecks
  <2>2. Ends(b) \/ (Goes(b, "count") /\ UNCHANGED <<held, checksum, added>>)
    BY <1>4 DEF BackfillChecks
  <2>3. CASE Ends(b)
    BY <1>1, <2>1, <2>3, EndingStep
  <2>4. CASE Goes(b, "count") /\ UNCHANGED <<held, checksum, added>>
    <3>1. Moves(b)
      BY <2>4 DEF Moves, Goes
    <3>2. added[b] = {} /\ checksum'[b] \in 0 .. MaxSource
      BY <1>1, <2>1, <2>4 DEF Stage
    <3> QED BY <1>1, <2>1, <2>4, <3>1, <3>2, GoingStep
  <2> QED BY <2>2, <2>3, <2>4
<1>5. ASSUME BackfillCounts(b) PROVE LedgerInv'
  <2>1. pc[b] = "count" /\ UNCHANGED <<rows, markers, cutover, source>>
    BY <1>5 DEF BackfillCounts
  <2>2. \/ Ends(b)
        \/ Goes(b, "insert") /\ Takes(b, "AccessShare") /\ UNCHANGED <<checksum, added>>
    BY <1>5 DEF BackfillCounts, Takes
  <2>3. CASE Ends(b)
    BY <1>1, <2>1, <2>3, EndingStep
  <2>4. CASE Goes(b, "insert") /\ Takes(b, "AccessShare") /\ UNCHANGED <<checksum, added>>
    <3>1. Moves(b)
      BY <2>4 DEF Moves, Goes, Modes
    <3>2. added[b] = {} /\ checksum'[b] \in 0 .. MaxSource
      BY <1>1, <2>1, <2>4 DEF Stage
    <3> QED BY <1>1, <2>1, <2>4, <3>1, <3>2, GoingStep
  <2> QED BY <2>2, <2>3, <2>4
<1>6. ASSUME BackfillInserts(b) PROVE LedgerInv'
  <2> DEFINE new == CopiesOf(checksum[b])
  <2>1. /\ pc[b] = "insert" /\ Takes(b, "RowExclusive") /\ Goes(b, "mark")
        /\ added' = [added EXCEPT ![b] = new]
        /\ UNCHANGED <<rows, markers, cutover, source, checksum>>
    BY <1>6 DEF BackfillInserts
  <2>2. checksum[b] \in 0 .. MaxSource
    BY <1>1, <2>1 DEF Stage
  <2>3. /\ new \in SUBSET Row /\ IsFiniteSet(new) /\ IsCopy(new, checksum[b])
        /\ \A r \in new : r.id > LastId
    BY <1>1, <2>2, CopiesAreCopies
  <2> HIDE DEF new
  <2>4. Moves(b)
    BY <2>1 DEF Moves, Goes, Modes
  <2>5. pc'[b] = "mark" /\ added'[b] = new /\ "RowExclusive" \in held'[b]
        /\ checksum'[b] = checksum[b]
    BY <1>1, <2>1 DEF LedgerTyped, Goes, Takes
  <2>6. IsCopy(added'[b], checksum'[b])
    BY <2>3, <2>5
  <2>7. Stage(b)'
    BY <1>1, <2>2, <2>5, <2>6 DEF Stage
  <2> QED BY <1>1, <2>1, <2>3, <2>4, <2>5, <2>7, InsertStep
<1>7. ASSUME BackfillMarks(b) PROVE LedgerInv'
  <2>1. pc[b] = "mark" /\ ~MarkerPending(b) /\ UNCHANGED <<rows, markers, cutover, source>>
    BY <1>7 DEF BackfillMarks
  <2>2. \/ Ends(b)
        \/ checksum[b] \notin markers /\ Goes(b, "commit") /\ UNCHANGED <<held, checksum, added>>
    BY <1>7 DEF BackfillMarks
  <2>3. CASE Ends(b)
    BY <1>1, <2>1, <2>3, EndingStep
  <2>4. CASE checksum[b] \notin markers /\ Goes(b, "commit")
             /\ UNCHANGED <<held, checksum, added>>
    <3>1. Moves(b)
      BY <2>4 DEF Moves, Goes
    <3>2. checksum'[b] = checksum[b] /\ checksum[b] \in 0 .. MaxSource
          /\ IsCopy(added[b], checksum[b])
      BY <1>1, <2>1, <2>4 DEF Stage
    <3>3. \A c \in Backfills \ {b} : pc[c] = "commit" => checksum[c] # checksum[b]
      BY <2>1 DEF MarkerPending
    <3> QED BY <1>1, <2>1, <2>4, <3>1, <3>2, <3>3, GoingStep
  <2> QED BY <2>2, <2>3, <2>4
<1>8. ASSUME BackfillCommits(b) PROVE LedgerInv'
  BY <1>1, <1>8, CommitStep DEF BackfillCommits
<1> QED BY <1>2, <1>3, <1>4, <1>5, <1>6, <1>7, <1>8 DEF BackfillStep

LEMMA TaggerKeepsInv ==
  ASSUME LedgerInv, NEW t \in Taggers, TaggerLocks(t) \/ TaggerStep(t)
  PROVE  LedgerInv'
<1>1. t \in Procs /\ t \notin Backfills /\ t \notin Writers /\ LedgerTyped /\ Stage(t)
  BY KindsDiffer DEF LedgerInv, Procs
<1>2. ASSUME TaggerLocks(t) PROVE LedgerInv'
  <2>1. /\ pc[t] = "idle" /\ Takes(t, "ShareRowExclusive") /\ Goes(t, "alter")
        /\ UNCHANGED <<rows, markers, cutover, source, added, checksum>>
    BY <1>2 DEF TaggerLocks
  <2>2. Moves(t)
    BY <2>1 DEF Moves, Goes, Modes
  <2>3. added[t] = {} /\ "ShareRowExclusive" \in held'[t]
    BY <1>1, <2>1 DEF Stage, Takes, LedgerTyped
  <2> QED BY <1>1, <2>1, <2>2, <2>3, GoingStep
<1>3. ASSUME TaggerAlters(t) PROVE LedgerInv'
  <2>1. /\ pc[t] = "alter" /\ Takes(t, "AccessExclusive") /\ Goes(t, "stamp")
        /\ UNCHANGED <<rows, markers, cutover, source, added, checksum>>
    BY <1>3 DEF TaggerAlters
  <2>2. Moves(t)
    BY <2>1 DEF Moves, Goes, Modes
  <2>3. added[t] = {} /\ "ShareRowExclusive" \in held[t]
    BY <1>1, <2>1 DEF Stage
  <2>4. "ShareRowExclusive" \in held'[t]
    BY <1>1, <2>1, <2>3 DEF Takes, LedgerTyped
  <2> QED BY <1>1, <2>1, <2>2, <2>3, <2>4, GoingStep
<1>4. ASSUME TaggerStamps(t) PROVE LedgerInv'
  BY <1>4, StampStep
<1> QED BY <1>2, <1>3, <1>4 DEF TaggerStep

LEMMA LedgerInitInv == Init => LedgerInv
<1> SUFFICES ASSUME Init PROVE LedgerInv
  OBVIOUS
<1>1. /\ source \in 0 .. MaxSource /\ rows = {} /\ markers = {} /\ cutover = None
      /\ \A p \in Procs : pc[p] = "idle" /\ held[p] = {} /\ checksum[p] = None /\ added[p] = {}
  BY BoundsAreNaturals DEF Init
<1>2. LedgerTyped
  BY <1>1, FS_EmptySet DEF Init, LedgerTyped
<1>3. \A p \in Procs : Stage(p)
  BY <1>1 DEF Stage
<1>4. LocksAgree /\ NothingSlipsIn /\ CutoverIsComplete /\ MarkerMeansCopiedOnce
  BY <1>1 DEF LocksAgree, NothingSlipsIn, CutoverIsComplete, MarkerMeansCopiedOnce
<1>5. MarkersToCome
  BY <1>1 DEF MarkersToCome, Procs
<1> QED BY <1>2, <1>3, <1>4, <1>5 DEF LedgerInv

LEMMA NextKeepsInv == LedgerInv /\ [Next]_vars => LedgerInv'
<1> SUFFICES ASSUME LedgerInv, [Next]_vars PROVE LedgerInv'
  OBVIOUS
<1>1. ASSUME UNCHANGED <<rows, markers, cutover, pc, held, checksum, added>>,
             source' \in 0 .. MaxSource
      PROVE  LedgerInv'
  <2>1. LedgerTyped'
    BY <1>1 DEF LedgerInv, LedgerTyped
  <2>2. \A p \in Procs : Stage(p)'
    BY <1>1 DEF LedgerInv, Stage
  <2>3. LocksAgree' /\ NothingSlipsIn' /\ CutoverIsComplete'
    BY <1>1 DEF LedgerInv, LocksAgree, NothingSlipsIn, CutoverIsComplete
  <2>4. MarkersToCome' /\ MarkerMeansCopiedOnce'
    BY <1>1 DEF LedgerInv, MarkersToCome, MarkerMeansCopiedOnce
  <2> QED BY <2>1, <2>2, <2>3, <2>4 DEF LedgerInv
<1>2. CASE Log
  <2>1. ASSUME NEW w \in Writers, LogFails(w) PROVE LedgerInv'
    BY <2>1, <1>1 DEF LogFails, vars, LedgerInv, LedgerTyped
  <2> QED BY <1>2, <2>1, LogStep DEF Log
<1>3. CASE LogSqlite
  <2>1. source \in 0 .. MaxSource
    BY DEF LedgerInv, LedgerTyped
  <2>2. source' \in 0 .. MaxSource
    BY <1>3, <2>1, BoundsAreNaturals DEF LogSqlite
  <2> QED BY <1>1, <1>3, <2>2 DEF LogSqlite
<1>4. ASSUME NEW b \in Backfills, BackfillStarts(b) \/ BackfillStep(b) PROVE LedgerInv'
  BY <1>4, BackfillKeepsInv
<1>5. ASSUME NEW t \in Taggers, TaggerLocks(t) \/ TaggerStep(t) PROVE LedgerInv'
  BY <1>5, TaggerKeepsInv
<1>6. ASSUME NEW p \in Procs, Aborts(p) \/ DeadlockFound(p) PROVE LedgerInv'
  BY <1>6, EndingStep DEF Aborts, DeadlockFound
<1>7. CASE UNCHANGED vars
  BY <1>1, <1>7 DEF vars, LedgerInv, LedgerTyped
<1> QED BY <1>2, <1>3, <1>4, <1>5, <1>6, <1>7 DEF Next

LEMMA LedgerInvariantHolds == Spec => []LedgerInv
BY LedgerInitInv, NextKeepsInv, PTL DEF Spec

-----------------------------------------------------------------------------
(***************************************************************************)
(* However many backfills overlap, crash or are refused: a marker is there *)
(* if and only if all rows of its source are, each once                    *)
(* (run_backfill of backfill_postgres.py).                                 *)
(***************************************************************************)
THEOREM BackfillsAreAllOrNothing == Spec => []MarkerMeansCopiedOnce
<1>1. LedgerInv => MarkerMeansCopiedOnce
  BY DEF LedgerInv
<1> QED BY <1>1, LedgerInvariantHolds, PTL

(***************************************************************************)
(* Once a tag run has committed, no row up to its bound is untagged, for   *)
(* good: the rows that were uncommitted when it locked the table, or came  *)
(* later, are beyond the bound (run_backfill of                            *)
(* backfill_measurement_tag.py).                                           *)
(***************************************************************************)
THEOREM NoRowSlipsAcross == Spec => []CutoverIsComplete
<1>1. LedgerInv => CutoverIsComplete
  BY DEF LedgerInv
<1> QED BY <1>1, LedgerInvariantHolds, PTL

(***************************************************************************)
(* A committed row stays, and all that ever changes of it is an empty tag. *)
(***************************************************************************)
THEOREM LedgerIsAppendOnly == Spec => FactsAreImmutable
<1> DEFINE Keeps(r, s) == s = [r EXCEPT !.tag = s.tag] /\ (r.tag # "" => s.tag = r.tag)
           A == \A r \in rows : \E s \in rows' :
                  /\ s = [r EXCEPT !.tag = s.tag]
                  /\ r.tag # "" => s.tag = r.tag
<1>1. ASSUME LedgerInv, [Next]_vars PROVE [A]_rows
  <2>1. rows \subseteq Row
    BY <1>1 DEF LedgerInv, LedgerTyped
  <2>2. \A r \in rows : Keeps(r, r)
    BY <2>1 DEF Row
  <2>3. ASSUME rows \subseteq rows' PROVE A
    <3> SUFFICES ASSUME NEW r \in rows PROVE \E s \in rows' : Keeps(r, s)
      OBVIOUS
    <3> HIDE DEF Keeps
    <3> QED BY <2>2, <2>3
  <2>4. ASSUME NEW t \in Taggers, TaggerStamps(t) PROVE A
    <3> SUFFICES ASSUME NEW r \in rows PROVE \E s \in rows' : Keeps(r, s)
      OBVIOUS
    <3>1. rows' = Stamped(UpperId)
      BY <2>4 DEF TaggerStamps
    <3>2. CASE r.id <= UpperId /\ r.tag = ""
      <4> DEFINE s == [r EXCEPT !.tag = "pre_p6_6_backfill"]
      <4>1. s \in rows'
        BY <3>1, <3>2 DEF Stamped
      <4>2. Keeps(r, s)
        BY <2>1, <3>2 DEF Row
      <4> QED BY <4>1, <4>2
    <3>3. CASE ~(r.id <= UpperId /\ r.tag = "")
      <4>1. r \in rows'
        BY <3>1, <3>3 DEF Stamped
      <4> QED BY <2>2, <4>1
    <3> QED BY <3>2, <3>3
  <2>5. rows \subseteq rows' \/ \E t \in Taggers : TaggerStamps(t)
    BY <1>1 DEF Next, vars, Log, LogInserts, LogCommits, LogFails, LogSqlite, BackfillStarts,
                BackfillStep, BackfillResumes, BackfillChecks, BackfillCounts, BackfillInserts,
                BackfillMarks, BackfillCommits, TaggerLocks, TaggerStep, TaggerAlters, Aborts,
                DeadlockFound
  <2> QED BY <2>3, <2>4, <2>5
<1>2. [][A]_rows <=> FactsAreImmutable
  BY DEF FactsAreImmutable
<1> HIDE DEF A
<1>3. LedgerInv /\ [Next]_vars => [A]_rows
  BY <1>1
<1> QED BY <1>2, <1>3, LedgerInvariantHolds, PTL DEF Spec
=============================================================================
