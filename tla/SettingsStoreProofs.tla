------------------------- MODULE SettingsStoreProofs -------------------------
(***************************************************************************)
(* Theorems about SettingsStore, for all sets of proxies and settings,     *)
(* every environment and both back ends.                                   *)
(***************************************************************************)
EXTENDS SettingsStore, SequenceTheorems, TLAPS

(***************************************************************************)
(* The contract's "first layer that is set" is what the nested conditional *)
(* of effective() computes.                                                *)
(***************************************************************************)
LEMMA FirstSetIsFirst ==
  ASSUME NEW o, NEW e, NEW d, d # Unset
  PROVE  FirstSet(<<o, e, d>>) = IF o # Unset THEN o ELSE IF e # Unset THEN e ELSE d
<1> DEFINE layers == <<o, e, d>>
           First(i) == /\ layers[i] # Unset
                       /\ \A j \in 1 .. 3 : j < i => layers[j] = Unset
<1>0. /\ layers[1] = o /\ layers[2] = e /\ layers[3] = d
      /\ \A i : i \in 1 .. 3 <=> i = 1 \/ i = 2 \/ i = 3
  OBVIOUS
<1>1. CASE o # Unset
  <2>1. \A i \in 1 .. 3 : First(i) <=> i = 1
    BY <1>0, <1>1
  <2>2. (CHOOSE i \in 1 .. 3 : First(i)) = 1
    BY <2>1
  <2> QED
    BY <1>0, <1>1, <2>2 DEF FirstSet
<1>2. CASE o = Unset /\ e # Unset
  <2>1. \A i \in 1 .. 3 : First(i) <=> i = 2
    BY <1>0, <1>2
  <2>2. (CHOOSE i \in 1 .. 3 : First(i)) = 2
    BY <2>1
  <2> QED
    BY <1>0, <1>2, <2>2 DEF FirstSet
<1>3. CASE o = Unset /\ e = Unset
  <2>1. \A i \in 1 .. 3 : First(i) <=> i = 3
    BY <1>0, <1>3
  <2>2. (CHOOSE i \in 1 .. 3 : First(i)) = 3
    BY <2>1
  <2> QED
    BY <1>0, <1>3, <2>2 DEF FirstSet
<1> QED
  BY <1>1, <1>2, <1>3

(***************************************************************************)
(* Whatever the store holds, some Boolean is in force for every setting.   *)
(***************************************************************************)
LEMMA SomethingInForce ==
  ASSUME NEW n \in Names, NEW override \in BOOLEAN \cup {Unset}
  PROVE  FirstSet(<<override, Environment[n], Default[n]>>) \in BOOLEAN
<1>1. Environment[n] \in BOOLEAN \cup {Unset} /\ Default[n] \in BOOLEAN /\ Default[n] # Unset
  BY EnvironmentAndDefault, UnsetIsNoValue
<1>2. FirstSet(<<override, Environment[n], Default[n]>>)
        = IF override # Unset THEN override
          ELSE IF Environment[n] # Unset THEN Environment[n] ELSE Default[n]
  BY <1>1, FirstSetIsFirst
<1> QED
  BY <1>1, <1>2

(***************************************************************************)
(* effective() fulfils the contract on precedence.                         *)
(***************************************************************************)
LEMMA EffectiveIsInForce ==
  ASSUME TypeOK, NEW n \in Names
  PROVE  Effective(n) = InForce(n) /\ Effective(n) \in BOOLEAN
<1>1. Overrides[n] = IF up THEN stored[n] ELSE Unset
  BY DEF TypeOK, Overrides, NoOverrides
<1>2. Default[n] # Unset /\ Overrides[n] \in BOOLEAN \cup {Unset}
  BY <1>1, EnvironmentAndDefault, UnsetIsNoValue DEF TypeOK
<1>3. InForce(n) = FirstSet(<<Overrides[n], Environment[n], Default[n]>>)
  BY <1>1 DEF InForce
<1>4. Effective(n) = InForce(n)
  BY <1>2, <1>3, FirstSetIsFirst DEF Effective
<1> QED
  BY <1>2, <1>3, <1>4, SomethingInForce

(***************************************************************************)
(* What an operation wants to read is a sequence of names of the allowlist.*)
(***************************************************************************)
LEMMA WantedAreNames ==
  ASSUME TypeOK, NEW p \in Proxies
  PROVE  Wanted(p) \in Seq(Names)
<1>1. CASE call[p].op \in {"put", "delete"}
  <2>1. call[p] \in Calls
    BY DEF TypeOK
  <2>2. call[p].name \in Names
    BY <1>1, <2>1 DEF Calls
  <2> QED
    BY <1>1, <2>2 DEF Wanted
<1>2. CASE call[p].op \notin {"put", "delete"}
  BY <1>2, AllowedIsASequence DEF Wanted
<1> QED
  BY <1>1, <1>2

-----------------------------------------------------------------------------
\* Type correctness.

\* The part of the type invariant that the actions themselves maintain; the
\* history is the business of Witness.
StateTyped ==
  /\ backend \in {"postgres", "json"}
  /\ stored \in [Names -> BOOLEAN \cup {Unset}]
  /\ up \in BOOLEAN
  /\ pc \in [Proxies -> {"idle", "reading", "failing"}]
  /\ call \in [Proxies -> Calls]
  /\ read \in [Proxies -> Seq(BOOLEAN)]

\* How an operation begins.
LEMMA BeginsTyped ==
  ASSUME TypeOK, NEW p \in Proxies, NEW operation \in Calls,
         NEW phase \in {"idle", "reading", "failing"}, Begins(p, operation, phase),
         stored' \in [Names -> BOOLEAN \cup {Unset}], up' \in BOOLEAN
  PROVE  StateTyped'
BY DEF TypeOK, Begins, StateTyped

LEMMA WritesTyped ==
  ASSUME TypeOK, NEW p \in Proxies, Writes(p)
  PROVE  StateTyped'
<1> PICK n \in Names : \/ \E v \in BOOLEAN : PutJson(p, n, v) \/ PutRow(p, n, v)
                       \/ DeleteJson(p, n) \/ DeleteRow(p, n) \/ WriteFails(p, n)
  BY DEF Writes
<1>1. [op |-> "put", name |-> n] \in Calls /\ [op |-> "delete", name |-> n] \in Calls
  BY DEF Calls
<1>2. Overrides \in [Names -> BOOLEAN \cup {Unset}] /\ NoOverrides \in [Names -> BOOLEAN \cup {Unset}]
  BY DEF TypeOK, Overrides, NoOverrides
<1>3. ASSUME NEW v \in BOOLEAN, PutJson(p, n, v) PROVE StateTyped'
  BY <1>1, <1>2, <1>3, BeginsTyped DEF PutJson, Puts
<1>4. ASSUME NEW v \in BOOLEAN, PutRow(p, n, v) PROVE StateTyped'
  BY <1>1, <1>4, BeginsTyped DEF PutRow, Puts, TypeOK
<1>5. CASE DeleteJson(p, n)
  BY <1>1, <1>5, BeginsTyped DEF DeleteJson, Deletes, TypeOK
<1>6. CASE DeleteRow(p, n)
  BY <1>1, <1>6, BeginsTyped DEF DeleteRow, Deletes, TypeOK
<1>7. CASE WriteFails(p, n)
  BY <1>1, <1>7, BeginsTyped DEF WriteFails, Puts, Deletes, TypeOK
<1> QED
  BY <1>3, <1>4, <1>5, <1>6, <1>7

LEMMA StepTyped ==
  ASSUME TypeOK, NEW p \in Proxies, Step(p)
  PROVE  StateTyped'
<1>1. CASE Snapshot(p)
  <2>1. [op |-> "snapshot"] \in Calls
    BY DEF Calls
  <2> QED
    BY <1>1, <2>1, BeginsTyped DEF Snapshot, TypeOK
<1>2. CASE Get(p)
  <2>1. [op |-> "get", up |-> up] \in Calls
    BY DEF Calls, TypeOK
  <2> QED
    BY <1>2, <2>1, BeginsTyped DEF Get, TypeOK
<1>3. CASE Writes(p)
  BY <1>3, WritesTyped
<1>4. CASE Reads(p)
  <2>1. Wanted(p) \in Seq(Names)
    BY WantedAreNames
  <2>2. Len(read[p]) + 1 \in 1 .. Len(Wanted(p))
    BY <1>4, <2>1 DEF Reads, TypeOK
  <2>3. Wanted(p)[Len(read[p]) + 1] \in Names
    BY <2>1, <2>2, ElementOfSeq
  <2>4. Effective(Wanted(p)[Len(read[p]) + 1]) \in BOOLEAN
    BY <2>3, EffectiveIsInForce
  <2> QED
    BY <1>4, <2>4 DEF Reads, TypeOK, StateTyped
<1>5. CASE Ends(p)
  BY <1>5 DEF Ends, TypeOK, StateTyped, NoCall, Calls
<1>6. CASE Restart(p)
  BY <1>6 DEF Restart, TypeOK, StateTyped, NoCall, Calls
<1> QED
  BY <1>1, <1>2, <1>3, <1>4, <1>5, <1>6 DEF Step

LEMMA WitnessTyped ==
  ASSUME TypeOK, StateTyped', Witness
  PROVE  TypeOK'
<1>1. ASSUME NEW n \in Names PROVE InForce(n)' \in BOOLEAN
  <2>1. (IF up' THEN stored'[n] ELSE Unset) \in BOOLEAN \cup {Unset}
    BY DEF StateTyped
  <2> QED
    BY <2>1, SomethingInForce DEF InForce
<1>2. inForce' \in [Proxies -> [Names -> SUBSET BOOLEAN]]
  BY <1>1 DEF Witness, Nothing, TypeOK
<1> QED
  BY <1>2 DEF StateTyped, TypeOK

LEMMA NextTyped ==
  ASSUME TypeOK, Next
  PROVE  TypeOK'
<1>1. CASE StoreToggles
  <2>1. StateTyped'
    BY <1>1 DEF StoreToggles, StateTyped, TypeOK
  <2> QED
    BY <2>1, WitnessTyped DEF Next
<1>2. ASSUME NEW p \in Proxies, Step(p) PROVE TypeOK'
  BY <1>2, StepTyped, WitnessTyped DEF Next
<1> QED
  BY <1>1, <1>2 DEF Next

LEMMA InitTyped == Init => TypeOK
BY BackendsAreBackends DEF Init, TypeOK, NoOverrides, NoCall, Calls, Nothing

(***************************************************************************)
(* The settings store is type correct; in particular every value that a    *)
(* request reads is a Boolean, whatever layers are missing.                *)
(***************************************************************************)
THEOREM SettingsTyped == Spec => []TypeOK
<1>1. TypeOK /\ [Next]_vars => TypeOK'
  <2> SUFFICES ASSUME TypeOK, [Next]_vars PROVE TypeOK'
    OBVIOUS
  <2>1. CASE Next
    BY <2>1, NextTyped
  <2>2. CASE UNCHANGED vars
    BY <2>2 DEF vars, TypeOK
  <2> QED
    BY <2>1, <2>2
<1> QED
  BY InitTyped, <1>1, PTL DEF Spec

-----------------------------------------------------------------------------
\* What a request reads was in force.

\* A proxy that reads has the present settings in its history and has not read
\* more than it wants; one that does not has read nothing.
HistoryIsPresent ==
  \A p \in Proxies :
    /\ pc[p] = "reading" => \A n \in Names : InForce(n) \in inForce[p][n]
    /\ pc[p] = "reading" => Len(read[p]) <= Len(Wanted(p))
    /\ pc[p] # "reading" => read[p] = <<>>

ReadingInv == TypeOK /\ HistoryIsPresent /\ EverySettingWasInForce

\* The history of a proxy that goes on reading only grows.
LEMMA WitnessGrows ==
  ASSUME TypeOK, Witness, NEW p \in Proxies, pc'[p] = "reading", NEW n \in Names
  PROVE  InForce(n)' \in inForce'[p][n] /\ inForce[p][n] \subseteq inForce'[p][n]
BY DEF Witness, TypeOK

\* What has been read so far are values of settings.
LEMMA ReadNames ==
  ASSUME ReadingInv, NEW p \in Proxies, NEW i \in DOMAIN read[p]
  PROVE  pc[p] = "reading" /\ Wanted(p)[i] \in Names
<1>1. read[p] \in Seq(BOOLEAN) /\ i \in 1 .. Len(read[p])
  BY DEF ReadingInv, TypeOK
<1>2. pc[p] = "reading" /\ Len(read[p]) <= Len(Wanted(p))
  BY <1>1 DEF ReadingInv, HistoryIsPresent
<1>3. Wanted(p) \in Seq(Names)
  BY WantedAreNames DEF ReadingInv
<1>4. i \in 1 .. Len(Wanted(p))
  BY <1>1, <1>2, <1>3, LenProperties
<1> QED
  BY <1>2, <1>3, <1>4, ElementOfSeq

\* The invariant for a proxy that this step leaves alone.
LEMMA OthersKept ==
  ASSUME ReadingInv, Witness, NEW p \in Proxies,
         read'[p] = read[p], call'[p] = call[p], pc'[p] = pc[p]
  PROVE  /\ pc'[p] = "reading" => Len(read'[p]) <= Len(Wanted(p)')
         /\ pc'[p] # "reading" => read'[p] = <<>>
         /\ \A i \in DOMAIN read'[p] : read'[p][i] \in inForce'[p][Wanted(p)'[i]]
<1>1. Wanted(p)' = Wanted(p)
  BY DEF Wanted
<1>2. ASSUME NEW i \in DOMAIN read[p] PROVE read[p][i] \in inForce'[p][Wanted(p)[i]]
  <2>1. pc[p] = "reading" /\ Wanted(p)[i] \in Names
    BY ReadNames
  <2>2. read[p][i] \in inForce[p][Wanted(p)[i]]
    BY DEF ReadingInv, EverySettingWasInForce
  <2> QED
    BY <2>1, <2>2, WitnessGrows DEF ReadingInv
<1> QED
  BY <1>1, <1>2 DEF ReadingInv, HistoryIsPresent

\* The invariant for a proxy that begins or gives up an operation.
LEMMA NothingRead ==
  ASSUME ReadingInv, TypeOK', NEW p \in Proxies, read'[p] = <<>>
  PROVE  /\ pc'[p] = "reading" => Len(read'[p]) <= Len(Wanted(p)')
         /\ pc'[p] # "reading" => read'[p] = <<>>
         /\ \A i \in DOMAIN read'[p] : read'[p][i] \in inForce'[p][Wanted(p)'[i]]
<1>1. Wanted(p)' \in Seq(Names)
  <2>1. CASE call'[p].op \in {"put", "delete"}
    <3>1. call'[p] \in Calls
      BY DEF TypeOK
    <3>2. call'[p].name \in Names
      BY <2>1, <3>1 DEF Calls
    <3> QED
      BY <2>1, <3>2 DEF Wanted
  <2>2. CASE call'[p].op \notin {"put", "delete"}
    BY <2>2, AllowedIsASequence DEF Wanted
  <2> QED
    BY <2>1, <2>2
<1>2. Len(Wanted(p)') \in Nat
  BY <1>1, LenProperties
<1>3. Len(<<>>) = 0 /\ DOMAIN <<>> = {}
  OBVIOUS
<1> QED
  BY <1>2, <1>3

\* The invariant for a proxy that reads one more setting.
LEMMA OneMoreRead ==
  ASSUME ReadingInv, Witness, NEW p \in Proxies, Reads(p)
  PROVE  /\ pc'[p] = "reading" => Len(read'[p]) <= Len(Wanted(p)')
         /\ pc'[p] # "reading" => read'[p] = <<>>
         /\ \A i \in DOMAIN read'[p] : read'[p][i] \in inForce'[p][Wanted(p)'[i]]
<1> DEFINE k == Len(read[p]) + 1
           v == Effective(Wanted(p)[k])
<1>1. /\ Wanted(p)' = Wanted(p) /\ pc'[p] = "reading" /\ pc[p] = "reading"
      /\ read[p] \in Seq(BOOLEAN) /\ read'[p] = Append(read[p], v)
  BY DEF Reads, Wanted, ReadingInv, TypeOK
<1>2. Wanted(p) \in Seq(Names) /\ k \in 1 .. Len(Wanted(p)) /\ Wanted(p)[k] \in Names
  <2>1. Wanted(p) \in Seq(Names)
    BY WantedAreNames DEF ReadingInv
  <2>2. k \in 1 .. Len(Wanted(p))
    BY <2>1, <1>1, LenProperties DEF Reads
  <2> QED
    BY <2>1, <2>2, ElementOfSeq
<1>3. v = InForce(Wanted(p)[k]) /\ v \in BOOLEAN
  BY <1>2, EffectiveIsInForce DEF ReadingInv
<1>4. v \in inForce'[p][Wanted(p)[k]]
  <2>1. v \in inForce[p][Wanted(p)[k]]
    BY <1>1, <1>2, <1>3 DEF ReadingInv, HistoryIsPresent
  <2> QED
    BY <1>1, <1>2, <2>1, WitnessGrows DEF ReadingInv
<1> HIDE DEF v
<1>5. Len(read'[p]) = k /\ \A i \in 1 .. k : i # k => read'[p][i] = read[p][i]
  BY <1>1, <1>3, AppendProperties
<1>6. read'[p][k] = v /\ DOMAIN read'[p] = 1 .. k /\ DOMAIN read[p] = 1 .. Len(read[p])
  BY <1>1, <1>3, AppendProperties
<1>7. ASSUME NEW i \in 1 .. k, i # k PROVE read'[p][i] \in inForce'[p][Wanted(p)[i]]
  <2>1. i \in DOMAIN read[p]
    BY <1>1, <1>6, <1>7, LenProperties
  <2>2. Wanted(p)[i] \in Names
    BY <2>1, ReadNames
  <2>3. read[p][i] \in inForce[p][Wanted(p)[i]]
    BY <2>1 DEF ReadingInv, EverySettingWasInForce
  <2> QED
    BY <1>1, <1>5, <1>7, <2>2, <2>3, WitnessGrows DEF ReadingInv
<1>8. \A i \in DOMAIN read'[p] : read'[p][i] \in inForce'[p][Wanted(p)[i]]
  BY <1>4, <1>6, <1>7
<1> QED
  BY <1>1, <1>2, <1>5, <1>8

LEMMA NextReading ==
  ASSUME ReadingInv, Next
  PROVE  ReadingInv'
<1>1. TypeOK' /\ Witness
  BY NextTyped DEF ReadingInv, Next
<1>2. \A q \in Proxies : pc'[q] = "reading" => \A n \in Names : InForce(n)' \in inForce'[q][n]
  BY <1>1, WitnessGrows DEF ReadingInv
<1>3. ASSUME NEW q \in Proxies
      PROVE  /\ pc'[q] = "reading" => Len(read'[q]) <= Len(Wanted(q)')
             /\ pc'[q] # "reading" => read'[q] = <<>>
             /\ \A i \in DOMAIN read'[q] : read'[q][i] \in inForce'[q][Wanted(q)'[i]]
  <2>1. CASE StoreToggles
    BY <1>1, <2>1, OthersKept DEF StoreToggles
  <2>2. ASSUME NEW p \in Proxies, Step(p)
        PROVE  \/ read'[q] = read[q] /\ call'[q] = call[q] /\ pc'[q] = pc[q]
               \/ read'[q] = <<>>
               \/ q = p /\ Reads(p)
    <3>1. ASSUME NEW operation, NEW phase, Begins(p, operation, phase)
          PROVE  \/ read'[q] = read[q] /\ call'[q] = call[q] /\ pc'[q] = pc[q]
                 \/ read'[q] = <<>>
      BY <3>1 DEF Begins, ReadingInv, TypeOK, HistoryIsPresent
    <3>2. CASE Reads(p)
      BY <3>2 DEF Reads, ReadingInv, TypeOK
    <3>3. CASE Ends(p) \/ Restart(p)
      BY <3>3 DEF Ends, Restart, ReadingInv, TypeOK
    <3>4. CASE Snapshot(p) \/ Get(p) \/ Writes(p)
      BY <3>1, <3>4 DEF Snapshot, Get, Writes, PutJson, PutRow, DeleteJson, DeleteRow,
                        WriteFails, Puts, Deletes
    <3> QED
      BY <2>2, <3>2, <3>3, <3>4 DEF Step
  <2> QED
    BY <1>1, <2>1, <2>2, OthersKept, NothingRead, OneMoreRead DEF Next
<1> QED
  BY <1>1, <1>2, <1>3 DEF ReadingInv, HistoryIsPresent, EverySettingWasInForce

(***************************************************************************)
(* Every value that an operation reads was in force, by the contract on    *)
(* precedence, at some moment since it began to read: snapshot(), the      *)
(* items of GET and the answers to PUT and DELETE, through any writes of   *)
(* other proxies, outages and restarts.                                    *)
(***************************************************************************)
THEOREM ReadingsWereInForce == Spec => []EverySettingWasInForce
<1>1. Init => ReadingInv
  <2> SUFFICES ASSUME Init PROVE ReadingInv
    OBVIOUS
  <2> QED
    BY InitTyped DEF Init, ReadingInv, HistoryIsPresent, EverySettingWasInForce
<1>2. ReadingInv /\ [Next]_vars => ReadingInv'
  <2> SUFFICES ASSUME ReadingInv, [Next]_vars PROVE ReadingInv'
    OBVIOUS
  <2>1. CASE Next
    BY <2>1, NextReading
  <2>2. CASE UNCHANGED vars
    BY <2>2 DEF vars, ReadingInv, TypeOK, HistoryIsPresent, EverySettingWasInForce,
                Wanted, InForce
  <2> QED
    BY <2>1, <2>2
<1>3. ReadingInv => EverySettingWasInForce
  BY DEF ReadingInv
<1> QED
  BY <1>1, <1>2, <1>3, PTL DEF Spec

-----------------------------------------------------------------------------
\* Which steps change an override.

LEMMA WritesChange ==
  ASSUME TypeOK, NEW p \in Proxies, Writes(p), NEW n \in Names, stored'[n] # stored[n]
  PROVE  \/ /\ pc[p] = "idle" /\ pc'[p] # "idle"
            /\ call'[p].op \in {"put", "delete"} /\ call'[p].name = n
         \/ backend = "json" /\ ~up /\ up'
<1> PICK m \in Names : \/ \E v \in BOOLEAN : PutJson(p, m, v) \/ PutRow(p, m, v)
                       \/ DeleteJson(p, m) \/ DeleteRow(p, m) \/ WriteFails(p, m)
  BY DEF Writes
<1>1. ASSUME NEW op \in {"put", "delete"}, NEW phase \in {"reading", "failing"},
             Begins(p, [op |-> op, name |-> m], phase)
      PROVE  /\ pc[p] = "idle" /\ pc'[p] # "idle"
             /\ call'[p].op \in {"put", "delete"} /\ call'[p].name = m
  BY <1>1 DEF Begins, TypeOK
<1>2. ASSUME NEW v \in BOOLEAN, PutJson(p, m, v)
      PROVE  m = n \/ (backend = "json" /\ ~up /\ up')
  BY <1>2 DEF PutJson, Overrides, TypeOK
<1>3. ASSUME NEW v \in BOOLEAN, PutRow(p, m, v) PROVE m = n
  BY <1>3 DEF PutRow, TypeOK
<1>4. ASSUME DeleteJson(p, m) \/ DeleteRow(p, m) PROVE m = n
  BY <1>4 DEF DeleteJson, DeleteRow, TypeOK
<1>5. ~WriteFails(p, m)
  BY DEF WriteFails
<1> QED
  BY <1>1, <1>2, <1>3, <1>4, <1>5 DEF PutJson, PutRow, DeleteJson, DeleteRow, Puts, Deletes

(***************************************************************************)
(* An override changes only by a write to its own name, except that a PUT  *)
(* over an unreadable settings file loses the others.                      *)
(***************************************************************************)
THEOREM OnlyWritersChange == Spec => OverridesSurvive
<1> DEFINE Change ==
      \A n \in Names : stored'[n] # stored[n] =>
        \/ \E p \in Proxies : pc[p] = "idle" /\ pc'[p] # "idle"
                              /\ call'[p].op \in {"put", "delete"} /\ call'[p].name = n
        \/ backend = "json" /\ ~up /\ up'
<1>1. TypeOK /\ [Next]_vars => [Change]_vars
  <2> SUFFICES ASSUME TypeOK, Next, NEW n \in Names, stored'[n] # stored[n]
               PROVE  \/ \E p \in Proxies : pc[p] = "idle" /\ pc'[p] # "idle"
                            /\ call'[p].op \in {"put", "delete"} /\ call'[p].name = n
                      \/ backend = "json" /\ ~up /\ up'
    OBVIOUS
  <2>1. ~StoreToggles
    BY DEF StoreToggles
  <2>2. PICK p \in Proxies : Step(p)
    BY <2>1 DEF Next
  <2>3. Writes(p)
    BY <2>2 DEF Step, Snapshot, Get, Reads, Ends, Restart
  <2> QED
    BY <2>3, WritesChange
<1> QED
  BY <1>1, SettingsTyped, PTL DEF Spec, OverridesSurvive

=============================================================================
