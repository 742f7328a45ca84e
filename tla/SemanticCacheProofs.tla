------------------------- MODULE SemanticCacheProofs -------------------------
(***************************************************************************)
(* Proofs about the semantic cache, for any number of proxies, versions,   *)
(* prompts and references, any relation Near and any clock.  The argument: *)
(* rows that a transaction has locked stay committed, and are nobody       *)
(* else's to lock, until it ends; a response is deleted only by who has    *)
(* locked its entry; two transactions never reach their commit with the    *)
(* same identity; and a reference is drawn only once.                      *)
(***************************************************************************)
EXTENDS SemanticCache, TLAPS

USE TTLIsPositive, MaxTimeIsNatural, NothingIsNoEntry

Typed ==
  /\ now \in Nat
  /\ entries \subseteq Entry
  /\ version \in [Proxies -> Versions]
  /\ pc \in [Proxies -> Stations]
  /\ asked \in [Proxies -> Prompts \cup {Nothing}]
  /\ target \in [Proxies -> Entry \cup {Nothing}]
  /\ held \in [Proxies -> SUBSET Entry]
  /\ DOMAIN removed = Proxies
  /\ removed = [p \in Proxies |-> removed[p]]
  /\ new \in [Proxies -> Entry \cup {Nothing}]

\* What process p has at hand where it stands.
Storing == {"delete", "waiting", "responses", "insert", "commit"}
Aiming == {"waiting", "read", "count", "counted", "clean", "cleanMore", "cleaned"}

HandOf(p) ==
  /\ pc[p] \in Storing => new[p] # Nothing
  /\ pc[p] \in Aiming => target[p] # Nothing
  /\ pc[p] = "waiting" => SameIdentity(target[p], new[p])
  /\ pc[p] = "read" => /\ target[p].version = version[p] /\ asked[p] \in Prompts
                       /\ Near(target[p].prompt, asked[p])
  /\ new[p] # Nothing => new[p].expires <= now + TTL

\* Which rows it has locked.
HoldOf(p) ==
  /\ held[p] \subseteq entries
  /\ held[p] # {} => pc[p] \in {"responses", "insert", "commit",
                                "counted", "cleanMore", "cleaned"}
  /\ pc[p] \in Storing => \A e \in held[p] : SameIdentity(e, new[p])
  /\ pc[p] \in {"counted", "cleanMore", "cleaned"} => held[p] = entries \cap {target[p]}
  /\ pc[p] \in {"insert", "commit", "cleaned"} => removed[p] = {Response(e) : e \in held[p]}
  /\ pc[p] \notin {"insert", "commit", "cleaned"} => removed[p] = {}

AtHand == \A p \in Proxies : HandOf(p)
LocksHold ==
  /\ \A p \in Proxies : HoldOf(p)
  /\ \A p, o \in Proxies : p # o => held[p] \cap held[o] = {}

\* uuid4 names one row.
RefsNameRows ==
  /\ \A e \in entries : e.ref \in drawn
  /\ \A p \in Proxies : target[p] # Nothing =>
       /\ target[p].ref \in drawn
       /\ \A e \in entries : e.ref = target[p].ref => e = target[p]
  /\ \A p \in Proxies : new[p] # Nothing =>
       /\ new[p].ref \in drawn
       /\ \A e \in entries : e.ref # new[p].ref
       /\ \A o \in Proxies :
            /\ target[o] # Nothing => target[o].ref # new[p].ref
            /\ o # p /\ new[o] # Nothing => new[o].ref # new[p].ref

\* The unique index.
IndexHolds ==
  /\ \A p \in Proxies : pc[p] = "commit" => Conflicts(p) = {}
  /\ \A p, o \in Proxies :
       pc[p] = "commit" /\ pc[o] = "commit" /\ SameIdentity(new[p], new[o]) => p = o

SInv ==
  /\ Typed /\ AtHand /\ LocksHold /\ RefsNameRows /\ IndexHolds
  /\ RowsArePaired /\ OneEntryPerIdentity

-----------------------------------------------------------------------------
LEMMA InitSInv == Init => SInv
BY DEF Init, SInv, Typed, AtHand, HandOf, LocksHold, HoldOf, RefsNameRows, IndexHolds,
       RowsArePaired, OneEntryPerIdentity, Stations, Storing, Aiming

\* A process that takes no step keeps what it has at hand, as long as no other
\* deletes what it has locked or adds what it aims at.
SameProcess(o) ==
  /\ pc'[o] = pc[o] /\ version'[o] = version[o] /\ asked'[o] = asked[o]
  /\ target'[o] = target[o] /\ held'[o] = held[o] /\ removed'[o] = removed[o]
  /\ new'[o] = new[o]

LEMMA OtherHand ==
  ASSUME SInv, NEW o \in Proxies, SameProcess(o), now' = now
  PROVE  HandOf(o)'
<1>1. HandOf(o)
  BY DEF SInv, AtHand
<1> QED BY <1>1 DEF HandOf, SameProcess, SameIdentity, Storing, Aiming

LEMMA OtherHold ==
  ASSUME SInv, NEW o \in Proxies, SameProcess(o), held[o] \subseteq entries',
         target[o] # Nothing /\ target[o] \in entries' => target[o] \in entries
  PROVE  HoldOf(o)'
<1>1. HoldOf(o) /\ HandOf(o)
  BY DEF SInv, AtHand, LocksHold
<1>2. pc[o] \in {"counted", "cleanMore", "cleaned"} => held[o] = entries' \cap {target[o]}
  BY <1>1 DEF HoldOf, HandOf, Aiming
<1> QED BY <1>1, <1>2 DEF HoldOf, SameProcess, SameIdentity, Response, Storing

\* A step that leaves the tables, the locks and the clock alone.
LEMMA OthersWait ==
  ASSUME SInv, NEW p \in Proxies, \A o \in Proxies \ {p} : SameProcess(o),
         UNCHANGED <<now, entries>>, HandOf(p)', HoldOf(p)',
         \A o \in Proxies \ {p} : held'[p] \cap held[o] = {}
  PROVE  AtHand' /\ LocksHold'
<1>1. AtHand'
  BY OtherHand DEF AtHand
<1>2. \A o \in Proxies : HoldOf(o)'
  BY OtherHold DEF SInv, LocksHold, HoldOf
<1>3. \A o \in Proxies \ {p} : held'[o] = held[o]
  BY DEF SameProcess
<1>4. \A o, q \in Proxies : o # q => held'[o] \cap held'[q] = {}
  BY <1>3 DEF SInv, LocksHold
<1> QED BY <1>1, <1>2, <1>4 DEF LocksHold

\* What the end of p's transaction leaves.
LEMMA EndsAt ==
  ASSUME SInv, NEW p \in Proxies, Ends(p), version' \in [Proxies -> Versions],
         \A o \in Proxies \ {p} : version'[o] = version[o],
         now' \in Nat, entries' \subseteq Entry
  PROVE  /\ Typed'
         /\ pc'[p] = "idle" /\ target'[p] = Nothing /\ held'[p] = {} /\ removed'[p] = {}
         /\ new'[p] = Nothing
         /\ HandOf(p)' /\ HoldOf(p)'
         /\ \A o \in Proxies \ {p} : SameProcess(o)
<1>1. /\ pc'[p] = "idle" /\ target'[p] = Nothing /\ held'[p] = {} /\ removed'[p] = {}
      /\ new'[p] = Nothing
      /\ \A o \in Proxies \ {p} : SameProcess(o)
  BY DEF SInv, Typed, Ends, SameProcess
<1>2. Typed'
  BY DEF SInv, Typed, Ends, Stations
<1>3. HandOf(p)' /\ HoldOf(p)'
  BY <1>1 DEF HandOf, HoldOf, Storing, Aiming
<1> QED BY <1>1, <1>2, <1>3

\* The transaction ends without an effect: Rollback, CountEnds, CleanFails,
\* Restart.
LEMMA EndsWithoutEffect ==
  ASSUME SInv, NEW p \in Proxies, Ends(p), UNCHANGED <<now, tables, drawn>>,
         version' \in [Proxies -> Versions],
         \A o \in Proxies \ {p} : version'[o] = version[o]
  PROVE  SInv'
<1>0. UNCHANGED <<entries, responses>> /\ now' \in Nat /\ entries' \subseteq Entry
  BY DEF tables, SInv, Typed
<1>1. /\ Typed' /\ HandOf(p)' /\ HoldOf(p)' /\ \A o \in Proxies \ {p} : SameProcess(o)
      /\ pc'[p] = "idle" /\ target'[p] = Nothing /\ held'[p] = {} /\ new'[p] = Nothing
  BY <1>0, EndsAt
<1>2. AtHand' /\ LocksHold'
  BY <1>0, <1>1, OthersWait
<1>3. RefsNameRows'
  BY <1>0, <1>1 DEF SInv, RefsNameRows, SameProcess
<1>4. IndexHolds'
  BY <1>0, <1>1 DEF SInv, IndexHolds, Conflicts, SameProcess, SameIdentity
<1>5. RowsArePaired' /\ OneEntryPerIdentity'
  BY <1>0 DEF SInv, RowsArePaired, OneEntryPerIdentity, Response, SameIdentity
<1> QED BY <1>1, <1>2, <1>3, <1>4, <1>5 DEF SInv

LEMMA StoreBeginsKeeps ==
  ASSUME SInv, NEW p \in Proxies, NEW prompt \in Prompts, StoreBegins(p, prompt)
  PROVE  SInv'
<1>1. PICK ref \in Refs \ drawn :
        /\ pc[p] = "idle" /\ pc' = [pc EXCEPT ![p] = "delete"]
        /\ drawn' = drawn \cup {ref}
        /\ new' = [new EXCEPT ![p] = [version |-> version[p], prompt |-> prompt,
                                      ref |-> ref, expires |-> now + TTL]]
        /\ UNCHANGED <<now, tables, version, asked, target, held, removed, reply>>
  BY DEF StoreBegins
<1> DEFINE row == [version |-> version[p], prompt |-> prompt, ref |-> ref,
                   expires |-> now + TTL]
<1>2. row \in Entry /\ row # Nothing /\ row.ref = ref /\ row.expires <= now + TTL
  BY DEF SInv, Typed, Entry
<1>3. /\ new'[p] = row /\ pc'[p] = "delete"
      /\ pc' \in [Proxies -> Stations] /\ new' \in [Proxies -> Entry \cup {Nothing}]
      /\ \A o \in Proxies \ {p} : new'[o] = new[o] /\ pc'[o] = pc[o]
  BY <1>1, <1>2 DEF SInv, Typed, Stations
<1> HIDE DEF row
<1>4. UNCHANGED <<now, entries, responses, version, asked, target, held, removed>>
  BY <1>1 DEF tables
<1>5. Typed'
  BY <1>3, <1>4 DEF SInv, Typed
<1>6. held[p] = {} /\ removed[p] = {}
  BY <1>1 DEF SInv, LocksHold, HoldOf
<1>7. \A o \in Proxies \ {p} : SameProcess(o)
  BY <1>3, <1>4 DEF SameProcess
<1>8. HandOf(p)' /\ HoldOf(p)'
  BY <1>2, <1>3, <1>4, <1>6 DEF HandOf, HoldOf, Aiming
<1>9. AtHand' /\ LocksHold'
  BY <1>4, <1>6, <1>7, <1>8, OthersWait
<1>10. RefsNameRows'
  <2>1. \A e \in entries' : e.ref \in drawn' /\ e.ref # ref
    BY <1>1, <1>4 DEF SInv, RefsNameRows
  <2>2. ASSUME NEW o \in Proxies, target'[o] # Nothing
        PROVE  /\ target'[o].ref \in drawn' /\ target'[o].ref # ref
               /\ \A e \in entries' : e.ref = target'[o].ref => e = target'[o]
    BY <1>1, <1>4, <2>2 DEF SInv, RefsNameRows
  <2>3. \A o \in Proxies \ {p} : new'[o] # Nothing =>
          /\ new'[o].ref \in drawn' /\ new'[o].ref # ref
          /\ \A e \in entries' : e.ref # new'[o].ref
          /\ \A q \in Proxies :
               /\ target'[q] # Nothing => target'[q].ref # new'[o].ref
               /\ q # o /\ q # p /\ new'[q] # Nothing => new'[q].ref # new'[o].ref
    BY <1>1, <1>3, <1>4 DEF SInv, RefsNameRows
  <2> QED BY <1>1, <1>2, <1>3, <2>1, <2>2, <2>3 DEF RefsNameRows
<1>11. IndexHolds'
  BY <1>1, <1>3, <1>4 DEF SInv, IndexHolds, Conflicts, SameIdentity
<1>12. RowsArePaired' /\ OneEntryPerIdentity'
  BY <1>4 DEF SInv, RowsArePaired, OneEntryPerIdentity, Response, SameIdentity
<1> QED BY <1>5, <1>9, <1>10, <1>11, <1>12 DEF SInv

\* Steps of one process that move it on, neither into its commit nor with a
\* change of the tables or of what it inserts.
LEMMA MovesOn ==
  ASSUME SInv, NEW p \in Proxies, NEW at \in Stations, at # "commit",
         pc' = [pc EXCEPT ![p] = at], pc[p] # "commit",
         UNCHANGED <<now, entries, responses, drawn, version, new>>,
         Typed', \A o \in Proxies \ {p} : SameProcess(o),
         target'[p] = Nothing \/ target'[p] = target[p] \/ target'[p] \in entries,
         HandOf(p)', HoldOf(p)',
         \A o \in Proxies \ {p} : held'[p] \cap held[o] = {}
  PROVE  SInv'
<1>1. AtHand' /\ LocksHold'
  BY OthersWait
<1>2. RefsNameRows'
  BY DEF SInv, RefsNameRows, SameProcess, RowsArePaired
<1>3. pc'[p] = at /\ \A o \in Proxies \ {p} : pc'[o] = pc[o] /\ held'[o] = held[o]
  BY DEF SInv, Typed, SameProcess
<1>4. IndexHolds'
  BY <1>3 DEF SInv, IndexHolds, Conflicts, SameIdentity
<1>5. RowsArePaired' /\ OneEntryPerIdentity'
  BY DEF SInv, RowsArePaired, OneEntryPerIdentity, Response, SameIdentity
<1> QED BY <1>1, <1>2, <1>4, <1>5 DEF SInv

LEMMA DeletedAt ==
  ASSUME SInv, NEW p \in Proxies, NEW rows \in SUBSET Superseded(p),
         pc[p] \in {"delete", "waiting"},
         \A e \in rows : ~LockedByOther(p, e),
         held' = [held EXCEPT ![p] = rows],
         pc' = [pc EXCEPT ![p] = "responses"],
         target' = target \/ target' = [target EXCEPT ![p] = Nothing],
         UNCHANGED <<now, tables, drawn, version, asked, removed, new>>
  PROVE  SInv'
<1>1. UNCHANGED <<entries, responses>>
  BY DEF tables
<1>2. /\ held'[p] = rows /\ pc'[p] = "responses"
      /\ \A o \in Proxies \ {p} : SameProcess(o)
      /\ target'[p] \in {target[p], Nothing}
  BY DEF SInv, Typed, SameProcess
<1>3. rows \subseteq entries /\ \A e \in rows : SameIdentity(e, new[p])
  BY DEF Superseded
<1>4. Typed'
  BY <1>1, <1>3 DEF SInv, Typed, Stations
<1>5. HandOf(p)'
  BY <1>2 DEF SInv, AtHand, HandOf, Storing, Aiming
<1>6. HoldOf(p)'
  BY <1>1, <1>2, <1>3 DEF SInv, LocksHold, HoldOf, SameIdentity
<1>7. \A o \in Proxies \ {p} : held'[p] \cap held[o] = {}
  BY <1>2 DEF LockedByOther
<1> QED BY <1>1, <1>2, <1>4, <1>5, <1>6, <1>7, MovesOn DEF Stations

LEMMA DeleteKeeps ==
  ASSUME SInv, NEW p \in Proxies, Delete(p)
  PROVE  SInv'
<1>1. pc[p] = "delete" /\ UNCHANGED <<now, tables, drawn, version, asked, removed, new>>
  BY DEF Delete
<1>2. CASE /\ \A e \in Superseded(p) : ~LockedByOther(p, e)
           /\ held' = [held EXCEPT ![p] = Superseded(p)]
           /\ pc' = [pc EXCEPT ![p] = "responses"]
           /\ target' = target
  BY <1>1, <1>2, DeletedAt
<1>3. ASSUME NEW e \in Superseded(p),
             target' = [target EXCEPT ![p] = e],
             pc' = [pc EXCEPT ![p] = "waiting"],
             held' = held
      PROVE  SInv'
  <2>1. e \in entries /\ SameIdentity(e, new[p])
    BY DEF Superseded
  <2>2. /\ target'[p] = e /\ pc'[p] = "waiting" /\ e \in Entry
        /\ \A o \in Proxies \ {p} : SameProcess(o)
    BY <1>1, <1>3, <2>1 DEF SInv, Typed, SameProcess
  <2>3. UNCHANGED <<entries, responses>> /\ Typed'
    BY <1>1, <1>3, <2>2 DEF SInv, Typed, Stations, tables
  <2>4. HandOf(p)'
    BY <1>1, <2>1, <2>2 DEF SInv, AtHand, HandOf, SameIdentity, Storing
  <2>5. HoldOf(p)'
    BY <1>1, <1>3, <2>2, <2>3 DEF SInv, LocksHold, HoldOf
  <2>6. \A o \in Proxies \ {p} : held'[p] \cap held[o] = {}
    BY <1>3 DEF SInv, LocksHold
  <2> QED BY <1>1, <1>3, <2>1, <2>2, <2>3, <2>4, <2>5, <2>6, MovesOn DEF Stations
<1> QED BY <1>2, <1>3 DEF Delete

LEMMA DeleteResumesKeeps ==
  ASSUME SInv, NEW p \in Proxies, DeleteResumes(p)
  PROVE  SInv'
<1>1. /\ pc[p] = "waiting" /\ ~LockedByOther(p, target[p])
      /\ held' = [held EXCEPT ![p] = entries \cap {target[p]}]
      /\ target' = [target EXCEPT ![p] = Nothing]
      /\ pc' = [pc EXCEPT ![p] = "responses"]
      /\ UNCHANGED <<now, tables, drawn, version, asked, removed, new>>
  BY DEF DeleteResumes
<1>2. entries \cap {target[p]} \in SUBSET Superseded(p)
  BY <1>1 DEF SInv, AtHand, HandOf, Superseded
<1> QED BY <1>1, <1>2, DeletedAt

LEMMA DeletesResponsesKeeps ==
  ASSUME SInv, NEW p \in Proxies, DeletesResponses(p)
  PROVE  SInv'
<1>1. /\ pc[p] = "responses" /\ pc' = [pc EXCEPT ![p] = "insert"]
      /\ removed' = [removed EXCEPT ![p] = {Response(e) : e \in held[p]}]
      /\ UNCHANGED <<now, entries, responses, drawn, version, asked, target, held, new>>
  BY DEF DeletesResponses, tables
<1>2. /\ pc'[p] = "insert" /\ removed'[p] = {Response(e) : e \in held[p]}
      /\ \A o \in Proxies \ {p} : SameProcess(o)
  BY <1>1 DEF SInv, Typed, SameProcess
<1>3. Typed'
  BY <1>1 DEF SInv, Typed, Stations
<1>4. HandOf(p)'
  BY <1>1, <1>2 DEF SInv, AtHand, HandOf, Storing, Aiming
<1>5. HoldOf(p)'
  BY <1>1, <1>2 DEF SInv, LocksHold, HoldOf, Response, SameIdentity, Storing
<1>6. \A o \in Proxies \ {p} : held'[p] \cap held[o] = {}
  BY <1>1 DEF SInv, LocksHold
<1> QED BY <1>1, <1>2, <1>3, <1>4, <1>5, <1>6, MovesOn DEF Stations

LEMMA InsertKeeps ==
  ASSUME SInv, NEW p \in Proxies, Insert(p)
  PROVE  SInv'
<1>1. /\ pc[p] = "insert" /\ Conflicts(p) = {} /\ pc' = [pc EXCEPT ![p] = "commit"]
      /\ UNCHANGED <<now, entries, responses, drawn, version, asked, target, held, removed, new>>
      /\ \A o \in Proxies \ {p} : ~WaitsToInsert(p, o)
  BY DEF Insert, tables
<1>2. pc'[p] = "commit" /\ \A o \in Proxies \ {p} : SameProcess(o)
  BY <1>1 DEF SInv, Typed, SameProcess
<1>3. Typed'
  BY <1>1 DEF SInv, Typed, Stations
<1>4. HandOf(p)'
  BY <1>1, <1>2 DEF SInv, AtHand, HandOf, Storing, Aiming
<1>5. HoldOf(p)'
  BY <1>1, <1>2 DEF SInv, LocksHold, HoldOf, Response, SameIdentity, Storing
<1>6. AtHand' /\ LocksHold'
  BY <1>1, <1>2, <1>4, <1>5, OthersWait DEF SInv, LocksHold
<1>7. RefsNameRows'
  BY <1>1 DEF SInv, RefsNameRows
<1>8. IndexHolds'
  BY <1>1, <1>2 DEF SInv, IndexHolds, Conflicts, WaitsToInsert, SameIdentity, SameProcess
<1>9. RowsArePaired' /\ OneEntryPerIdentity'
  BY <1>1 DEF SInv, RowsArePaired, OneEntryPerIdentity, Response, SameIdentity
<1> QED BY <1>3, <1>6, <1>7, <1>8, <1>9 DEF SInv

-----------------------------------------------------------------------------
\* The response of a row goes with the row.
LEMMA ResponsesOfRows ==
  ASSUME SInv, NEW gone \in SUBSET entries
  PROVE  responses \ {Response(e) : e \in gone} = {Response(e) : e \in entries \ gone}
<1>1. \A e, f \in entries : Response(e) = Response(f) => e = f
  BY DEF SInv, RowsArePaired, Response
<1>2. responses = {Response(e) : e \in entries}
  BY DEF SInv, RowsArePaired
<1> QED BY <1>1, <1>2

LEMMA CommitKeeps ==
  ASSUME SInv, NEW p \in Proxies, Commit(p)
  PROVE  SInv'
<1> DEFINE row == new[p]
           gone == held[p]
<1>1. /\ pc[p] = "commit" /\ Ends(p)
      /\ entries' = (entries \ gone) \cup {row}
      /\ responses' = (responses \ removed[p]) \cup {Response(row)}
      /\ UNCHANGED <<now, drawn, version>>
  BY DEF Commit
<1>2. row # Nothing /\ row \in Entry
  BY <1>1 DEF SInv, AtHand, HandOf, Typed, Storing
<1>3. gone \subseteq entries /\ removed[p] = {Response(e) : e \in gone}
  BY <1>1 DEF SInv, LocksHold, HoldOf
<1>4. \A e \in entries \ gone : ~SameIdentity(e, row)
  BY <1>1 DEF SInv, IndexHolds, Conflicts
<1>5. row.ref \in drawn /\ \A e \in entries : e.ref # row.ref
  BY <1>2 DEF SInv, RefsNameRows
<1>6. \A o \in Proxies : /\ target[o] # Nothing => target[o].ref # row.ref
                         /\ o # p /\ new[o] # Nothing => new[o].ref # row.ref
  BY <1>2 DEF SInv, RefsNameRows
<1>7. \A o \in Proxies \ {p} : held[o] \cap gone = {} /\ held[o] \subseteq entries
  BY DEF SInv, LocksHold, HoldOf
<1>8. \A o \in Proxies \ {p} : pc[o] = "commit" => ~SameIdentity(new[o], row)
  BY <1>1 DEF SInv, IndexHolds
<1>9. /\ Typed' /\ HandOf(p)' /\ HoldOf(p)' /\ \A o \in Proxies \ {p} : SameProcess(o)
      /\ pc'[p] = "idle" /\ target'[p] = Nothing /\ held'[p] = {} /\ new'[p] = Nothing
  <2>1. now' \in Nat /\ entries' \subseteq Entry /\ version' \in [Proxies -> Versions]
        /\ \A o \in Proxies \ {p} : version'[o] = version[o]
    BY <1>1, <1>2 DEF SInv, Typed
  <2> HIDE DEF row, gone
  <2> QED BY <1>1, <2>1, EndsAt
<1> HIDE DEF row, gone
<1>10. AtHand'
  BY <1>1, <1>9, OtherHand DEF AtHand
<1>11. LocksHold'
  <2>1. ASSUME NEW o \in Proxies \ {p} PROVE HoldOf(o)'
    <3>1. held[o] \subseteq entries'
      BY <1>1, <1>7
    <3>2. target[o] # Nothing /\ target[o] \in entries' => target[o] \in entries
      BY <1>1, <1>6
    <3> QED BY <1>9, <3>1, <3>2, OtherHold
  <2>2. \A o, q \in Proxies : o # q => held'[o] \cap held'[q] = {}
    BY <1>9 DEF SInv, LocksHold, SameProcess
  <2> QED BY <1>9, <2>1, <2>2 DEF LocksHold
<1>12. RefsNameRows'
  <2>1. \A e \in entries' : e.ref \in drawn'
    BY <1>1, <1>5 DEF SInv, RefsNameRows
  <2>2. \A o \in Proxies : target'[o] # Nothing =>
          /\ target'[o].ref \in drawn'
          /\ \A e \in entries' : e.ref = target'[o].ref => e = target'[o]
    BY <1>1, <1>6, <1>9 DEF SInv, RefsNameRows, SameProcess
  <2>3. \A o \in Proxies : new'[o] # Nothing =>
          /\ new'[o].ref \in drawn'
          /\ \A e \in entries' : e.ref # new'[o].ref
          /\ \A q \in Proxies :
               /\ target'[q] # Nothing => target'[q].ref # new'[o].ref
               /\ q # o /\ new'[q] # Nothing => new'[q].ref # new'[o].ref
    BY <1>1, <1>6, <1>9 DEF SInv, RefsNameRows, SameProcess
  <2> QED BY <2>1, <2>2, <2>3 DEF RefsNameRows
<1>13. IndexHolds'
  <2>1. \A o \in Proxies : pc'[o] = "commit" => Conflicts(o)' = {}
    BY <1>1, <1>8, <1>9 DEF SInv, IndexHolds, Conflicts, SameIdentity, SameProcess
  <2>2. \A o, q \in Proxies :
          pc'[o] = "commit" /\ pc'[q] = "commit" /\ SameIdentity(new'[o], new'[q]) => o = q
    BY <1>1, <1>9 DEF SInv, IndexHolds, SameProcess
  <2> QED BY <2>1, <2>2 DEF IndexHolds, SameIdentity
<1>14. RowsArePaired'
  <2>1. responses' = {Response(e) : e \in entries \ gone} \cup {Response(row)}
    BY <1>1, <1>3, ResponsesOfRows
  <2>2. responses' = {Response(e) : e \in entries'}
    BY <1>1, <2>1
  <2>3. \A e, f \in entries' : e.ref = f.ref => e = f
    BY <1>1, <1>5 DEF SInv, RowsArePaired
  <2> QED BY <2>2, <2>3 DEF RowsArePaired, Response
<1>15. OneEntryPerIdentity'
  BY <1>1, <1>4 DEF SInv, OneEntryPerIdentity, SameIdentity
<1> QED BY <1>9, <1>10, <1>11, <1>12, <1>13, <1>14, <1>15 DEF SInv

-----------------------------------------------------------------------------
\* Counting a hit and cleaning up: an entry is locked that nobody has locked.
LEMMA LockedAt ==
  ASSUME SInv, NEW p \in Proxies, NEW at \in {"counted", "cleanMore"},
         pc[p] \in {"count", "clean"}, ~LockedByOther(p, target[p]),
         held' = [held EXCEPT ![p] = entries \cap {target[p]}],
         pc' = [pc EXCEPT ![p] = at],
         UNCHANGED <<now, tables, drawn, version, asked, target, removed, new>>
  PROVE  SInv'
<1>1. UNCHANGED <<entries, responses>>
  BY DEF tables
<1>2. /\ held'[p] = entries \cap {target[p]} /\ pc'[p] = at
      /\ \A o \in Proxies \ {p} : SameProcess(o)
  BY DEF SInv, Typed, SameProcess
<1>3. Typed'
  BY <1>1 DEF SInv, Typed, Stations
<1>4. HandOf(p)'
  BY <1>2 DEF SInv, AtHand, HandOf, Storing, Aiming
<1>5. HoldOf(p)'
  BY <1>1, <1>2 DEF SInv, LocksHold, HoldOf, Storing
<1>6. \A o \in Proxies \ {p} : held'[p] \cap held[o] = {}
  BY <1>2 DEF LockedByOther
<1>7. at \in Stations /\ at # "commit" /\ pc[p] # "commit"
  BY DEF Stations
<1> QED BY <1>1, <1>2, <1>3, <1>4, <1>5, <1>6, <1>7, MovesOn

LEMMA CountsKeeps ==
  ASSUME SInv, NEW p \in Proxies, Counts(p)
  PROVE  SInv'
BY LockedAt DEF Counts

\* The order in which a cleanup deletes.
LEMMA EntryFirst ==
  ASSUME NEW p \in Proxies
  PROVE  /\ Cleans(p, "entry") <=> pc[p] = "clean"
         /\ Cleans(p, "response") <=> pc[p] = "cleanMore"
BY DEF Cleans, CleanOrder

LEMMA CleansEntryKeeps ==
  ASSUME SInv, NEW p \in Proxies, CleansEntry(p)
  PROVE  SInv'
<1>1. pc[p] = "clean"
  BY EntryFirst DEF CleansEntry
<1>2. pc' = [pc EXCEPT ![p] = "cleanMore"]
  BY <1>1 DEF CleansEntry, CleanAdvances, SInv, Typed
<1> QED BY <1>1, <1>2, LockedAt DEF CleansEntry

LEMMA CleansResponseKeeps ==
  ASSUME SInv, NEW p \in Proxies, CleansResponse(p)
  PROVE  SInv'
<1>1. pc[p] = "cleanMore"
  BY EntryFirst DEF CleansResponse
<1>2. /\ pc' = [pc EXCEPT ![p] = "cleaned"]
      /\ removed' = [removed EXCEPT ![p] = responses \cap {Response(target[p])}]
      /\ UNCHANGED <<now, entries, responses, drawn, version, asked, target, held, new>>
  BY <1>1 DEF CleansResponse, CleanAdvances, SInv, Typed, tables
<1>3. /\ pc'[p] = "cleaned" /\ removed'[p] = responses \cap {Response(target[p])}
      /\ \A o \in Proxies \ {p} : SameProcess(o)
  BY <1>2 DEF SInv, Typed, SameProcess
<1>4. Typed'
  BY <1>2 DEF SInv, Typed, Stations
<1>5. HandOf(p)'
  BY <1>1, <1>2, <1>3 DEF SInv, AtHand, HandOf, Storing, Aiming
<1>6. HoldOf(p)'
  <2>1. held[p] = entries \cap {target[p]} /\ held[p] \subseteq entries
    BY <1>1 DEF SInv, LocksHold, HoldOf
  <2>2. target[p] # Nothing
    BY <1>1 DEF SInv, AtHand, HandOf, Aiming
  <2>3. \A e \in entries : Response(e) = Response(target[p]) => e = target[p]
    BY <2>2 DEF SInv, RefsNameRows, Response
  <2>4. responses = {Response(e) : e \in entries}
    BY DEF SInv, RowsArePaired
  <2>5. removed'[p] = {Response(e) : e \in held[p]}
    BY <1>3, <2>1, <2>3, <2>4
  <2> QED BY <1>2, <1>3, <2>1, <2>5 DEF HoldOf, Storing, Response
<1>7. \A o \in Proxies \ {p} : held'[p] \cap held[o] = {}
  BY <1>2 DEF SInv, LocksHold
<1> QED BY <1>1, <1>2, <1>3, <1>4, <1>5, <1>6, <1>7, MovesOn DEF Stations

LEMMA CleanCommitsKeeps ==
  ASSUME SInv, NEW p \in Proxies, CleanCommits(p)
  PROVE  SInv'
<1> DEFINE gone == held[p]
<1>1. /\ pc[p] = "cleaned" /\ Ends(p)
      /\ entries' = entries \ gone
      /\ responses' = responses \ removed[p]
      /\ UNCHANGED <<now, drawn, version>>
  BY DEF CleanCommits
<1>2. gone \subseteq entries /\ removed[p] = {Response(e) : e \in gone}
  BY <1>1 DEF SInv, LocksHold, HoldOf
<1>3. \A o \in Proxies \ {p} : held[o] \cap gone = {} /\ held[o] \subseteq entries
  BY DEF SInv, LocksHold, HoldOf
<1>4. /\ Typed' /\ HandOf(p)' /\ HoldOf(p)' /\ \A o \in Proxies \ {p} : SameProcess(o)
      /\ pc'[p] = "idle" /\ target'[p] = Nothing /\ held'[p] = {} /\ new'[p] = Nothing
  <2>1. now' \in Nat /\ entries' \subseteq Entry /\ version' \in [Proxies -> Versions]
        /\ \A o \in Proxies \ {p} : version'[o] = version[o]
    BY <1>1 DEF SInv, Typed
  <2> HIDE DEF gone
  <2> QED BY <1>1, <2>1, EndsAt
<1> HIDE DEF gone
<1>5. responses' = {Response(e) : e \in entries'}
  BY <1>1, <1>2, ResponsesOfRows
<1>6. AtHand'
  BY <1>1, <1>4, OtherHand DEF AtHand
<1>7. LocksHold'
  <2>1. ASSUME NEW o \in Proxies \ {p} PROVE HoldOf(o)'
    BY <1>1, <1>3, <1>4, OtherHold
  <2>2. \A o, q \in Proxies : o # q => held'[o] \cap held'[q] = {}
    BY <1>4 DEF SInv, LocksHold, SameProcess
  <2> QED BY <1>4, <2>1, <2>2 DEF LocksHold
<1>8. RefsNameRows'
  BY <1>1, <1>4 DEF SInv, RefsNameRows, SameProcess
<1>9. IndexHolds'
  BY <1>1, <1>4 DEF SInv, IndexHolds, Conflicts, SameIdentity, SameProcess
<1>10. RowsArePaired'
  BY <1>1, <1>5 DEF SInv, RowsArePaired, Response
<1>11. OneEntryPerIdentity'
  BY <1>1 DEF SInv, OneEntryPerIdentity, SameIdentity
<1> QED BY <1>4, <1>6, <1>7, <1>8, <1>9, <1>10, <1>11 DEF SInv

-----------------------------------------------------------------------------
LEMMA SeekKeeps ==
  ASSUME SInv, NEW p \in Proxies, NEW prompt \in Prompts, Seek(p, prompt)
  PROVE  SInv'
<1>1. PICK e \in Compatible(p) :
        /\ pc[p] = "idle" /\ Near(e.prompt, prompt)
        /\ asked' = [asked EXCEPT ![p] = prompt]
        /\ target' = [target EXCEPT ![p] = e]
        /\ pc' = [pc EXCEPT ![p] = "read"]
        /\ UNCHANGED <<now, tables, drawn, version, held, removed, new, reply>>
  BY DEF Seek
<1>2. e \in entries /\ e \in Entry /\ e.version = version[p]
  BY DEF Compatible, SInv, Typed
<1>3. /\ asked'[p] = prompt /\ target'[p] = e /\ pc'[p] = "read"
      /\ \A o \in Proxies \ {p} : SameProcess(o)
      /\ UNCHANGED <<entries, responses>>
  BY <1>1 DEF SInv, Typed, SameProcess, tables
<1>4. Typed'
  BY <1>1, <1>2, <1>3 DEF SInv, Typed, Stations
<1>5. HandOf(p)'
  BY <1>1, <1>2, <1>3 DEF SInv, AtHand, HandOf, Storing
<1>6. HoldOf(p)'
  BY <1>1, <1>3 DEF SInv, LocksHold, HoldOf, Storing
<1>7. \A o \in Proxies \ {p} : held'[p] \cap held[o] = {}
  BY <1>1 DEF SInv, LocksHold
<1> QED BY <1>1, <1>2, <1>3, <1>4, <1>5, <1>6, <1>7, MovesOn DEF Stations

LEMMA ReadKeeps ==
  ASSUME SInv, NEW p \in Proxies, ReadHit(p) \/ ReadFails(p)
  PROVE  SInv'
<1>1. /\ pc[p] = "read" /\ \E at \in {"count", "clean"} : pc' = [pc EXCEPT ![p] = at]
      /\ UNCHANGED <<now, entries, responses, drawn, version, asked, target, held, removed, new>>
  BY DEF ReadHit, ReadFails, tables
<1>2. PICK at \in {"count", "clean"} : pc' = [pc EXCEPT ![p] = at]
  BY <1>1
<1>3. pc'[p] = at /\ \A o \in Proxies \ {p} : SameProcess(o)
  BY <1>1, <1>2 DEF SInv, Typed, SameProcess
<1>4. Typed'
  BY <1>1, <1>2 DEF SInv, Typed, Stations
<1>5. HandOf(p)'
  BY <1>1, <1>3 DEF SInv, AtHand, HandOf, Storing, Aiming
<1>6. HoldOf(p)'
  BY <1>1, <1>3 DEF SInv, LocksHold, HoldOf, Storing
<1>7. \A o \in Proxies \ {p} : held'[p] \cap held[o] = {}
  BY <1>1 DEF SInv, LocksHold
<1>8. at \in Stations /\ at # "commit" /\ pc[p] # "commit" /\ target'[p] = target[p]
  BY <1>1 DEF Stations
<1> QED BY <1>1, <1>2, <1>3, <1>4, <1>5, <1>6, <1>7, <1>8, MovesOn

LEMMA TickKeeps ==
  ASSUME SInv, Tick
  PROVE  SInv'
<1>1. /\ now' = now + 1
      /\ UNCHANGED <<entries, responses, drawn, version, pc, asked, target, held, removed, new>>
  BY DEF Tick, tables
<1>2. Typed'
  BY <1>1 DEF SInv, Typed
<1>3. AtHand'
  <2>1. \A p \in Proxies : new[p] # Nothing =>
          new[p].expires \in Nat /\ new[p].expires <= now + TTL
    BY DEF SInv, AtHand, HandOf, Typed, Entry
  <2>2. \A p \in Proxies : new[p] # Nothing => new[p].expires <= now' + TTL
    BY <1>1, <2>1 DEF SInv, Typed
  <2> QED BY <1>1, <2>2 DEF SInv, AtHand, HandOf, SameIdentity
<1> QED BY <1>1, <1>2, <1>3 DEF SInv, LocksHold, HoldOf, RefsNameRows, IndexHolds, Conflicts,
          SameIdentity, RowsArePaired, Response, OneEntryPerIdentity

LEMMA NextSInv == SInv /\ [Next]_vars => SInv'
<1> SUFFICES ASSUME SInv, [Next]_vars PROVE SInv'
  OBVIOUS
<1>1. ASSUME NEW p \in Proxies, NEW prompt \in Prompts, StoreBegins(p, prompt) PROVE SInv'
  BY <1>1, StoreBeginsKeeps
<1>2. ASSUME NEW p \in Proxies, NEW prompt \in Prompts, Seek(p, prompt) PROVE SInv'
  BY <1>2, SeekKeeps
<1>3. ASSUME NEW p \in Proxies, StoreStep(p) PROVE SInv'
  BY <1>3, DeleteKeeps, DeleteResumesKeeps, DeletesResponsesKeeps, InsertKeeps, CommitKeeps
     DEF StoreStep
<1>4. ASSUME NEW p \in Proxies, Rollback(p) \/ CountEnds(p) \/ CleanFails(p) PROVE SInv'
  <2>1. Ends(p) /\ UNCHANGED <<now, tables, drawn, version>>
    BY <1>4 DEF Rollback, CountEnds, CleanFails
  <2>2. version' \in [Proxies -> Versions] /\ \A o \in Proxies \ {p} : version'[o] = version[o]
    BY <2>1 DEF SInv, Typed
  <2> QED BY <2>1, <2>2, EndsWithoutEffect
<1>5. ASSUME NEW p \in Proxies, Restart(p) PROVE SInv'
  <2>1. Ends(p) /\ UNCHANGED <<now, tables, drawn>>
    BY <1>5 DEF Restart
  <2>2. version' \in [Proxies -> Versions] /\ \A o \in Proxies \ {p} : version'[o] = version[o]
    BY <1>5 DEF Restart, SInv, Typed
  <2> QED BY <2>1, <2>2, EndsWithoutEffect
<1>6. ASSUME NEW p \in Proxies, LookupStep(p), ~CountEnds(p), ~CleanFails(p) PROVE SInv'
  BY <1>6, ReadKeeps, CountsKeeps, CleansEntryKeeps, CleansResponseKeeps, CleanCommitsKeeps
     DEF LookupStep
<1>7. CASE Tick
  BY <1>7, TickKeeps
<1>8. CASE UNCHANGED vars
  <2>1. UNCHANGED <<now, entries, responses, drawn, version, pc, asked, target, held, removed, new>>
    BY <1>8 DEF vars, tables
  <2> QED BY <2>1 DEF SInv, Typed, AtHand, HandOf, LocksHold, HoldOf, RefsNameRows, IndexHolds,
            Conflicts, SameIdentity, RowsArePaired, Response, OneEntryPerIdentity
<1> QED BY <1>1, <1>2, <1>3, <1>4, <1>5, <1>6, <1>7, <1>8 DEF Next

LEMMA CacheInvariantHolds == Spec => []SInv
BY InitSInv, NextSInv, PTL DEF Spec

(***************************************************************************)
(* Entries and responses stay paired through supersessions, cleanups,      *)
(* rollbacks and restarts (store_response, _cleanup_candidate).            *)
(***************************************************************************)
THEOREM TablesStayPaired == Spec => []RowsArePaired
<1>1. SInv => RowsArePaired
  BY DEF SInv
<1> QED BY <1>1, CacheInvariantHolds, PTL

(***************************************************************************)
(* Concurrent stores of an identity leave one entry (store_response and    *)
(* the unique index of the migration).                                     *)
(***************************************************************************)
THEOREM IdentitiesStayUnique == Spec => []OneEntryPerIdentity
<1>1. SInv => OneEntryPerIdentity
  BY DEF SInv
<1> QED BY <1>1, CacheInvariantHolds, PTL

-----------------------------------------------------------------------------
\* Nobody ever waits for a response: who deletes one has locked its entry.
LEMMA ResponsesAreFree ==
  ASSUME SInv, NEW p \in Proxies, NEW o \in Proxies \ {p}
  PROVE  /\ pc[p] = "responses" => \A e \in held[p] : Response(e) \notin removed[o]
         /\ pc[p] = "cleanMore" => Response(target[p]) \notin removed[o]
<1>1. /\ \A f \in held[o] : f \in entries
      /\ \A row \in removed[o] : \E f \in held[o] : row = Response(f)
      /\ held[p] \cap held[o] = {} /\ held[p] \subseteq entries
  BY DEF SInv, LocksHold, HoldOf
<1>2. \A e, f \in entries : Response(e) = Response(f) => e = f
  BY DEF SInv, RowsArePaired, Response
<1>3. pc[p] = "responses" => \A e \in held[p] : Response(e) \notin removed[o]
  BY <1>1, <1>2
<1>4. ASSUME pc[p] = "cleanMore", Response(target[p]) \in removed[o] PROVE FALSE
  <2>1. PICK f \in held[o] : Response(target[p]) = Response(f)
    BY <1>1, <1>4
  <2>2. f = target[p]
    BY <1>1, <1>4, <2>1 DEF SInv, AtHand, HandOf, Aiming, RefsNameRows, Response
  <2>3. f \in held[p]
    BY <1>1, <1>4, <2>2 DEF SInv, LocksHold, HoldOf
  <2> QED BY <1>1, <2>3
<1> QED BY <1>3, <1>4

(***************************************************************************)
(* The waits of stores, cleanups and counted hits never form a circle:     *)
(* who waits for a lock on an entry holds none, and whoever waits is at an *)
(* earlier stage than whom it waits for (store_response, lookup_result,    *)
(* and the order of the two DELETEs of _cleanup_candidate).                *)
(***************************************************************************)
THEOREM WaitsEnd == Spec => []NoCircle
<1> DEFINE
     Stage(p) == IF pc[p] \in {"waiting", "count", "clean"} THEN 3
                 ELSE IF pc[p] # "insert" THEN 0
                 ELSE IF held[p] = {} THEN 2 ELSE 1
<1>1. ASSUME SInv, NEW p \in Proxies, NEW o \in Proxies \ {p}, WaitsFor(p, o)
      PROVE  Stage(o) < Stage(p)
  <2>1. \A q \in Proxies : held[q] # {} => Stage(q) \in {0, 1}
    BY <1>1 DEF SInv, LocksHold, HoldOf
  <2>2. CASE pc[p] \in {"waiting", "count", "clean"} /\ target[p] \in held[o]
    BY <2>1, <2>2
  <2>3. CASE pc[p] = "insert" /\ WaitsToInsert(p, o)
    <3>1. Stage(p) \in {1, 2}
      BY <2>3
    <3>2. CASE pc[o] = "commit"
      BY <3>1, <3>2
    <3>3. ASSUME NEW e \in Conflicts(p), e \in held[o] PROVE Stage(o) < Stage(p)
      <4>1. held[p] = {}
        BY <1>1, <2>3, <3>3 DEF SInv, LocksHold, HoldOf, Conflicts, OneEntryPerIdentity,
                                SameIdentity, Storing
      <4> QED BY <2>1, <2>3, <3>3, <4>1
    <3> QED BY <2>3, <3>2, <3>3 DEF WaitsToInsert
  <2> HIDE DEF Stage
  <2> QED BY <1>1, <2>2, <2>3, EntryFirst, ResponsesAreFree DEF WaitsFor
<1>2. SInv => NoCircle
  <2> SUFFICES ASSUME SInv, NEW some \in (SUBSET Proxies) \ {{}}
               PROVE  \E p \in some : \A o \in some \ {p} : ~WaitsFor(p, o)
    BY DEF NoCircle
  <2>1. \A p \in some : Stage(p) \in 0 .. 3
    OBVIOUS
  <2>2. \A p \in some : \A o \in some \ {p} : WaitsFor(p, o) => Stage(o) < Stage(p)
    BY <1>1
  <2> HIDE DEF Stage
  <2>3. \E p \in some : \A o \in some : Stage(p) <= Stage(o)
    <3>1. CASE \E p \in some : Stage(p) = 0
      BY <2>1, <3>1
    <3>2. CASE ~(\E p \in some : Stage(p) = 0) /\ \E p \in some : Stage(p) = 1
      BY <2>1, <3>2
    <3>3. CASE ~(\E p \in some : Stage(p) \in {0, 1}) /\ \E p \in some : Stage(p) = 2
      BY <2>1, <3>3
    <3>4. CASE ~(\E p \in some : Stage(p) \in {0, 1, 2})
      BY <2>1, <3>4
    <3> QED BY <3>1, <3>2, <3>3, <3>4
  <2>4. PICK p \in some : \A o \in some : Stage(p) <= Stage(o)
    BY <2>3
  <2>5. \A o \in some \ {p} : ~WaitsFor(p, o)
    BY <2>1, <2>2, <2>4
  <2> QED BY <2>5
<1> QED BY <1>2, CacheInvariantHolds, PTL

-----------------------------------------------------------------------------
\* Which steps change the tables at all.
LEMMA TableSteps ==
  ASSUME [Next]_vars
  PROVE  UNCHANGED tables \/ \E p \in Proxies : Commit(p) \/ CleanCommits(p)
BY DEF Next, vars, tables, StoreBegins, Seek, StoreStep, Delete, DeleteResumes, DeletesResponses,
       Insert, Rollback, LookupStep, ReadHit, Counts, CountEnds, ReadFails, CleansEntry,
       CleansResponse, CleanFails, Restart, Tick

(***************************************************************************)
(* A release leaves the entries of other versions alone: only a store of   *)
(* the same identity or the cleanup of that very entry removes one.        *)
(***************************************************************************)
THEOREM VersionsStayApart == Spec => QuarantineKeepsEntries
<1> DEFINE A == \A e \in entries \ entries' :
                  \/ \E f \in entries' : SameIdentity(e, f)
                  \/ \E p \in Proxies : pc[p] = "cleaned" /\ target[p] = e
<1>1. ASSUME SInv, [Next]_vars PROVE A
  <2>1. ASSUME NEW p \in Proxies, Commit(p) PROVE A
    <3>1. entries' = (entries \ held[p]) \cup {new[p]}
      BY <2>1 DEF Commit
    <3>2. \A e \in held[p] : SameIdentity(e, new[p])
      BY <1>1, <2>1 DEF Commit, SInv, LocksHold, HoldOf, Storing
    <3> QED BY <3>1, <3>2
  <2>2. ASSUME NEW p \in Proxies, CleanCommits(p) PROVE A
    <3>1. pc[p] = "cleaned" /\ entries' = entries \ held[p]
      BY <2>2 DEF CleanCommits
    <3>2. held[p] \subseteq {target[p]}
      BY <1>1, <3>1 DEF SInv, LocksHold, HoldOf
    <3> QED BY <3>1, <3>2
  <2>3. CASE UNCHANGED tables
    BY <2>3 DEF tables
  <2> HIDE DEF A
  <2> QED BY <1>1, <2>1, <2>2, <2>3, TableSteps
<1>2. SInv /\ [Next]_vars => [A]_vars
  BY <1>1
<1>3. [][A]_vars <=> QuarantineKeepsEntries
  BY DEF QuarantineKeepsEntries
<1> HIDE DEF A
<1> QED BY <1>2, <1>3, CacheInvariantHolds, PTL DEF Spec

-----------------------------------------------------------------------------(***************************************************************************)
(* Statements and transactions never show: the cache implements            *)
(* SemanticReplay.  A commit is a Put, a cleanup an Evict, and a hit that  *)
(* reads the response after the candidate still replays a committed pair.  *)
(***************************************************************************)
THEOREM CacheImplementsReplay == Spec => ImplementsReplay
<1>1. Init => Promise!Init
  BY DEF Init, Promise!Init, Replayable, Promise!NoReply, NoReply
<1>2. ASSUME SInv, SInv', [Next]_vars
      PROVE  Promise!Next \/ UNCHANGED Promise!vars
  <2>1. Replayable = entries /\ Replayable' = entries'
    <3>1. RowsArePaired /\ RowsArePaired'
      BY <1>2 DEF SInv
    <3> QED BY <3>1 DEF RowsArePaired, Replayable, Response
  <2>2. ASSUME NEW p \in Proxies, Commit(p) PROVE Promise!Next
    <3> DEFINE row == new[p]
    <3>1. /\ pc[p] = "commit"
          /\ entries' = (entries \ held[p]) \cup {row}
          /\ UNCHANGED <<now, reply>>
      BY <2>2 DEF Commit
    <3>2. row # Nothing /\ row \in Entry /\ row.expires <= now + TTL
      BY <1>2, <3>1 DEF SInv, AtHand, HandOf, Typed, Storing
    <3>3. /\ row.version \in Versions /\ row.prompt \in Prompts /\ row.ref \in Refs
          /\ row.expires \in 0 .. now + TTL
          /\ row = [version |-> row.version, prompt |-> row.prompt,
                    ref |-> row.ref, expires |-> row.expires]
      BY <1>2, <3>2 DEF Entry, SInv, Typed
    <3>4. \A e \in entries : e.ref # row.ref
      BY <1>2, <3>2 DEF SInv, RefsNameRows
    <3>5. \A e \in held[p] : SameIdentity(e, row)
      BY <1>2, <3>1 DEF SInv, LocksHold, HoldOf, Storing
    <3>6. \A e \in entries \ held[p] : ~SameIdentity(e, row)
      BY <1>2, <3>1 DEF SInv, IndexHolds, Conflicts
    <3> HIDE DEF row
    <3>7. entries' = {e \in entries : ~Promise!SameIdentity(e, row)} \cup {row}
      BY <3>1, <3>5, <3>6 DEF Promise!SameIdentity, SameIdentity
    <3>8. Promise!Put
      BY <2>1, <3>1, <3>3, <3>4, <3>7 DEF Promise!Put
    <3> QED BY <3>8 DEF Promise!Next
  <2>3. ASSUME NEW p \in Proxies, CleanCommits(p) PROVE Promise!Next
    <3>1. entries' \in SUBSET entries /\ UNCHANGED <<now, reply>>
      BY <2>3 DEF CleanCommits
    <3> QED BY <2>1, <3>1 DEF Promise!Next, Promise!Evict
  <2>4. ASSUME NEW p \in Proxies, ReadHit(p) PROVE Promise!Next
    <3> DEFINE row == target[p]
    <3>1. /\ pc[p] = "read" /\ Readable(row)
          /\ reply' = [reply EXCEPT ![p] = [kind |-> "hit", ref |-> row.ref,
                                   version |-> version[p], prompt |-> asked[p]]]
          /\ UNCHANGED <<now, entries>>
      BY <2>4 DEF ReadHit, tables
    <3>2. /\ row # Nothing /\ row.version = version[p] /\ asked[p] \in Prompts
          /\ Near(row.prompt, asked[p])
      BY <1>2, <3>1 DEF SInv, AtHand, HandOf, Aiming
    <3>3. row \in entries
      BY <1>2, <3>1, <3>2 DEF Readable, Response, SInv, RowsArePaired, RefsNameRows
    <3>4. row.expires > now /\ version[p] \in Versions
      BY <1>2, <3>1 DEF Readable, SInv, Typed
    <3> HIDE DEF row
    <3>5. Promise!Replay(p, version[p], asked[p])
      BY <2>1, <3>1, <3>2, <3>3, <3>4 DEF Promise!Replay
    <3> QED BY <3>2, <3>4, <3>5 DEF Promise!Next
  <2>5. ASSUME Tick PROVE Promise!Next
    BY <2>1, <2>5 DEF Tick, tables, Promise!Next, Promise!Advance
  <2>6. ASSUME NEW p \in Proxies, CountEnds(p) \/ Restart(p) PROVE Promise!Next
    <3>1. reply' = [reply EXCEPT ![p] = NoReply] /\ UNCHANGED <<now, entries>>
      BY <2>6 DEF CountEnds, Restart, tables
    <3> QED BY <2>1, <3>1 DEF Promise!Next, Promise!Return, Promise!NoReply, NoReply
  <2>7. ASSUME UNCHANGED <<now, entries, reply>> PROVE UNCHANGED Promise!vars
    BY <2>1, <2>7 DEF Promise!vars
  <2>8. \/ \E p \in Proxies : Commit(p) \/ CleanCommits(p) \/ ReadHit(p)
                           \/ CountEnds(p) \/ Restart(p)
        \/ Tick
        \/ UNCHANGED <<now, entries, reply>>
    BY <1>2 DEF Next, vars, tables, StoreBegins, Seek, StoreStep, Delete, DeleteResumes,
          DeletesResponses, Insert, Rollback, LookupStep, Counts, ReadFails, CleansEntry,
          CleansResponse, CleanFails
  <2> QED BY <2>2, <2>3, <2>4, <2>5, <2>6, <2>7, <2>8
<1>3. SInv /\ SInv' /\ [Next]_vars => [Promise!Next]_(Promise!vars)
  BY <1>2
<1> QED BY <1>1, <1>3, CacheInvariantHolds, PTL DEF Spec, ImplementsReplay, Promise!Spec
=============================================================================
