---------------------------- MODULE RequestLedger ----------------------------
(***************************************************************************)
(* The requests table in PostgreSQL while it is cut over: proxies append   *)
(* rows (stats.py), scripts/backfill_postgres.py copies the SQLite ledger  *)
(* into it once, and scripts/backfill_measurement_tag.py stamps all rows   *)
(* that are older than the cutover.  One action per SQL statement whose    *)
(* place in the interleaving matters.  Transactions are READ COMMITTED:    *)
(* each statement sees what is committed, and what its own transaction     *)
(* did.  The checksum of a source is its number of rows, as it only grows. *)
(***************************************************************************)
EXTENDS Naturals, FiniteSets, FiniteSetsExt

CONSTANTS
  Writers,     \* calls of log_request, one at a time each
  Backfills,   \* runs of backfill_postgres.py
  Taggers,     \* runs of backfill_measurement_tag.py
  Live,        \* origin of a row that a proxy wrote
  None,        \* no run, no cutover
  MaxSource,   \* bound on the rows of the SQLite ledger
  MaxLive,     \* bound on the rows that proxies write
  MaxRuns      \* bound on the runs of each script process

Procs == Writers \cup Backfills \cup Taggers

ASSUME BoundsAreNaturals == MaxSource \in Nat \ {0} /\ MaxLive \in Nat /\ MaxRuns \in Nat
ASSUME ProcessesAreFinite == IsFiniteSet(Procs)
ASSUME KindsDiffer ==
  Writers \cap Backfills = {} /\ Writers \cap Taggers = {} /\ Backfills \cap Taggers = {}
ASSUME NoneIsNoNumber == None \notin Nat

\* A row of requests: where it comes from, which source it was copied with.
Row == [id : Nat, from : (1 .. MaxSource) \cup {Live}, by : (0 .. MaxSource) \cup {None},
        tag : {"", "harness", "pre_p6_6_backfill"}]

Modes == {"AccessShare", "RowExclusive", "ShareRowExclusive", "AccessExclusive"}

VARIABLES
  source,       \* rows of the SQLite ledger: 1 .. source
  rows,         \* committed rows of requests
  markers,      \* committed checksums in backfill_batches
  markerTable,  \* whether backfill_batches exists: "absent", "present", or who creates it
  pc,           \* pc[p]: the statement that p executes next
  held,         \* held[p]: the modes in which p's transaction locks requests
  checksum,     \* checksum[p]: the rows a backfill has read from SQLite
  added,        \* added[p]: rows inserted by p and not yet committed
  runs,         \* runs[p]: how often the script p was started
  cutover       \* history: upper_id of the first committed tag run, or None

vars == <<source, rows, markers, markerTable, pc, held, checksum, added, runs, cutover>>

Init ==
  /\ source \in 0 .. 1
  /\ rows = {}
  /\ markers = {}
  /\ markerTable \in {"absent", "present"}
  /\ pc = [p \in Procs |-> "idle"]
  /\ held = [p \in Procs |-> {}]
  /\ checksum = [p \in Procs |-> None]
  /\ added = [p \in Procs |-> {}]
  /\ runs = [p \in Procs |-> 0]
  /\ cutover = None

-----------------------------------------------------------------------------
\* Locks and transactions of PostgreSQL.

Conflict(m, n) ==
  \/ "AccessExclusive" \in {m, n}
  \/ {m, n} = {"RowExclusive", "ShareRowExclusive"}
  \/ m = "ShareRowExclusive" /\ n = "ShareRowExclusive"

Blocks(q, p, mode) == q # p /\ \E n \in held[q] : Conflict(mode, n)

Free(p, mode) == \A q \in Procs : ~Blocks(q, p, mode)

Takes(p, mode) == Free(p, mode) /\ held' = [held EXCEPT ![p] = @ \cup {mode}]

Goes(p, step) == pc' = [pc EXCEPT ![p] = step]

\* p's transaction ends, its changes kept or not.
Ends(p) ==
  /\ Goes(p, "idle")
  /\ held' = [held EXCEPT ![p] = {}]
  /\ checksum' = [checksum EXCEPT ![p] = None]
  /\ added' = [added EXCEPT ![p] = {}]

\* The marker table and the marker that p created become visible, or vanish.
MarkerTableAfter(p, kept) ==
  markerTable' = IF markerTable = p THEN (IF kept THEN "present" ELSE "absent")
                 ELSE markerTable

\* The identity sequence of requests.  Only the order of the ids matters, so the
\* gaps that a rollback leaves are closed.
LastId == Max({0} \cup {r.id : r \in rows \cup UNION {added[p] : p \in Procs}})

\* Rows that copy the whole source with the given checksum.
CopiesOf(n) == {[id |-> LastId + i, from |-> i, by |-> n, tag |-> ""] : i \in 1 .. n}

-----------------------------------------------------------------------------
\* log_request -> _log_postgres: one INSERT, then COMMIT.  Without a DSN the row
\* goes to the SQLite ledger.

LogInserts(w, tag) ==
  /\ pc[w] = "idle"
  /\ Cardinality({r \in rows \cup UNION {added[p] : p \in Procs} : r.from = Live}) < MaxLive
  /\ Takes(w, "RowExclusive")
  /\ added' = [added EXCEPT ![w] =
       {[id |-> LastId + 1, from |-> Live, by |-> None, tag |-> tag]}]
  /\ Goes(w, "commit")
  /\ UNCHANGED <<source, rows, markers, markerTable, checksum, runs, cutover>>

LogCommits(w) ==
  /\ pc[w] = "commit"
  /\ rows' = rows \cup added[w]
  /\ Ends(w)
  /\ UNCHANGED <<source, markers, markerTable, runs, cutover>>

LogSqlite ==
  /\ source < MaxSource
  /\ source' = source + 1
  /\ UNCHANGED <<rows, markers, markerTable, pc, held, checksum, added, runs, cutover>>

\* The caller counts a failed write and goes on.
LogFails(w) ==
  /\ w \in Writers
  /\ pc[w] = "idle"
  /\ UNCHANGED vars

-----------------------------------------------------------------------------
\* run_backfill

\* SELECT * FROM the SQLite ledger, its checksum, and CREATE TABLE IF NOT EXISTS:
\* while another run is creating the table it waits, and fails with a unique
\* violation of the catalog when that run commits.
BackfillStarts(b) ==
  /\ pc[b] = "idle"
  /\ runs[b] < MaxRuns
  /\ runs' = [runs EXCEPT ![b] = @ + 1]
  /\ checksum' = [checksum EXCEPT ![b] = source]
  /\ Goes(b, IF markerTable \in Backfills THEN "waiting" ELSE "check")
  /\ markerTable' = IF markerTable = "absent" THEN b ELSE markerTable
  /\ UNCHANGED <<source, rows, markers, held, added, cutover>>

BackfillResumes(b) ==
  /\ pc[b] = "waiting"
  /\ \/ markerTable = "present" /\ Ends(b) /\ UNCHANGED markerTable
     \/ /\ markerTable = "absent"
        /\ markerTable' = b
        /\ Goes(b, "check")
        /\ UNCHANGED <<held, checksum, added>>
  /\ UNCHANGED <<source, rows, markers, runs, cutover>>

\* already_applied: leaving the connection's context commits the new table.
BackfillChecks(b) ==
  /\ pc[b] = "check"
  /\ \/ /\ checksum[b] \in markers
        /\ Ends(b)
        /\ MarkerTableAfter(b, TRUE)
     \/ /\ checksum[b] \notin markers
        /\ Goes(b, "count")
        /\ UNCHANGED <<held, checksum, added, markerTable>>
  /\ UNCHANGED <<source, rows, markers, runs, cutover>>

\* SELECT COUNT(*): a target with rows is refused.
BackfillCountsForever(b) ==     \* refused, but the connection is not closed
  /\ pc[b] = "count"
  /\ Takes(b, "AccessShare")
  /\ Goes(b, IF rows = {} THEN "insert" ELSE "refused")
  /\ UNCHANGED <<source, rows, markers, markerTable, checksum, added, runs, cutover>>
BackfillCounts(b) ==
  /\ pc[b] = "count"
  /\ Free(b, "AccessShare")
  /\ \/ /\ rows # {}
        /\ Ends(b)
        /\ MarkerTableAfter(b, TRUE)
     \/ /\ rows = {}
        /\ held' = [held EXCEPT ![b] = @ \cup {"AccessShare"}]
        /\ Goes(b, "insert")
        /\ UNCHANGED <<checksum, added, markerTable>>
  /\ UNCHANGED <<source, rows, markers, runs, cutover>>

\* All batches of _insert_batch: none of them is visible before the commit.
BackfillInsertsAtOnce(b) ==     \* each batch is committed
  /\ pc[b] = "insert"
  /\ Takes(b, "RowExclusive")
  /\ rows' = rows \cup CopiesOf(checksum[b])
  /\ Goes(b, "mark")
  /\ UNCHANGED <<source, markers, markerTable, checksum, added, runs, cutover>>
BackfillInserts(b) ==
  /\ pc[b] = "insert"
  /\ Takes(b, "RowExclusive")
  /\ added' = [added EXCEPT ![b] = CopiesOf(checksum[b])]
  /\ Goes(b, "mark")
  /\ UNCHANGED <<source, rows, markers, markerTable, checksum, runs, cutover>>

\* Another transaction has inserted the same checksum and is still open.
MarkerPending(b) ==
  \E p \in Backfills \ {b} : pc[p] = "commit" /\ checksum[p] = checksum[b]

\* _verify compares counts and sums on both sides, as they are now; different rows
\* have different sums.
Verified(b) ==
  LET seen == rows \cup added[b] IN
  /\ Cardinality(seen) = source
  /\ {r.from : r \in seen} = 1 .. source

\* INSERT INTO backfill_batches, then _verify.  UNIQUE (checksum) waits for an
\* open transaction with the same checksum, and then fails or not.
BackfillMarks(b) ==
  /\ pc[b] = "mark"
  /\ ~MarkerPending(b)
  /\ \/ /\ checksum[b] \notin markers
        /\ Verified(b)
        /\ Goes(b, "commit")
        /\ UNCHANGED <<held, checksum, added, markerTable>>
     \/ /\ checksum[b] \in markers \/ ~Verified(b)
        /\ Ends(b)
        /\ MarkerTableAfter(b, FALSE)
  /\ UNCHANGED <<source, rows, markers, runs, cutover>>

BackfillCommits(b) ==
  /\ b \in Backfills
  /\ pc[b] = "commit"
  /\ rows' = rows \cup added[b]
  /\ markers' = markers \cup {checksum[b]}
  /\ MarkerTableAfter(b, TRUE)
  /\ Ends(b)
  /\ UNCHANGED <<source, runs, cutover>>

-----------------------------------------------------------------------------
\* backfill_measurement_tag.run_backfill

\* Neither LOCK TABLE nor ALTER TABLE: the transaction stamps at once.  Without
\* LOCK TABLE alone nothing would change, for ALTER takes the stronger lock.
TaggerLocksNothing(t) ==
  /\ pc[t] = "idle"
  /\ runs[t] < MaxRuns
  /\ runs' = [runs EXCEPT ![t] = @ + 1]
  /\ Goes(t, "stamp")
  /\ UNCHANGED <<source, rows, markers, markerTable, held, checksum, added, cutover>>
TaggerLocks(t) ==
  /\ pc[t] = "idle"
  /\ runs[t] < MaxRuns
  /\ runs' = [runs EXCEPT ![t] = @ + 1]
  /\ Takes(t, "ShareRowExclusive")
  /\ Goes(t, "alter")
  /\ UNCHANGED <<source, rows, markers, markerTable, checksum, added, cutover>>

\* ALTER TABLE ... ADD COLUMN IF NOT EXISTS takes its lock even for an old column.
TaggerAlters(t) ==
  /\ pc[t] = "alter"
  /\ Takes(t, "AccessExclusive")
  /\ Goes(t, "stamp")
  /\ UNCHANGED <<source, rows, markers, markerTable, checksum, added, runs, cutover>>

UpperId == IF rows = {} THEN 0 ELSE Max({r.id : r \in rows})

StampedAll(u) == {IF r.id <= u THEN [r EXCEPT !.tag = "pre_p6_6_backfill"] ELSE r : r \in rows}
Stamped(u) ==
  {IF r.id <= u /\ r.tag = "" THEN [r EXCEPT !.tag = "pre_p6_6_backfill"] ELSE r : r \in rows}

\* MAX(id), UPDATE, COUNT and COMMIT under the exclusive lock.
TaggerStamps(t) ==
  /\ pc[t] = "stamp"
  /\ rows' = Stamped(UpperId)
  /\ cutover' = IF cutover = None THEN UpperId ELSE cutover
  /\ Ends(t)
  /\ UNCHANGED <<source, markers, markerTable, runs>>

-----------------------------------------------------------------------------
\* A crash or a lost connection: the transaction is rolled back.
Aborts(p) ==
  /\ pc[p] # "idle"
  /\ Ends(p)
  /\ MarkerTableAfter(p, FALSE)
  /\ UNCHANGED <<source, rows, markers, runs, cutover>>

\* The lock that p waits for, if its next statement needs one.
Wanted(p) ==
  CASE pc[p] = "insert" -> {"RowExclusive"}
    [] pc[p] = "alter"  -> {"AccessExclusive"}
    [] pc[p] = "count"  -> {"AccessShare"}
    [] OTHER            -> {}

Deadlocked(p) ==
  \E q \in Procs : \E m \in Wanted(p), n \in Wanted(q) : Blocks(q, p, m) /\ Blocks(p, q, n)

\* PostgreSQL finds the circle and gives one of the transactions an error.
DeadlockFound(p) == Deadlocked(p) /\ Aborts(p)

Log == \E w \in Writers :
  (\E tag \in {"", "harness"} : LogInserts(w, tag)) \/ LogCommits(w) \/ LogFails(w)

BackfillStep(b) ==
  \/ BackfillResumes(b) \/ BackfillChecks(b) \/ BackfillCounts(b)
  \/ BackfillInserts(b) \/ BackfillMarks(b) \/ BackfillCommits(b)

TaggerStep(t) == TaggerAlters(t) \/ TaggerStamps(t)

Next ==
  \/ Log
  \/ LogSqlite
  \/ \E b \in Backfills : BackfillStarts(b) \/ BackfillStep(b)
  \/ \E t \in Taggers : TaggerLocks(t) \/ TaggerStep(t)
  \/ \E p \in Procs : Aborts(p) \/ DeadlockFound(p)

Spec == Init /\ [][Next]_vars

(***************************************************************************)
(* PostgreSQL carries out a statement whose locks are free and reports     *)
(* the circles it finds; nothing is assumed of crashes or of new calls.    *)
(***************************************************************************)
FairSpec ==
  /\ Spec
  /\ \A w \in Writers : WF_vars(LogCommits(w))
  /\ \A b \in Backfills : SF_vars(BackfillStep(b)) /\ WF_vars(DeadlockFound(b))
  /\ \A t \in Taggers : SF_vars(TaggerStep(t)) /\ WF_vars(DeadlockFound(t))

-----------------------------------------------------------------------------
(***************************************************************************)
(* A backfill is all or nothing: the rows that were copied from a source   *)
(* are in the ledger, each once, if the marker of that source is, and none *)
(* of them otherwise, whichever statement the run crashed in and whatever  *)
(* ran beside it (run_backfill, "Idempotent via a backfill_batches marker  *)
(* table").                                                                *)
(***************************************************************************)
MarkerMeansCopiedOnce ==
  \A n \in 0 .. MaxSource :
    LET copies == {r \in rows : r.by = n} IN
    /\ {r.from : r \in copies} = IF n \in markers THEN 1 .. n ELSE {}
    /\ \A r, s \in copies : r.from = s.from => r = s

(***************************************************************************)
(* "It therefore freezes the cutover while requests already in flight      *)
(* drain or wait, instead of allowing rows to slip across the pinned       *)
(* bound": no row up to the bound is left untagged, not even one that was  *)
(* inserted before the cutover and committed after it.                     *)
(***************************************************************************)
CutoverIsComplete ==
  cutover # None => \A r \in rows : r.id <= cutover => r.tag # ""

(***************************************************************************)
(* "Existing non-empty tags are never overwritten", and rows are never     *)
(* deleted or changed in any other way: the ledger is append-only.         *)
(***************************************************************************)
FactsAreImmutable ==
  [][\A r \in rows : \E s \in rows' :
       /\ s = [r EXCEPT !.tag = s.tag]
       /\ r.tag # "" => s.tag = r.tag]_rows

(***************************************************************************)
(* Every transaction on the ledger ends.  A backfill that has read the     *)
(* table and a tag run that has locked it wait for each other, so this     *)
(* rests on the deadlock detection of PostgreSQL.                          *)
(***************************************************************************)
EveryTransactionEnds == \A p \in Procs : pc[p] # "idle" ~> pc[p] = "idle"
=============================================================================
