---------------------------- MODULE FileVersions ----------------------------
(***************************************************************************)
(* The file-version ledger of proxy/idcp.py for one file of one scope      *)
(* (rows of other files and scopes are excluded by every query, and have   *)
(* advisory locks of their own).  Concurrent transactions read the file;   *)
(* each is told how what it read differs from the current version in the   *)
(* table and appends a version of its own.  PostgreSQL fixes now() when a  *)
(* transaction begins and releases the lock when it ends, so both are      *)
(* part of the model.                                                      *)
(***************************************************************************)
EXTENDS Naturals, FiniteSets

CONSTANTS
  Readers,         \* callers, each in a transaction of its own
  Content,         \* file contents
  Text,            \* the contents that decode as UTF-8
  SmallDiff,       \* pairs of contents whose diff is not empty nor too large
  TTL,             \* ttl_seconds
  None,            \* Python's None: no content, no version, no lock holder
  Requests,        \* the calls that are explored, among Request
  MaxId,           \* bound on the identity sequence of the table
  MaxTime          \* bound: the clock stops here

ASSUME TextIsContent == Text \subseteq Content
ASSUME DiffsAreOfTexts == SmallDiff \subseteq Text \X Text
ASSUME NoneIsNoValue == None \notin Nat /\ None \notin Content /\ None \notin Readers
ASSUME BoundsAreNaturals == TTL \in Nat \ {0} /\ MaxId \in Nat /\ MaxTime \in Nat

Ids == 1 .. MaxId

\* A row of idcp_file_versions; its id stands for the version id as well, and
\* base, which only the properties read, for the version it was added on.
Version == [id : Ids, content : Content, created : Nat, expires : Nat,
            base : Ids \cup {None}]

\* The arguments of IDCPStore.read; accepts is the verdict of validate_diff.
Request == [content : Content \cup {None}, expected : Ids \cup {None},
            fullContext : BOOLEAN, accepts : BOOLEAN]

ASSUME RequestsAreCalls == Requests \subseteq Request

\* FileRead
Answer == [kind : {"none", "full", "unchanged", "diff", "deleted"},
           base : Ids \cup {None}, version : Ids \cup {None}]

VARIABLES
  now,      \* the clock of the database
  table,    \* the committed rows
  lastId,   \* the identity sequence
  holder,   \* the reader that holds the advisory lock, or None
  phase,    \* phase[p]: "idle", "begun" or "answered"
  begun,    \* begun[p]: now() in p's transaction
  request,  \* request[p]: what p asks
  draft,    \* draft[p]: the rows that p has inserted and not yet committed
  answer    \* answer[p]: what p's call returned

vars == <<now, table, lastId, holder, phase, begun, request, draft, answer>>

NoRequest == [content |-> None, expected |-> None, fullContext |-> FALSE,
              accepts |-> TRUE]
NoAnswer == [kind |-> "none", base |-> None, version |-> None]

Init ==
  /\ now = 0
  /\ table = {}
  /\ lastId = 0
  /\ holder = None
  /\ phase = [p \in Readers |-> "idle"]
  /\ begun = [p \in Readers |-> 0]
  /\ request = [p \in Readers |-> NoRequest]
  /\ draft = [p \in Readers |-> {}]
  /\ answer = [p \in Readers |-> NoAnswer]

-----------------------------------------------------------------------------
\* _latest

\* WHERE expires_at > now(), at the time of the transaction
Live(p) == {v \in table : v.expires > begun[p]}

\* ORDER BY created_at DESC, id DESC
Newer(v, w) == v.created > w.created \/ (v.created = w.created /\ v.id > w.id)

\* LIMIT 1: the ids of the current version, one or none.
Latest(p) == {v \in Live(p) : \A w \in Live(p) \ {v} : Newer(v, w)}

IdIn(current) == IF current = {} THEN None ELSE (CHOOSE v \in current : TRUE).id

-----------------------------------------------------------------------------
\* prepare_file_read

\* expected_base_version_id names another version than v.
Stale(q, v) == q.expected \notin {None, v.id}

\* ambiguous_content, ambiguous_diff or diff_too_large, validation_failed
FallsBack(q, v) ==
  \/ q.content \notin Text \/ v.content \notin Text
  \/ <<v.content, q.content>> \notin SmallDiff
  \/ ~q.accepts

KindAgainstAnyBase(q, v) ==          \* the expected base is not compared
  IF q.fullContext THEN "full"
  ELSE IF q.content = v.content THEN "unchanged"
  ELSE IF FallsBack(q, v) THEN "full" ELSE "diff"
KindAgainst(q, v) ==
  IF q.fullContext THEN "full"
  ELSE IF q.content = v.content THEN "unchanged"
  ELSE IF Stale(q, v) \/ FallsBack(q, v) THEN "full" ELSE "diff"

\* The kind of the answer to q, given the current version.
Kind(q, current) ==
  IF q.content = None THEN "deleted"
  ELSE IF current = {} THEN "full"
  ELSE KindAgainst(q, CHOOSE v \in current : TRUE)

-----------------------------------------------------------------------------
\* IDCPStore.read inside the transaction of its caller

\* The first statement of the transaction: it fixes now(), then waits.
Begin(p, q) ==
  /\ phase[p] = "idle"
  /\ phase' = [phase EXCEPT ![p] = "begun"]
  /\ begun' = [begun EXCEPT ![p] = now]
  /\ request' = [request EXCEPT ![p] = q]
  /\ UNCHANGED <<now, table, lastId, holder, draft, answer>>

\* A deleted file is looked up without the lock and writes nothing.
ReadDeleted(p) ==
  /\ phase[p] = "begun"
  /\ request[p].content = None
  /\ phase' = [phase EXCEPT ![p] = "answered"]
  /\ answer' = [answer EXCEPT ![p] =
       [kind |-> "deleted", base |-> IdIn(Latest(p)), version |-> None]]
  /\ UNCHANGED <<now, table, lastId, holder, begun, request, draft>>

Row(p) == [id |-> lastId + 1, content |-> request[p].content,
           created |-> begun[p], expires |-> begun[p] + TTL,
           base |-> IdIn(Latest(p))]

\* pg_advisory_xact_lock is granted; nobody else writes rows of the file from
\* here to the end of the transaction, so the lookup, the comparison and the
\* INSERT that follow are one step.
ReadWithoutLock(p) ==                \* pg_advisory_xact_lock forgotten
  /\ phase[p] = "begun"
  /\ request[p].content # None
  /\ lastId < MaxId
  /\ holder' = p
  /\ LET kind == Kind(request[p], Latest(p)) IN
       /\ answer' = [answer EXCEPT ![p] =
            [kind |-> kind, base |-> IdIn(Latest(p)),
             version |-> IF kind = "unchanged" THEN IdIn(Latest(p)) ELSE lastId + 1]]
       /\ draft' = [draft EXCEPT ![p] = IF kind = "unchanged" THEN {} ELSE {Row(p)}]
       /\ lastId' = IF kind = "unchanged" THEN lastId ELSE lastId + 1
  /\ phase' = [phase EXCEPT ![p] = "answered"]
  /\ UNCHANGED <<now, table, begun, request>>
Read(p) ==
  /\ phase[p] = "begun"
  /\ request[p].content # None
  /\ lastId < MaxId
  /\ holder = None
  /\ holder' = p
  /\ LET kind == Kind(request[p], Latest(p)) IN
       /\ answer' = [answer EXCEPT ![p] =
            [kind |-> kind, base |-> IdIn(Latest(p)),
             version |-> IF kind = "unchanged" THEN IdIn(Latest(p)) ELSE lastId + 1]]
       /\ draft' = [draft EXCEPT ![p] = IF kind = "unchanged" THEN {} ELSE {Row(p)}]
       /\ lastId' = IF kind = "unchanged" THEN lastId ELSE lastId + 1
  /\ phase' = [phase EXCEPT ![p] = "answered"]
  /\ UNCHANGED <<now, table, begun, request>>

\* The transaction ends: its locks are released, its rows kept or dropped.
Ends(p) ==
  /\ phase' = [phase EXCEPT ![p] = "idle"]
  /\ holder' = IF holder = p THEN None ELSE holder
  /\ begun' = [begun EXCEPT ![p] = 0]
  /\ request' = [request EXCEPT ![p] = NoRequest]
  /\ draft' = [draft EXCEPT ![p] = {}]
  /\ answer' = [answer EXCEPT ![p] = NoAnswer]
  /\ UNCHANGED <<now, lastId>>

Commit(p) ==
  /\ phase[p] = "answered"
  /\ table' = table \cup draft[p]
  /\ Ends(p)

\* A lost connection or an exception of the caller, at any point.
Rollback(p) ==
  /\ phase[p] # "idle"
  /\ Ends(p)
  /\ UNCHANGED table

Tick ==
  /\ now < MaxTime
  /\ now' = now + 1
  /\ UNCHANGED <<table, lastId, holder, phase, begun, request, draft, answer>>

Next ==
  \/ Tick
  \/ \E p \in Readers :
       \/ \E q \in Requests : Begin(p, q)
       \/ ReadDeleted(p)
       \/ Read(p)
       \/ Commit(p)
       \/ Rollback(p)

Spec == Init /\ [][Next]_vars

-----------------------------------------------------------------------------
(***************************************************************************)
(* Type correctness of the table and of the transactions.                  *)
(***************************************************************************)
TypeOK ==
  /\ now \in Nat
  /\ table \subseteq Version
  /\ lastId \in 0 .. MaxId
  /\ holder \in Readers \cup {None}
  /\ phase \in [Readers -> {"idle", "begun", "answered"}]
  /\ begun \in [Readers -> Nat]
  /\ request \in [Readers -> Request]
  /\ draft \in [Readers -> SUBSET Version]
  /\ answer \in [Readers -> Answer]

Answered(p) == phase[p] = "answered" /\ answer[p].kind # "deleted"

(***************************************************************************)
(* The lock makes the versions of a file a chain, but for late writers.    *)
(* Two versions without a base are never alive together, and a second      *)
(* version w is added on the base of v only if v was created before that   *)
(* base: v was added by a transaction that had begun before the base's did *)
(* and then waited for the lock, and _latest, which orders by created_at,  *)
(* the time a transaction began, goes on returning the base.               *)
(***************************************************************************)
OnlyLateWritersFork ==
  \A v, w \in table : v.base = w.base /\ v.id < w.id =>
    IF v.base = None THEN v.expires <= w.created
    ELSE \E b \in table : b.id = v.base /\ v.created < b.created

(***************************************************************************)
(* Whoever holds the content of the base that an answer names can rebuild  *)
(* what was read: "unchanged" means equal to that very version, a diff is  *)
(* between that version and the content, and a diff is never given to a    *)
(* caller who expects another base (prepare_file_read).                    *)
(***************************************************************************)
AnswersRebuild ==
  \A p \in Readers : Answered(p) /\ answer[p].kind \in {"unchanged", "diff"} =>
    \E v \in table :
      /\ v.id = answer[p].base
      /\ answer[p].kind = "unchanged" => v.content = request[p].content
      /\ answer[p].kind = "diff" =>
           /\ <<v.content, request[p].content>> \in SmallDiff
           /\ request[p].expected \in {None, v.id}

=============================================================================
