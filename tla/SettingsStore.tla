--------------------------- MODULE SettingsStore ----------------------------
(***************************************************************************)
(* The runtime settings of proxy/settings.py and the API of main.py over   *)
(* them.  An override is a row of app_settings in PostgreSQL, which all    *)
(* proxies share, or an entry of a JSON file, which belongs to one proxy.  *)
(* Every handler runs without an await while it uses the store, so inside  *)
(* a process operations do not interleave; but each setting is read from   *)
(* the store on its own, and between two reads other processes write, and  *)
(* the database goes down or the file becomes unreadable and comes back.   *)
(***************************************************************************)
EXTENDS Naturals, Sequences

CONSTANTS
  Proxies,        \* uvicorn processes
  Allowed,        \* RUNTIME_ALLOWED, a sequence of names
  Environment,    \* Environment[n]: the variable's value, or Unset
  Default,        \* Default[n]: the built-in value
  Unset,
  Backends,       \* subset of {"postgres", "json"}
  FileOwner       \* the proxy whose file it is

Names == {Allowed[i] : i \in DOMAIN Allowed}

ASSUME AllowedIsASequence == Allowed \in Seq(Names) /\ Allowed # <<>>
ASSUME UnsetIsNoValue == Unset \notin BOOLEAN
ASSUME EnvironmentAndDefault ==
  Environment \in [Names -> BOOLEAN \cup {Unset}] /\ Default \in [Names -> BOOLEAN]
ASSUME BackendsAreBackends ==
  Backends \subseteq {"postgres", "json"} /\ FileOwner \in Proxies

VARIABLES
  backend,  \* whether TOKEN_SAVER_PG_DSN is set
  stored,   \* the persisted overrides
  up,       \* the database answers, the file can be parsed
  pc,       \* what each proxy is doing
  call,     \* the request that a proxy serves
  read,     \* the values it has read so far
  inForce   \* history: the values each setting had since it began to read

vars == <<backend, stored, up, pc, call, read, inForce>>

NoCall == [op |-> "none"]
Nothing == [n \in Names |-> {}]
NoOverrides == [n \in Names |-> Unset]

Init ==
  /\ backend \in Backends
  /\ stored = NoOverrides
  /\ up = TRUE
  /\ pc = [p \in Proxies |-> "idle"]
  /\ call = [p \in Proxies |-> NoCall]
  /\ read = [p \in Proxies |-> <<>>]
  /\ inForce = [p \in Proxies |-> Nothing]

\* load_overrides: a store that cannot be read has no overrides.
Overrides == IF up THEN stored ELSE NoOverrides

\* effective
EffectiveWithoutDefault(n) ==      \* no built-in value
  IF Overrides[n] # Unset THEN Overrides[n] ELSE Environment[n]
EffectiveEnvironmentFirst(n) ==    \* over the runtime override
  IF Environment[n] # Unset THEN Environment[n]
  ELSE IF Overrides[n] # Unset THEN Overrides[n]
  ELSE Default[n]
Effective(n) ==
  IF Overrides[n] # Unset THEN Overrides[n]
  ELSE IF Environment[n] # Unset THEN Environment[n]
  ELSE Default[n]

-----------------------------------------------------------------------------
\* Every operation: begin, read the settings it wants one by one, end.

Begins(p, operation, phase) ==
  /\ pc[p] = "idle"
  /\ pc' = [pc EXCEPT ![p] = phase]
  /\ call' = [call EXCEPT ![p] = operation]
  /\ UNCHANGED <<backend, read>>

Wanted(p) == IF call[p].op \in {"put", "delete"} THEN <<call[p].name>> ELSE Allowed

\* One call of effective().
Reads(p) ==
  /\ pc[p] = "reading"
  /\ Len(read[p]) < Len(Wanted(p))
  /\ read' = [read EXCEPT ![p] = Append(@, Effective(Wanted(p)[Len(@) + 1]))]
  /\ UNCHANGED <<backend, stored, up, pc, call>>

\* The flags go to the request, the items or the 503 to the client.
Ends(p) ==
  /\ \/ pc[p] = "reading" /\ Len(read[p]) = Len(Wanted(p))
     \/ pc[p] = "failing"
  /\ pc' = [pc EXCEPT ![p] = "idle"]
  /\ call' = [call EXCEPT ![p] = NoCall]
  /\ read' = [read EXCEPT ![p] = <<>>]
  /\ UNCHANGED <<backend, stored, up>>

\* snapshot() of a chat request: whatever the state of the store.
Snapshot(p) ==
  /\ Begins(p, [op |-> "snapshot"], "reading")
  /\ UNCHANGED <<stored, up>>

\* GET /api/settings: read_overrides_strict raises for the database only,
\* _json_load swallows whatever is wrong with the file.
Get(p) ==
  /\ Begins(p, [op |-> "get", up |-> up],
            IF backend = "postgres" /\ ~up THEN "failing" ELSE "reading")
  /\ UNCHANGED <<stored, up>>

-----------------------------------------------------------------------------
\* PUT and DELETE /api/settings/{name}: the write, then _settings_item reads
\* the setting again for the answer.

Puts(p, n, phase) == Begins(p, [op |-> "put", name |-> n], phase)
Deletes(p, n, phase) == Begins(p, [op |-> "delete", name |-> n], phase)

\* write_override reads the file, adds its own override and replaces the file:
\* what it could not read is gone, and the new file is readable.
PutJsonBlind(p, n, v) ==      \* without _json_load
  /\ backend = "json"
  /\ Puts(p, n, "reading")
  /\ stored' = [NoOverrides EXCEPT ![n] = v]
  /\ up' = TRUE
PutJson(p, n, v) ==
  /\ backend = "json"
  /\ Puts(p, n, "reading")
  /\ stored' = [Overrides EXCEPT ![n] = v]
  /\ up' = TRUE

\* The connection may be lost at COMMIT.
PutRow(p, n, v) == \E phase \in {"reading", "failing"} :
  /\ backend = "postgres"
  /\ up
  /\ Puts(p, n, phase)
  /\ stored' = [stored EXCEPT ![n] = v]
  /\ UNCHANGED up

\* delete_override finds nothing to remove in a file that it cannot read.
DeleteJson(p, n) ==
  /\ backend = "json"
  /\ Deletes(p, n, "reading")
  /\ stored' = IF Overrides[n] = Unset THEN stored ELSE [stored EXCEPT ![n] = Unset]
  /\ UNCHANGED up

DeleteRow(p, n) == \E phase \in {"reading", "failing"} :
  /\ backend = "postgres"
  /\ up
  /\ Deletes(p, n, phase)
  /\ stored' = [stored EXCEPT ![n] = Unset]
  /\ UNCHANGED up

\* The database is down, or the directory cannot be written.
WriteFails(p, n) ==
  /\ backend = "json" \/ ~up
  /\ Puts(p, n, "failing") \/ Deletes(p, n, "failing")
  /\ UNCHANGED <<stored, up>>

-----------------------------------------------------------------------------
\* An outage, a broken edit or a failing disk, and its end.
StoreToggles ==
  /\ up' = ~up
  /\ UNCHANGED <<backend, stored, pc, call, read>>

Restart(p) ==
  /\ pc' = [pc EXCEPT ![p] = "idle"]
  /\ call' = [call EXCEPT ![p] = NoCall]
  /\ read' = [read EXCEPT ![p] = <<>>]
  /\ UNCHANGED <<backend, stored, up>>

\* What is in force by the contract of the module's head: the first of runtime
\* override, environment variable and built-in default that is set.
FirstSet(layers) ==
  layers[CHOOSE i \in 1 .. 3 : /\ layers[i] # Unset
                               /\ \A j \in 1 .. 3 : j < i => layers[j] = Unset]
InForce(n) == FirstSet(<<IF up THEN stored[n] ELSE Unset, Environment[n], Default[n]>>)

Witness == inForce' = [p \in Proxies |->
  IF pc'[p] = "reading" THEN [n \in Names |-> inForce[p][n] \cup {InForce(n)'}]
                        ELSE Nothing]

Works(p) == backend = "postgres" \/ p = FileOwner

Writes(p) == \E n \in Names :
  \/ \E v \in BOOLEAN : PutJson(p, n, v) \/ PutRow(p, n, v)
  \/ DeleteJson(p, n) \/ DeleteRow(p, n)
  \/ WriteFails(p, n)

Step(p) == Snapshot(p) \/ Get(p) \/ Writes(p) \/ Reads(p) \/ Ends(p) \/ Restart(p)

Next == (StoreToggles \/ \E p \in Proxies : Works(p) /\ Step(p)) /\ Witness

Spec == Init /\ [][Next]_vars

-----------------------------------------------------------------------------
(***************************************************************************)
(* Type correctness of the settings store.                                 *)
(***************************************************************************)
Calls == [op : {"none", "snapshot"}] \cup [op : {"get"}, up : BOOLEAN]
           \cup [op : {"put", "delete"}, name : Names]

TypeOK ==
  /\ backend \in {"postgres", "json"}
  /\ stored \in [Names -> BOOLEAN \cup {Unset}]
  /\ up \in BOOLEAN
  /\ pc \in [Proxies -> {"idle", "reading", "failing"}]
  /\ call \in [Proxies -> Calls]
  /\ read \in [Proxies -> Seq(BOOLEAN)]
  /\ inForce \in [Proxies -> [Names -> SUBSET BOOLEAN]]

(***************************************************************************)
(* Although a snapshot may be torn, whatever a request reads of a setting  *)
(* was in force, by the precedence of override, environment and default,   *)
(* at some moment since it began to read; the items of a GET and the item  *)
(* that answers a PUT or a DELETE alike, the latter since the write.       *)
(***************************************************************************)
EverySettingWasInForce ==
  \A p \in Proxies : \A i \in DOMAIN read[p] : read[p][i] \in inForce[p][Wanted(p)[i]]

(***************************************************************************)
(* An override changes only when an administrator writes that very name;   *)
(* writes to other names, outages and restarts leave it alone.  The one    *)
(* exception is a PUT over a settings file that cannot be read.            *)
(***************************************************************************)
OverridesSurvive ==
  [][\A n \in Names : stored'[n] # stored[n] =>
       \/ \E p \in Proxies : pc[p] = "idle" /\ pc'[p] # "idle"
                             /\ call'[p].op \in {"put", "delete"} /\ call'[p].name = n
       \/ backend = "json" /\ ~up /\ up']_vars
=============================================================================
