------------------------------- MODULE Server -------------------------------
(***************************************************************************)
(* The life of the server process: the schema migrations every store runs  *)
(* when it is opened (db_migrate.rs), the boot and the graceful shutdown   *)
(* of app.rs, and the JWT key, the one credential that an admin may rotate *)
(* in a running process and that a restart reads back from a file          *)
(* (rest/admin.rs, config.rs).  The process may crash between any two      *)
(* steps; the databases and the key file are what survives.                *)
(***************************************************************************)
EXTENDS Naturals, Sequences, FiniteSets

CONSTANTS Req,         \* slots for requests in flight
          Task,        \* the long-lived background tasks
          Timeout,     \* --shutdown-timeout-secs, in units of the 100 ms epsilon
          MaxKey,      \* bound on the JWT keys ever made
          MaxFaults    \* bound on crashes and failed writes

ASSUME TimeoutAssumption == Timeout \in Nat \ {0}
ASSUME LimitsAssumption == MaxKey \in Nat /\ MaxFaults \in Nat

VARIABLES
    schema,    \* the tables, indexes and columns the databases have
    versions,  \* the rows of schema_version, as <<store, version>>
    boot,      \* how far `serve` got: store, migration and statement
    phase,     \* where the process is
    timeout,   \* shutdown_timeout of this process: Timeout, or 0 for none
    tls,       \* whether this process listens with TLS
    draining,  \* the flag the readiness probe reads
    waited,    \* time in the current wait of the shutdown
    elapsed,   \* time since drain_started
    req,       \* Req -> what the slot is doing
    task,      \* Task -> idle, busy, blocking or joined
    told,      \* the server.shutdown row of this process, or "none"
    cut,       \* whether the listener gave up on requests
    mem,       \* the JWT key in memory, 0 for none
    file,      \* the JWT key in jwt-key.bin, 0 for none or an empty file
    made,      \* JWT keys made so far
    new,       \* Req -> the key that a rotation in the slot made
    retired,   \* keys that a rotation replaced and said it persisted
    crossed,   \* the key that was written last, if it was retired already, or 0
    faults

schemaVars == <<schema, versions, boot>>
drainVars  == <<draining, waited, elapsed, told, cut>>
keyVars    == <<mem, file, made, new, retired, crossed>>
workVars   == <<req, task>>
serverVars == <<schemaVars, phase, timeout, tls, drainVars, workVars, keyVars, faults>>

-----------------------------------------------------------------------------
(* The migrations, each the statements of its `up`, in order.              *)

Stores == <<"tokens", "ownership", "audit", "webhooks">>

Migrations ==
  [tokens    |-> << <<"tokens", "idx_tokens_repo_id">>, <<"tokens.subject">> >>,
   ownership |-> << <<"repos", "idx_repos_owner">>, <<"idx_repos_created_at">> >>,
   audit     |-> << <<"audit_events", "idx_audit">>,
                    <<"audit_events.prev_hash", "audit_events.row_hash">> >>,
   webhooks  |-> << <<"webhooks", "idx_webhooks_repo">>,
                    <<"webhooks.secret_nonce">>,
                    <<"webhook_deliveries", "idx_pending">>,
                    <<"idx_finalized">> >>]

StoreNames == {Stores[i] : i \in DOMAIN Stores}

MigrationIds == UNION {{<<s, v>> : v \in DOMAIN Migrations[s]} : s \in StoreNames}

Columns == {"tokens.subject", "audit_events.prev_hash",
            "audit_events.row_hash", "webhooks.secret_nonce"}

Effect(s, v) == {Migrations[s][v][i] : i \in DOMAIN Migrations[s][v]}

EffectUpTo(s, n) == UNION {Effect(s, v) : v \in 1 .. n}

\* SELECT COALESCE(MAX(version), 0) ... WHERE namespace = ?
Current(s) ==
  CHOOSE n \in 0 .. Len(Migrations[s]) :
    /\ n = 0 \/ <<s, n>> \in versions
    /\ \A v \in n + 1 .. Len(Migrations[s]) : <<s, v>> \notin versions

\* The databases that a boot can find: of any earlier release, framed by
\* schema_version or older than it, with the columns of the ad-hoc ALTERs.
Found(s) ==
  {[tables |-> EffectUpTo(s, n), rows |-> {<<s, v>> : v \in 1 .. n}] :
      n \in 0 .. Len(Migrations[s])}
  \cup {[tables |-> EffectUpTo(s, 2), rows |-> {}] :
      t \in {u \in {s} : Effect(u, 2) \subseteq Columns}}

NotBooting == [store |-> 0, mig |-> 0, stmt |-> 0]

Alive == phase # "down"
Booted == phase \notin {"down", "boot"}

ServerInit ==
  /\ \E t \in Found("tokens"), o \in Found("ownership"),
        a \in Found("audit"), w \in Found("webhooks") :
       /\ schema = t.tables \cup o.tables \cup a.tables \cup w.tables
       /\ versions = t.rows \cup o.rows \cup a.rows \cup w.rows
  /\ boot = NotBooting
  /\ phase = "down"
  /\ timeout = Timeout /\ tls = FALSE
  /\ draining = FALSE /\ waited = 0 /\ elapsed = 0
  /\ told = "none" /\ cut = FALSE
  /\ req = [q \in Req |-> "none"]
  /\ task = [t \in Task |-> "idle"]
  /\ mem = 0 /\ file = 0 /\ made = 0
  /\ new = [q \in Req |-> 0]
  /\ retired = {} /\ crossed = 0
  /\ faults = 0

-----------------------------------------------------------------------------
(* Boot.                                                                   *)

OpenStore(i) ==
  [store |-> i, mig |-> IF i \in DOMAIN Stores THEN Current(Stores[i]) + 1 ELSE 0,
   stmt |-> 1]

\* What the process holds in memory when it is not running.
Gone ==
  /\ phase' = "down"
  /\ boot' = NotBooting
  /\ draining' = FALSE /\ waited' = 0 /\ elapsed' = 0
  /\ told' = "none" /\ cut' = FALSE
  /\ req' = [q \in Req |-> "none"]
  /\ task' = [t \in Task |-> "idle"]
  /\ mem' = 0
  /\ new' = [q \in Req |-> 0]
  /\ UNCHANGED <<schema, versions, file, made, retired, crossed>>

\* `serve`: the flags, the JWT key from its file, then the first store.
Start ==
  /\ phase = "down"
  /\ phase' = "boot"
  /\ timeout' \in {0, Timeout}
  /\ tls' \in BOOLEAN
  /\ mem' = file
  /\ boot' = OpenStore(1)
  /\ UNCHANGED <<schema, versions, drainVars, workVars, file, made, new,
                 retired, crossed, faults>>

Statements == Migrations[Stores[boot.store]]

MigrationRuns == phase = "boot" /\ boot.store \in DOMAIN Stores
                 /\ boot.mig \in DOMAIN Statements

StatementRuns == MigrationRuns /\ boot.stmt \in DOMAIN Statements[boot.mig]

Statement == Statements[boot.mig][boot.stmt]

bootUnchanged ==
  UNCHANGED <<phase, timeout, tls, drainVars, workVars, keyVars, faults>>

\* CREATE TABLE / INDEX IF NOT EXISTS: each statement commits by itself.
Create ==
  /\ StatementRuns
  /\ Statement \notin Columns
  /\ schema' = schema \cup {Statement}
  /\ boot' = [boot EXCEPT !.stmt = @ + 1]
  /\ UNCHANGED versions /\ bootUnchanged

\* A bug: ALTER TABLE without a look at the columns; it fails on a re-run.
AddColumnBlindly ==
  /\ StatementRuns
  /\ Statement \in Columns
  /\ IF Statement \in schema
       THEN Gone /\ UNCHANGED <<timeout, tls, faults>>
       ELSE /\ schema' = schema \cup {Statement}
            /\ boot' = [boot EXCEPT !.stmt = @ + 1]
            /\ UNCHANGED versions /\ bootUnchanged

\* add_column_if_missing: PRAGMA table_info first, ALTER when it is absent.
AddColumn ==
  /\ StatementRuns
  /\ Statement \in Columns
  /\ schema' = IF Statement \in schema THEN schema ELSE schema \cup {Statement}
  /\ boot' = [boot EXCEPT !.stmt = @ + 1]
  /\ UNCHANGED versions /\ bootUnchanged

\* A bug: the version is recorded before the last statement has run.
RecordVersionEarly ==
  /\ MigrationRuns
  /\ boot.stmt = Len(Statements[boot.mig]) + 1
       \/ (boot.stmt = Len(Statements[boot.mig]) /\ <<Stores[boot.store], boot.mig>> \notin versions)
  /\ versions' = versions \cup {<<Stores[boot.store], boot.mig>>}
  /\ boot' = IF boot.stmt = Len(Statements[boot.mig]) THEN boot
             ELSE [boot EXCEPT !.mig = @ + 1, !.stmt = 1]
  /\ UNCHANGED schema /\ bootUnchanged

\* INSERT INTO schema_version, once `up` has returned.
RecordVersion ==
  /\ MigrationRuns
  /\ boot.stmt = Len(Statements[boot.mig]) + 1
  /\ versions' = versions \cup {<<Stores[boot.store], boot.mig>>}
  /\ boot' = [boot EXCEPT !.mig = @ + 1, !.stmt = 1]
  /\ UNCHANGED schema /\ bootUnchanged

\* The store is open; the next one reads its own version.  The
\* server.start row is written as soon as the audit store is there.
NextStore ==
  /\ phase = "boot"
  /\ boot.store \in DOMAIN Stores
  /\ boot.mig \notin DOMAIN Statements
  /\ boot' = OpenStore(boot.store + 1)
  /\ told' = IF Stores[boot.store] = "audit" THEN "started" ELSE told
  /\ UNCHANGED <<schema, versions, phase, timeout, tls, draining, waited,
                 elapsed, cut, workVars, keyVars, faults>>

\* The tasks are spawned and the listener accepts.
Listen ==
  /\ phase = "boot"
  /\ boot.store \notin DOMAIN Stores
  /\ phase' = "serving"
  /\ boot' = NotBooting
  /\ UNCHANGED <<schema, versions, timeout, tls, drainVars, workVars, keyVars, faults>>

\* A crash; during the boot also an error of a statement, of the key
\* files, of the TLS material or of the bind, which `serve` returns.
Die ==
  /\ Alive
  /\ faults < MaxFaults
  /\ faults' = faults + 1
  /\ Gone
  /\ UNCHANGED <<timeout, tls>>

-----------------------------------------------------------------------------
(* Requests, and the rotation of the JWT key, whose handler runs without   *)
(* an await from the swap to the end of the write.                         *)

reqUnchanged ==
  UNCHANGED <<schemaVars, phase, timeout, tls, drainVars, task>>

Arrive(q) ==
  /\ phase \in {"serving", "delay"}
  /\ req[q] = "none"
  /\ req' = [req EXCEPT ![q] = "running"]
  /\ UNCHANGED <<keyVars, faults>> /\ reqUnchanged

\* The request timeout, or a client that went away, drops the handler;
\* blocking work that it started goes on by itself.
Detach(q) ==
  /\ req[q] = "running"
  /\ req' = [req EXCEPT ![q] = "job"]
  /\ UNCHANGED <<keyVars, faults>> /\ reqUnchanged

Finish(q) ==
  /\ req[q] \in {"running", "job"}
  /\ req' = [req EXCEPT ![q] = "none"]
  /\ UNCHANGED <<keyVars, faults>> /\ reqUnchanged

\* admin_rotate_jwt_key: rotate_jwt_secret puts a fresh key in memory.
SwapJwtKey(q) ==
  /\ req[q] = "running"
  /\ made < MaxKey
  /\ made' = made + 1
  /\ mem' = made + 1
  /\ new' = [new EXCEPT ![q] = made + 1]
  /\ req' = [req EXCEPT ![q] = "swapped"]
  /\ UNCHANGED <<file, retired, crossed, faults>> /\ reqUnchanged

\* open(create, truncate, write) of jwt-key.bin.
OpenKeyFile(q) ==
  /\ req[q] = "swapped"
  /\ file' = 0
  /\ req' = [req EXCEPT ![q] = "opened"]
  /\ UNCHANGED <<mem, made, new, retired, crossed, faults>> /\ reqUnchanged

\* An answer with persisted = true tells the admin that the keys made
\* before this one are gone for good.
Answer(q, persisted) ==
  /\ retired' = IF persisted THEN retired \cup 1 .. new[q] - 1 ELSE retired
  /\ new' = [new EXCEPT ![q] = 0]
  /\ req' = [req EXCEPT ![q] = "none"]

\* The bytes are in the file and the response says so, whatever a rotation
\* that was faster has written there and answered.
WriteKeyFile(q) ==
  /\ req[q] = "opened"
  /\ file' = new[q]
  /\ crossed' = IF new[q] \in retired THEN new[q] ELSE 0
  /\ Answer(q, TRUE)
  /\ UNCHANGED <<mem, made, faults>> /\ reqUnchanged

\* A bug: a file that could not be written is reported as persisted.
KeyFileErrorIgnored(q) ==
  /\ req[q] \in {"swapped", "opened"}
  /\ faults < MaxFaults
  /\ faults' = faults + 1
  /\ Answer(q, TRUE)
  /\ UNCHANGED <<mem, file, made, crossed>> /\ reqUnchanged

\* Opening or writing the file failed: logged, and persisted = false.
KeyFileError(q) ==
  /\ req[q] \in {"swapped", "opened"}
  /\ faults < MaxFaults
  /\ faults' = faults + 1
  /\ Answer(q, FALSE)
  /\ UNCHANGED <<mem, file, made, crossed>> /\ reqUnchanged

-----------------------------------------------------------------------------
(* Background tasks: a loop over a tick and the cancel token.  A sweep of  *)
(* the collector, and what it asks git, runs on a blocking thread that the *)
(* task waits for and that nothing can interrupt.                          *)

Cancelled == phase \in {"tasks", "report", "exit"}

taskUnchanged ==
  UNCHANGED <<schemaVars, phase, timeout, tls, drainVars, req, keyVars, faults>>

TaskTick(t) ==
  /\ Booted /\ phase # "exit"
  /\ task[t] = "idle"
  /\ task' = [task EXCEPT ![t] = "busy"]
  /\ taskUnchanged

TaskBlocks(t) ==
  /\ phase # "exit"
  /\ task[t] = "busy"
  /\ task' = [task EXCEPT ![t] = "blocking"]
  /\ taskUnchanged

TaskUnblocks(t) ==
  /\ task[t] = "blocking"
  /\ task' = [task EXCEPT ![t] = "busy"]
  /\ taskUnchanged

TaskDone(t) ==
  /\ task[t] = "busy"
  /\ task' = [task EXCEPT ![t] = "idle"]
  /\ taskUnchanged

TaskStop(t) ==
  /\ Cancelled
  /\ task[t] = "idle"
  /\ task' = [task EXCEPT ![t] = "joined"]
  /\ taskUnchanged

-----------------------------------------------------------------------------
(* Shutdown.                                                               *)

drainUnchanged == UNCHANGED <<schemaVars, timeout, tls, task, keyVars, faults>>

\* shutdown_signal: the probe answers 503 from here on, while the listener
\* still accepts for the drain delay.
Signal ==
  /\ phase = "serving"
  /\ phase' = "delay"
  /\ draining' = TRUE
  /\ UNCHANGED <<waited, elapsed, told, cut, req>> /\ drainUnchanged

\* The delay is over: drain_started is set and nothing new is accepted.
BeginDrain ==
  /\ phase = "delay"
  /\ phase' = "closing"
  /\ waited' = 0 /\ elapsed' = 0
  /\ UNCHANGED <<draining, told, cut, req>> /\ drainUnchanged

Late == 1   \* how late a timer may fire

Tick ==
  /\ phase \in {"closing", "tasks"}
  /\ waited < Timeout + Late
  /\ waited' = waited + 1
  /\ elapsed' = elapsed + 1
  /\ UNCHANGED <<phase, draining, told, cut, req>> /\ drainUnchanged

InFlight == {q \in Req : req[q] \notin {"none", "job"}}

\* A bug: the server stops waiting as soon as one slot is free.
ListenerDrainedByOne ==
  /\ phase = "closing"
  /\ InFlight # Req
  /\ phase' = "tasks"
  /\ waited' = 0
  /\ UNCHANGED <<draining, elapsed, told, cut, req>> /\ drainUnchanged

\* Every connection is done: `serve` resolves by itself.
ListenerDrained ==
  /\ phase = "closing"
  /\ InFlight = {}
  /\ phase' = "tasks"
  /\ waited' = 0
  /\ UNCHANGED <<draining, elapsed, told, cut, req>> /\ drainUnchanged

\* The deadline: none over HTTP when it is zero, at once over TLS.  HTTP
\* leaves the connection tasks running, TLS drops them.
ListenerDeadline ==
  /\ phase = "closing"
  /\ timeout > 0 \/ tls
  /\ waited >= timeout
  /\ phase' = "tasks"
  /\ waited' = 0
  /\ cut' = (InFlight # {})
  /\ req' = [q \in Req |-> IF tls /\ req[q] = "running" THEN "job" ELSE req[q]]
  /\ UNCHANGED <<draining, elapsed, told>> /\ drainUnchanged

\* drain_background_tasks: join_all, ...
TasksJoined ==
  /\ phase = "tasks"
  /\ \A t \in Task : task[t] = "joined"
  /\ phase' = "report"
  /\ UNCHANGED <<draining, waited, elapsed, told, cut, req>> /\ drainUnchanged

\* A bug: the join has no deadline.
TasksDeadlineNever ==
  /\ phase = "tasks"
  /\ timeout > 0
  /\ waited > Timeout + Late
  /\ phase' = "report"
  /\ UNCHANGED <<draining, waited, elapsed, told, cut, req>> /\ drainUnchanged

\* ... or a deadline of its own, which abandons the rest.
TasksDeadline ==
  /\ phase = "tasks"
  /\ timeout > 0
  /\ waited >= timeout
  /\ phase' = "report"
  /\ UNCHANGED <<draining, waited, elapsed, told, cut, req>> /\ drainUnchanged

\* classify_shutdown_kind, with an epsilon of one unit.
ShutdownKind ==
  IF timeout > 0 /\ elapsed >= timeout + 1 THEN "timed_out" ELSE "graceful"

\* emit_server_shutdown
Report ==
  /\ phase = "report"
  /\ phase' = "exit"
  /\ told' = ShutdownKind
  /\ UNCHANGED <<draining, waited, elapsed, cut, req>> /\ drainUnchanged

\* What runs on a thread of its own, or between two awaits.
Held ==
  \/ \E q \in Req : req[q] \notin {"none", "running"}
  \/ \E t \in Task : task[t] = "blocking"

\* main returns: the runtime that is dropped lets go of whatever is at an
\* await, and waits for the rest without a deadline.
Exit ==
  /\ phase = "exit"
  /\ ~Held
  /\ Gone
  /\ UNCHANGED <<timeout, tls, faults>>

-----------------------------------------------------------------------------
Boot == Create \/ AddColumn \/ RecordVersion \/ NextStore \/ Listen

Request(q) ==
  \/ Arrive(q) \/ Detach(q) \/ Finish(q)
  \/ SwapJwtKey(q) \/ OpenKeyFile(q) \/ WriteKeyFile(q) \/ KeyFileError(q)

Background(t) ==
  TaskTick(t) \/ TaskBlocks(t) \/ TaskUnblocks(t) \/ TaskDone(t) \/ TaskStop(t)

Drain ==
  \/ BeginDrain \/ Tick \/ ListenerDrained \/ ListenerDeadline
  \/ TasksJoined \/ TasksDeadline \/ Report \/ Exit

ServerNext ==
  \/ Start \/ Boot \/ Die \/ Signal \/ Drain
  \/ \E q \in Req : Request(q)
  \/ \E t \in Task : Background(t)

(***************************************************************************)
(* A supervisor restarts the process (the systemd unit and the manifests), *)
(* and the boot, the shutdown and the write of the key file are            *)
(* straight-line code.  Nothing is assumed of requests, of background      *)
(* tasks or of blocking work: a client may hold its stream open, and the   *)
(* git that a sweep runs has no deadline and may hang.                     *)
(***************************************************************************)
ServerSpec ==
  /\ ServerInit /\ [][ServerNext]_serverVars
  /\ WF_serverVars(Start) /\ WF_serverVars(Boot) /\ WF_serverVars(BeginDrain) /\ WF_serverVars(Tick)
  /\ WF_serverVars(ListenerDrained \/ ListenerDeadline)
  /\ WF_serverVars(TasksJoined \/ TasksDeadline)
  /\ WF_serverVars(Report) /\ WF_serverVars(Exit)
  /\ \A q \in Req : WF_serverVars(OpenKeyFile(q)) /\ WF_serverVars(WriteKeyFile(q))

-----------------------------------------------------------------------------
(* Properties.                                                             *)

\* The type invariant.
ServerTypeOK ==
  /\ schema \subseteq UNION {EffectUpTo(s, Len(Migrations[s])) : s \in StoreNames}
  /\ versions \subseteq MigrationIds
  /\ phase \in {"down", "boot", "serving", "delay", "closing", "tasks", "report", "exit"}
  /\ timeout \in {0, Timeout} /\ tls \in BOOLEAN /\ draining \in BOOLEAN
  /\ waited \in 0 .. Timeout + Late /\ elapsed \in 0 .. 2 * (Timeout + Late)
  /\ req \in [Req -> {"none", "running", "job", "swapped", "opened"}]
  /\ task \in [Task -> {"idle", "busy", "blocking", "joined"}]
  /\ told \in {"none", "started", "graceful", "timed_out"} /\ cut \in BOOLEAN
  /\ mem \in 0 .. made /\ file \in 0 .. made /\ made \in 0 .. MaxKey
  /\ new \in [Req -> 0 .. made] /\ retired \subseteq 1 .. made /\ crossed \in 0 .. made
  /\ faults \in 0 .. MaxFaults

\* db_migrate::run, whatever database it found and wherever earlier boots
\* died: a recorded version has all of its effect (so that skipping it is
\* right), and a process that serves has every migration, recorded.
SchemaSound ==
  /\ \A id \in versions : Effect(id[1], id[2]) \subseteq schema
  /\ Booted => versions = MigrationIds

\* A boot that died between two statements never stands in the way of the
\* next ones: the server comes up again and again.
BootsAgain == []<>Booted

\* serve and drain_background_tasks with a deadline: once signalled the
\* process ends, though requests or background tasks never do.  All that can
\* keep it, its last row written, is work on a thread that does not end.
StopsWhenTold ==
  phase = "delay" /\ timeout > 0 ~> phase = "down" \/ [](phase = "exit" /\ Held)

\* What drain_background_tasks says: it returns "with the rest abandoned
\* rather than blocking shutdown forever".
NeverBlocksForever == phase = "delay" /\ timeout > 0 ~> phase = "down"

\* The server.shutdown row is the last word: a process that wrote it had
\* been told to stop, no handler of it is at work unless the listener gave up
\* at its deadline (over TLS without one: at once), and no task unless the
\* tasks had a deadline and it has passed.
ShutdownRowLast ==
  told \in {"graceful", "timed_out"} =>
    /\ draining
    /\ InFlight = {} \/ (cut /\ elapsed >= timeout /\ (timeout = 0 => tls))
    /\ (\A t \in Task : task[t] = "joined") \/ (timeout > 0 /\ waited >= timeout)

\* admin_rotate_jwt_key: a key that a rotation replaced and reported as
\* persisted is in force again only if its own rotation, swapped first, was
\* the last to write the file; over crashes, restarts and failed writes.
RetiredStaysRetired == mem \in retired => mem = crossed

\* What the response promises without that exception: once the file "was
\* rewritten", no restart brings back "the previous key".
RetiredForGood == mem \notin retired

\* "Classify the drain outcome for the server.shutdown audit event": the
\* row says timed_out when requests were cut or tasks abandoned.
KindIsOutcome ==
  told \in {"graceful", "timed_out"} =>
    (told = "timed_out" <=> cut \/ \E t \in Task : task[t] # "joined")
=============================================================================
