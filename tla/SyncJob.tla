------------------------------ MODULE SyncJob ------------------------------
(***************************************************************************)
(* The datasource synchronisation jobs: the rows of datasource_sync_job,   *)
(* the HTTP handlers that submit, retry and cancel them, the executor      *)
(* threads that run them under an in-process lock per datasource, the      *)
(* periodic recovery of stale rows, and the catalog (core_table) a job     *)
(* publishes in a single transaction.                                      *)
(*                                                                         *)
(* The row and a worker's ORM copy of it are kept apart.  A SELECT does    *)
(* not overwrite an object that is already loaded: only the refresh after  *)
(* a commit, and session.refresh, bring the row back into the copy.  An    *)
(* UPDATE writes only the columns that differ from the copy.               *)
(***************************************************************************)
EXTENDS Naturals, Sequences, FiniteSets

CONSTANTS
    MaxJobs,      \* bound: how many rows are ever created
    Datasource,   \* datasources
    Worker,       \* executor threads (SYNC_JOB_MAX_WORKERS)
    Table,        \* tables of a remote database
    BatchSize,    \* SYNC_BATCH_SIZE
    MaxCrashes,   \* bound: how often the server process dies
    Hazard,       \* which of "slow", "error", "outage" the environment does
    None          \* no datasource, no lock holder

Job == 1..MaxJobs
NoJob == 0

ASSUME SyncJobAssumption ==
    /\ MaxJobs \in Nat
    /\ MaxCrashes \in Nat
    /\ BatchSize \in Nat \ {0}
    /\ IsFiniteSet(Table)
    /\ Hazard \subseteq {"slow", "error", "outage"}
    /\ None \notin Datasource \union Worker

VARIABLES
    status, dsOf, tables, stale, nextId,   \* datasource_sync_job
    visible,                               \* core_table, as committed
    queue, lock, wk,                       \* executor queue, locks, threads
    leaked,                                \* permits of the limiter never returned
    api, rec, sweeping, crashes,           \* event loop, recovery thread and task
    publisher, published, cancelledInTime  \* history

rows    == <<status, dsOf, tables, stale, nextId>>
catalog == <<visible, publisher, published>>
server  == <<leaked, api, rec, sweeping, crashes, cancelledInTime>>
threads == <<queue, lock, wk>>
vars    == <<rows, catalog, threads, server>>

-----------------------------------------------------------------------------
(* Statuses *)

Recoverable == {"running", "finalizing"}
Active      == {"pending"} \union Recoverable
Retryable   == {"failed", "partial", "cancelled"}
Terminal    == {"succeeded"} \union Retryable
Status      == {"none"} \union Active \union Terminal

ActiveOn(d) == {j \in Job : dsOf[j] = d /\ status[j] \in Active}

-----------------------------------------------------------------------------
(* Worker threads *)

Locked == {"admitted", "starting", "toRunning", "introspecting", "toStage",
           "probing", "finalizing", "staging", "posting", "succeeding"}

\* The thread's position, the job it carries, its copy of the job's status,
\* and in the loop it is in: the tables to do, those of a failed batch being
\* retried one by one, those done; and the tables that failed in any loop.
WorkerState == [pc : Locked \union {"idle", "locking", "failing"},
                job : Job \union {NoJob}, copy : Status,
                todo : SUBSET Table, singles : SUBSET Table,
                done : SUBSET Table, bad : SUBSET Table]

Idle == [pc |-> "idle", job |-> NoJob, copy |-> "none", todo |-> {},
         singles |-> {}, done |-> {}, bad |-> {}]

ApiIdle == [pc |-> "idle", job |-> NoJob, ds |-> None, tables |-> {}]

LoopDone(w) == wk[w].todo = {} /\ wk[w].singles = {}

\* Staging writes the job's row inside the work transaction, which then holds
\* the row lock until it ends.
RowLocked(j) == \E w \in Worker : /\ wk[w].job = j
                                  /\ wk[w].pc \in {"finalizing", "staging"}
                                  /\ wk[w].done # {}

Released(w) == [d \in Datasource |-> IF lock[d] = w THEN None ELSE lock[d]]

Batches(S) == {b \in SUBSET S : b # {} /\ \/ Cardinality(b) = BatchSize
                                          \/ b = S /\ Cardinality(S) < BatchSize}

-----------------------------------------------------------------------------
(* Writing the row *)

\* Mutant: the database has no such index.
ConflictWithoutIndex(j, s, copy) == FALSE

\* The partial unique index on ds_id rejects a write that would make a second
\* row of the datasource active.
Conflict(j, s, copy) == s # copy /\ s \in Active /\ ActiveOn(dsOf[j]) \ {j} # {}

\* Mutant: the UPDATE writes every column.
AssignedAlways(j, s, copy) == [status EXCEPT ![j] = s]

\* The status column after writing s through a copy: not written when equal.
Assigned(j, s, copy) == IF s = copy THEN status
                                    ELSE [status EXCEPT ![j] = s]

\* Mutant: the lock is not released on the way out.
LeaveLocked(w) == wk' = [wk EXCEPT ![w] = Idle] /\ UNCHANGED lock

Leave(w) == wk' = [wk EXCEPT ![w] = Idle] /\ lock' = Released(w)

\* An exception leaves the lock, rolls back and reads the row afresh.
Raise(w) == /\ wk' = [wk EXCEPT ![w] = [Idle EXCEPT !.pc = "failing",
                                          !.job = wk[w].job,
                                          !.copy = status[wk[w].job]]]
            /\ lock' = Released(w)

\* update_sync_job_status: commit s, refresh the copy, continue as in r.
UpdateStatus(w, s, r) ==
    LET j == wk[w].job IN
    /\ UNCHANGED <<dsOf, tables, nextId>>
    /\ \/ /\ ~Conflict(j, s, wk[w].copy)
          /\ status' = Assigned(j, s, wk[w].copy)
          /\ stale' = [stale EXCEPT ![j] = FALSE]
          /\ wk' = [wk EXCEPT ![w] = [r EXCEPT !.copy = status'[j]]]
          /\ UNCHANGED lock
       \/ /\ Conflict(j, s, wk[w].copy)
          /\ Raise(w)
          /\ UNCHANGED <<status, stale>>

\* The same write as the last act of the run.
UpdateAndLeave(w, s) ==
    LET j == wk[w].job IN
    /\ status' = Assigned(j, s, wk[w].copy)
    /\ stale' = [stale EXCEPT ![j] = FALSE]
    /\ Leave(w)
    /\ UNCHANGED <<dsOf, tables, nextId>>

\* increment_sync_job_progress: a failed table is counted; no status write.
CountFailure(w, r) ==
    /\ stale' = [stale EXCEPT ![wk[w].job] = FALSE]
    /\ wk' = [wk EXCEPT ![w] = [r EXCEPT !.copy = status[wk[w].job]]]
    /\ UNCHANGED <<status, dsOf, tables, nextId, lock>>

-----------------------------------------------------------------------------
(* HTTP handlers: the event loop runs one at a time, but a worker or the    *)
(* recovery thread may commit between the statements of a handler.          *)

\* No active job was found for d: the handler will create one.
Accept(d, T) ==
    /\ api.pc = "idle" /\ nextId \in Job /\ ActiveOn(d) = {}
    /\ api' = [ApiIdle EXCEPT !.pc = "create", !.ds = d, !.tables = T]
    /\ UNCHANGED <<rows, catalog, threads, leaked, rec, sweeping, crashes,
                   cancelledInTime>>

SubmitSyncJob(d, T) == T # {} /\ Accept(d, T)

RetrySyncJob(j) ==
    /\ status[j] \in Retryable
    /\ tables[j] # {}
    /\ Accept(dsOf[j], tables[j])

CreateSyncJob ==
    /\ api.pc = "create" /\ ActiveOn(api.ds) = {}
    /\ status' = [status EXCEPT ![nextId] = "pending"]
    /\ dsOf' = [dsOf EXCEPT ![nextId] = api.ds]
    /\ nextId' = nextId + 1
    /\ api' = [api EXCEPT !.pc = "fill", !.job = nextId]
    /\ UNCHANGED <<tables, stale, catalog, threads, leaked, rec, sweeping,
                   crashes, cancelledInTime>>

\* Mutant: the reused job is dispatched as well.
ReuseAndDispatch ==
    /\ api.pc = "create" /\ ActiveOn(api.ds) # {}
    /\ queue' = Append(queue, CHOOSE j \in ActiveOn(api.ds) : TRUE)
    /\ api' = ApiIdle
    /\ UNCHANGED <<rows, catalog, lock, wk, leaked, rec, sweeping, crashes,
                   cancelledInTime>>

\* IntegrityError: a row became active meanwhile; the caller is sent to it.
ReuseActiveJob ==
    /\ api.pc = "create" /\ ActiveOn(api.ds) # {}
    /\ api' = ApiIdle
    /\ UNCHANGED <<rows, catalog, threads, leaked, rec, sweeping, crashes,
                   cancelledInTime>>

StoreRequestedTables ==
    /\ api.pc = "fill"
    /\ tables' = [tables EXCEPT ![api.job] = api.tables]
    /\ api' = [api EXCEPT !.pc = "dispatch"]
    /\ UNCHANGED <<status, dsOf, stale, nextId, catalog, threads, leaked, rec,
                   sweeping, crashes, cancelledInTime>>

DispatchSyncJob ==
    /\ api.pc = "dispatch"
    /\ queue' = Append(queue, api.job)
    /\ api' = ApiIdle
    /\ UNCHANGED <<rows, catalog, lock, wk, leaked, rec, sweeping, crashes,
                   cancelledInTime>>

CancelRequested(j) ==
    /\ api.pc = "idle" /\ status[j] \in Active
    /\ api' = [ApiIdle EXCEPT !.pc = "cancel", !.job = j]
    /\ UNCHANGED <<rows, catalog, threads, leaked, rec, sweeping, crashes,
                   cancelledInTime>>

\* History only: the worker of j has yet to read the row before it commits
\* anything that overwrites a cancellation or publishes.
StillObserves(w) ==
    \/ wk[w].pc \in {"locking", "admitted", "starting"}
    \/ wk[w].pc = "introspecting" /\ wk[w].copy = "running"
    \/ wk[w].pc = "toStage" /\ wk[w].copy = "running"
    \/ wk[w].pc = "probing" /\ wk[w].copy = "running" /\ ~LoopDone(w)
    \/ wk[w].pc = "finalizing" /\ wk[w].todo # {}

InTime(j) == /\ j \notin published /\ rec # j
             /\ \A w \in Worker : wk[w].job = j => StillObserves(w)

CancelSyncJob ==
    LET j == api.job IN
    /\ api.pc = "cancel" /\ ~RowLocked(j)
    /\ status' = [status EXCEPT ![j] = "cancelled"]
    /\ stale' = [stale EXCEPT ![j] = FALSE]
    /\ cancelledInTime' = cancelledInTime \union {k \in {j} : InTime(k)}
    /\ api' = ApiIdle
    /\ UNCHANGED <<dsOf, tables, nextId, catalog, threads, leaked, rec, sweeping,
                   crashes>>

-----------------------------------------------------------------------------
(* Recovery thread *)

\* A row not written for SYNC_JOB_STALE_TIMEOUT_SECONDS.  A thread still at
\* work on it lets that much time pass only when "slow" is among the hazards.
BecomeStale(j) ==
    /\ status[j] \in Recoverable /\ ~stale[j]
    /\ "slow" \in Hazard \/ \A w \in Worker : wk[w].job # j
    /\ stale' = [stale EXCEPT ![j] = TRUE]
    /\ UNCHANGED <<status, dsOf, tables, nextId, catalog, threads, server>>

\* Mutants: the age of the row is not looked at; finalizing rows are forgotten.
FindAnyJob(j) ==
    /\ sweeping /\ rec = NoJob /\ status[j] \in Recoverable
    /\ rec' = j
    /\ UNCHANGED <<rows, catalog, threads, leaked, api, sweeping, crashes,
                   cancelledInTime>>

FindStaleRunning(j) == status[j] = "running" /\ stale[j] /\ FindAnyJob(j)

FindStaleJob(j) ==
    /\ sweeping /\ rec = NoJob
    /\ status[j] \in Recoverable /\ stale[j]
    /\ rec' = j
    /\ UNCHANGED <<rows, catalog, threads, leaked, api, sweeping, crashes,
                   cancelledInTime>>

RecoverStaleJob ==
    /\ rec # NoJob /\ ~RowLocked(rec)
    /\ status' = [status EXCEPT ![rec] = "failed"]
    /\ stale' = [stale EXCEPT ![rec] = FALSE]
    /\ rec' = NoJob
    /\ UNCHANGED <<dsOf, tables, nextId, catalog, threads, leaked, api, sweeping,
                   crashes, cancelledInTime>>

\* An exception in a sweep ends the task that runs the sweeps.
SweepFails ==
    /\ "outage" \in Hazard /\ sweeping
    /\ sweeping' = FALSE
    /\ rec' = NoJob
    /\ UNCHANGED <<rows, catalog, threads, leaked, api, crashes, cancelledInTime>>

-----------------------------------------------------------------------------
(* Executor threads *)

\* What BoundedSemaphore(SYNC_JOB_MAX_WORKERS) has left.
Permits == Cardinality({w \in Worker : wk[w].pc = "idle"}) - leaked

PickUp(w) ==
    /\ wk[w].pc = "idle" /\ queue # <<>> /\ Permits > 0
    /\ wk' = [wk EXCEPT ![w] = [Idle EXCEPT !.pc = "locking", !.job = Head(queue),
                                            !.copy = status[Head(queue)]]]
    /\ queue' = Tail(queue)
    /\ UNCHANGED <<rows, lock>>

\* Mutant: the lock is not waited for.
AcquireHeldLock(w) ==
    LET d == dsOf[wk[w].job] IN
    /\ wk[w].pc = "locking" /\ wk[w].copy = "pending"
    /\ lock' = [lock EXCEPT ![d] = w]
    /\ wk' = [wk EXCEPT ![w].pc = "admitted"]
    /\ UNCHANGED <<rows, queue>>

AcquireLock(w) ==
    LET d == dsOf[wk[w].job] IN
    /\ wk[w].pc = "locking" /\ lock[d] = None
    /\ \/ /\ wk[w].copy = "pending"
          /\ lock' = [lock EXCEPT ![d] = w]
          /\ wk' = [wk EXCEPT ![w].pc = "admitted"]
       \/ wk[w].copy # "pending" /\ Leave(w)
    /\ UNCHANGED <<rows, queue>>

\* Inside the lock: recover the datasource's other stale rows, then give way
\* to a row that is still active.
Admit(w) ==
    LET j       == wk[w].job
        others  == ActiveOn(dsOf[j]) \ {j}
        dead    == {k \in others : status[k] \in Recoverable /\ stale[k]}
        cleared == [k \in Job |-> IF k \in dead THEN "failed" ELSE status[k]]
    IN
    /\ wk[w].pc = "admitted"
    /\ \/ /\ others = dead
          /\ status' = cleared
          /\ stale' = [k \in Job |-> stale[k] /\ k \notin dead]
          /\ wk' = [wk EXCEPT ![w].pc = "starting"]
          /\ UNCHANGED lock
       \/ /\ others # dead
          /\ status' = [cleared EXCEPT ![j] = "failed"]
          /\ stale' = [k \in Job |-> stale[k] /\ k \notin dead \union {j}]
          /\ Leave(w)
    /\ UNCHANGED <<dsOf, tables, nextId, queue>>

\* The three places where the runner refreshes the copy and looks for a
\* cancellation: before it writes RUNNING, after the last introspected batch,
\* and before each batch written into the work transaction.
AtCheckpoint(w) == \/ wk[w].pc = "starting"
                   \/ wk[w].pc = "introspecting" /\ LoopDone(w)
                   \/ wk[w].pc = "finalizing" /\ wk[w].todo # {}

AfterCheckpoint(p) == CASE p = "starting"      -> "toRunning"
                        [] p = "introspecting" -> "toStage"
                        [] p = "finalizing"    -> "staging"

CheckCancelled(w) ==
    /\ AtCheckpoint(w)
    /\ \/ status[wk[w].job] = "cancelled" /\ Leave(w)
       \/ /\ status[wk[w].job] # "cancelled"
          /\ wk' = [wk EXCEPT ![w].copy = status[wk[w].job],
                              ![w].pc = AfterCheckpoint(wk[w].pc)]
          /\ UNCHANGED lock
    /\ UNCHANGED <<rows, queue>>

\* _ensure_not_cancelled: only the copy is looked at.
EnsureNotCancelled(w) ==
    /\ \/ wk[w].pc = "introspecting" /\ ~LoopDone(w)
       \/ wk[w].pc = "probing" /\ (LoopDone(w) => wk[w].bad = {})
       \/ wk[w].pc = "posting"
    /\ wk[w].copy = "cancelled"
    /\ Leave(w)
    /\ UNCHANGED <<rows, queue>>

BeginRunning(w) ==
    /\ wk[w].pc = "toRunning"
    /\ UpdateStatus(w, "running", [wk[w] EXCEPT !.pc = "introspecting",
                                                !.todo = tables[wk[w].job]])
    /\ UNCHANGED queue

\* One round of a loop: a batch succeeds; a batch of one fails; a larger one
\* fails and its tables are tried one by one, of which one succeeds or fails.
RunBatch(w) ==
    LET r == wk[w] IN
    /\ r.copy # "cancelled"
    /\ \/ \E b \in Batches(r.todo) :
            /\ r.singles = {}
            /\ \/ UpdateStatus(w, "running", [r EXCEPT !.todo = @ \ b,
                                                       !.done = @ \union b])
               \/ /\ Cardinality(b) = 1
                  /\ CountFailure(w, [r EXCEPT !.todo = @ \ b,
                                               !.bad = @ \union b])
               \/ /\ Cardinality(b) > 1
                  /\ wk' = [wk EXCEPT ![w] = [r EXCEPT !.todo = @ \ b, !.singles = b]]
                  /\ UNCHANGED <<rows, lock>>
       \/ \E t \in r.singles :
            \/ UpdateStatus(w, "running", [r EXCEPT !.singles = @ \ {t},
                                                    !.done = @ \union {t}])
            \/ CountFailure(w, [r EXCEPT !.singles = @ \ {t},
                                         !.bad = @ \union {t}])
    /\ UNCHANGED queue

IntrospectBatch(w) == wk[w].pc = "introspecting" /\ RunBatch(w)

BeginStage(w) ==
    /\ wk[w].pc = "toStage"
    /\ UpdateStatus(w, "running", [wk[w] EXCEPT !.pc = "probing",
                                     !.todo = wk[w].done, !.done = {}])
    /\ UNCHANGED queue

ProbeStageBatch(w) == wk[w].pc = "probing" /\ RunBatch(w)

\* Mutant: the thread returns without writing the outcome.
ConcludeSilently(w) ==
    /\ wk[w].pc = "probing" /\ LoopDone(w) /\ wk[w].bad # {}
    /\ Leave(w)
    /\ UNCHANGED <<rows, queue>>

\* Some table failed: nothing is published, whatever the row says by now.
ConcludeWithFailures(w) ==
    /\ wk[w].pc = "probing" /\ LoopDone(w) /\ wk[w].bad # {}
    /\ UpdateAndLeave(w, IF wk[w].done = {} THEN "failed" ELSE "partial")
    /\ UNCHANGED queue

\* Mutant: the tables that did succeed are published.
BeginFinalizeAnyway(w) ==
    /\ wk[w].pc = "probing" /\ LoopDone(w) /\ wk[w].copy # "cancelled"
    /\ UpdateStatus(w, "finalizing", [wk[w] EXCEPT !.pc = "finalizing",
                                        !.todo = wk[w].done, !.done = {}])
    /\ UNCHANGED queue

BeginFinalize(w) ==
    /\ wk[w].pc = "probing" /\ LoopDone(w) /\ wk[w].bad = {}
    /\ wk[w].copy # "cancelled"
    /\ UpdateStatus(w, "finalizing", [wk[w] EXCEPT !.pc = "finalizing",
                                        !.todo = wk[w].done, !.done = {}])
    /\ UNCHANGED queue

\* Mutant: the work transaction is not committed after its last batch.
StageWithoutCommit(w) ==
    /\ wk[w].pc = "staging"
    /\ \E b \in Batches(wk[w].todo) :
         wk' = [wk EXCEPT ![w].pc = IF wk[w].todo = b THEN "posting" ELSE "finalizing",
                          ![w].todo = @ \ b, ![w].done = @ \union b]
    /\ UNCHANGED <<rows, queue, lock>>

StageTableBatch(w) ==
    /\ wk[w].pc = "staging"
    /\ \E b \in Batches(wk[w].todo) :
         wk' = [wk EXCEPT ![w].pc = "finalizing", ![w].todo = @ \ b,
                          ![w].done = @ \union b]
    /\ UNCHANGED <<rows, queue, lock>>

\* finalize_sync and the commit of the work transaction.
Publish(w) ==
    LET j == wk[w].job IN
    /\ wk[w].pc = "finalizing" /\ wk[w].todo = {}
    /\ visible' = [visible EXCEPT ![dsOf[j]] = wk[w].done]
    /\ publisher' = [publisher EXCEPT ![dsOf[j]] = j]
    /\ published' = published \union {j}
    /\ wk' = [wk EXCEPT ![w].pc = "posting"]
    /\ UNCHANGED <<rows, queue, lock>>

PostProcessEmbeddings(w) ==
    /\ wk[w].pc = "posting" /\ wk[w].copy # "cancelled"
    /\ wk' = [wk EXCEPT ![w].pc = "succeeding", ![w].copy = status[wk[w].job]]
    /\ UNCHANGED <<rows, queue, lock>>

\* Mutants: a failed embedding follow-up fails the job; the status is misspelt.
SucceedUnlessEmbeddingFails(w) ==
    /\ wk[w].pc = "succeeding"
    /\ \E s \in {"succeeded", "failed"} : UpdateAndLeave(w, s)
    /\ UNCHANGED queue

SucceedMisspelt(w) ==
    wk[w].pc = "succeeding" /\ UpdateAndLeave(w, "success") /\ UNCHANGED queue

Succeed(w) ==
    /\ wk[w].pc = "succeeding"
    /\ UpdateAndLeave(w, "succeeded")
    /\ UNCHANGED queue

\* A statement fails for a reason of its own: any exception is handled after a
\* fresh read, but a RuntimeError (the datasource's row is gone, noticed where
\* a session context is built) is handled with the copy at hand.
StepFails(w) ==
    /\ "error" \in Hazard
    /\ \/ wk[w].pc \in Locked \union {"locking"} /\ Raise(w)
       \/ /\ wk[w].pc \in {"starting", "finalizing"}
          /\ wk' = [wk EXCEPT ![w] = [Idle EXCEPT !.pc = "failing",
                                         !.job = wk[w].job, !.copy = wk[w].copy]]
          /\ lock' = Released(w)
    /\ UNCHANGED <<rows, queue>>

\* The exception handler: mark the row FAILED if it was active when read.
MarkFailed(w) ==
    /\ wk[w].pc = "failing"
    /\ \/ wk[w].copy \in Active /\ UpdateAndLeave(w, "failed")
       \/ wk[w].copy \notin Active /\ Leave(w) /\ UNCHANGED rows
    /\ UNCHANGED queue

\* The database is down for the handler too: the thread ends, the row stays.
HandlerFails(w) ==
    /\ "outage" \in Hazard /\ wk[w].pc = "failing"
    /\ Leave(w)
    /\ UNCHANGED <<rows, queue>>

\* The permit is taken and the connection opened before the try block whose
\* finally returns the permit.
ConnectFails(w) ==
    /\ "outage" \in Hazard
    /\ wk[w].pc = "idle" /\ queue # <<>> /\ Permits > 0
    /\ queue' = Tail(queue)
    /\ leaked' = leaked + 1
    /\ UNCHANGED <<rows, catalog, lock, wk, api, rec, sweeping, crashes,
                   cancelledInTime>>

WorkerStep(w) ==
    /\ \/ PickUp(w) \/ AcquireLock(w) \/ Admit(w) \/ CheckCancelled(w)
       \/ EnsureNotCancelled(w) \/ BeginRunning(w) \/ IntrospectBatch(w)
       \/ BeginStage(w) \/ ProbeStageBatch(w) \/ ConcludeWithFailures(w)
       \/ BeginFinalize(w) \/ StageTableBatch(w) \/ PostProcessEmbeddings(w)
       \/ Succeed(w) \/ MarkFailed(w)
    /\ UNCHANGED <<catalog, server>>

WorkerPublishes(w) == Publish(w) /\ UNCHANGED server

WorkerBreaks(w) ==
    \/ (StepFails(w) \/ HandlerFails(w)) /\ UNCHANGED <<catalog, server>>
    \/ ConnectFails(w)

\* The process dies and is started again: the memory is gone, an open work
\* transaction is rolled back, the committed rows remain.
Crash ==
    /\ crashes < MaxCrashes
    /\ crashes' = crashes + 1
    /\ queue' = <<>>
    /\ lock' = [d \in Datasource |-> None]
    /\ wk' = [w \in Worker |-> Idle]
    /\ api' = ApiIdle
    /\ rec' = NoJob
    /\ leaked' = 0
    /\ sweeping' = TRUE
    /\ UNCHANGED <<rows, catalog, cancelledInTime>>

-----------------------------------------------------------------------------
Init ==
    /\ status = [j \in Job |-> "none"]
    /\ dsOf = [j \in Job |-> None]
    /\ tables = [j \in Job |-> {}]
    /\ stale = [j \in Job |-> FALSE]
    /\ nextId = 1
    /\ visible = [d \in Datasource |-> {}]
    /\ publisher = [d \in Datasource |-> NoJob]
    /\ published = {}
    /\ cancelledInTime = {}
    /\ queue = <<>>
    /\ lock = [d \in Datasource |-> None]
    /\ wk = [w \in Worker |-> Idle]
    /\ api = ApiIdle
    /\ rec = NoJob
    /\ leaked = 0
    /\ sweeping = TRUE
    /\ crashes = 0

HandlerStep == \/ CreateSyncJob \/ ReuseActiveJob \/ StoreRequestedTables
               \/ DispatchSyncJob \/ CancelSyncJob

Request == \/ \E d \in Datasource, T \in SUBSET Table : SubmitSyncJob(d, T)
           \/ \E j \in Job : RetrySyncJob(j) \/ CancelRequested(j)

Recovery == RecoverStaleJob \/ SweepFails \/ \E j \in Job : BecomeStale(j) \/ FindStaleJob(j)

Next ==
    \/ Request
    \/ HandlerStep
    \/ Recovery
    \/ \E w \in Worker : WorkerStep(w) \/ WorkerPublishes(w) \/ WorkerBreaks(w)
    \/ Crash

Spec == Init /\ [][Next]_vars
=============================================================================
