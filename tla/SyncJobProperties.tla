-------------------------- MODULE SyncJobProperties --------------------------
(***************************************************************************)
(* What the synchronisation jobs of SyncJob guarantee, and what their      *)
(* documents say that they do not.                                         *)
(***************************************************************************)
EXTENDS SyncJob

\* Every variable holds a value of the kind the code keeps there.
TypeOK ==
    /\ status \in [Job -> Status]
    /\ dsOf \in [Job -> Datasource \union {None}]
    /\ tables \in [Job -> SUBSET Table]
    /\ stale \in [Job -> BOOLEAN]
    /\ nextId \in 1..(MaxJobs + 1)
    /\ visible \in [Datasource -> SUBSET Table]
    /\ publisher \in [Datasource -> Job \union {NoJob}]
    /\ published \subseteq Job
    /\ cancelledInTime \subseteq Job
    /\ queue \in Seq(Job)
    /\ lock \in [Datasource -> Worker \union {None}]
    /\ wk \in [Worker -> WorkerState]
    /\ leaked \in Nat
    /\ api \in [pc : {"idle", "create", "fill", "dispatch", "cancel"},
                job : Job \union {NoJob}, ds : Datasource \union {None},
                tables : SUBSET Table]
    /\ rec \in Job \union {NoJob}
    /\ sweeping \in BOOLEAN
    /\ crashes \in 0..MaxCrashes

-----------------------------------------------------------------------------
(* Safety, whatever the environment does *)

\* At most one row of a datasource is active, although workers overwrite rows
\* through stale copies and may bring a terminal one back to life.
OneActiveJob ==
    \A j, k \in Job : /\ status[j] \in Active /\ status[k] \in Active
                      /\ dsOf[j] = dsOf[k]
                      => j = k

\* Two threads never have staged rows of one datasource in open transactions:
\* a cancelled job's thread and that of the job submitted after it are kept
\* apart by the datasource lock.
HasStaged(w) == wk[w].pc \in {"finalizing", "staging"} /\ wk[w].done # {}

OneWorkTransaction ==
    \A v, w \in Worker : /\ HasStaged(v) /\ HasStaged(w)
                         /\ dsOf[wk[v].job] = dsOf[wk[w].job]
                         => v = w

\* A job is in one place only: with the handler that will dispatch it, in the
\* executor's queue, or with one thread.  So it is never run twice.
Dispatching(j) == api.pc \in {"fill", "dispatch"} /\ api.job = j
Queued(j)      == \E i \in 1..Len(queue) : queue[i] = j
Carried(j)     == \E w \in Worker : wk[w].job = j

RunOnce ==
    \A j \in Job :
        /\ ~(Dispatching(j) /\ (Queued(j) \/ Carried(j)))
        /\ ~(Queued(j) /\ Carried(j))
        /\ \A v, w \in Worker : wk[v].job = j /\ wk[w].job = j => v = w
        /\ \A i, k \in 1..Len(queue) : queue[i] = j /\ queue[k] = j => i = k

\* A cancellation committed before the thread's last look at the row holds:
\* the job is not published and does not come back to life, although the
\* thread keeps writing its progress to the row.
CancelHolds ==
    \A j \in cancelledInTime : j \notin published /\ status[j] \in Retryable

\* The outcome a job reports agrees with the catalog: succeeded jobs were
\* published, partial ones were not.
OutcomeIsTrue ==
    \A j \in Job : /\ status[j] = "succeeded" => j \in published
                   /\ status[j] = "partial" => j \notin published

\* Readers see whole selections in order of submission: see SchemaCatalog.
Catalog == INSTANCE SchemaCatalog WITH
    owner   <- [j \in Job |-> IF tables[j] = {} THEN None ELSE dsOf[j]],
    request <- tables

CatalogSpec == Catalog!Spec

\* A reader of the API sees the rows of a datasource change as JobRows says: a
\* job that ended goes on only if it was cancelled or taken for dead and no other
\* one is active.
StatusesOf(d) == [j \in Job |-> IF dsOf[j] # d THEN "none"
                                ELSE IF status[j] \in Active THEN "active" ELSE status[j]]
RowsOf(d) == INSTANCE JobRows WITH Outcome <- {"succeeded", "failed", "partial"},
                                   rows <- StatusesOf(d)

RowsSpec == \A d \in Datasource : RowsOf(d)!Spec

-----------------------------------------------------------------------------
(* The parts of the inductive invariant behind the properties above *)

\* Rows exist up to nextId; whoever holds a job holds an existing one, with its
\* request once it has been dispatched.
KnownJobs ==
    /\ \A j \in Job : IF j < nextId
                        THEN dsOf[j] \in Datasource /\ status[j] # "none"
                        ELSE dsOf[j] = None /\ status[j] = "none" /\ tables[j] = {}
    /\ \A i \in 1..Len(queue) : queue[i] < nextId /\ tables[queue[i]] # {}
    /\ \A w \in Worker : IF wk[w].pc = "idle"
                           THEN wk[w] = Idle
                           ELSE /\ wk[w].job \in Job /\ wk[w].job < nextId
                                /\ tables[wk[w].job] # {}
    /\ rec < nextId

KnownRequests ==
    /\ api.pc = "create" => api.ds \in Datasource /\ api.tables # {} /\ nextId \in Job
    /\ api.pc \in {"fill", "dispatch", "cancel"} => api.job \in Job /\ api.job < nextId
    /\ api.pc = "fill" => tables[api.job] = {} /\ api.tables # {}
    /\ api.pc = "dispatch" => tables[api.job] # {}

\* A thread inside the lock is the holder of its datasource's lock.
LockHeld == \A w \in Worker : wk[w].pc \in Locked => lock[dsOf[wk[w].job]] = w

\* A lock that is taken is that of a thread at work on its datasource: whichever
\* way a thread ends, no job waits for a lock that nobody will release.
NoLockForgotten ==
    \A d \in Datasource :
        lock[d] # None => wk[lock[d]].pc \in Locked /\ dsOf[wk[lock[d]].job] = d

\* What a thread has to do, has done and has failed at make up the request.
Progress ==
    \A w \in Worker :
      LET r == wk[w]
          T == tables[r.job] IN
      /\ r.pc \in {"idle", "locking", "admitted", "starting", "toRunning"} =>
            r.todo = {} /\ r.singles = {} /\ r.done = {} /\ r.bad = {}
      /\ r.pc \in {"introspecting", "toStage", "probing"} =>
            T = r.todo \union r.singles \union r.done \union r.bad
      /\ r.pc = "toStage" => r.todo = {} /\ r.singles = {}
      /\ r.pc \in {"finalizing", "staging"} => T = r.todo \union r.done

\* A datasource shows the request of the job that published it.
WholeSchema ==
    \A d \in Datasource :
      IF publisher[d] = NoJob
        THEN visible[d] = {}
        ELSE /\ dsOf[publisher[d]] = d /\ tables[publisher[d]] # {}
             /\ visible[d] = tables[publisher[d]]
             /\ publisher[d] \in published

\* Until a thread has passed the first checkpoint with a job, the row is as
\* submitted or cancelled, and a pending row is its datasource's newest.
Unstarted(j) == \/ Dispatching(j) \/ Queued(j)
                \/ \E w \in Worker : /\ wk[w].job = j
                                     /\ wk[w].pc \in {"locking", "admitted", "starting"}

Untouched ==
    \A j \in Job :
      /\ Unstarted(j) => status[j] \in {"pending", "cancelled"} /\ rec # j
      /\ status[j] = "pending" => \A k \in Job : k > j => dsOf[k] # dsOf[j]

\* A job is published when its thread gets to posting, and not before; from the
\* first checkpoint to then, its datasource shows an older job.
Publishes ==
    /\ \A j \in Job : Unstarted(j) => j \notin published
    /\ \A j \in published : j < nextId
    /\ \A w \in Worker :
         /\ wk[w].pc \in Locked \ {"posting", "succeeding"} => wk[w].job \notin published
         /\ wk[w].pc \in {"posting", "succeeding"} => wk[w].job \in published
         /\ wk[w].pc \in Locked \ {"admitted", "starting", "posting", "succeeding"} =>
               publisher[dsOf[wk[w].job]] < wk[w].job

\* A job that reports its outcome is with nobody any more.
Settled == \A j \in Job : status[j] \in {"succeeded", "partial"} => ~Unstarted(j) /\ ~Carried(j)

\* A thread whose job was cancelled in time is on its way to notice.
OnItsWayOut(w) ==
    LET r == wk[w] IN
    /\ status[r.job] = "cancelled" \/ r.pc = "failing"
    /\ r.pc \notin {"toRunning", "staging", "posting", "succeeding"}
    /\ r.pc \in {"introspecting", "probing"} => r.copy \in {"running", "cancelled"}
    /\ r.pc = "toStage" => r.copy = "running"
    /\ r.pc = "probing" /\ r.copy = "running" => ~LoopDone(w)
    /\ r.pc = "finalizing" => r.todo # {}

CancelNoticed ==
    /\ CancelHolds
    /\ \A j \in cancelledInTime :
         /\ j < nextId /\ rec # j
         /\ \A w \in Worker : wk[w].job = j => OnItsWayOut(w)

-----------------------------------------------------------------------------
(* Safety where some of the hazards are absent *)

\* An active row always has someone who will finish it.
NothingStranded ==
    \A j \in Job : status[j] \in Active => Dispatching(j) \/ Queued(j) \/ Carried(j)

\* failed means that the previous schema is still visible.
FailedIsUnpublished == \A j \in Job : status[j] = "failed" => j \notin published

\* A reported outcome stands: only a cancellation that was read before the
\* outcome was committed may still replace it.
OutcomeStands ==
    [][\A j \in Job : status[j] \in Terminal \ {"cancelled"}
                         => status'[j] \in {status[j], "cancelled"}]_vars

\* A thread that takes its job for over is right, and one that waits for the
\* lock has read the row as it was submitted or cancelled.
CopyTellsTheEnd ==
    \A w \in Worker :
      wk[w].pc # "idle" =>
        /\ wk[w].copy \notin Active => status[wk[w].job] \notin Active
        /\ wk[w].pc = "locking" => wk[w].copy \in {"pending", "cancelled"}

\* Where no thread is slow, a row that has got stale, or that the sweep is about
\* to fail, is with nobody, and a job that somebody carries has not ended but,
\* unnoticed, in a cancellation.
OnlyTheDeadGetStale ==
    /\ \A j \in Job : stale[j] \/ rec = j => j < nextId /\ ~Unstarted(j) /\ ~Carried(j)
    /\ rec # NoJob => status[rec] \in Recoverable \union {"failed", "cancelled"}
    /\ \A w \in Worker : wk[w].pc # "idle" => status[wk[w].job] \in Active \union {"cancelled"}

\* Where nothing dies, fails or is slow, a row at work is with its thread, no
\* row gets stale, and a thread's copy is its row but for a cancellation.
CopyFollows ==
    /\ rec = NoJob /\ \A j \in Job : ~stale[j]
    /\ \A j \in Job : status[j] \in Recoverable => Carried(j)
    /\ \A w \in Worker :
         LET p == wk[w].pc
             c == wk[w].copy IN
         /\ p # "idle" => status[wk[w].job] \in {c, "cancelled"}
         /\ p = "locking" => c \in {"pending", "cancelled"}
         /\ p \in {"admitted", "starting", "toRunning"} => c = "pending"
         /\ p \in {"introspecting", "probing"} => c \in {"running", "cancelled"}
         /\ p = "toStage" => c = "running"
         /\ p = "staging" => c = "finalizing"
         /\ p \in {"finalizing", "posting", "succeeding"} => c \in {"finalizing", "cancelled"}
         /\ p = "failing" => c = "cancelled"

-----------------------------------------------------------------------------
(* Liveness.  Threads get their turn, statements return, the sweep comes    *)
(* around, and time passes for a row no thread works on.  Requests, crashes *)
(* and failures are never forced.                                           *)

Fairness ==
    /\ \A w \in Worker : WF_vars(WorkerStep(w)) /\ WF_vars(WorkerPublishes(w))
    /\ WF_vars(HandlerStep)
    /\ WF_vars(RecoverStaleJob)
    /\ \A j \in Job : WF_vars(BecomeStale(j)) /\ WF_vars(FindStaleJob(j))

FairSpec == Spec /\ Fairness

\* Every submitted job comes to an end.
EveryJobEnds == \A j \in Job : status[j] \in Active ~> status[j] \in Terminal

\* A row left running or finalizing by a dead thread is taken out of the way.
StaleIsRecovered ==
    \A j \in Job : status[j] \in Recoverable ~> status[j] \notin Recoverable

-----------------------------------------------------------------------------
(* What the documents say and the code does not do *)

\* "so a crashed worker doesn't permanently block new submissions"
\* (_run_job_with_datasource_lock): a datasource becomes free again.
DatasourceIsFreed ==
    \A d \in Datasource : ActiveOn(d) # {} ~> ActiveOn(d) = {}

\* "Job cancelled by operator; previous schema remains visible": a row that
\* says cancelled is not published afterwards.
CancelledIsNotPublished ==
    [][\A j \in Job : status[j] = "cancelled" => (j \in published' => j \in published)]_vars
=============================================================================
