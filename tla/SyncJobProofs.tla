---------------------------- MODULE SyncJobProofs ----------------------------
(***************************************************************************)
(* Proofs, for any number of jobs, datasources, threads and tables, that   *)
(* the synchronisation jobs have the safety properties that hold in every  *)
(* environment.                                                            *)
(***************************************************************************)
EXTENDS SyncJobProperties, SequenceTheorems, TLAPS

USE DEF Job, NoJob

-----------------------------------------------------------------------------
(* Types *)

LEMMA WorkerType ==
    ASSUME TypeOK, NEW w \in Worker
    PROVE  /\ wk[w] \in WorkerState
           /\ wk[w].pc \in Locked \union {"idle", "locking", "failing"}
           /\ wk[w].job \in Job \union {NoJob}
           /\ wk[w].copy \in Status
           /\ wk[w].todo \in SUBSET Table
           /\ wk[w].singles \in SUBSET Table
           /\ wk[w].done \in SUBSET Table
           /\ wk[w].bad \in SUBSET Table
BY DEF TypeOK, WorkerState

LEMMA IdleType == Idle \in WorkerState
BY DEF Idle, WorkerState, Status

\* What is known of the state of a thread.
KnownWorker(r) == /\ r \in WorkerState
                  /\ IF r.pc = "idle"
                       THEN r = Idle
                       ELSE r.job \in Job /\ r.job < nextId /\ tables[r.job] # {}

TypeInv == TypeOK /\ KnownJobs /\ KnownRequests

\* How a thread that goes on as r treats the locks: it lets go of them, keeps
\* them, or takes the free lock of its datasource.
LockStep(w, r) ==
    LET d == dsOf[wk[w].job] IN
    \/ r.pc \notin Locked /\ lock' = Released(w)
    \/ /\ r.pc \in Locked <=> wk[w].pc \in Locked
       /\ r.pc \in Locked => r.job = wk[w].job
       /\ UNCHANGED lock
    \/ /\ r.pc \in Locked /\ r.job = wk[w].job /\ lock[d] = None
       /\ lock' = [lock EXCEPT ![d] = w]

\* How a step treats the rows: it writes the status and the age of existing
\* rows only, and makes a row active only if it is the only one of its datasource.
RowStep ==
    /\ status' \in [Job -> Status] /\ stale' \in [Job -> BOOLEAN]
    /\ \A j \in Job : status'[j] = "none" <=> status[j] = "none"
    /\ \/ \A j \in Job : status'[j] \in Active => status[j] \in Active
       \/ \E j \in Job : /\ ActiveOn(dsOf[j]) \ {j} = {}
                         /\ \A k \in Job \ {j} : status'[k] = status[k]
    /\ UNCHANGED <<dsOf, tables, nextId>>

\* What all steps of thread w but those on the executor's queue have in common.
Steps(w) ==
    /\ RowStep
    /\ \E r \in WorkerState : /\ KnownWorker(r) /\ LockStep(w, r)
                              /\ wk' = [wk EXCEPT ![w] = r]

LEMMA UnchangedRowStep ==
    ASSUME TypeInv, UNCHANGED rows
    PROVE  RowStep
BY DEF RowStep, rows, TypeInv, TypeOK

LEMMA CarriedJob ==
    ASSUME TypeInv, NEW w \in Worker, wk[w].pc # "idle"
    PROVE  /\ wk[w].job \in Job /\ wk[w].job < nextId
           /\ tables[wk[w].job] # {} /\ dsOf[wk[w].job] \in Datasource
           /\ status[wk[w].job] \in Status \ {"none"}
BY DEF TypeInv, TypeOK, KnownJobs

LEMMA LeaveSteps ==
    ASSUME TypeInv, NEW w \in Worker, Leave(w), RowStep
    PROVE  Steps(w)
<1>1. KnownWorker(Idle) /\ Idle.pc \notin Locked
  BY IdleType DEF KnownWorker, Idle, Locked
<1>2. QED
  BY <1>1, IdleType DEF Leave, Steps, LockStep

LEMMA RaiseSteps ==
    ASSUME TypeInv, NEW w \in Worker, wk[w].pc # "idle", Raise(w), UNCHANGED rows
    PROVE  Steps(w)
<1> DEFINE r == [Idle EXCEPT !.pc = "failing", !.job = wk[w].job,
                             !.copy = status[wk[w].job]]
<1>1. r \in WorkerState /\ r.pc = "failing" /\ r.job = wk[w].job
  BY CarriedJob DEF Idle, WorkerState, Status
<1>2. KnownWorker(r) /\ r.pc \notin Locked
  BY <1>1, CarriedJob DEF KnownWorker, Locked
<1> HIDE DEF r
<1>3. wk' = [wk EXCEPT ![w] = r] /\ lock' = Released(w)
  BY DEF Raise, r
<1>4. QED
  BY <1>1, <1>2, <1>3, UnchangedRowStep DEF LockStep, Steps

LEMMA UpdateAndLeaveSteps ==
    ASSUME TypeInv, NEW w \in Worker, wk[w].pc # "idle",
           NEW s \in Terminal, UpdateAndLeave(w, s)
    PROVE  Steps(w)
<1>1. s \in Status /\ s # "none" /\ s \notin Active
  BY DEF Status, Terminal, Retryable, Active, Recoverable
<1>2. RowStep
  BY <1>1, CarriedJob DEF UpdateAndLeave, Assigned, RowStep, TypeInv, TypeOK
<1>3. QED
  BY <1>2, LeaveSteps DEF UpdateAndLeave

\* A thread's state with another position, copy or loop is a state of its kind.
Continues(w, r) == /\ r \in WorkerState /\ r.job = wk[w].job
                   /\ r.pc \in Locked

LEMMA ContinuesKnown ==
    ASSUME TypeInv, NEW w \in Worker, wk[w].pc # "idle", NEW r,
           Continues(w, r)
    PROVE  KnownWorker(r)
BY CarriedJob DEF KnownWorker, Continues, Locked

LEMMA MoveSteps ==
    ASSUME TypeInv, NEW w \in Worker, wk[w].pc \in Locked, NEW r, Continues(w, r),
           wk' = [wk EXCEPT ![w] = r], UNCHANGED lock, RowStep
    PROVE  Steps(w)
<1>1. KnownWorker(r) /\ r \in WorkerState
  BY ContinuesKnown DEF Continues, Locked
<1>2. QED
  BY <1>1 DEF Steps, LockStep, Continues

LEMMA UpdateStatusSteps ==
    ASSUME TypeInv, NEW w \in Worker, wk[w].pc \in Locked,
           NEW s \in Status \ {"none"}, NEW r, Continues(w, r),
           UpdateStatus(w, s, r)
    PROVE  Steps(w)
<1> wk[w].pc # "idle"
  BY DEF Locked
<1>1. CASE Raise(w) /\ UNCHANGED <<status, stale>>
  BY <1>1, RaiseSteps DEF UpdateStatus, rows
<1>2. CASE /\ ~Conflict(wk[w].job, s, wk[w].copy)
           /\ status' = Assigned(wk[w].job, s, wk[w].copy)
           /\ stale' = [stale EXCEPT ![wk[w].job] = FALSE]
           /\ wk' = [wk EXCEPT ![w] = [r EXCEPT !.copy = status'[wk[w].job]]]
           /\ UNCHANGED lock
  <2> DEFINE q == [r EXCEPT !.copy = status'[wk[w].job]]
  <2>1. /\ status' \in [Job -> Status] /\ stale' \in [Job -> BOOLEAN]
        /\ \A j \in Job : status'[j] = "none" <=> status[j] = "none"
    BY <1>2, CarriedJob DEF Assigned, TypeInv, TypeOK
  <2>2. \/ \A j \in Job : status'[j] \in Active => status[j] \in Active
        \/ /\ ActiveOn(dsOf[wk[w].job]) \ {wk[w].job} = {}
           /\ \A k \in Job \ {wk[w].job} : status'[k] = status[k]
    BY <1>2, CarriedJob DEF Assigned, Conflict, TypeInv, TypeOK
  <2>3. RowStep
    BY <2>1, <2>2, CarriedJob DEF UpdateStatus, RowStep
  <2>4. Continues(w, q)
    BY <2>1, CarriedJob DEF Continues, WorkerState
  <2> HIDE DEF q
  <2>5. wk' = [wk EXCEPT ![w] = q]
    BY <1>2 DEF q
  <2>6. QED
    BY <1>2, <2>3, <2>4, <2>5, MoveSteps
<1>3. QED
  BY <1>1, <1>2 DEF UpdateStatus

LEMMA CountFailureSteps ==
    ASSUME TypeInv, NEW w \in Worker, wk[w].pc \in Locked, NEW r, Continues(w, r),
           CountFailure(w, r)
    PROVE  Steps(w)
<1> wk[w].pc # "idle"
  BY DEF Locked
<1> DEFINE q == [r EXCEPT !.copy = status[wk[w].job]]
<1>1. Continues(w, q)
  BY CarriedJob DEF Continues, WorkerState
<1> HIDE DEF q
<1>2. wk' = [wk EXCEPT ![w] = q]
  BY DEF CountFailure, q
<1>3. RowStep
  BY CarriedJob DEF CountFailure, RowStep, TypeInv, TypeOK
<1>4. QED
  BY <1>1, <1>2, <1>3, MoveSteps DEF CountFailure

LEMMA AcquireLockSteps ==
    ASSUME TypeInv, NEW w \in Worker, AcquireLock(w)
    PROVE  Steps(w) /\ UNCHANGED queue
<1>1. wk[w].pc = "locking"
  BY DEF AcquireLock
<1>2. CASE Leave(w)
  BY <1>2, LeaveSteps, UnchangedRowStep DEF AcquireLock
<1>3. CASE /\ lock' = [lock EXCEPT ![dsOf[wk[w].job]] = w]
           /\ wk' = [wk EXCEPT ![w].pc = "admitted"]
  <2> DEFINE r == [wk[w] EXCEPT !.pc = "admitted"]
  <2>1. Continues(w, r)
    BY WorkerType DEF TypeInv, Continues, WorkerState, Locked
  <2>2. wk' = [wk EXCEPT ![w] = r]
    BY <1>3 DEF TypeInv, TypeOK
  <2> HIDE DEF r
  <2>3. KnownWorker(r)
    BY <1>1, <2>1, ContinuesKnown
  <2>4. LockStep(w, r)
    BY <1>3, <2>1 DEF AcquireLock, LockStep, Continues
  <2>5. QED
    BY <2>1, <2>2, <2>3, <2>4, UnchangedRowStep DEF AcquireLock, Steps, Continues
<1>4. QED
  BY <1>2, <1>3 DEF AcquireLock

LEMMA PickUpSteps ==
    ASSUME TypeInv, NEW w \in Worker, PickUp(w)
    PROVE  Steps(w) /\ queue # <<>> /\ queue' = Tail(queue)
<1> DEFINE r == [Idle EXCEPT !.pc = "locking", !.job = Head(queue),
                             !.copy = status[Head(queue)]]
<1>1. queue \in Seq(Job) /\ queue # <<>> /\ Head(queue) = queue[1] /\ 1 \in 1..Len(queue)
  BY HeadTailProperties DEF PickUp, TypeInv, TypeOK
<1>2. Head(queue) \in Job /\ Head(queue) < nextId /\ tables[Head(queue)] # {}
  <2>1. Head(queue) \in Job
    BY <1>1, ElementOfSeq
  <2>2. QED
    BY <1>1, <2>1 DEF TypeInv, KnownJobs
<1> status[Head(queue)] \in Status
  BY <1>2 DEF TypeInv, TypeOK
<1>3. r \in WorkerState /\ r.pc = "locking" /\ r.job = Head(queue)
  BY <1>2 DEF Idle, WorkerState
<1>4. KnownWorker(r)
  BY <1>2, <1>3 DEF KnownWorker
<1> HIDE DEF r
<1>5. wk' = [wk EXCEPT ![w] = r]
  BY DEF PickUp, r
<1>6. LockStep(w, r)
  BY <1>3 DEF PickUp, LockStep, Locked
<1>7. QED
  BY <1>1, <1>3, <1>4, <1>5, <1>6, UnchangedRowStep DEF PickUp, Steps

LEMMA AdmitSteps ==
    ASSUME TypeInv, NEW w \in Worker, Admit(w)
    PROVE  Steps(w) /\ UNCHANGED queue
<1> DEFINE j       == wk[w].job
           others  == ActiveOn(dsOf[j]) \ {j}
           dead    == {k \in others : status[k] \in Recoverable /\ stale[k]}
           cleared == [k \in Job |-> IF k \in dead THEN "failed" ELSE status[k]]
<1>1. wk[w].pc = "admitted" /\ j \in Job /\ status[j] # "none"
  BY CarriedJob DEF Admit
<1>2. "failed" \in Status /\ "failed" \notin Active
  BY DEF Active, Recoverable, Status, Terminal, Retryable
<1>3. /\ cleared \in [Job -> Status]
      /\ \A k \in Job : cleared[k] = "none" <=> status[k] = "none"
      /\ \A k \in Job : cleared[k] \in Active => status[k] \in Active
  BY <1>2 DEF TypeInv, TypeOK, Recoverable
<1>4. ASSUME status' = cleared, stale' = [k \in Job |-> stale[k] /\ k \notin dead],
             wk' = [wk EXCEPT ![w].pc = "starting"], UNCHANGED lock
      PROVE  Steps(w)
  <2> DEFINE r == [wk[w] EXCEPT !.pc = "starting"]
  <2>1. Continues(w, r)
    BY WorkerType DEF TypeInv, Continues, WorkerState, Locked
  <2>2. wk' = [wk EXCEPT ![w] = r]
    BY <1>4 DEF TypeInv, TypeOK
  <2> HIDE DEF r, cleared, dead
  <2>3. stale' \in [Job -> BOOLEAN]
    BY <1>4 DEF TypeInv, TypeOK
  <2>4. RowStep
    BY <1>3, <1>4, <2>3 DEF Admit, RowStep
  <2>5. QED
    BY <1>1, <1>4, <2>1, <2>2, <2>4, MoveSteps DEF Locked
<1>5. ASSUME status' = [cleared EXCEPT ![j] = "failed"],
             stale' = [k \in Job |-> stale[k] /\ k \notin dead \union {j}], Leave(w)
      PROVE  Steps(w)
  <2> HIDE DEF cleared, dead
  <2>1. /\ status' \in [Job -> Status]
        /\ \A k \in Job : status'[k] = "none" <=> status[k] = "none"
        /\ \A k \in Job : status'[k] \in Active => status[k] \in Active
    BY <1>1, <1>2, <1>3, <1>5
  <2>2. stale' \in [Job -> BOOLEAN]
    BY <1>5 DEF TypeInv, TypeOK
  <2>3. RowStep
    BY <2>1, <2>2 DEF Admit, RowStep
  <2>4. QED
    BY <1>5, <2>3, LeaveSteps
<1>6. QED
  BY <1>4, <1>5 DEF Admit

LEMMA CheckCancelledSteps ==
    ASSUME TypeInv, NEW w \in Worker, CheckCancelled(w)
    PROVE  Steps(w) /\ UNCHANGED queue
<1>1. wk[w].pc \in {"starting", "introspecting", "finalizing"}
  BY DEF CheckCancelled, AtCheckpoint
<1>2. CASE Leave(w)
  BY <1>2, LeaveSteps, UnchangedRowStep DEF CheckCancelled
<1>3. CASE /\ wk' = [wk EXCEPT ![w].copy = status[wk[w].job],
                               ![w].pc = AfterCheckpoint(wk[w].pc)]
           /\ UNCHANGED lock
  <2> DEFINE r == [wk[w] EXCEPT !.copy = status[wk[w].job],
                                !.pc = AfterCheckpoint(wk[w].pc)]
  <2>1. AfterCheckpoint(wk[w].pc) \in {"toRunning", "toStage", "staging"}
    BY <1>1 DEF AfterCheckpoint
  <2>2. Continues(w, r)
    BY <1>1, <2>1, WorkerType, CarriedJob DEF TypeInv, Continues, WorkerState, Locked
  <2>3. wk' = [wk EXCEPT ![w] = r]
    BY <1>3 DEF TypeInv, TypeOK
  <2> HIDE DEF r
  <2>4. QED
    BY <1>1, <1>3, <2>2, <2>3, MoveSteps, UnchangedRowStep DEF CheckCancelled, Locked
<1>4. QED
  BY <1>2, <1>3 DEF CheckCancelled

LEMMA EnsureNotCancelledSteps ==
    ASSUME TypeInv, NEW w \in Worker, EnsureNotCancelled(w)
    PROVE  Steps(w) /\ UNCHANGED queue
BY LeaveSteps, UnchangedRowStep DEF EnsureNotCancelled

LEMMA BeginRunningSteps ==
    ASSUME TypeInv, NEW w \in Worker, BeginRunning(w)
    PROVE  Steps(w) /\ UNCHANGED queue
<1> DEFINE r == [wk[w] EXCEPT !.pc = "introspecting", !.todo = tables[wk[w].job]]
<1>1. wk[w].pc = "toRunning"
  BY DEF BeginRunning
<1>2. tables[wk[w].job] \in SUBSET Table
  BY <1>1, CarriedJob DEF TypeInv, TypeOK
<1>3. Continues(w, r)
  BY <1>2, WorkerType DEF TypeInv, Continues, WorkerState, Locked
<1>4. UpdateStatus(w, "running", r)
  BY DEF BeginRunning
<1> HIDE DEF r
<1>5. QED
  BY <1>1, <1>3, <1>4, UpdateStatusSteps DEF BeginRunning, Locked, Status, Active, Recoverable

LEMMA RunBatchSteps ==
    ASSUME TypeInv, NEW w \in Worker, wk[w].pc \in {"introspecting", "probing"},
           RunBatch(w)
    PROVE  Steps(w) /\ UNCHANGED queue
<1> DEFINE r == wk[w]
<1> USE WorkerType DEF TypeInv
<1>1. "running" \in Status \ {"none"} /\ wk[w].pc \in Locked
  BY DEF Status, Active, Recoverable, Locked
<1>2. ASSUME NEW b \in Batches(r.todo),
             \/ UpdateStatus(w, "running", [r EXCEPT !.todo = @ \ b,
                                                     !.done = @ \union b])
             \/ CountFailure(w, [r EXCEPT !.todo = @ \ b, !.bad = @ \union b])
             \/ /\ wk' = [wk EXCEPT ![w] = [r EXCEPT !.todo = @ \ b, !.singles = b]]
                /\ UNCHANGED <<rows, lock>>
      PROVE  Steps(w)
  <2> DEFINE q1 == [r EXCEPT !.todo = @ \ b, !.done = @ \union b]
             q2 == [r EXCEPT !.todo = @ \ b, !.bad = @ \union b]
             q3 == [r EXCEPT !.todo = @ \ b, !.singles = b]
  <2>1. b \subseteq r.todo
    BY DEF Batches
  <2>2. Continues(w, q1) /\ Continues(w, q2) /\ Continues(w, q3)
    BY <2>1 DEF Continues, WorkerState, Locked
  <2>3. \/ UpdateStatus(w, "running", q1)
        \/ CountFailure(w, q2)
        \/ wk' = [wk EXCEPT ![w] = q3] /\ UNCHANGED <<rows, lock>>
    BY <1>2
  <2> HIDE DEF q1, q2, q3
  <2>4. QED
    BY <1>1, <2>2, <2>3, UpdateStatusSteps, CountFailureSteps, MoveSteps, UnchangedRowStep
<1>3. ASSUME NEW t \in r.singles,
             \/ UpdateStatus(w, "running", [r EXCEPT !.singles = @ \ {t},
                                                     !.done = @ \union {t}])
             \/ CountFailure(w, [r EXCEPT !.singles = @ \ {t},
                                          !.bad = @ \union {t}])
      PROVE  Steps(w)
  <2> DEFINE q1 == [r EXCEPT !.singles = @ \ {t}, !.done = @ \union {t}]
             q2 == [r EXCEPT !.singles = @ \ {t}, !.bad = @ \union {t}]
  <2>1. Continues(w, q1) /\ Continues(w, q2)
    BY DEF Continues, WorkerState, Locked
  <2>2. UpdateStatus(w, "running", q1) \/ CountFailure(w, q2)
    BY <1>3
  <2> HIDE DEF q1, q2
  <2>3. QED
    BY <1>1, <2>1, <2>2, UpdateStatusSteps, CountFailureSteps
<1>4. QED
  BY <1>2, <1>3 DEF RunBatch

LEMMA BeginStageSteps ==
    ASSUME TypeInv, NEW w \in Worker, BeginStage(w)
    PROVE  Steps(w) /\ UNCHANGED queue
<1> DEFINE r == [wk[w] EXCEPT !.pc = "probing", !.todo = wk[w].done, !.done = {}]
<1>1. wk[w].pc = "toStage" /\ UpdateStatus(w, "running", r)
  BY DEF BeginStage
<1>2. Continues(w, r)
  BY WorkerType DEF TypeInv, Continues, WorkerState, Locked
<1> HIDE DEF r
<1>3. QED
  BY <1>1, <1>2, UpdateStatusSteps DEF BeginStage, Locked, Status, Active, Recoverable

LEMMA ConcludeWithFailuresSteps ==
    ASSUME TypeInv, NEW w \in Worker, ConcludeWithFailures(w)
    PROVE  Steps(w) /\ UNCHANGED queue
BY UpdateAndLeaveSteps DEF ConcludeWithFailures, Terminal, Retryable

LEMMA BeginFinalizeSteps ==
    ASSUME TypeInv, NEW w \in Worker, BeginFinalize(w)
    PROVE  Steps(w) /\ UNCHANGED queue
<1> DEFINE r == [wk[w] EXCEPT !.pc = "finalizing", !.todo = wk[w].done, !.done = {}]
<1>1. wk[w].pc = "probing" /\ UpdateStatus(w, "finalizing", r)
  BY DEF BeginFinalize
<1>2. Continues(w, r)
  BY WorkerType DEF TypeInv, Continues, WorkerState, Locked
<1> HIDE DEF r
<1>3. QED
  BY <1>1, <1>2, UpdateStatusSteps DEF BeginFinalize, Locked, Status, Active, Recoverable

LEMMA StageTableBatchSteps ==
    ASSUME TypeInv, NEW w \in Worker, StageTableBatch(w)
    PROVE  Steps(w) /\ UNCHANGED queue
<1>1. wk[w].pc = "staging"
  BY DEF StageTableBatch
<1>2. PICK b \in Batches(wk[w].todo) :
         wk' = [wk EXCEPT ![w].pc = "finalizing", ![w].todo = @ \ b,
                          ![w].done = @ \union b]
  BY DEF StageTableBatch
<1> DEFINE r == [wk[w] EXCEPT !.pc = "finalizing", !.todo = @ \ b,
                              !.done = @ \union b]
<1>3. b \subseteq wk[w].todo
  BY DEF Batches
<1>4. Continues(w, r)
  BY <1>3, WorkerType DEF TypeInv, Continues, WorkerState, Locked
<1>5. wk' = [wk EXCEPT ![w] = r]
  BY <1>2 DEF TypeInv, TypeOK
<1> HIDE DEF r
<1>6. QED
  BY <1>1, <1>4, <1>5, MoveSteps, UnchangedRowStep DEF StageTableBatch, Locked

LEMMA PublishSteps ==
    ASSUME TypeInv, NEW w \in Worker, Publish(w)
    PROVE  Steps(w) /\ UNCHANGED queue
<1> DEFINE r == [wk[w] EXCEPT !.pc = "posting"]
<1>1. wk[w].pc = "finalizing"
  BY DEF Publish
<1>2. Continues(w, r)
  BY WorkerType DEF TypeInv, Continues, WorkerState, Locked
<1>3. wk' = [wk EXCEPT ![w] = r]
  BY DEF Publish, TypeInv, TypeOK
<1> HIDE DEF r
<1>4. QED
  BY <1>1, <1>2, <1>3, MoveSteps, UnchangedRowStep DEF Publish, Locked

LEMMA PostProcessEmbeddingsSteps ==
    ASSUME TypeInv, NEW w \in Worker, PostProcessEmbeddings(w)
    PROVE  Steps(w) /\ UNCHANGED queue
<1> DEFINE r == [wk[w] EXCEPT !.pc = "succeeding", !.copy = status[wk[w].job]]
<1>1. wk[w].pc = "posting"
  BY DEF PostProcessEmbeddings
<1>2. Continues(w, r)
  BY <1>1, WorkerType, CarriedJob DEF TypeInv, Continues, WorkerState, Locked
<1>3. wk' = [wk EXCEPT ![w] = r]
  BY DEF PostProcessEmbeddings, TypeInv, TypeOK
<1> HIDE DEF r
<1>4. QED
  BY <1>1, <1>2, <1>3, MoveSteps, UnchangedRowStep DEF PostProcessEmbeddings, Locked

LEMMA SucceedSteps ==
    ASSUME TypeInv, NEW w \in Worker, Succeed(w)
    PROVE  Steps(w) /\ UNCHANGED queue
BY UpdateAndLeaveSteps DEF Succeed, Terminal

LEMMA MarkFailedSteps ==
    ASSUME TypeInv, NEW w \in Worker, MarkFailed(w)
    PROVE  Steps(w) /\ UNCHANGED queue
BY UpdateAndLeaveSteps, LeaveSteps, UnchangedRowStep DEF MarkFailed, Terminal, Retryable

LEMMA StepFailsSteps ==
    ASSUME TypeInv, NEW w \in Worker, StepFails(w)
    PROVE  Steps(w) /\ UNCHANGED queue
<1>1. CASE wk[w].pc \in Locked \union {"locking"} /\ Raise(w)
  BY <1>1, RaiseSteps DEF StepFails, Locked
<1>2. CASE /\ wk[w].pc \in {"starting", "finalizing"}
           /\ wk' = [wk EXCEPT ![w] = [Idle EXCEPT !.pc = "failing",
                                          !.job = wk[w].job, !.copy = wk[w].copy]]
           /\ lock' = Released(w)
  <2> DEFINE r == [Idle EXCEPT !.pc = "failing", !.job = wk[w].job,
                               !.copy = wk[w].copy]
  <2>1. r \in WorkerState /\ r.pc = "failing" /\ r.job = wk[w].job
    BY WorkerType DEF TypeInv, Idle, WorkerState
  <2>2. KnownWorker(r) /\ r.pc \notin Locked
    BY <1>2, <2>1, CarriedJob DEF KnownWorker, Locked
  <2> HIDE DEF r
  <2>3. wk' = [wk EXCEPT ![w] = r]
    BY <1>2 DEF r
  <2>4. QED
    BY <1>2, <2>1, <2>2, <2>3, UnchangedRowStep DEF StepFails, LockStep, Steps
<1>3. QED
  BY <1>1, <1>2 DEF StepFails

LEMMA HandlerFailsSteps ==
    ASSUME TypeInv, NEW w \in Worker, HandlerFails(w)
    PROVE  Steps(w) /\ UNCHANGED queue
BY LeaveSteps, UnchangedRowStep DEF HandlerFails

-----------------------------------------------------------------------------
(* The type invariant, with what is known of the rows and their holders *)

LEMMA QueueKeepsKnown ==
    ASSUME TypeInv, NEW T, T \in {queue, Tail(queue)}, T = queue \/ queue # <<>>
    PROVE  /\ T \in Seq(Job)
           /\ \A i \in 1..Len(T) : T[i] \in Job /\ T[i] < nextId /\ tables[T[i]] # {}
<1>1. queue \in Seq(Job)
  BY DEF TypeInv, TypeOK
<1>2. \A i \in 1..Len(queue) : queue[i] \in Job /\ queue[i] < nextId /\ tables[queue[i]] # {}
  BY <1>1, ElementOfSeq DEF TypeInv, KnownJobs
<1>3. CASE queue # <<>> /\ T = Tail(queue)
  <2>1. /\ T \in Seq(Job) /\ Len(T) = Len(queue) - 1
        /\ \A i \in 1..Len(T) : T[i] = queue[i + 1]
    BY <1>1, <1>3, HeadTailProperties
  <2>2. Len(queue) \in Nat /\ \A i \in 1..Len(T) : i + 1 \in 1..Len(queue)
    BY <1>1, <2>1
  <2>3. QED
    BY <1>2, <2>1, <2>2
<1>4. QED
  BY <1>1, <1>2, <1>3

LEMMA StepsKeepTypes ==
    ASSUME TypeInv, NEW w \in Worker, Steps(w), UNCHANGED server,
           queue' \in {queue, Tail(queue)}, queue' = queue \/ queue # <<>>,
           visible' \in [Datasource -> SUBSET Table],
           publisher' \in [Datasource -> Job \union {NoJob}],
           published' \subseteq Job
    PROVE  TypeInv'
<1>1. PICK r \in WorkerState : /\ KnownWorker(r) /\ LockStep(w, r)
                               /\ wk' = [wk EXCEPT ![w] = r]
  BY DEF Steps
<1>2. /\ queue' \in Seq(Job)
      /\ \A i \in 1..Len(queue') : queue'[i] < nextId /\ tables[queue'[i]] # {}
  BY QueueKeepsKnown
<1>3. TypeOK'
  BY <1>1, <1>2 DEF TypeInv, TypeOK, Steps, RowStep, LockStep, Released, server
<1>4. KnownJobs'
  <2>1. \A j \in Job : IF j < nextId'
                         THEN dsOf'[j] \in Datasource /\ status'[j] # "none"
                         ELSE dsOf'[j] = None /\ status'[j] = "none" /\ tables'[j] = {}
    BY DEF TypeInv, KnownJobs, Steps, RowStep
  <2>2. \A v \in Worker : IF wk'[v].pc = "idle"
                            THEN wk'[v] = Idle
                            ELSE /\ wk'[v].job \in Job /\ wk'[v].job < nextId'
                                 /\ tables'[wk'[v].job] # {}
    BY <1>1 DEF TypeInv, TypeOK, KnownJobs, KnownWorker, Steps, RowStep
  <2>3. QED
    BY <1>2, <2>1, <2>2 DEF TypeInv, KnownJobs, Steps, RowStep, server
<1>5. KnownRequests'
  BY DEF TypeInv, KnownRequests, Steps, RowStep, server
<1>6. QED
  BY <1>3, <1>4, <1>5 DEF TypeInv

LEMMA WorkerStepTypes ==
    ASSUME TypeInv, NEW w \in Worker, WorkerStep(w)
    PROVE  TypeInv'
<1>1. /\ visible' \in [Datasource -> SUBSET Table]
      /\ publisher' \in [Datasource -> Job \union {NoJob}]
      /\ published' \subseteq Job
      /\ UNCHANGED server
  BY DEF WorkerStep, catalog, TypeInv, TypeOK
<1>2. Steps(w) /\ (UNCHANGED queue \/ (queue # <<>> /\ queue' = Tail(queue)))
  BY PickUpSteps, AcquireLockSteps, AdmitSteps, CheckCancelledSteps,
     EnsureNotCancelledSteps, BeginRunningSteps, RunBatchSteps, BeginStageSteps,
     ConcludeWithFailuresSteps, BeginFinalizeSteps, StageTableBatchSteps,
     PostProcessEmbeddingsSteps, SucceedSteps, MarkFailedSteps
  DEF WorkerStep, IntrospectBatch, ProbeStageBatch
<1>3. QED
  BY <1>1, <1>2, StepsKeepTypes

LEMMA WorkerPublishesTypes ==
    ASSUME TypeInv, NEW w \in Worker, WorkerPublishes(w)
    PROVE  TypeInv'
<1>1. wk[w].job \in Job /\ dsOf[wk[w].job] \in Datasource
  BY CarriedJob DEF WorkerPublishes, Publish
<1>2. /\ visible' \in [Datasource -> SUBSET Table]
      /\ publisher' \in [Datasource -> Job \union {NoJob}]
      /\ published' \subseteq Job
      /\ UNCHANGED server
  BY <1>1, WorkerType DEF WorkerPublishes, Publish, TypeInv, TypeOK
<1>3. QED
  BY <1>2, PublishSteps, StepsKeepTypes DEF WorkerPublishes

LEMMA WorkerBreaksTypes ==
    ASSUME TypeInv, NEW w \in Worker, WorkerBreaks(w)
    PROVE  TypeInv'
<1>1. CASE (StepFails(w) \/ HandlerFails(w)) /\ UNCHANGED <<catalog, server>>
  <2>1. /\ visible' \in [Datasource -> SUBSET Table]
        /\ publisher' \in [Datasource -> Job \union {NoJob}]
        /\ published' \subseteq Job
    BY <1>1 DEF catalog, TypeInv, TypeOK
  <2>2. QED
    BY <1>1, <2>1, StepFailsSteps, HandlerFailsSteps, StepsKeepTypes
<1>2. CASE ConnectFails(w)
  <2>1. /\ queue' \in Seq(Job)
        /\ \A i \in 1..Len(queue') : queue'[i] < nextId /\ tables[queue'[i]] # {}
    BY <1>2, QueueKeepsKnown DEF ConnectFails
  <2>2. QED
    BY <1>2, <2>1 DEF ConnectFails, rows, catalog, TypeInv, TypeOK, KnownJobs,
       KnownRequests
<1>3. QED
  BY <1>1, <1>2 DEF WorkerBreaks

LEMMA RequestTypes ==
    ASSUME TypeInv, Request
    PROVE  TypeInv'
<1>1. ASSUME NEW d \in Datasource, NEW T \in SUBSET Table, T # {}, Accept(d, T)
      PROVE  TypeInv'
  BY <1>1 DEF Accept, ApiIdle, rows, catalog, threads, TypeInv, TypeOK, KnownJobs,
     KnownRequests
<1>2. ASSUME NEW j \in Job, RetrySyncJob(j)
      PROVE  TypeInv'
  <2>1. dsOf[j] \in Datasource /\ tables[j] \in SUBSET Table /\ tables[j] # {}
    BY <1>2 DEF RetrySyncJob, TypeInv, TypeOK, KnownJobs
  <2>2. QED
    BY <1>1, <1>2, <2>1 DEF RetrySyncJob
<1>3. ASSUME NEW j \in Job, CancelRequested(j)
      PROVE  TypeInv'
  <2>1. j < nextId
    BY <1>3 DEF CancelRequested, Active, Recoverable, TypeInv, KnownJobs
  <2>2. QED
    BY <1>3, <2>1 DEF CancelRequested, ApiIdle, rows, catalog, threads, TypeInv,
       TypeOK, KnownJobs, KnownRequests
<1>4. QED
  BY <1>1, <1>2, <1>3 DEF Request, SubmitSyncJob

LEMMA HandlerTypes ==
    ASSUME TypeInv, HandlerStep
    PROVE  TypeInv'
<1>1. CASE CreateSyncJob
  <2>1. /\ api.pc = "create" /\ api.ds \in Datasource /\ nextId \in Job
        /\ api.tables \in SUBSET Table /\ api.tables # {}
    BY <1>1 DEF CreateSyncJob, TypeInv, TypeOK, KnownRequests
  <2>2. TypeOK'
    <3>1. /\ status' \in [Job -> Status] /\ dsOf' \in [Job -> Datasource \union {None}]
          /\ nextId' \in 1..(MaxJobs + 1)
      BY <1>1, <2>1, SyncJobAssumption DEF CreateSyncJob, TypeInv, TypeOK, Status, Active
    <3>2. QED
      BY <1>1, <2>1, <3>1 DEF CreateSyncJob, catalog, threads, TypeInv, TypeOK
  <2>3. KnownJobs'
    <3>1. nextId' = nextId + 1 /\ nextId \in 1..MaxJobs
      BY <1>1, <2>1 DEF CreateSyncJob
    <3>2. \A j \in Job : IF j < nextId'
                           THEN dsOf'[j] \in Datasource /\ status'[j] # "none"
                           ELSE dsOf'[j] = None /\ status'[j] = "none" /\ tables'[j] = {}
      BY <1>1, <2>1, <3>1 DEF CreateSyncJob, TypeInv, TypeOK, KnownJobs
    <3>3. /\ \A i \in 1..Len(queue) : queue[i] < nextId' /\ tables[queue[i]] # {}
          /\ rec < nextId'
      <4>1. \A i \in 1..Len(queue) : queue[i] \in Job
        BY ElementOfSeq DEF TypeInv, TypeOK
      <4>2. QED
        BY <3>1, <4>1 DEF TypeInv, TypeOK, KnownJobs
    <3>4. \A w \in Worker : IF wk[w].pc = "idle"
                              THEN wk[w] = Idle
                              ELSE /\ wk[w].job \in Job /\ wk[w].job < nextId'
                                   /\ tables[wk[w].job] # {}
      BY <3>1 DEF TypeInv, KnownJobs
    <3>5. QED
      BY <1>1, <3>2, <3>3, <3>4 DEF CreateSyncJob, threads, KnownJobs
  <2>4. KnownRequests'
    BY <1>1, <2>1 DEF CreateSyncJob, TypeInv, TypeOK, KnownJobs, KnownRequests
  <2>5. QED
    BY <2>2, <2>3, <2>4 DEF TypeInv
<1>2. CASE ReuseActiveJob
  BY <1>2 DEF ReuseActiveJob, ApiIdle, rows, catalog, threads, TypeInv, TypeOK,
     KnownJobs, KnownRequests
<1>3. CASE StoreRequestedTables
  <2>1. /\ api.pc = "fill" /\ api.job \in Job /\ api.job < nextId
        /\ api.tables \in SUBSET Table /\ api.tables # {}
    BY <1>3 DEF StoreRequestedTables, TypeInv, TypeOK, KnownRequests
  <2>2. tables' \in [Job -> SUBSET Table] /\ tables'[api.job] # {}
    BY <1>3, <2>1 DEF StoreRequestedTables, TypeInv, TypeOK
  <2>3. \A j \in Job : j # api.job => tables'[j] = tables[j]
    BY <1>3 DEF StoreRequestedTables, TypeInv, TypeOK
  <2>4. \A j \in Job : tables[j] # {} => tables'[j] # {}
    BY <2>2, <2>3
  <2>5. TypeOK'
    BY <1>3, <2>1, <2>2 DEF StoreRequestedTables, catalog, threads, TypeInv, TypeOK
  <2>6. KnownJobs'
    <3>1. \A i \in 1..Len(queue) : queue[i] \in Job
      BY ElementOfSeq DEF TypeInv, TypeOK
    <3>2. QED
      BY <1>3, <2>1, <2>3, <2>4, <3>1 DEF StoreRequestedTables, threads, TypeInv, KnownJobs
  <2>7. KnownRequests'
    BY <1>3, <2>1, <2>2 DEF StoreRequestedTables, TypeInv, TypeOK, KnownRequests
  <2>8. QED
    BY <2>5, <2>6, <2>7 DEF TypeInv
<1>4. CASE DispatchSyncJob
  <2>1. /\ api.pc = "dispatch" /\ api.job \in Job /\ api.job < nextId
        /\ tables[api.job] # {}
    BY <1>4 DEF DispatchSyncJob, TypeInv, KnownRequests
  <2>2. /\ queue' \in Seq(Job) /\ Len(queue') = Len(queue) + 1
        /\ \A i \in 1..Len(queue) : queue'[i] = queue[i]
        /\ queue'[Len(queue) + 1] = api.job
    BY <1>4, <2>1, AppendProperties DEF DispatchSyncJob, TypeInv, TypeOK
  <2>3. \A i \in 1..Len(queue') : queue'[i] < nextId /\ tables[queue'[i]] # {}
    <3>1. Len(queue) \in Nat
      BY DEF TypeInv, TypeOK
    <3>2. QED
      BY <2>1, <2>2, <3>1 DEF TypeInv, KnownJobs
  <2>4. QED
    BY <1>4, <2>2, <2>3 DEF DispatchSyncJob, ApiIdle, rows, catalog, TypeInv, TypeOK,
       KnownJobs, KnownRequests
<1>5. CASE CancelSyncJob
  <2>1. api.pc = "cancel" /\ api.job \in Job /\ api.job < nextId
    BY <1>5 DEF CancelSyncJob, TypeInv, KnownRequests
  <2>2. /\ status' \in [Job -> Status] /\ stale' \in [Job -> BOOLEAN]
        /\ cancelledInTime' \subseteq Job
    BY <1>5, <2>1 DEF CancelSyncJob, TypeInv, TypeOK, Status, Terminal, Retryable
  <2>3. \A j \in Job : status'[j] = "none" <=> status[j] = "none"
    BY <1>5, <2>1 DEF CancelSyncJob, TypeInv, TypeOK, KnownJobs
  <2>4. QED
    BY <1>5, <2>2, <2>3 DEF CancelSyncJob, ApiIdle, catalog, threads, TypeInv, TypeOK,
       KnownJobs, KnownRequests
<1>6. QED
  BY <1>1, <1>2, <1>3, <1>4, <1>5 DEF HandlerStep

LEMMA RecoveryTypes ==
    ASSUME TypeInv, Recovery
    PROVE  TypeInv'
<1>1. CASE RecoverStaleJob
  <2>1. rec \in Job /\ rec < nextId /\ NoJob < nextId
    BY <1>1 DEF RecoverStaleJob, TypeInv, TypeOK, KnownJobs
  <2>2. /\ status' \in [Job -> Status] /\ stale' \in [Job -> BOOLEAN]
        /\ \A j \in Job : status'[j] = "none" <=> status[j] = "none"
    BY <1>1, <2>1 DEF RecoverStaleJob, TypeInv, TypeOK, KnownJobs, Status, Terminal, Retryable
  <2>3. QED
    BY <1>1, <2>1, <2>2 DEF RecoverStaleJob, catalog, threads, TypeInv, TypeOK,
       KnownJobs, KnownRequests
<1>2. CASE SweepFails
  <2>1. sweeping' \in BOOLEAN /\ rec' \in Job \union {NoJob} /\ rec' < nextId
    <3>1. sweeping' = FALSE /\ rec' = 0
      BY <1>2, Zenon DEF SweepFails
    <3>2. 0 < nextId
      BY DEF TypeInv, TypeOK
    <3>3. QED
      BY <3>1, <3>2
  <2>2. TypeOK'
    BY <1>2, <2>1 DEF SweepFails, rows, catalog, threads, TypeInv, TypeOK
  <2>3. KnownJobs' /\ KnownRequests'
    BY <1>2, <2>1 DEF SweepFails, rows, threads, TypeInv, KnownJobs, KnownRequests
  <2>4. QED
    BY <2>2, <2>3 DEF TypeInv
<1>3. ASSUME NEW j \in Job, BecomeStale(j)
      PROVE  TypeInv'
  BY <1>3 DEF BecomeStale, catalog, threads, server, TypeInv, TypeOK, KnownJobs,
     KnownRequests
<1>4. ASSUME NEW j \in Job, FindStaleJob(j)
      PROVE  TypeInv'
  <2>1. j < nextId
    BY <1>4 DEF FindStaleJob, Recoverable, TypeInv, KnownJobs
  <2>2. QED
    BY <1>4, <2>1 DEF FindStaleJob, rows, catalog, threads, TypeInv, TypeOK, KnownJobs,
       KnownRequests
<1>5. QED
  BY <1>1, <1>2, <1>3, <1>4 DEF Recovery

LEMMA CrashTypes ==
    ASSUME TypeInv, Crash
    PROVE  TypeInv'
<1>1. wk' \in [Worker -> WorkerState] /\ \A w \in Worker : wk'[w] = Idle
  BY IdleType DEF Crash
<1>2. queue' \in Seq(Job) /\ Len(queue') = 0
  BY EmptySeq DEF Crash
<1>3. crashes' \in 0..MaxCrashes
  BY SyncJobAssumption DEF Crash, TypeInv, TypeOK
<1>4. TypeOK'
  BY <1>1, <1>2, <1>3 DEF Crash, ApiIdle, rows, catalog, TypeInv, TypeOK
<1>5. KnownJobs'
  BY <1>1, <1>2 DEF Crash, rows, Idle, TypeInv, TypeOK, KnownJobs
<1>6. KnownRequests'
  BY DEF Crash, ApiIdle, KnownRequests
<1>7. QED
  BY <1>4, <1>5, <1>6 DEF TypeInv

LEMMA InitTypes == Init => TypeInv
<1> SUFFICES ASSUME Init PROVE TypeInv
  OBVIOUS
<1>1. wk \in [Worker -> WorkerState] /\ \A w \in Worker : wk[w] = Idle
  BY IdleType DEF Init
<1>2. queue \in Seq(Job) /\ Len(queue) = 0
  BY EmptySeq DEF Init
<1>3. TypeOK
  BY <1>1, <1>2, SyncJobAssumption DEF Init, ApiIdle, TypeOK, Status
<1>4. KnownJobs
  BY <1>1, <1>2, SyncJobAssumption DEF Init, Idle, KnownJobs
<1>5. KnownRequests
  BY DEF Init, ApiIdle, KnownRequests
<1>6. QED
  BY <1>3, <1>4, <1>5 DEF TypeInv

LEMMA NextTypes == TypeInv /\ [Next]_vars => TypeInv'
<1> SUFFICES ASSUME TypeInv, [Next]_vars PROVE TypeInv'
  OBVIOUS
<1>1. CASE UNCHANGED vars
  BY <1>1 DEF vars, rows, catalog, threads, server, TypeInv, TypeOK, KnownJobs,
     KnownRequests
<1>2. CASE Next
  BY <1>2, RequestTypes, HandlerTypes, RecoveryTypes, WorkerStepTypes,
     WorkerPublishesTypes, WorkerBreaksTypes, CrashTypes DEF Next
<1>3. QED
  BY <1>1, <1>2

\* Every variable keeps its type, and whoever holds a job holds an existing one.
LEMMA Types == Spec => []TypeInv
BY InitTypes, NextTypes, PTL DEF Spec

\* Type correctness: every variable always holds a value of the kind the code
\* keeps there; no step writes a status the code does not know, dispatches a
\* row that does not exist or leaves a thread between two positions.
THEOREM TypeCorrect == Spec => []TypeOK
BY Types, PTL DEF TypeInv

-----------------------------------------------------------------------------
(* One active row, and one work transaction, per datasource *)

LEMMA WorkerSteps ==
    ASSUME TypeInv, NEW w \in Worker,
           WorkerStep(w) \/ WorkerPublishes(w) \/ WorkerBreaks(w)
    PROVE  Steps(w) \/ UNCHANGED <<rows, lock, wk>>
<1>1. CASE WorkerStep(w)
  BY <1>1, PickUpSteps, AcquireLockSteps, AdmitSteps, CheckCancelledSteps,
     EnsureNotCancelledSteps, BeginRunningSteps, RunBatchSteps, BeginStageSteps,
     ConcludeWithFailuresSteps, BeginFinalizeSteps, StageTableBatchSteps,
     PostProcessEmbeddingsSteps, SucceedSteps, MarkFailedSteps
  DEF WorkerStep, IntrospectBatch, ProbeStageBatch
<1>2. CASE WorkerPublishes(w)
  BY <1>2, PublishSteps DEF WorkerPublishes
<1>3. CASE WorkerBreaks(w)
  BY <1>3, StepFailsSteps, HandlerFailsSteps DEF WorkerBreaks, ConnectFails
<1>4. QED
  BY <1>1, <1>2, <1>3

LEMMA CancelRowStep ==
    ASSUME TypeInv, CancelSyncJob
    PROVE  RowStep
<1>1. api.job \in Job /\ status[api.job] # "none"
  BY DEF CancelSyncJob, TypeInv, KnownJobs, KnownRequests
<1>2. "cancelled" \in Status /\ "cancelled" \notin Active
  BY DEF Status, Terminal, Retryable, Active, Recoverable
<1>3. QED
  BY <1>1, <1>2 DEF CancelSyncJob, RowStep, TypeInv, TypeOK

LEMMA RecoveryRowStep ==
    ASSUME TypeInv, Recovery
    PROVE  RowStep
<1>1. CASE RecoverStaleJob
  <2>1. rec \in Job /\ status[rec] # "none"
    BY <1>1 DEF RecoverStaleJob, TypeInv, TypeOK, KnownJobs
  <2>2. "failed" \in Status /\ "failed" \notin Active
    BY DEF Status, Terminal, Retryable, Active, Recoverable
  <2>3. QED
    BY <1>1, <2>1, <2>2 DEF RecoverStaleJob, RowStep, TypeInv, TypeOK
<1>2. CASE SweepFails
  BY <1>2, UnchangedRowStep DEF SweepFails
<1>3. ASSUME NEW j \in Job, BecomeStale(j)
      PROVE  RowStep
  BY <1>3 DEF BecomeStale, RowStep, TypeInv, TypeOK
<1>4. ASSUME NEW j \in Job, FindStaleJob(j)
      PROVE  RowStep
  BY <1>4, UnchangedRowStep DEF FindStaleJob
<1>5. QED
  BY <1>1, <1>2, <1>3, <1>4 DEF Recovery

\* Two handler steps do more to the rows than all other steps of the system.
LEMMA NextRowStep ==
    ASSUME TypeInv, [Next]_vars
    PROVE  RowStep \/ CreateSyncJob \/ StoreRequestedTables
<1>1. CASE UNCHANGED vars
  BY <1>1, UnchangedRowStep DEF vars
<1>2. CASE Request
  BY <1>2, UnchangedRowStep DEF Request, SubmitSyncJob, RetrySyncJob, CancelRequested,
     Accept
<1>3. CASE HandlerStep
  BY <1>3, UnchangedRowStep, CancelRowStep DEF HandlerStep, ReuseActiveJob,
     DispatchSyncJob
<1>4. CASE Recovery
  BY <1>4, RecoveryRowStep
<1>5. ASSUME NEW w \in Worker, WorkerStep(w) \/ WorkerPublishes(w) \/ WorkerBreaks(w)
      PROVE  RowStep
  BY <1>5, WorkerSteps, UnchangedRowStep DEF Steps
<1>6. CASE Crash
  BY <1>6, UnchangedRowStep DEF Crash
<1>7. QED
  BY <1>1, <1>2, <1>3, <1>4, <1>5, <1>6 DEF Next

LEMMA OneActiveStep == TypeInv /\ OneActiveJob /\ [Next]_vars => OneActiveJob'
<1> SUFFICES ASSUME TypeInv, OneActiveJob, [Next]_vars,
                    NEW j \in Job, NEW k \in Job,
                    status'[j] \in Active, status'[k] \in Active, dsOf'[j] = dsOf'[k]
             PROVE  j = k
  BY DEF OneActiveJob
<1>1. CASE RowStep
  <2>1. UNCHANGED dsOf
    BY <1>1 DEF RowStep
  <2>2. CASE \A i \in Job : status'[i] \in Active => status[i] \in Active
    BY <2>1, <2>2 DEF OneActiveJob
  <2>3. CASE \E i \in Job : /\ ActiveOn(dsOf[i]) \ {i} = {}
                            /\ \A l \in Job \ {i} : status'[l] = status[l]
    <3>1. PICK i \in Job : /\ ActiveOn(dsOf[i]) \ {i} = {}
                           /\ \A l \in Job \ {i} : status'[l] = status[l]
      BY <2>3
    <3>2. \A l \in Job \ {i} : dsOf[l] = dsOf[i] => status[l] \notin Active
      BY <3>1 DEF ActiveOn
    <3>3. QED
      BY <2>1, <3>1, <3>2 DEF OneActiveJob
  <2>4. QED
    BY <1>1, <2>2, <2>3 DEF RowStep
<1>2. CASE CreateSyncJob
  <2>1. nextId \in Job /\ ActiveOn(api.ds) = {}
    BY <1>2 DEF CreateSyncJob, TypeInv, KnownRequests
  <2>2. /\ \A l \in Job \ {nextId} : status'[l] = status[l] /\ dsOf'[l] = dsOf[l]
        /\ dsOf'[nextId] = api.ds
    BY <1>2, <2>1 DEF CreateSyncJob, TypeInv, TypeOK
  <2>3. \A l \in Job : dsOf[l] = api.ds => status[l] \notin Active
    BY <2>1 DEF ActiveOn
  <2>4. QED
    BY <2>1, <2>2, <2>3 DEF OneActiveJob
<1>3. CASE StoreRequestedTables
  BY <1>3 DEF StoreRequestedTables, OneActiveJob
<1>4. QED
  BY <1>1, <1>2, <1>3, NextRowStep

\* A datasource never has two active jobs: whatever the interleaving of
\* submissions, threads that write through stale copies, cancellations and
\* recovery, and after any number of crashes.
THEOREM OneActive == Spec => []OneActiveJob
<1>1. Init => OneActiveJob
  BY DEF Init, OneActiveJob, Active, Recoverable
<1>2. QED
  BY <1>1, Types, OneActiveStep, PTL DEF Spec

LEMMA LockHeldStep == TypeInv /\ LockHeld /\ [Next]_vars => LockHeld'
<1> SUFFICES ASSUME TypeInv, LockHeld, [Next]_vars, NEW v \in Worker,
                    wk'[v].pc \in Locked
             PROVE  lock'[dsOf'[wk'[v].job]] = v
  BY DEF LockHeld
<1>1. ASSUME NEW w \in Worker, Steps(w)
      PROVE  lock'[dsOf'[wk'[v].job]] = v
  <2>1. UNCHANGED dsOf
    BY <1>1 DEF Steps, RowStep
  <2>2. PICK r \in WorkerState : /\ KnownWorker(r) /\ LockStep(w, r)
                                 /\ wk' = [wk EXCEPT ![w] = r]
    BY <1>1 DEF Steps
  <2>3. /\ wk'[w] = r /\ (v # w => wk'[v] = wk[v])
        /\ lock \in [Datasource -> Worker \union {None}] /\ None \notin Worker
    BY <2>2, SyncJobAssumption DEF TypeInv, TypeOK
  <2>4. CASE v = w
    <3>1. wk[w].pc # "idle" => dsOf[wk[w].job] \in Datasource
      BY CarriedJob
    <3>2. r.job \in Job /\ r.job < nextId
      BY <2>2, <2>3, <2>4 DEF KnownWorker, Locked
    <3>3. dsOf[r.job] \in Datasource
      BY <3>2 DEF TypeInv, KnownJobs
    <3>4. QED
      BY <2>1, <2>2, <2>3, <2>4, <3>3 DEF LockStep, LockHeld
  <2>5. CASE v # w
    <3>1. lock[dsOf[wk[v].job]] = v
      BY <2>3, <2>5 DEF LockHeld
    <3>2. wk[v].pc # "idle"
      BY <2>3, <2>5 DEF Locked
    <3>3. dsOf[wk[v].job] \in Datasource
      BY <3>2, CarriedJob
    <3>4. QED
      BY <2>1, <2>2, <2>3, <2>5, <3>1, <3>3 DEF LockStep, Released
  <2>6. QED
    BY <2>4, <2>5
<1>2. CASE UNCHANGED <<lock, wk, dsOf>>
  BY <1>2 DEF LockHeld
<1>3. CASE CreateSyncJob
  <2>1. nextId \in Job /\ UNCHANGED <<lock, wk>>
    BY <1>3 DEF CreateSyncJob, threads, TypeInv, KnownRequests
  <2>2. wk[v].pc # "idle" /\ wk[v].pc \in Locked
    BY <2>1 DEF Locked
  <2>3. wk[v].job \in Job /\ wk[v].job < nextId
    BY <2>2, CarriedJob
  <2>4. dsOf'[wk[v].job] = dsOf[wk[v].job]
    BY <1>3, <2>1, <2>3 DEF CreateSyncJob, TypeInv, TypeOK
  <2>5. QED
    BY <2>1, <2>2, <2>4 DEF LockHeld
<1>4. CASE Crash
  BY <1>4 DEF Crash, Idle, Locked
<1>5. CASE Request \/ Recovery \/ (HandlerStep /\ ~CreateSyncJob) \/ UNCHANGED vars
  BY <1>2, <1>5 DEF Request, SubmitSyncJob, RetrySyncJob, CancelRequested, Accept,
     Recovery, RecoverStaleJob, SweepFails, BecomeStale, FindStaleJob, HandlerStep,
     ReuseActiveJob, StoreRequestedTables, DispatchSyncJob, CancelSyncJob, rows,
     threads, vars
<1>6. ASSUME NEW w \in Worker, WorkerStep(w) \/ WorkerPublishes(w) \/ WorkerBreaks(w)
      PROVE  lock'[dsOf'[wk'[v].job]] = v
  BY <1>1, <1>2, <1>6, WorkerSteps DEF rows
<1>7. QED
  BY <1>3, <1>4, <1>5, <1>6 DEF Next

\* A thread inside the lock always is the holder of its datasource's lock.
THEOREM Holder == Spec => []LockHeld
<1>1. Init => LockHeld
  BY DEF Init, Idle, LockHeld, Locked
<1>2. QED
  BY <1>1, Types, LockHeldStep, PTL DEF Spec

LEMMA NoLockForgottenStep ==
    TypeInv /\ LockHeld /\ NoLockForgotten /\ [Next]_vars => NoLockForgotten'
<1> SUFFICES ASSUME TypeInv, LockHeld, NoLockForgotten, [Next]_vars,
                    NEW d \in Datasource, lock'[d] # None
             PROVE  wk'[lock'[d]].pc \in Locked /\ dsOf'[wk'[lock'[d]].job] = d
  BY DEF NoLockForgotten
<1> DEFINE Held == wk[lock[d]].pc \in Locked /\ dsOf[wk[lock[d]].job] = d
<1>1. /\ lock \in [Datasource -> Worker \union {None}] /\ None \notin Worker
      /\ lock[d] # None => lock[d] \in Worker /\ Held
  BY SyncJobAssumption DEF TypeInv, TypeOK, NoLockForgotten
<1>2. ASSUME NEW w \in Worker, Steps(w)
      PROVE  wk'[lock'[d]].pc \in Locked /\ dsOf'[wk'[lock'[d]].job] = d
  <2>1. UNCHANGED dsOf
    BY <1>2 DEF Steps, RowStep
  <2>2. PICK r \in WorkerState : LockStep(w, r) /\ wk' = [wk EXCEPT ![w] = r]
    BY <1>2 DEF Steps
  <2>3. wk'[w] = r /\ \A v \in Worker \ {w} : wk'[v] = wk[v]
    BY <2>2 DEF TypeInv, TypeOK
  <2>4. CASE lock' = Released(w) /\ r.pc \notin Locked
    <3>1. lock'[d] = lock[d] /\ lock[d] # w
      BY <1>1, <2>4 DEF Released
    <3>2. QED
      BY <1>1, <2>1, <2>3, <3>1
  <2>5. CASE /\ r.pc \in Locked <=> wk[w].pc \in Locked
             /\ r.pc \in Locked => r.job = wk[w].job
             /\ UNCHANGED lock
    BY <1>1, <2>1, <2>3, <2>5
  <2>6. CASE /\ r.pc \in Locked /\ r.job = wk[w].job
             /\ lock' = [lock EXCEPT ![dsOf[wk[w].job]] = w] /\ lock[dsOf[wk[w].job]] = None
    <3>1. CASE d = dsOf[wk[w].job]
      BY <1>1, <2>1, <2>3, <2>6, <3>1
    <3>2. CASE d # dsOf[wk[w].job]
      <4>1. lock'[d] = lock[d]
        BY <1>1, <2>6, <3>2
      <4>2. lock[d] # w
        BY <1>1, <3>2, <4>1
      <4>3. QED
        BY <1>1, <2>1, <2>3, <3>2, <4>1, <4>2
    <3>3. QED
      BY <3>1, <3>2
  <2>7. QED
    BY <2>2, <2>4, <2>5, <2>6 DEF LockStep
<1>3. CASE UNCHANGED <<lock, wk, dsOf>>
  BY <1>1, <1>3
<1>4. CASE CreateSyncJob
  <2>1. nextId \in Job /\ UNCHANGED <<lock, wk>>
    BY <1>4 DEF CreateSyncJob, threads, TypeInv, KnownRequests
  <2>2. wk[lock[d]].pc # "idle" /\ lock[d] \in Worker /\ Held
    BY <1>1, <2>1 DEF Locked
  <2>3. wk[lock[d]].job \in Job /\ wk[lock[d]].job < nextId
    BY <2>2, CarriedJob
  <2>4. dsOf'[wk[lock[d]].job] = dsOf[wk[lock[d]].job]
    BY <1>4, <2>1, <2>3 DEF CreateSyncJob, TypeInv, TypeOK
  <2>5. QED
    BY <2>1, <2>2, <2>4
<1>5. CASE Crash
  BY <1>5 DEF Crash
<1>6. CASE Request \/ Recovery \/ (HandlerStep /\ ~CreateSyncJob) \/ UNCHANGED vars
  BY <1>3, <1>6 DEF Request, SubmitSyncJob, RetrySyncJob, CancelRequested, Accept,
     Recovery, RecoverStaleJob, SweepFails, BecomeStale, FindStaleJob, HandlerStep,
     ReuseActiveJob, StoreRequestedTables, DispatchSyncJob, CancelSyncJob, rows,
     threads, vars
<1>7. ASSUME NEW w \in Worker, WorkerStep(w) \/ WorkerPublishes(w) \/ WorkerBreaks(w)
      PROVE  wk'[lock'[d]].pc \in Locked /\ dsOf'[wk'[lock'[d]].job] = d
  BY <1>2, <1>3, <1>7, WorkerSteps DEF rows
<1>8. QED
  BY <1>4, <1>5, <1>6, <1>7 DEF Next

\* In every environment a lock that is taken belongs to a thread at work on its
\* datasource: cancelled, failed, interrupted or dead, none leaves it locked.
THEOREM LocksComeBack == Spec => []NoLockForgotten
<1>1. Init => NoLockForgotten
  BY DEF Init, NoLockForgotten
<1>2. QED
  BY <1>1, Types, Holder, NoLockForgottenStep, PTL DEF Spec

\* Two threads never both have staged rows of one datasource in their open
\* transactions, also when a job was cancelled or taken for dead and its thread
\* goes on while the next job of the datasource runs.
THEOREM Exclusion == Spec => []OneWorkTransaction
<1>1. LockHeld => OneWorkTransaction
  BY DEF LockHeld, OneWorkTransaction, HasStaged, Locked
<1>2. QED
  BY <1>1, Holder, PTL
=============================================================================
