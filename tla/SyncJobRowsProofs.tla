-------------------------- MODULE SyncJobRowsProofs --------------------------
(***************************************************************************)
(* Proof that the rows of each datasource change only as JobRows says, the *)
(* contract on which the browser's side of the jobs is modelled, in every  *)
(* environment and for any number of jobs, datasources and threads.        *)
(***************************************************************************)
EXTENDS SyncJobCatalogProofs

USE DEF Job, NoJob

RowsInv == CatalogInv /\ Outcomes /\ OneActiveJob

LEMMA StatusNames ==
    /\ Active = {"pending", "running", "finalizing"}
    /\ Terminal = {"succeeded", "failed", "partial", "cancelled"}
    /\ Status = {"none"} \union Active \union Terminal
BY DEF Active, Recoverable, Terminal, Retryable, Status

\* A step that writes the row of one job, as far as a reader of d sees it.
LEMMA OneRowChanges ==
    ASSUME RowsInv, TypeInv', OneActiveJob', NEW d \in Datasource, NEW j \in Job, UNCHANGED dsOf,
           \A k \in Job \ {j} : status'[k] = status[k],
           status[j] # "none", status'[j] # "none",
           \/ status[j] \in Active \/ status'[j] \notin Active
           \/ status[j] \in {"failed", "cancelled"},
           {status[j], status'[j]} # {"succeeded", "partial"}
    PROVE  RowsOf(d)!Next \/ UNCHANGED StatusesOf(d)
<1> DEFINE R == StatusesOf(d)
           s == R'[j]
<1> USE DEF RowsInv, CatalogInv, Order
<1>1. R \in [Job -> {"none", "active"} \union Terminal]
      /\ R' \in [Job -> {"none", "active"} \union Terminal]
  BY StatusNames DEF StatusesOf, TypeInv, TypeOK
<1>2. \A k \in Job \ {j} : R'[k] = R[k]
  BY DEF StatusesOf
<1>3. R' = [R EXCEPT ![j] = s]
  BY <1>1, <1>2
<1>4. CASE dsOf[j] # d
  <2>1. R'[j] = R[j]
    BY <1>4 DEF StatusesOf
  <2>2. QED
    BY <1>1, <1>3, <2>1
<1>5. CASE dsOf[j] = d /\ s = "active" /\ R[j] # "active"
  <2>1. status'[j] \in Active
    <3>1. s = IF dsOf'[j] # d THEN "none" ELSE IF status'[j] \in Active THEN "active" ELSE status'[j]
      BY DEF StatusesOf
    <3>2. status'[j] \in Status /\ "active" \notin Status
      BY StatusNames DEF TypeInv, TypeOK
    <3>3. QED
      BY <1>5, <3>1, <3>2
  <2>2. status[j] \notin Active /\ R[j] = status[j]
    BY <1>5 DEF StatusesOf
  <2>3. R[j] \in {"failed", "cancelled"}
    BY <2>1, <2>2
  <2>4. ASSUME NEW k \in Job, R[k] = "active"
        PROVE  FALSE
    <3>1. status[k] \in Active /\ dsOf[k] = d
      BY <2>4, StatusNames DEF StatusesOf, TypeInv, TypeOK
    <3>2. k # j /\ status'[k] \in Active
      BY <2>2, <3>1
    <3>3. QED
      BY <1>5, <2>1, <3>1, <3>2 DEF OneActiveJob
  <2>5. RowsOf(d)!ReviveJob(j)
    BY <1>3, <1>5, <2>4, <2>3 DEF RowsOf!ReviveJob, RowsOf!NoneActive
  <2>6. QED
    BY <2>5 DEF RowsOf!Next
<1>6. CASE dsOf[j] = d /\ s = "active" /\ R[j] = "active"
  BY <1>1, <1>3, <1>6
<1>7. CASE dsOf[j] = d /\ s # "active"
  <2>1. s \in RowsOf(d)!Ended /\ s = status'[j]
    BY <1>7, StatusNames DEF RowsOf!Ended, StatusesOf, TypeInv, TypeOK
  <2>2. CASE R[j] = "active"
    <3>1. RowsOf(d)!EndJob(j)
      BY <1>3, <2>1, <2>2 DEF RowsOf!EndJob
    <3>2. QED
      BY <3>1 DEF RowsOf!Next
  <2>3. CASE R[j] # "active"
    <3>1. R[j] \in RowsOf(d)!Ended /\ R[j] = status[j]
      BY <1>7, <2>3, StatusNames DEF RowsOf!Ended, StatusesOf, TypeInv, TypeOK
    <3>2. RowsOf(d)!ReplaceEnd(j)
      BY <1>3, <2>1, <3>1 DEF RowsOf!ReplaceEnd
    <3>3. QED
      BY <3>2 DEF RowsOf!Next
  <2>4. QED
    BY <2>2, <2>3
<1>8. QED
  BY <1>4, <1>5, <1>6, <1>7

\* A thread writes one row, its job's; the one that admits its job may write the
\* stale one of its datasource instead.
LEMMA OwnRow ==
    ASSUME TypeInv, NEW w \in Worker, wk[w].pc # "idle", ~Admit(w),
           WorkerStep(w) \/ WorkerPublishes(w) \/ WorkerBreaks(w)
    PROVE  \A k \in Job \ {wk[w].job} : status'[k] = status[k]
<1> USE CarriedJob DEF TypeInv, TypeOK
<1>1. ASSUME NEW s, NEW r, UpdateStatus(w, s, r)
      PROVE  \A k \in Job \ {wk[w].job} : status'[k] = status[k]
  BY <1>1 DEF UpdateStatus, Assigned
<1>2. ASSUME NEW s, UpdateAndLeave(w, s)
      PROVE  \A k \in Job \ {wk[w].job} : status'[k] = status[k]
  BY <1>2 DEF UpdateAndLeave, Assigned
<1>3. ASSUME UNCHANGED status
      PROVE  \A k \in Job \ {wk[w].job} : status'[k] = status[k]
  BY <1>3
<1>4. ASSUME RunBatch(w)
      PROVE  \A k \in Job \ {wk[w].job} : status'[k] = status[k]
  BY <1>1, <1>3, <1>4 DEF RunBatch, CountFailure, rows
<1>5. QED
  BY <1>1, <1>2, <1>3, <1>4
  DEF WorkerStep, WorkerPublishes, WorkerBreaks, PickUp, AcquireLock, CheckCancelled,
      EnsureNotCancelled, BeginRunning, IntrospectBatch, BeginStage, ProbeStageBatch,
      ConcludeWithFailures, BeginFinalize, StageTableBatch, PostProcessEmbeddings, Succeed,
      MarkFailed, Publish, StepFails, HandlerFails, ConnectFails, rows

LEMMA AdmitRow ==
    ASSUME RowsInv, NEW w \in Worker, Admit(w)
    PROVE  /\ UNCHANGED dsOf
           /\ \E j \in Job : /\ \A k \in Job \ {j} : status'[k] = status[k]
                             /\ status'[j] \in {status[j], "failed"}
                             /\ status[j] \notin {"none", "succeeded", "partial"}
<1> DEFINE j       == wk[w].job
           others  == ActiveOn(dsOf[j]) \ {j}
           dead    == {k \in others : status[k] \in Recoverable /\ stale[k]}
           cleared == [k \in Job |-> IF k \in dead THEN "failed" ELSE status[k]]
<1> USE DEF RowsInv, CatalogInv, Order
<1>1. /\ j \in Job /\ j \notin dead /\ UNCHANGED dsOf
      /\ status[j] \notin {"none", "succeeded", "partial"}
  <2>1. wk[w].pc # "idle" /\ Carried(j)
    BY DEF Admit, Carried
  <2>2. QED
    BY <2>1, CarriedJob DEF Admit, Outcomes, Settled
<1>2. \A k, l \in others : k = l
  BY DEF ActiveOn, OneActiveJob
<1>3. CASE status' = cleared
  <2>1. CASE dead = {}
    BY <1>1, <1>3, <2>1
  <2>2. CASE dead # {}
    <3>1. PICK k \in dead : TRUE
      BY <2>2
    <3>2. k \in Job /\ status[k] \in Recoverable /\ \A l \in Job \ {k} : l \notin dead
      BY <1>2, <3>1 DEF ActiveOn
    <3>3. status[k] \notin {"none", "succeeded", "partial"}
      BY <3>2 DEF Recoverable
    <3>4. status'[k] = "failed" /\ \A l \in Job \ {k} : status'[l] = status[l]
      BY <1>3, <3>1, <3>2
    <3>5. QED
      BY <1>1, <3>2, <3>3, <3>4
  <2>3. QED
    BY <2>1, <2>2
<1>4. CASE others # dead /\ status' = [cleared EXCEPT ![j] = "failed"]
  <2>1. dead = {}
    BY <1>2, <1>4
  <2>2. \A k \in Job \ {j} : status'[k] = status[k]
    BY <1>4, <2>1
  <2>3. status'[j] = "failed"
    BY <1>1, <1>4
  <2>4. QED
    BY <1>1, <2>2, <2>3
<1>5. QED
  BY <1>3, <1>4 DEF Admit

\* Each step writes the row of one job at most, or creates one.
LEMMA NextRow ==
    ASSUME RowsInv, [Next]_vars
    PROVE  \/ UNCHANGED <<status, dsOf>>
           \/ CreateSyncJob
           \/ /\ UNCHANGED dsOf
              /\ \E j \in Job :
                    /\ \A k \in Job \ {j} : status'[k] = status[k]
                    /\ status[j] # "none" /\ status'[j] # "none"
                    /\ \/ status[j] \in Active \/ status'[j] \notin Active
                       \/ status[j] \in {"failed", "cancelled"}
                    /\ {status[j], status'[j]} # {"succeeded", "partial"}
<1> DEFINE Ok(j) == /\ \A k \in Job \ {j} : status'[k] = status[k]
                    /\ status[j] # "none" /\ status'[j] # "none"
                    /\ \/ status[j] \in Active \/ status'[j] \notin Active
                       \/ status[j] \in {"failed", "cancelled"}
                    /\ {status[j], status'[j]} # {"succeeded", "partial"}
<1> USE DEF RowsInv, CatalogInv, Order
<1>1. CASE Quiet \/ StoreRequestedTables \/ DispatchSyncJob \/ (\E j \in Job : FindStaleJob(j)) \/ Crash
  BY <1>1 DEF Quiet, StoreRequestedTables, DispatchSyncJob, FindStaleJob, Crash, rows
<1>2. CASE CancelSyncJob
  <2>1. api.job \in Job /\ status[api.job] # "none"
    BY <1>2 DEF CancelSyncJob, TypeInv, TypeOK, KnownJobs, KnownRequests
  <2>2. Ok(api.job) /\ UNCHANGED dsOf
    BY <1>2, <2>1, StatusNames DEF CancelSyncJob, TypeInv, TypeOK
  <2>3. QED
    BY <2>1, <2>2
<1>3. CASE RecoverStaleJob
  <2>1. rec \in Job /\ status[rec] # "none"
    BY <1>3 DEF RecoverStaleJob, TypeInv, TypeOK, KnownJobs
  <2>2. /\ \A k \in Job \ {rec} : status'[k] = status[k]
        /\ status'[rec] = "failed" /\ UNCHANGED dsOf
    BY <1>3, <2>1 DEF RecoverStaleJob, TypeInv, TypeOK
  <2>3. Ok(rec)
    BY <2>1, <2>2, StatusNames
  <2>4. QED
    BY <2>1, <2>2, <2>3
<1>4. ASSUME NEW w \in Worker, WorkerStep(w) \/ WorkerPublishes(w) \/ WorkerBreaks(w)
      PROVE  UNCHANGED <<status, dsOf>> \/ (UNCHANGED dsOf /\ \E j \in Job : Ok(j))
  <2>1. CASE Admit(w)
    <3>1. PICK j \in Job : /\ \A k \in Job \ {j} : status'[k] = status[k]
                           /\ status'[j] \in {status[j], "failed"}
                           /\ status[j] \notin {"none", "succeeded", "partial"}
      BY <2>1, AdmitRow
    <3>2. Ok(j)
      BY <3>1, StatusNames
    <3>3. QED
      BY <2>1, <3>2, AdmitRow
  <2>2. CASE ~Admit(w) /\ Goes(w)
    <3>1. wk[w].pc # "idle" /\ wk[w].job \in Job /\ Carried(wk[w].job) /\ UNCHANGED dsOf
      BY <2>2, CarriedJob DEF Goes, OtherRows, Carried
    <3>2. status[wk[w].job] \in Status \ {"none", "succeeded", "partial"}
      BY <3>1, CarriedJob DEF Goes, Outcomes, Settled
    <3>3. status'[wk[w].job] # "none"
      BY <1>4, <3>1, <3>2, WorkerSteps DEF Steps, RowStep, rows
    <3>4. Ok(wk[w].job)
      BY <1>4, <2>2, <3>1, <3>2, <3>3, OwnRow, StatusNames
    <3>5. QED
      BY <3>1, <3>4
  <2>3. CASE PickUp(w) \/ ConnectFails(w)
    BY <2>3 DEF PickUp, ConnectFails, rows
  <2>4. QED
    BY <1>4, <2>1, <2>2, <2>3, ThreadTurns
<1>5. CASE CreateSyncJob
  BY <1>5
<1>6. CASE Request \/ UNCHANGED vars
  BY <1>6 DEF Request, SubmitSyncJob, RetrySyncJob, Accept, CancelRequested, vars, rows
<1>7. CASE HandlerStep
  BY <1>1, <1>2, <1>5, <1>7 DEF HandlerStep, ReuseActiveJob, rows
<1>8. CASE Recovery
  BY <1>1, <1>3, <1>8 DEF Recovery, SweepFails, BecomeStale, rows
<1>9. QED
  BY <1>1, <1>4, <1>6, <1>7, <1>8 DEF Next

LEMMA NextRows ==
    ASSUME RowsInv, TypeInv', OneActiveJob', [Next]_vars, NEW d \in Datasource
    PROVE  RowsOf(d)!Next \/ UNCHANGED StatusesOf(d)
<1>1. CASE UNCHANGED <<status, dsOf>>
  BY <1>1 DEF StatusesOf
<1>2. CASE CreateSyncJob
  <2> USE DEF RowsInv, CatalogInv, Order
  <2> DEFINE R == StatusesOf(d)
  <2>1. /\ nextId \in Job /\ status[nextId] = "none" /\ dsOf[nextId] = None /\ None # d
        /\ ActiveOn(api.ds) = {}
    BY <1>2, SyncJobAssumption
    DEF CreateSyncJob, TypeInv, TypeOK, KnownJobs, KnownRequests
  <2>2. /\ \A k \in Job \ {nextId} : status'[k] = status[k] /\ dsOf'[k] = dsOf[k]
        /\ status'[nextId] = "pending" /\ dsOf'[nextId] = api.ds
    BY <1>2, <2>1 DEF CreateSyncJob, TypeInv, TypeOK
  <2>3. \A k \in Job \ {nextId} : R'[k] = R[k]
    BY <2>2 DEF StatusesOf
  <2>4. /\ R[nextId] = "none"
        /\ R'[nextId] = IF api.ds = d THEN "active" ELSE "none"
    BY <2>1, <2>2, StatusNames DEF StatusesOf
  <2>5. R = [k \in Job |-> R[k]] /\ R' = [k \in Job |-> R'[k]]
    BY DEF StatusesOf
  <2>6. CASE api.ds = d
    <3>1. \A k \in Job : R[k] # "active"
      BY <2>1, <2>6, StatusNames DEF StatusesOf, ActiveOn, TypeInv, TypeOK
    <3>2. R' = [R EXCEPT ![nextId] = "active"]
      BY <2>1, <2>3, <2>4, <2>5, <2>6
    <3>3. RowsOf(d)!BeginJob(nextId)
      BY <2>4, <3>1, <3>2 DEF RowsOf!BeginJob, RowsOf!NoneActive
    <3>4. QED
      BY <2>1, <3>3 DEF RowsOf!Next
  <2>7. CASE api.ds # d
    BY <2>1, <2>3, <2>4, <2>5, <2>7
  <2>8. QED
    BY <2>6, <2>7
<1>3. QED
  BY <1>1, <1>2, NextRow, OneRowChanges

LEMMA InitRows ==
    ASSUME Init, NEW d \in Datasource
    PROVE  RowsOf(d)!Init
BY DEF Init, RowsOf!Init, StatusesOf, Active, Recoverable

\* In every environment a reader of the API sees the jobs of a datasource begin
\* one at a time and end; a job that ended goes on only if it was cancelled or
\* taken for dead and no other one is active, and what succeeded is never called
\* partial.  However many threads write the rows through stale copies, they
\* implement JobRows, the back end on which the browser's form is modelled.
THEOREM RowsKeepTheirWord == Spec => RowsSpec
<1> SUFFICES ASSUME NEW d \in Datasource PROVE Spec => RowsOf(d)!Spec
  BY DEF RowsSpec
<1>1. Init => RowsOf(d)!Init
  BY InitRows
<1>2. RowsInv /\ RowsInv' /\ [Next]_vars => [RowsOf(d)!Next]_(StatusesOf(d))
  BY NextRows DEF RowsInv, CatalogInv, Order
<1>3. Spec => []RowsInv
  BY CatalogInvariant, OutcomesInvariant, OneActive, PTL DEF RowsInv
<1>4. QED
  BY <1>1, <1>2, <1>3, PTL DEF Spec, RowsOf!Spec
=============================================================================
