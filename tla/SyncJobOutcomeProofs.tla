------------------------- MODULE SyncJobOutcomeProofs -------------------------
(***************************************************************************)
(* Proofs that a cancellation holds in every environment, that no active   *)
(* row is left behind while the server and its database stay up, that      *)
(* outcomes stand while no thread is slow, and that failures leave the     *)
(* catalog alone while nothing dies or fails of itself, either.            *)
(***************************************************************************)
EXTENDS SyncJobCatalogProofs

USE DEF Job, NoJob

-----------------------------------------------------------------------------
(* Cancellations *)

\* OnItsWayOut, of a thread in state r whose job's row has status s.
WayOut(r, s) ==
    /\ s = "cancelled" \/ r.pc = "failing"
    /\ r.pc \notin {"toRunning", "staging", "posting", "succeeding"}
    /\ r.pc \in {"introspecting", "probing"} => r.copy \in {"running", "cancelled"}
    /\ r.pc = "toStage" => r.copy = "running"
    /\ r.pc = "probing" /\ r.copy = "running" => ~(r.todo = {} /\ r.singles = {})
    /\ r.pc = "finalizing" => r.todo # {}

\* CancelNoticed, of one job.
Noticed(j) ==
    /\ j \notin published /\ status[j] \in Retryable /\ j < nextId /\ rec # j
    /\ \A w \in Worker : wk[w].job = j => WayOut(wk[w], status[j])

LEMMA CancelParts == CancelNoticed <=> \A j \in cancelledInTime : Noticed(j)
BY DEF CancelNoticed, CancelHolds, Noticed, OnItsWayOut, WayOut, LoopDone

\* A thread on its way out goes on out, or ends with the row not published.
LEMMA TurnGoesOut ==
    ASSUME TypeInv, NEW w \in Worker, NEW r \in WorkerState, NEW s, Turn(w, r, s),
           WayOut(wk[w], status[wk[w].job]), status[wk[w].job] \in Retryable
    PROVE  /\ s \in Retryable /\ ~Publish(w)
           /\ r = Idle \/ WayOut(r, s)
<1> USE WorkerType DEF TypeInv
<1>1. ~Publish(w)
  BY DEF Publish, WayOut
<1>2. CASE Reads(w, r, s)
  <2>1. s = "cancelled" /\ wk[w].pc \in {"locking", "admitted"}
    BY <1>2 DEF Reads, WayOut, AtCheckpoint
  <2>2. r.pc \in {"admitted", "starting"}
    BY <1>2, <2>1 DEF Reads, AtCheckpoint, WorkerState
  <2>3. QED
    BY <1>1, <2>1, <2>2 DEF WayOut, Retryable
<1>3. CASE Rounds(w, r, s)
  <2>1. /\ wk[w].copy = "running" /\ s = "cancelled" /\ r.pc = wk[w].pc
        /\ r.copy = "cancelled" \/ (r.copy = "running" /\ r.singles # {})
    BY <1>3 DEF Rounds, WayOut, Written
  <2>2. QED
    BY <1>1, <1>3, <2>1 DEF Rounds, WayOut, Retryable
<1>4. CASE Begins(w, r, s)
  <2>1. /\ wk[w].pc = "toStage" /\ wk[w].copy = "running" /\ s = "cancelled"
        /\ r.pc = "probing" /\ r.copy = "cancelled"
    BY <1>4 DEF Begins, WayOut, Written, LoopDone, WorkerState
  <2>2. QED
    BY <1>1, <2>1 DEF WayOut, Retryable
<1>5. CASE GivesUp(w, r, s)
  BY <1>1, <1>5 DEF GivesUp, WayOut
<1>6. CASE Ends(w, r, s)
  BY <1>1, <1>6 DEF Ends, WayOut, Written, LoopDone, Retryable
<1>7. QED
  BY <1>1, <1>2, <1>3, <1>4, <1>5, <1>6 DEF Turn, Publishing

LEMMA NoticedStep ==
    ASSUME CatalogInv, [Next]_vars, NEW j \in Job, Noticed(j)
    PROVE  Noticed(j)'
<1> USE DEF CatalogInv, Order
<1>1. /\ j \notin published /\ status[j] \in Retryable /\ j < nextId /\ rec # j
      /\ \A w \in Worker : wk[w].job = j => WayOut(wk[w], status[j])
  BY DEF Noticed
<1>2. status[j] \notin Active /\ j # NoJob
  BY <1>1 DEF Retryable, Active, Recoverable
<1>3. CASE Quiet
  BY <1>1, <1>2, <1>3 DEF Quiet, catalog, threads, Noticed, WayOut
<1>4. CASE CreateSyncJob \/ StoreRequestedTables \/ DispatchSyncJob
  <2>1. status'[j] = status[j] /\ j < nextId'
    <3>1. CASE CreateSyncJob
      BY <1>1, <3>1, RowsKept DEF CreateSyncJob, TypeInv, TypeOK
    <3>2. CASE StoreRequestedTables \/ DispatchSyncJob
      BY <1>1, <3>2 DEF StoreRequestedTables, DispatchSyncJob, rows
    <3>3. QED
      BY <1>4, <3>1, <3>2
  <2>2. UNCHANGED <<published, wk, rec>>
    BY <1>4 DEF CreateSyncJob, StoreRequestedTables, DispatchSyncJob, catalog, threads
  <2>3. QED
    BY <1>1, <2>1, <2>2 DEF Noticed, WayOut
<1>5. CASE CancelSyncJob \/ RecoverStaleJob
  <2>1. status'[j] \in {status[j], "cancelled"}
    BY <1>1, <1>5 DEF CancelSyncJob, RecoverStaleJob, TypeInv, TypeOK
  <2>2. rec' # j /\ UNCHANGED <<published, wk, nextId>>
    BY <1>1, <1>2, <1>5 DEF CancelSyncJob, RecoverStaleJob, catalog, threads
  <2>3. QED
    BY <1>1, <2>1, <2>2 DEF Noticed, WayOut, Retryable
<1>6. ASSUME NEW k \in Job, FindStaleJob(k)
      PROVE  Noticed(j)'
  BY <1>1, <1>2, <1>6 DEF FindStaleJob, rows, catalog, threads, Active, Noticed, WayOut
<1>7. ASSUME NEW w \in Worker, (PickUp(w) /\ UNCHANGED <<catalog, server>>) \/ ConnectFails(w)
      PROVE  Noticed(j)'
  <2>1. UNCHANGED <<status, nextId, rec, published>>
    BY <1>7 DEF PickUp, ConnectFails, rows, catalog, server
  <2>2. ASSUME NEW v \in Worker, wk'[v].job = j
        PROVE  WayOut(wk'[v], status[j])
    <3>1. CASE wk'[v] = wk[v]
      BY <1>1, <2>2, <3>1
    <3>2. CASE wk'[v].pc = "locking" /\ Unstarted(j)
      <4>1. status[j] = "cancelled"
        BY <1>1, <3>2 DEF Untouched, Retryable
      <4>2. QED
        BY <3>2, <4>1 DEF WayOut
    <3>3. QED
      BY <1>7, <2>2, <3>1, <3>2, PickedUp DEF ConnectFails, Unstarted
  <2>3. QED
    BY <1>1, <2>1, <2>2 DEF Noticed
<1>8. CASE Crash
  <2>1. UNCHANGED <<status, nextId, published>> /\ rec' = NoJob
    BY <1>8 DEF Crash, rows, catalog
  <2>2. \A v \in Worker : wk'[v].job = NoJob
    BY <1>8 DEF Crash, Idle
  <2>3. QED
    BY <1>1, <1>2, <2>1, <2>2 DEF Noticed
<1>9. ASSUME NEW w \in Worker, Goes(w), UNCHANGED server, Publish(w) \/ UNCHANGED catalog
      PROVE  Noticed(j)'
  <2>1. UNCHANGED <<nextId, rec>>
    BY <1>9, GoesRows DEF server
  <2>2. /\ wk'[w].job \in {wk[w].job, NoJob}
        /\ \A v \in Worker \ {w} : wk'[v] = wk[v]
    BY <1>9, GoesKeepsJob
  <2>3. CASE wk[w].job # j
    <3>1. status'[j] = status[j]
      BY <1>2, <1>9, <2>3, GoesRows DEF Active
    <3>2. j \notin published'
      BY <1>1, <1>9, <2>3 DEF Publish, catalog
    <3>3. QED
      BY <1>1, <1>2, <2>1, <2>2, <2>3, <3>1, <3>2 DEF Noticed
  <2>4. CASE wk[w].job = j
    <3>1. PICK r \in WorkerState : /\ Turn(w, r, status'[j])
                                   /\ wk' = [wk EXCEPT ![w] = r]
      BY <1>9, <2>4 DEF Goes
    <3>2. /\ status'[j] \in Retryable /\ ~Publish(w)
          /\ r = Idle \/ WayOut(r, status'[j])
      BY <1>1, <2>4, <3>1, TurnGoesOut
    <3>3. wk'[w] = r /\ Idle.job = NoJob
      BY <3>1 DEF TypeInv, TypeOK, Idle
    <3>4. \A v \in Worker \ {w} : wk'[v].job # j
      BY <2>2, <2>4 DEF RunOnce
    <3>5. j \notin published'
      BY <1>1, <1>9, <3>2 DEF catalog
    <3>6. QED
      BY <1>1, <1>2, <2>1, <3>2, <3>3, <3>4, <3>5 DEF Noticed
  <2>5. QED
    BY <2>3, <2>4
<1>10. QED
  BY <1>3, <1>4, <1>5, <1>6, <1>7, <1>8, <1>9, NextForms

LEMMA CancelNoticedStep == CatalogInv /\ CancelNoticed /\ [Next]_vars => CancelNoticed'
<1> SUFFICES ASSUME CatalogInv, CancelNoticed, [Next]_vars, NEW j \in cancelledInTime'
             PROVE  Noticed(j)'
  BY DEF CancelNoticed, CancelHolds, Noticed, OnItsWayOut, WayOut, LoopDone
<1> USE DEF CatalogInv, Order
<1>1. CASE j \in cancelledInTime
  <2>1. j \in Job /\ Noticed(j)
    BY <1>1, CancelParts DEF TypeInv, TypeOK
  <2>2. QED
    BY <2>1, NoticedStep
<1>2. CASE j \notin cancelledInTime
  <2>1. CancelSyncJob
    BY <1>2, NextForms DEF Quiet, CreateSyncJob, StoreRequestedTables, DispatchSyncJob,
       RecoverStaleJob, FindStaleJob, ConnectFails, Crash, server
  <2>2. /\ j = api.job /\ InTime(j) /\ j \in Job /\ j < nextId
        /\ UNCHANGED <<published, wk, nextId, rec>>
        /\ status' = [status EXCEPT ![j] = "cancelled"]
    BY <1>2, <2>1 DEF CancelSyncJob, catalog, threads, TypeInv, KnownRequests
  <2>3. status'[j] = "cancelled"
    BY <2>2 DEF TypeInv, TypeOK
  <2>4. \A w \in Worker : wk[w].job = j => WayOut(wk[w], "cancelled")
    BY <2>2 DEF InTime, StillObserves, WayOut, LoopDone
  <2>5. QED
    BY <2>2, <2>3, <2>4 DEF InTime, Noticed, Retryable
<1>3. QED
  BY <1>1, <1>2

\* A cancellation that is committed before the job's thread last looks at the
\* row holds, whatever fails, dies or comes late: the job is never published,
\* and no write of the thread's progress brings the row back to life.
THEOREM CancelStands == Spec => []CancelHolds
<1>1. Init => CancelNoticed
  BY DEF Init, CancelNoticed, CancelHolds
<1>2. CancelNoticed => CancelHolds
  BY DEF CancelNoticed
<1>3. QED
  BY <1>1, <1>2, CatalogInvariant, CancelNoticedStep, PTL DEF Spec

-----------------------------------------------------------------------------
(* Who finishes a job *)

\* CopyTellsTheEnd, of a thread in state r whose job's row has status s.
TellsTheEnd(r, s) ==
    r.pc # "idle" => /\ r.copy \notin Active => s \notin Active
                     /\ r.pc = "locking" => r.copy \in {"pending", "cancelled"}

LEMMA TurnTellsTheEnd ==
    ASSUME TypeInv, NEW w \in Worker, NEW r \in WorkerState, NEW s, Turn(w, r, s),
           TellsTheEnd(wk[w], status[wk[w].job])
    PROVE  TellsTheEnd(r, s)
<1> USE WorkerType DEF TypeInv
<1>1. CASE Reads(w, r, s)
  BY <1>1 DEF Reads, TellsTheEnd, AtCheckpoint, AfterCheckpoint, WorkerState
<1>2. CASE Rounds(w, r, s)
  BY <1>2 DEF Rounds, TellsTheEnd
<1>3. CASE Begins(w, r, s)
  <2>1. r.copy = s /\ r.pc # "locking"
    BY <1>3 DEF Begins, WorkerState
  <2>2. QED
    BY <2>1 DEF TellsTheEnd
<1>4. CASE Publishing(w, r, s)
  BY <1>4 DEF Publishing, Publish, TellsTheEnd, WorkerState
<1>5. CASE GivesUp(w, r, s)
  BY <1>5 DEF GivesUp, TellsTheEnd
<1>6. CASE Ends(w, r, s)
  BY <1>6 DEF Ends, Idle, TellsTheEnd
<1>7. QED
  BY <1>1, <1>2, <1>3, <1>4, <1>5, <1>6 DEF Turn

\* Only its own thread's turn can make a carried row active again.
LEMMA CopyTellsTheEndStep == CatalogInv /\ CopyTellsTheEnd /\ [Next]_vars => CopyTellsTheEnd'
<1> SUFFICES ASSUME CatalogInv, CopyTellsTheEnd, [Next]_vars, NEW v \in Worker
             PROVE  TellsTheEnd(wk[v], status[wk[v].job])'
  BY DEF CopyTellsTheEnd, TellsTheEnd
<1> USE DEF CatalogInv, Order
<1> DEFINE j == wk[v].job
<1>1. TellsTheEnd(wk[v], status[wk[v].job])
  BY DEF CopyTellsTheEnd, TellsTheEnd
<1>2. wk[v].pc # "idle" => wk[v].job \in Job /\ wk[v].job < nextId
  BY CarriedJob
<1>3. ASSUME wk'[v] = wk[v],
             wk[v].pc # "idle" /\ status'[wk[v].job] \in Active => status[wk[v].job] \in Active
      PROVE  TellsTheEnd(wk[v], status[wk[v].job])'
  BY <1>1, <1>3 DEF TellsTheEnd
<1>4. CASE wk'[v] = Idle
  BY <1>4 DEF TellsTheEnd, Idle
<1>5. CASE Quiet \/ StoreRequestedTables \/ DispatchSyncJob
  BY <1>3, <1>5 DEF Quiet, StoreRequestedTables, DispatchSyncJob, rows, threads
<1>6. CASE CreateSyncJob
  BY <1>2, <1>3, <1>6 DEF CreateSyncJob, threads, TypeInv, TypeOK
<1>7. CASE CancelSyncJob \/ RecoverStaleJob
  <2>1. \A k \in Job : status'[k] \in Active => status[k] \in Active
    BY <1>7 DEF CancelSyncJob, RecoverStaleJob, TypeInv, TypeOK, Active, Recoverable
  <2>2. QED
    BY <1>2, <1>3, <1>7, <2>1 DEF CancelSyncJob, RecoverStaleJob, threads
<1>8. ASSUME NEW k \in Job, FindStaleJob(k)
      PROVE  TellsTheEnd(wk[v], status[wk[v].job])'
  BY <1>3, <1>8 DEF FindStaleJob, rows, threads
<1>9. ASSUME NEW w \in Worker, PickUp(w) \/ ConnectFails(w)
      PROVE  TellsTheEnd(wk[v], status[wk[v].job])'
  <2>1. UNCHANGED status
    BY <1>9 DEF PickUp, ConnectFails, rows
  <2>2. CASE wk'[v] = wk[v]
    BY <1>3, <2>1, <2>2
  <2>3. CASE v = w /\ PickUp(w)
    <3>1. PICK h \in Job : h = Head(queue)
      BY <2>3, PickedUp
    <3>2. Unstarted(h) /\ wk'[v].job = h /\ wk'[v].pc = "locking" /\ wk'[v].copy = status[h]
      BY <2>3, <3>1, PickedUp DEF Unstarted
    <3>3. status[h] \in {"pending", "cancelled"}
      BY <3>2 DEF Untouched
    <3>4. QED
      BY <2>1, <3>2, <3>3 DEF TellsTheEnd
  <2>4. QED
    BY <1>9, <2>2, <2>3, PickedUp DEF ConnectFails
<1>10. CASE Crash
  BY <1>4, <1>10 DEF Crash
<1>11. ASSUME NEW w \in Worker, Goes(w)
       PROVE  TellsTheEnd(wk[v], status[wk[v].job])'
  <2>1. CASE v = w
    <3>1. PICK r \in WorkerState : /\ Turn(w, r, status'[wk[w].job])
                                   /\ wk' = [wk EXCEPT ![w] = r]
      BY <1>11 DEF Goes
    <3>2. wk'[v] = r /\ TellsTheEnd(r, status'[wk[w].job])
      BY <1>1, <2>1, <3>1, TurnTellsTheEnd DEF TypeInv, TypeOK
    <3>3. wk'[v] = Idle \/ wk'[v].job = wk[w].job
      BY <1>11, <2>1, GoesKeepsJob
    <3>4. QED
      BY <1>4, <3>2, <3>3
  <2>2. CASE v # w
    <3>1. wk'[v] = wk[v] /\ wk[w].job \in Job
      BY <1>11, <2>2, GoesKeepsJob, GoesRows
    <3>2. wk[v].pc # "idle" => wk[v].job # wk[w].job
      BY <1>2, <2>2 DEF RunOnce
    <3>3. wk[v].pc # "idle" /\ status'[wk[v].job] \in Active => status[wk[v].job] \in Active
      BY <1>2, <1>11, <3>2, GoesRows DEF Active, Recoverable
    <3>4. QED
      BY <1>3, <3>1, <3>3
  <2>3. QED
    BY <2>1, <2>2
<1>12. QED
  BY <1>5, <1>6, <1>7, <1>8, <1>9, <1>10, <1>11, NextForms

LEMMA CopyTellsTheEndInvariant == Spec => []CopyTellsTheEnd
<1>1. Init => CopyTellsTheEnd
  BY DEF Init, Idle, CopyTellsTheEnd
<1>2. QED
  BY <1>1, CatalogInvariant, CopyTellsTheEndStep, PTL DEF Spec

\* A thread that ends without an outage leaves a row that is not active.
LEMMA TurnFinishes ==
    ASSUME NEW w \in Worker, NEW s, Ends(w, Idle, s), "outage" \notin Hazard,
           TellsTheEnd(wk[w], status[wk[w].job])
    PROVE  s \notin Active
BY DEF Ends, TellsTheEnd, Written, Active, Recoverable

\* With somebody: NothingStranded, of one job.
Held(j) == Dispatching(j) \/ Queued(j) \/ Carried(j)

LEMMA NothingStrandedStep ==
    ASSUME MaxCrashes = 0, "outage" \notin Hazard,
           CatalogInv, CopyTellsTheEnd, NothingStranded, [Next]_vars
    PROVE  NothingStranded'
<1> SUFFICES ASSUME NEW j \in Job, status'[j] \in Active
             PROVE  Held(j)'
  BY DEF NothingStranded, Held
<1> USE DEF CatalogInv, Order
<1>1. status[j] \in Active => Held(j)
  BY DEF NothingStranded, Held
<1>2. ~Crash /\ \A w \in Worker : ~ConnectFails(w)
  BY DEF Crash, ConnectFails, TypeInv, TypeOK
<1>3. CASE Quiet
  BY <1>1, <1>3 DEF Quiet, threads, Held, Dispatching, Queued, Carried
<1>4. CASE CreateSyncJob
  <2>1. CASE j = nextId
    BY <1>4, <2>1 DEF CreateSyncJob, Held, Dispatching
  <2>2. CASE j # nextId
    <3>1. status'[j] = status[j] /\ UNCHANGED threads /\ ~Dispatching(j)
      BY <1>4, <2>2 DEF CreateSyncJob, Dispatching, TypeInv, TypeOK
    <3>2. QED
      BY <1>1, <3>1 DEF threads, Held, Queued, Carried
  <2>3. QED
    BY <2>1, <2>2
<1>5. CASE StoreRequestedTables
  BY <1>1, <1>5 DEF StoreRequestedTables, threads, TypeInv, TypeOK, Held, Dispatching, Queued,
     Carried
<1>6. CASE DispatchSyncJob
  <2>1. api.pc = "dispatch" /\ api.job \in Job /\ UNCHANGED <<status, wk>>
    BY <1>6 DEF DispatchSyncJob, rows, TypeInv, KnownRequests
  <2>2. /\ Len(queue') = Len(queue) + 1 /\ Len(queue) \in Nat
        /\ \A i \in 1..Len(queue) : queue'[i] = queue[i]
        /\ queue'[Len(queue) + 1] = api.job
    BY <1>6, <2>1, AppendProperties DEF DispatchSyncJob, TypeInv, TypeOK
  <2>3. Len(queue) + 1 \in 1..Len(queue') /\ \A i \in 1..Len(queue) : i \in 1..Len(queue')
    BY <2>2
  <2>4. (Queued(j) => Queued(j)') /\ (Dispatching(j) => Queued(j)') /\ (Carried(j) => Carried(j)')
    BY <2>1, <2>2, <2>3 DEF Queued, Dispatching, Carried
  <2>5. QED
    BY <1>1, <2>1, <2>4 DEF Held
<1>7. CASE CancelSyncJob \/ RecoverStaleJob
  <2>1. status[j] \in Active
    BY <1>7 DEF CancelSyncJob, RecoverStaleJob, TypeInv, TypeOK, Active, Recoverable
  <2>2. UNCHANGED threads /\ (Dispatching(j) => Dispatching(j)')
    BY <1>7 DEF CancelSyncJob, RecoverStaleJob, Dispatching
  <2>3. QED
    BY <1>1, <2>1, <2>2 DEF threads, Held, Queued, Carried
<1>8. ASSUME NEW k \in Job, FindStaleJob(k)
      PROVE  Held(j)'
  BY <1>1, <1>8 DEF FindStaleJob, rows, threads, Held, Dispatching, Queued, Carried
<1>9. ASSUME NEW w \in Worker, PickUp(w), UNCHANGED server
      PROVE  Held(j)'
  <2>1. /\ queue # <<>> /\ queue' = Tail(queue) /\ status'[j] = status[j]
        /\ Dispatching(j) => Dispatching(j)'
    BY <1>9 DEF PickUp, rows, server, Dispatching
  <2>2. Carried(j) => Carried(j)'
    BY <1>9, PickedUp DEF Carried, Idle
  <2>3. ASSUME NEW i \in 1..Len(queue), queue[i] = j
        PROVE  Carried(j)' \/ Queued(j)'
    <3>1. CASE i = 1
      BY <1>9, <2>1, <2>3, <3>1, QueueParts, PickedUp DEF Carried
    <3>2. CASE i # 1
      <4>1. i - 1 \in 1..Len(queue') /\ queue'[i - 1] = j
        BY <2>1, <2>3, <3>2, QueueParts
      <4>2. QED
        BY <4>1 DEF Queued
    <3>3. QED
      BY <3>1, <3>2
  <2>4. QED
    BY <1>1, <2>1, <2>2, <2>3 DEF Held, Queued
<1>10. ASSUME NEW w \in Worker, Goes(w), UNCHANGED <<queue, server>>
       PROVE  Held(j)'
  <2>1. (Queued(j) => Queued(j)') /\ (Dispatching(j) => Dispatching(j)')
    BY <1>10 DEF server, Queued, Dispatching
  <2>2. \A v \in Worker \ {w} : wk'[v] = wk[v]
    BY <1>10, GoesKeepsJob
  <2>3. CASE wk[w].job # j
    <3>1. status[j] \in Active
      BY <1>10, <2>3, GoesRows DEF Active, Recoverable
    <3>2. Carried(j) => Carried(j)'
      BY <2>2, <2>3 DEF Carried
    <3>3. QED
      BY <1>1, <2>1, <3>1, <3>2 DEF Held
  <2>4. CASE wk[w].job = j
    <3>1. PICK r \in WorkerState : /\ Turn(w, r, status'[j])
                                   /\ wk' = [wk EXCEPT ![w] = r]
      BY <1>10, <2>4 DEF Goes
    <3>2. wk'[w] = r
      BY <3>1 DEF TypeInv, TypeOK
    <3>3. TellsTheEnd(wk[w], status[wk[w].job])
      BY DEF CopyTellsTheEnd, TellsTheEnd
    <3>4. ~Ends(w, r, status'[j])
      BY <2>4, <3>3, TurnFinishes DEF Ends
    <3>5. r.job = j
      BY <2>4, <3>1, <3>4, WorkerType DEF TypeInv, Turn, Reads, Rounds, Begins, Publishing,
         GivesUp, WorkerState
    <3>6. QED
      BY <3>2, <3>5 DEF Held, Carried
  <2>5. QED
    BY <2>3, <2>4
<1>11. QED
  BY <1>2, <1>3, <1>4, <1>5, <1>6, <1>7, <1>8, <1>9, <1>10, NextForms

\* While the server stays up and the database can be reached, an active row
\* always has somebody who will finish it, also when statements fail or threads
\* are so slow that they are taken for dead.
THEOREM NobodyForgets ==
    ASSUME MaxCrashes = 0, "outage" \notin Hazard
    PROVE  Spec => []NothingStranded
<1>1. Init => NothingStranded
  BY DEF Init, NothingStranded, Active, Recoverable
<1>2. QED
  BY <1>1, CatalogInvariant, CopyTellsTheEndInvariant, NothingStrandedStep, PTL DEF Spec

-----------------------------------------------------------------------------
(* Outcomes stand *)

\* OnlyTheDeadGetStale, of one job.
OpenOrLeft(j) ==
    /\ stale[j] \/ rec = j => j < nextId /\ ~Unstarted(j) /\ ~Carried(j)
    /\ rec = j => status[j] \in Recoverable \union {"failed", "cancelled"}
    /\ Carried(j) => status[j] \in Active \union {"cancelled"}

LEMMA OpenOrLeftParts ==
    ASSUME TypeInv
    PROVE  OnlyTheDeadGetStale <=> \A j \in Job : OpenOrLeft(j)
<1>1. (rec # NoJob => rec \in Job) /\ NoJob \notin Job
  BY DEF TypeInv, TypeOK
<1>2. \A w \in Worker : wk[w].pc # "idle" <=> wk[w].job \in Job
  BY CarriedJob DEF TypeInv, KnownJobs, Idle
<1>3. QED
  BY <1>1, <1>2 DEF OnlyTheDeadGetStale, OpenOrLeft, Carried

\* A turn that keeps its job leaves the row at work or cancelled.
LEMMA TurnStaysOpen ==
    ASSUME NEW w \in Worker, NEW r, NEW s, Turn(w, r, s), r.job # NoJob,
           status[wk[w].job] \in Active \union {"cancelled"}
    PROVE  s \in Active \union {"cancelled"}
BY DEF Turn, Reads, Rounds, Begins, Publishing, GivesUp, Ends, Written, Idle, Active,
   Recoverable

LEMMA OpenOrLeftStep ==
    ASSUME "slow" \notin Hazard, Order, OnlyTheDeadGetStale, [Next]_vars, NEW j \in Job
    PROVE  OpenOrLeft(j)'
<1> USE DEF Order
<1>1. /\ stale[j] \/ rec = j => j < nextId /\ ~Unstarted(j) /\ ~Carried(j)
      /\ rec = j => status[j] \in Recoverable \union {"failed", "cancelled"}
      /\ Carried(j) => status[j] \in Active \union {"cancelled"}
  BY OpenOrLeftParts DEF OpenOrLeft
<1>2. Unstarted(j) => status[j] \in {"pending", "cancelled"} /\ rec # j
  BY DEF Untouched
<1>3. Unstarted(j)' => Unstarted(j) \/ (CreateSyncJob /\ j = nextId)
  BY UnstartedBefore
<1>4. nextId \in Nat
  BY DEF TypeInv, TypeOK
<1>5. UNCHANGED wk => (Carried(j)' <=> Carried(j))
  BY DEF Carried
<1>6. UNCHANGED nextId => (Unstarted(j)' => Unstarted(j))
  BY <1>3, <1>4 DEF CreateSyncJob
\* A step that gives the job to no thread and does not write its row.
<1>7. ASSUME status'[j] = status[j], UNCHANGED nextId, Carried(j)' => Carried(j),
             stale'[j] => stale[j], rec' = j => rec = j
      PROVE  OpenOrLeft(j)'
  BY <1>1, <1>6, <1>7 DEF OpenOrLeft
<1>8. CASE Quiet /\ UNCHANGED stale
  BY <1>5, <1>7, <1>8 DEF Quiet, threads, TypeInv, TypeOK
<1>9. ASSUME NEW k \in Job, BecomeStale(k)
      PROVE  OpenOrLeft(j)'
  <2>1. UNCHANGED <<status, rec, nextId, wk>> /\ stale' = [stale EXCEPT ![k] = TRUE]
    BY <1>9 DEF BecomeStale, threads, server
  <2>2. CASE k = j
    <3>1. status[j] \in Recoverable /\ j < nextId /\ ~Carried(j) /\ ~Unstarted(j)
      BY <1>2, <1>9, <2>2 DEF BecomeStale, Carried, Recoverable, TypeInv, KnownJobs
    <3>2. QED
      BY <1>1, <1>5, <1>6, <2>1, <3>1 DEF OpenOrLeft
  <2>3. CASE k # j
    BY <1>5, <1>7, <2>1, <2>3 DEF TypeInv, TypeOK
  <2>4. QED
    BY <2>2, <2>3
<1>10. CASE CreateSyncJob
  <2>1. /\ UNCHANGED <<stale, rec, wk>> /\ nextId' = nextId + 1 /\ nextId \in Job
        /\ status' = [status EXCEPT ![nextId] = "pending"]
    BY <1>10 DEF CreateSyncJob, threads, TypeInv, KnownRequests
  <2>2. CASE j # nextId
    BY <1>1, <1>3, <1>4, <1>5, <2>1, <2>2 DEF OpenOrLeft, TypeInv, TypeOK
  <2>3. CASE j = nextId
    <3>1. ~stale[j] /\ rec # j /\ status'[j] = "pending"
      BY <1>1, <1>4, <2>1, <2>3 DEF TypeInv, TypeOK, KnownJobs
    <3>2. QED
      BY <2>1, <3>1 DEF OpenOrLeft, Active
  <2>4. QED
    BY <2>2, <2>3
<1>11. CASE StoreRequestedTables \/ DispatchSyncJob
  BY <1>5, <1>7, <1>11 DEF StoreRequestedTables, DispatchSyncJob, rows, threads
<1>12. CASE CancelSyncJob
  <2>1. /\ UNCHANGED <<rec, wk, nextId>> /\ (stale'[j] => stale[j])
        /\ status'[j] \in {status[j], "cancelled"}
    BY <1>12 DEF CancelSyncJob, threads, TypeInv, TypeOK
  <2>2. QED
    BY <1>1, <1>5, <1>6, <2>1 DEF OpenOrLeft
<1>13. CASE RecoverStaleJob
  <2>1. /\ UNCHANGED <<wk, nextId>> /\ (stale'[j] => stale[j]) /\ rec' # j
        /\ status'[j] = IF j = rec THEN "failed" ELSE status[j]
    BY <1>13 DEF RecoverStaleJob, threads, TypeInv, TypeOK
  <2>2. QED
    BY <1>1, <1>5, <1>6, <2>1 DEF OpenOrLeft
<1>14. ASSUME NEW k \in Job, FindStaleJob(k)
       PROVE  OpenOrLeft(j)'
  <2>1. /\ UNCHANGED <<status, stale, wk, nextId>> /\ rec' = k
        /\ status[k] \in Recoverable /\ stale[k]
    BY <1>14 DEF FindStaleJob, rows, threads
  <2>2. QED
    BY <1>1, <1>5, <1>6, <2>1 DEF OpenOrLeft
<1>15. ASSUME NEW w \in Worker, PickUp(w), UNCHANGED <<catalog, server>>
       PROVE  OpenOrLeft(j)'
  <2>1. /\ Queued(Head(queue)) /\ wk'[w].job = Head(queue)
        /\ \A v \in Worker \ {w} : wk'[v] = wk[v]
        /\ UNCHANGED <<status, stale, nextId, rec>>
    BY <1>15, PickedUp DEF rows, server
  <2>2. Carried(j)' => Carried(j) \/ Unstarted(j)
    BY <2>1 DEF Carried, Unstarted
  <2>3. QED
    BY <1>1, <1>2, <1>6, <2>1, <2>2 DEF OpenOrLeft, Active
<1>16. ASSUME NEW w \in Worker, ConnectFails(w)
       PROVE  OpenOrLeft(j)'
  BY <1>5, <1>7, <1>16 DEF ConnectFails, rows
<1>17. ASSUME NEW w \in Worker, Goes(w), UNCHANGED <<queue, server>>
       PROVE  OpenOrLeft(j)'
  <2>1. UNCHANGED <<nextId, rec>> /\ (stale'[j] => stale[j])
    BY <1>17 DEF Goes, OtherRows, server
  <2>2. /\ wk'[w].job \in {wk[w].job, NoJob}
        /\ \A v \in Worker \ {w} : wk'[v] = wk[v]
    BY <1>17, GoesKeepsJob
  <2>3. Carried(j)' => Carried(j)
    BY <2>2 DEF Carried
  <2>4. CASE wk[w].job # j /\ status'[j] = status[j]
    BY <1>7, <2>1, <2>3, <2>4
  <2>5. CASE wk[w].job # j /\ status'[j] # status[j]
    <3>1. stale[j] /\ status'[j] = "failed"
      BY <1>17, <2>5 DEF Goes, OtherRows
    <3>2. QED
      BY <1>1, <1>6, <2>1, <2>3, <3>1 DEF OpenOrLeft
  <2>6. CASE wk[w].job = j
    <3>1. Carried(j) /\ ~stale[j] /\ rec # j /\ \A v \in Worker \ {w} : wk[v].job # j
      BY <1>1, <2>6 DEF Carried, RunOnce
    <3>2. PICK r \in WorkerState : Turn(w, r, status'[j]) /\ wk' = [wk EXCEPT ![w] = r]
      BY <1>17, <2>6 DEF Goes
    <3>3. wk'[w] = r
      BY <3>2 DEF TypeInv, TypeOK
    <3>4. Carried(j)' => r.job = j
      BY <2>2, <3>1, <3>3 DEF Carried
    <3>5. Carried(j)' => status'[j] \in Active \union {"cancelled"}
      BY <1>1, <2>6, <3>1, <3>2, <3>4, TurnStaysOpen
    <3>6. QED
      BY <2>1, <3>1, <3>5 DEF OpenOrLeft
  <2>7. QED
    BY <2>4, <2>5, <2>6
<1>18. CASE Crash
  <2>1. UNCHANGED <<status, stale, nextId>> /\ rec' = NoJob /\ ~Carried(j)'
    BY <1>18 DEF Crash, rows, Idle, Carried
  <2>2. QED
    BY <1>7, <2>1
<1>19. QED
  BY <1>8, <1>9, <1>10, <1>11, <1>12, <1>13, <1>14, <1>15, <1>16, <1>17, <1>18, NextForms

LEMMA OnlyTheDeadGetStaleInvariant ==
    ASSUME "slow" \notin Hazard PROVE Spec => []OnlyTheDeadGetStale
<1>1. Init => OnlyTheDeadGetStale
  BY DEF Init, Idle, OnlyTheDeadGetStale
<1>2. ASSUME Order, TypeInv', OnlyTheDeadGetStale, [Next]_vars
      PROVE  OnlyTheDeadGetStale'
  <2>1. \A j \in Job : OpenOrLeft(j)'
    BY <1>2, OpenOrLeftStep
  <2>2. /\ rec' # NoJob => rec' \in Job
        /\ \A w \in Worker : wk'[w].pc # "idle" => wk'[w].job \in Job
    BY <1>2 DEF TypeInv, TypeOK, KnownJobs
  <2>3. QED
    BY <2>1, <2>2 DEF OnlyTheDeadGetStale, OpenOrLeft, Carried
<1>3. CatalogInv => Order
  BY DEF CatalogInv
<1>4. QED
  BY <1>1, <1>2, <1>3, Types, CatalogInvariant, PTL DEF Spec

LEMMA OutcomeStandsStep ==
    ASSUME Order, OnlyTheDeadGetStale, [Next]_vars, NEW j \in Job,
           status[j] \in Terminal \ {"cancelled"}
    PROVE  status'[j] \in {status[j], "cancelled"}
<1> USE DEF Order
<1>1. /\ rec = j => status[j] = "failed"
      /\ ~Carried(j)
      /\ status[j] \notin Recoverable /\ status[j] # "none"
  BY OpenOrLeftParts DEF OpenOrLeft, Active, Terminal, Retryable, Recoverable
<1>2. CASE \/ Quiet \/ StoreRequestedTables \/ DispatchSyncJob \/ Crash
           \/ \E k \in Job : FindStaleJob(k)
  BY <1>2 DEF Quiet, StoreRequestedTables, DispatchSyncJob, Crash, FindStaleJob, rows
<1>3. CASE CreateSyncJob
  <2>1. j # nextId
    BY <1>1, <1>3 DEF CreateSyncJob, TypeInv, KnownJobs, TypeOK
  <2>2. QED
    BY <1>3, <2>1 DEF CreateSyncJob, TypeInv, TypeOK
<1>4. CASE CancelSyncJob
  BY <1>4 DEF CancelSyncJob, TypeInv, TypeOK
<1>5. CASE RecoverStaleJob
  BY <1>1, <1>5 DEF RecoverStaleJob, TypeInv, TypeOK
<1>6. ASSUME NEW w \in Worker, PickUp(w) \/ ConnectFails(w)
      PROVE  status'[j] = status[j]
  BY <1>6 DEF PickUp, ConnectFails, rows
<1>7. ASSUME NEW w \in Worker, Goes(w)
      PROVE  status'[j] = status[j]
  BY <1>1, <1>7 DEF Goes, OtherRows, Carried
<1>8. QED
  BY <1>2, <1>3, <1>4, <1>5, <1>6, <1>7, NextForms

\* While no thread is so slow that it is taken for dead, a reported outcome
\* stands: no other thread, no sweep and no restart overwrites it, whatever
\* fails or crashes; only a cancellation that was read before it does.
THEOREM OutcomesStand == ASSUME "slow" \notin Hazard PROVE Spec => OutcomeStands
<1>1. ASSUME Order, OnlyTheDeadGetStale, [Next]_vars
      PROVE  [\A j \in Job : status[j] \in Terminal \ {"cancelled"}
                                => status'[j] \in {status[j], "cancelled"}]_vars
  BY <1>1, OutcomeStandsStep
<1>2. CatalogInv => Order
  BY DEF CatalogInv
<1>3. QED
  BY <1>1, <1>2, CatalogInvariant, OnlyTheDeadGetStaleInvariant, PTL DEF Spec, OutcomeStands

-----------------------------------------------------------------------------
(* Failures leave the catalog *)

\* CopyFollows, of a thread in state r whose job's row has status s.
Follows(r, s) ==
    /\ r.pc # "idle" => s \in {r.copy, "cancelled"}
    /\ r.pc = "locking" => r.copy \in {"pending", "cancelled"}
    /\ r.pc \in {"admitted", "starting", "toRunning"} => r.copy = "pending"
    /\ r.pc \in {"introspecting", "probing"} => r.copy \in {"running", "cancelled"}
    /\ r.pc = "toStage" => r.copy = "running"
    /\ r.pc = "staging" => r.copy = "finalizing"
    /\ r.pc \in {"finalizing", "posting", "succeeding"} => r.copy \in {"finalizing", "cancelled"}
    /\ r.pc = "failing" => r.copy = "cancelled"

\* A thread's copy follows its row, and the row it leaves is not at work.
LEMMA TurnFollows ==
    ASSUME TypeInv, OneActiveJob, "error" \notin Hazard,
           NEW w \in Worker, wk[w].pc # "idle", NEW r \in WorkerState, NEW s, Turn(w, r, s),
           Follows(wk[w], status[wk[w].job])
    PROVE  /\ Follows(r, s)
           /\ r = Idle => s \notin Recoverable
<1> USE WorkerType DEF TypeInv
<1> DEFINE q == wk[w]
<1>1. CASE Reads(w, r, s)
  <2>1. s = status[q.job] /\ s \in {q.copy, "cancelled"}
    BY <1>1 DEF Reads, Follows
  <2>2. \/ q.pc = "locking" /\ q.copy = "pending" /\ r.pc = "admitted" /\ r.copy = q.copy
        \/ q.pc = "admitted" /\ r.pc = "starting" /\ r.copy = q.copy
        \/ q.pc = "starting" /\ s # "cancelled" /\ r.pc = "toRunning" /\ r.copy = s
        \/ q.pc = "introspecting" /\ s # "cancelled" /\ r.pc = "toStage" /\ r.copy = s
        \/ q.pc = "finalizing" /\ s # "cancelled" /\ r.pc = "staging" /\ r.copy = s
        \/ q.pc = "staging" /\ r.pc = "finalizing" /\ r.copy = q.copy
        \/ q.pc = "posting" /\ q.copy # "cancelled" /\ r.pc = "succeeding" /\ r.copy = s
    BY <1>1 DEF Reads, AtCheckpoint, AfterCheckpoint, WorkerState
  <2>3. Follows(r, s)
    BY <2>1, <2>2 DEF Follows
  <2>4. QED
    BY <2>2, <2>3 DEF Idle
<1>2. CASE Rounds(w, r, s)
  BY <1>2 DEF Rounds, Follows, Written, Idle
<1>3. CASE Begins(w, r, s)
  <2>1. \/ /\ q.pc = "toRunning" /\ r.pc = "introspecting" /\ r.copy = s
           /\ s = Written(w, "running")
        \/ /\ q.pc = "toStage" /\ r.pc = "probing" /\ r.copy = s
           /\ s = Written(w, "running")
        \/ /\ q.pc = "probing" /\ q.copy # "cancelled" /\ r.pc = "finalizing" /\ r.copy = s
           /\ s = Written(w, "finalizing")
    BY <1>3 DEF Begins, WorkerState
  <2>2. Follows(r, s)
    BY <2>1 DEF Follows, Written
  <2>3. QED
    BY <2>1, <2>2 DEF Idle
<1>4. CASE Publishing(w, r, s)
  BY <1>4 DEF Publishing, Publish, Follows, Idle, WorkerState
<1>5. CASE GivesUp(w, r, s)
  <2>1. r.pc = "failing" /\ r.copy = s /\ s = status[q.job] /\ q.pc # "failing" /\ Rivalled(w)
    BY <1>5 DEF GivesUp
  <2>2. PICK k \in Job : k # q.job /\ status[k] \in Active /\ dsOf[k] = dsOf[q.job]
    BY <2>1 DEF Rivalled, ActiveOn
  <2>3. status[q.job] \notin Active
    BY <2>2, CarriedJob DEF OneActiveJob
  <2>4. s = "cancelled"
    BY <2>1, <2>3 DEF Follows, Locked, Active, Recoverable
  <2>5. QED
    BY <2>1, <2>4 DEF Follows, Idle
<1>6. CASE Ends(w, r, s)
  BY <1>6 DEF Ends, Follows, Written, AtCheckpoint, Idle, Active, Recoverable
<1>7. QED
  BY <1>1, <1>2, <1>3, <1>4, <1>5, <1>6 DEF Turn

\* Nothing dies and no statement fails of itself or is slow.
Calm == MaxCrashes = 0 /\ "slow" \notin Hazard /\ "error" \notin Hazard

\* Where rows do not get stale, a turn writes the row of its own job only, and
\* the sweep finds nothing to do.
LEMMA CalmRows ==
    ASSUME Calm, TypeInv, CopyFollows, [Next]_vars
    PROVE  /\ ~Crash /\ ~RecoverStaleJob
           /\ \A j \in Job : ~BecomeStale(j) /\ ~FindStaleJob(j)
           /\ \A w \in Worker : Goes(w) => \A k \in Job \ {wk[w].job} : status'[k] = status[k]
<1>1. rec = NoJob /\ \A j \in Job : ~stale[j]
  BY DEF CopyFollows
<1>2. ASSUME NEW j \in Job
      PROVE  ~BecomeStale(j)
  BY DEF Calm, CopyFollows, BecomeStale, Carried
<1>3. QED
  BY <1>1, <1>2 DEF Calm, Crash, RecoverStaleJob, FindStaleJob, Goes, OtherRows, TypeInv, TypeOK

LEMMA CopyFollowsStep ==
    ASSUME Calm, CatalogInv, OneActiveJob, CopyFollows, [Next]_vars
    PROVE  CopyFollows'
<1> USE DEF CatalogInv, Order
<1>1. /\ rec = NoJob /\ \A j \in Job : ~stale[j]
      /\ \A j \in Job : status[j] \in Recoverable => Carried(j)
      /\ \A w \in Worker : Follows(wk[w], status[wk[w].job])
  BY DEF CopyFollows, Follows
<1>2. SUFFICES /\ rec' = NoJob /\ \A j \in Job : ~stale'[j]
               /\ \A j \in Job : status'[j] \in Recoverable => Carried(j)'
               /\ \A v \in Worker : Follows(wk'[v], status'[wk'[v].job])
  BY DEF CopyFollows, Follows
<1>3. \A v \in Worker : wk[v].pc # "idle" => wk[v].job \in Job /\ wk[v].job < nextId
  BY CarriedJob
<1>4. rec' = NoJob
  BY <1>1, CalmRows, NextForms DEF Quiet, CreateSyncJob, StoreRequestedTables, DispatchSyncJob,
     CancelSyncJob, ConnectFails, server
<1>5. \A j \in Job : ~stale'[j]
  <2>1. CASE UNCHANGED stale
    BY <1>1, <2>1
  <2>2. CASE CancelSyncJob
    BY <1>1, <2>2 DEF CancelSyncJob, TypeInv, TypeOK
  <2>3. ASSUME NEW w \in Worker, Goes(w)
        PROVE  \A j \in Job : ~stale'[j]
    BY <1>1, <2>3 DEF Goes, OtherRows
  <2>4. QED
    BY <2>1, <2>2, <2>3, CalmRows, NextForms DEF CreateSyncJob, StoreRequestedTables,
       DispatchSyncJob, PickUp, ConnectFails, rows
<1>6. ASSUME UNCHANGED wk,
             \A j \in Job : j < nextId => status'[j] \in {status[j], "cancelled"},
             \A j \in Job : status'[j] \in Recoverable => status[j] \in Recoverable
      PROVE  /\ \A j \in Job : status'[j] \in Recoverable => Carried(j)'
             /\ \A v \in Worker : Follows(wk'[v], status'[wk'[v].job])
  <2>1. \A j \in Job : Carried(j)' <=> Carried(j)
    BY <1>6 DEF Carried
  <2>2. ASSUME NEW v \in Worker
        PROVE  Follows(wk[v], status'[wk[v].job])
    BY <1>1, <1>3, <1>6 DEF Follows
  <2>3. QED
    BY <1>1, <1>6, <2>1, <2>2
<1>7. CASE Quiet \/ StoreRequestedTables \/ DispatchSyncJob
  BY <1>4, <1>5, <1>6, <1>7 DEF Quiet, StoreRequestedTables, DispatchSyncJob, rows, threads
<1>8. CASE CreateSyncJob
  <2>1. UNCHANGED wk /\ status' = [status EXCEPT ![nextId] = "pending"]
    BY <1>8 DEF CreateSyncJob, threads
  <2>2. \A j \in Job : status'[j] = IF j = nextId THEN "pending" ELSE status[j]
    BY <2>1 DEF TypeInv, TypeOK
  <2>3. \A j \in Job : j < nextId => j # nextId
    BY DEF TypeInv, TypeOK
  <2>4. QED
    BY <1>4, <1>5, <1>6, <2>1, <2>2, <2>3 DEF Recoverable
<1>9. CASE CancelSyncJob
  <2>1. UNCHANGED wk /\ \A j \in Job : status'[j] \in {status[j], "cancelled"}
    BY <1>9 DEF CancelSyncJob, threads, TypeInv, TypeOK
  <2>2. QED
    BY <1>4, <1>5, <1>6, <2>1 DEF Recoverable
<1>10. ASSUME NEW w \in Worker, PickUp(w)
       PROVE  /\ \A j \in Job : status'[j] \in Recoverable => Carried(j)'
              /\ \A v \in Worker : Follows(wk'[v], status'[wk'[v].job])
  <2>1. UNCHANGED status /\ wk[w] = Idle /\ \A v \in Worker \ {w} : wk'[v] = wk[v]
    BY <1>10, PickedUp DEF rows
  <2>2. \A j \in Job : Carried(j) => Carried(j)'
    BY <2>1 DEF Carried, Idle
  <2>3. Follows(wk'[w], status'[wk'[w].job])
    <3>1. PICK h \in Job : h = Head(queue)
      BY <1>10, PickedUp
    <3>2. Unstarted(h) /\ wk'[w].job = h /\ wk'[w].pc = "locking" /\ wk'[w].copy = status[h]
      BY <1>10, <3>1, PickedUp DEF Unstarted
    <3>3. status[h] \in {"pending", "cancelled"}
      BY <3>2 DEF Untouched
    <3>4. QED
      BY <2>1, <3>2, <3>3 DEF Follows
  <2>4. QED
    BY <1>1, <2>1, <2>2, <2>3
<1>11. ASSUME NEW w \in Worker, ConnectFails(w)
       PROVE  /\ \A j \in Job : status'[j] \in Recoverable => Carried(j)'
              /\ \A v \in Worker : Follows(wk'[v], status'[wk'[v].job])
  BY <1>6, <1>11 DEF ConnectFails, rows
<1>12. ASSUME NEW w \in Worker, Goes(w)
       PROVE  /\ \A j \in Job : status'[j] \in Recoverable => Carried(j)'
              /\ \A v \in Worker : Follows(wk'[v], status'[wk'[v].job])
  <2>1. PICK r \in WorkerState : /\ Turn(w, r, status'[wk[w].job])
                                 /\ wk' = [wk EXCEPT ![w] = r]
    BY <1>12 DEF Goes
  <2>2. /\ Follows(r, status'[wk[w].job])
        /\ r = Idle => status'[wk[w].job] \notin Recoverable
    BY <1>1, <1>12, <2>1, TurnFollows DEF Calm, Goes
  <2>3. /\ wk'[w] = r /\ (r.job = wk[w].job \/ r = Idle)
        /\ \A v \in Worker \ {w} : wk'[v] = wk[v]
    <3>1. wk'[w] = r
      BY <2>1 DEF TypeInv, TypeOK
    <3>2. QED
      BY <1>12, <3>1, GoesKeepsJob
  <2>4. \A k \in Job \ {wk[w].job} : status'[k] = status[k]
    BY <1>12, CalmRows
  <2>5. ASSUME NEW v \in Worker
        PROVE  Follows(wk'[v], status'[wk'[v].job])
    <3>1. CASE v = w
      BY <2>2, <2>3, <3>1 DEF Follows, Idle
    <3>2. CASE v # w /\ wk[v].pc = "idle"
      BY <1>1, <2>3, <3>2 DEF Follows
    <3>3. CASE v # w /\ wk[v].pc # "idle"
      <4>1. wk[v].job \in Job /\ wk[v].job # wk[w].job /\ wk'[v] = wk[v]
        BY <1>3, <2>3, <3>3 DEF RunOnce
      <4>2. QED
        BY <1>1, <2>4, <4>1
    <3>4. QED
      BY <3>1, <3>2, <3>3
  <2>6. ASSUME NEW j \in Job, status'[j] \in Recoverable
        PROVE  Carried(j)'
    <3>1. CASE j = wk[w].job
      BY <2>2, <2>3, <2>6, <3>1 DEF Carried
    <3>2. CASE j # wk[w].job
      BY <1>1, <2>3, <2>4, <2>6, <3>2 DEF Carried
    <3>3. QED
      BY <3>1, <3>2
  <2>7. QED
    BY <2>5, <2>6
<1>13. QED
  BY <1>4, <1>5, <1>7, <1>8, <1>9, <1>10, <1>11, <1>12, CalmRows, NextForms

LEMMA CopyFollowsInvariant == ASSUME Calm PROVE Spec => []CopyFollows
<1>1. Init => CopyFollows
  BY DEF Init, Idle, CopyFollows, Recoverable
<1>2. QED
  BY <1>1, CatalogInvariant, OneActive, CopyFollowsStep, PTL DEF Spec

\* A job that somebody carries has not reported an outcome yet.
LEMMA CarriedIsOpen ==
    ASSUME TypeInv, CopyFollows, NEW w \in Worker, wk[w].pc # "idle"
    PROVE  status[wk[w].job] \in Active \union {"cancelled"}
<1>1. Follows(wk[w], status[wk[w].job])
  BY DEF CopyFollows, Follows
<1>2. QED
  BY <1>1, WorkerType DEF TypeInv, Follows, Locked, Active, Recoverable

LEMMA FailedIsUnpublishedStep ==
    ASSUME Calm, CatalogInv, CopyFollows, FailedIsUnpublished, [Next]_vars
    PROVE  FailedIsUnpublished'
<1> SUFFICES ASSUME NEW j \in Job, status'[j] = "failed" PROVE j \notin published'
  BY DEF FailedIsUnpublished
<1> USE DEF CatalogInv, Order
<1>1. CASE status[j] = "failed" /\ UNCHANGED catalog
  BY <1>1 DEF FailedIsUnpublished, catalog
<1>2. CASE Quiet \/ StoreRequestedTables \/ DispatchSyncJob
  BY <1>1, <1>2 DEF Quiet, StoreRequestedTables, DispatchSyncJob, rows
<1>3. CASE CreateSyncJob \/ CancelSyncJob
  BY <1>1, <1>3 DEF CreateSyncJob, CancelSyncJob, TypeInv, TypeOK
<1>4. ASSUME NEW w \in Worker, (PickUp(w) /\ UNCHANGED catalog) \/ ConnectFails(w)
      PROVE  j \notin published'
  BY <1>1, <1>4 DEF PickUp, ConnectFails, rows
<1>5. ASSUME NEW w \in Worker, Goes(w), Publish(w) \/ UNCHANGED catalog
      PROVE  j \notin published'
  <2>1. CASE wk[w].job # j
    <3>1. status[j] = "failed"
      BY <1>5, <2>1, CalmRows
    <3>2. QED
      BY <1>5, <2>1, <3>1 DEF FailedIsUnpublished, Publish, catalog
  <2>2. CASE wk[w].job = j
    <3>1. PICK r \in WorkerState : Turn(w, r, "failed")
      BY <1>5, <2>2 DEF Goes
    <3>2. status[j] \in Active \union {"cancelled"} /\ Follows(wk[w], status[j])
      BY <1>5, <2>2, CarriedIsOpen DEF Goes, CopyFollows, Follows
    <3>3. Ends(w, r, "failed") /\ wk[w].pc \in {"admitted", "probing"}
      <4>1. ~Reads(w, r, "failed") /\ ~Rounds(w, r, "failed") /\ ~Begins(w, r, "failed")
        BY <2>2, <3>2 DEF Reads, Rounds, Begins, Written, Active, Recoverable
      <4>2. ~Publishing(w, r, "failed") /\ ~GivesUp(w, r, "failed")
        BY <2>2, <3>2 DEF Publishing, GivesUp, Active, Recoverable
      <4>3. Ends(w, r, "failed")
        BY <3>1, <4>1, <4>2 DEF Turn
      <4>4. QED
        BY <2>2, <3>2, <4>3 DEF Ends, Follows, Written, Active, Recoverable
    <3>4. j \notin published
      BY <2>2, <3>3 DEF Publishes, Locked
    <3>5. ~Publish(w)
      BY <3>3 DEF Publish
    <3>6. QED
      BY <1>5, <3>4, <3>5 DEF catalog
  <2>3. QED
    BY <2>1, <2>2
<1>6. QED
  BY <1>2, <1>3, <1>4, <1>5, CalmRows, NextForms

\* While nothing dies, fails of itself or is slow, failed means that the schema
\* readers saw before the job is what they still see of it.
THEOREM FailuresLeaveTheCatalog == ASSUME Calm PROVE Spec => []FailedIsUnpublished
<1>1. Init => FailedIsUnpublished
  BY DEF Init, FailedIsUnpublished
<1>2. QED
  BY <1>1, CatalogInvariant, CopyFollowsInvariant, FailedIsUnpublishedStep, PTL DEF Spec
=============================================================================
