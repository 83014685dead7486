------------------------ MODULE SyncJobCatalogProofs ------------------------
(***************************************************************************)
(* Proofs that a job is in one place only, that the outcomes the rows      *)
(* report are true, and that the synchronisation jobs implement the        *)
(* catalog of SchemaCatalog, for any number of jobs, datasources, threads  *)
(* and tables and in every environment.                                    *)
(***************************************************************************)
EXTENDS SyncJobProofs

USE DEF Job, NoJob

-----------------------------------------------------------------------------
(* The turns of a thread.  Each is described by the state r that the thread *)
(* goes on in and the status s that its job's row has then.                 *)

\* What a thread's loops are about.
Work(r) == r.todo \union r.singles \union r.done \union r.bad

\* The row of w's job after writing s through w's copy.
Written(w, s) == IF s = wk[w].copy THEN status[wk[w].job] ELSE s

\* Another row of the job's datasource is active.
Rivalled(w) == ActiveOn(dsOf[wk[w].job]) \ {wk[w].job} # {}

\* The thread goes on without writing the row.
Reads(w, r, s) ==
    LET q == wk[w] IN
    /\ s = status[q.job]
    /\ \/ q.pc = "locking" /\ q.copy = "pending" /\ r = [q EXCEPT !.pc = "admitted"]
       \/ q.pc = "admitted" /\ r = [q EXCEPT !.pc = "starting"]
       \/ /\ AtCheckpoint(w) /\ s # "cancelled"
          /\ r = [q EXCEPT !.copy = s, !.pc = AfterCheckpoint(q.pc)]
       \/ /\ q.pc = "staging" /\ r.job = q.job /\ r.pc = "finalizing"
          /\ r.copy = q.copy /\ r.todo \union r.done = q.todo \union q.done
       \/ q.pc = "posting" /\ q.copy # "cancelled"
          /\ r = [q EXCEPT !.pc = "succeeding", !.copy = s]

\* A round of one of the loops: of the tables it is about none is forgotten.
Rounds(w, r, s) ==
    LET q == wk[w] IN
    /\ q.pc \in {"introspecting", "probing"} /\ q.copy # "cancelled" /\ ~LoopDone(w)
    /\ r.pc = q.pc /\ r.job = q.job /\ Work(r) = Work(q)
    /\ \/ s = Written(w, "running") /\ r.copy = s
       \/ s = status[q.job] /\ r.copy = s
       \/ s = status[q.job] /\ r.copy = q.copy /\ r.singles # {}

\* The thread writes the row and goes on to its next loop.
Begins(w, r, s) ==
    LET q == wk[w] IN
    \/ /\ q.pc = "toRunning" /\ s = Written(w, "running")
       /\ r = [q EXCEPT !.pc = "introspecting", !.todo = tables[q.job], !.copy = s]
    \/ /\ q.pc = "toStage" /\ s = Written(w, "running")
       /\ r = [q EXCEPT !.pc = "probing", !.todo = q.done, !.done = {}, !.copy = s]
    \/ /\ q.pc = "probing" /\ LoopDone(w) /\ q.bad = {} /\ q.copy # "cancelled"
       /\ s = Written(w, "finalizing")
       /\ r = [q EXCEPT !.pc = "finalizing", !.todo = q.done, !.done = {}, !.copy = s]

\* The thread publishes its job.
Publishing(w, r, s) ==
    Publish(w) /\ s = status[wk[w].job] /\ r = [wk[w] EXCEPT !.pc = "posting"]

\* The thread goes to its exception handler.
GivesUp(w, r, s) ==
    LET q == wk[w] IN
    /\ q.pc # "idle" /\ r.pc = "failing" /\ r.job = q.job /\ s = status[q.job]
    /\ r.copy \in {s, q.copy}
    /\ \/ "error" \in Hazard
       \/ q.pc # "failing" /\ r.copy = s /\ Rivalled(w)

\* The thread is done with its job.
Ends(w, r, s) ==
    LET q == wk[w] IN
    /\ r = Idle
    /\ \/ /\ s = status[q.job]
          /\ \/ q.pc = "locking" /\ q.copy # "pending"
             \/ AtCheckpoint(w) /\ s = "cancelled"
             \/ q.pc \in {"introspecting", "probing", "posting"} /\ q.copy = "cancelled"
             \/ q.pc = "failing" /\ (q.copy \notin Active \/ "outage" \in Hazard)
       \/ s = "failed" /\ (q.pc = "admitted" \/ (q.pc = "failing" /\ q.copy \in Active))
       \/ /\ q.pc = "probing" /\ LoopDone(w) /\ q.bad # {}
          /\ \E o \in {"failed", "partial"} : s = Written(w, o)
       \/ q.pc = "succeeding" /\ s = Written(w, "succeeded")

Turn(w, r, s) ==
    \/ Reads(w, r, s) \/ Rounds(w, r, s) \/ Begins(w, r, s) \/ Publishing(w, r, s)
    \/ GivesUp(w, r, s) \/ Ends(w, r, s)

\* Of other jobs' rows a thread writes only stale ones.
OtherRows(w) ==
    /\ UNCHANGED <<dsOf, tables, nextId>>
    /\ \A k \in Job : stale'[k] => stale[k]
    /\ \A k \in Job \ {wk[w].job} :
          \/ status'[k] = status[k]
          \/ status[k] \in Recoverable /\ stale[k] /\ status'[k] = "failed"

\* A turn of a thread that has a job.
Goes(w) ==
    /\ wk[w].pc # "idle"
    /\ OtherRows(w)
    /\ \E r \in WorkerState : /\ Turn(w, r, status'[wk[w].job])
                              /\ wk' = [wk EXCEPT ![w] = r]

LEMMA UnchangedRows ==
    ASSUME NEW w \in Worker, UNCHANGED rows
    PROVE  OtherRows(w) /\ status'[wk[w].job] = status[wk[w].job]
BY DEF OtherRows, rows

LEMMA LeaveGoes ==
    ASSUME TypeInv, NEW w \in Worker, wk[w].pc # "idle", Leave(w), OtherRows(w),
           Ends(w, Idle, status'[wk[w].job])
    PROVE  Goes(w)
BY IdleType DEF Goes, Leave, Turn

LEMMA RaiseGoes ==
    ASSUME TypeInv, NEW w \in Worker, wk[w].pc \notin {"idle", "failing"}, Raise(w),
           UNCHANGED rows, "error" \in Hazard \/ Rivalled(w)
    PROVE  Goes(w)
<1> DEFINE r == [Idle EXCEPT !.pc = "failing", !.job = wk[w].job,
                             !.copy = status[wk[w].job]]
<1>1. /\ r \in WorkerState /\ r.pc = "failing" /\ r.job = wk[w].job
      /\ r.copy = status[wk[w].job]
  BY CarriedJob DEF Idle, WorkerState, Status
<1>2. wk' = [wk EXCEPT ![w] = r]
  BY DEF Raise
<1> HIDE DEF r
<1>3. GivesUp(w, r, status'[wk[w].job])
  BY <1>1, UnchangedRows DEF GivesUp
<1>4. QED
  BY <1>1, <1>2, <1>3, UnchangedRows DEF Goes, Turn

LEMMA UpdateAndLeaveRows ==
    ASSUME TypeInv, NEW w \in Worker, wk[w].pc # "idle", NEW s, UpdateAndLeave(w, s)
    PROVE  OtherRows(w) /\ status'[wk[w].job] = Written(w, s)
BY CarriedJob DEF UpdateAndLeave, Assigned, Written, OtherRows, TypeInv, TypeOK

\* Writing the row and going on, or giving up at the unique index.
LEMMA UpdateStatusGoes ==
    ASSUME TypeInv, NEW w \in Worker, wk[w].pc \in Locked, NEW s \in Status,
           NEW q \in WorkerState, UpdateStatus(w, s, q),
           \A r \in WorkerState : r = [q EXCEPT !.copy = Written(w, s)]
                                     => Turn(w, r, Written(w, s))
    PROVE  Goes(w)
<1> wk[w].pc \notin {"idle", "failing"}
  BY DEF Locked
<1>1. CASE Raise(w) /\ UNCHANGED <<status, stale>> /\ Conflict(wk[w].job, s, wk[w].copy)
  BY <1>1, RaiseGoes DEF UpdateStatus, Conflict, Rivalled, rows
<1>2. CASE /\ status' = Assigned(wk[w].job, s, wk[w].copy)
           /\ stale' = [stale EXCEPT ![wk[w].job] = FALSE]
           /\ wk' = [wk EXCEPT ![w] = [q EXCEPT !.copy = status'[wk[w].job]]]
  <2>1. OtherRows(w) /\ status'[wk[w].job] = Written(w, s)
    BY <1>2, CarriedJob DEF UpdateStatus, Assigned, Written, OtherRows, TypeInv, TypeOK
  <2> DEFINE r == [q EXCEPT !.copy = Written(w, s)]
  <2>2. r \in WorkerState
    BY CarriedJob DEF Written, WorkerState
  <2>3. wk' = [wk EXCEPT ![w] = r] /\ Turn(w, r, Written(w, s))
    BY <1>2, <2>1, <2>2
  <2> HIDE DEF r
  <2>4. QED
    BY <2>1, <2>2, <2>3 DEF Goes
<1>3. QED
  BY <1>1, <1>2 DEF UpdateStatus

LEMMA AcquireLockGoes ==
    ASSUME TypeInv, NEW w \in Worker, AcquireLock(w)
    PROVE  Goes(w)
<1>1. wk[w].pc = "locking" /\ OtherRows(w) /\ status'[wk[w].job] = status[wk[w].job]
  BY UnchangedRows DEF AcquireLock
<1>2. CASE wk[w].copy # "pending" /\ Leave(w)
  BY <1>1, <1>2, LeaveGoes DEF Ends
<1>3. CASE wk[w].copy = "pending" /\ wk' = [wk EXCEPT ![w].pc = "admitted"]
  <2> DEFINE r == [wk[w] EXCEPT !.pc = "admitted"]
  <2>1. r \in WorkerState /\ wk' = [wk EXCEPT ![w] = r]
    BY <1>3, WorkerType DEF TypeInv, WorkerState, Locked
  <2>2. Turn(w, r, status'[wk[w].job])
    BY <1>1, <1>3 DEF Turn, Reads
  <2> HIDE DEF r
  <2>3. QED
    BY <1>1, <2>1, <2>2 DEF Goes
<1>4. QED
  BY <1>2, <1>3 DEF AcquireLock

LEMMA AdmitGoes ==
    ASSUME TypeInv, NEW w \in Worker, Admit(w)
    PROVE  Goes(w)
<1> DEFINE j       == wk[w].job
           others  == ActiveOn(dsOf[j]) \ {j}
           dead    == {k \in others : status[k] \in Recoverable /\ stale[k]}
           cleared == [k \in Job |-> IF k \in dead THEN "failed" ELSE status[k]]
<1>1. wk[w].pc = "admitted" /\ j \in Job /\ j \notin dead /\ UNCHANGED <<dsOf, tables, nextId>>
  BY CarriedJob DEF Admit
<1>2. /\ \A k \in dead : status[k] \in Recoverable /\ stale[k]
      /\ \A k \in Job : cleared[k] = status[k] \/ (k \in dead /\ cleared[k] = "failed")
      /\ cleared[j] = status[j] /\ cleared \in [Job -> Status \union {"failed"}]
  BY <1>1 DEF TypeInv, TypeOK
<1>3. ASSUME status' = cleared, stale' = [k \in Job |-> stale[k] /\ k \notin dead],
             wk' = [wk EXCEPT ![w].pc = "starting"]
      PROVE  Goes(w)
  <2> DEFINE r == [wk[w] EXCEPT !.pc = "starting"]
  <2>1. r \in WorkerState /\ wk' = [wk EXCEPT ![w] = r]
    BY <1>3, WorkerType DEF TypeInv, WorkerState, Locked
  <2>2. Turn(w, r, status'[wk[w].job])
    BY <1>1, <1>2, <1>3 DEF Turn, Reads
  <2> HIDE DEF r, cleared, dead
  <2>3. OtherRows(w)
    BY <1>1, <1>2, <1>3 DEF OtherRows
  <2>4. QED
    BY <1>1, <2>1, <2>2, <2>3 DEF Goes
<1>4. ASSUME status' = [cleared EXCEPT ![j] = "failed"],
             stale' = [k \in Job |-> stale[k] /\ k \notin dead \union {j}], Leave(w)
      PROVE  Goes(w)
  <2> HIDE DEF cleared, dead
  <2>1. OtherRows(w) /\ status'[j] = "failed"
    BY <1>1, <1>2, <1>4 DEF OtherRows
  <2>2. QED
    BY <1>1, <1>4, <2>1, LeaveGoes DEF Ends
<1>5. QED
  BY <1>3, <1>4 DEF Admit

LEMMA CheckCancelledGoes ==
    ASSUME TypeInv, NEW w \in Worker, CheckCancelled(w)
    PROVE  Goes(w)
<1>1. /\ wk[w].pc \in {"starting", "introspecting", "finalizing"} /\ AtCheckpoint(w)
      /\ OtherRows(w) /\ status'[wk[w].job] = status[wk[w].job]
  BY UnchangedRows DEF CheckCancelled, AtCheckpoint
<1>2. CASE status[wk[w].job] = "cancelled" /\ Leave(w)
  BY <1>1, <1>2, LeaveGoes DEF Ends
<1>3. CASE /\ status[wk[w].job] # "cancelled"
           /\ wk' = [wk EXCEPT ![w].copy = status[wk[w].job],
                               ![w].pc = AfterCheckpoint(wk[w].pc)]
  <2> DEFINE r == [wk[w] EXCEPT !.copy = status[wk[w].job],
                                !.pc = AfterCheckpoint(wk[w].pc)]
  <2>1. AfterCheckpoint(wk[w].pc) \in {"toRunning", "toStage", "staging"}
    BY <1>1 DEF AfterCheckpoint
  <2>2. r \in WorkerState
    BY <1>1, <2>1, WorkerType, CarriedJob DEF TypeInv, WorkerState, Locked
  <2>3. wk' = [wk EXCEPT ![w] = r]
    BY <1>3 DEF TypeInv, TypeOK
  <2>4. Turn(w, r, status'[wk[w].job])
    BY <1>1, <1>3 DEF Turn, Reads
  <2> HIDE DEF r
  <2>5. QED
    BY <1>1, <2>2, <2>3, <2>4 DEF Goes
<1>4. QED
  BY <1>2, <1>3 DEF CheckCancelled

LEMMA EnsureNotCancelledGoes ==
    ASSUME TypeInv, NEW w \in Worker, EnsureNotCancelled(w)
    PROVE  Goes(w)
BY LeaveGoes, UnchangedRows DEF EnsureNotCancelled, Ends

LEMMA BeginGoes ==
    ASSUME TypeInv, NEW w \in Worker,
           BeginRunning(w) \/ BeginStage(w) \/ BeginFinalize(w)
    PROVE  Goes(w)
<1> "running" \in Status /\ "finalizing" \in Status
  BY DEF Status, Active, Recoverable
<1> USE WorkerType DEF TypeInv
<1>1. CASE BeginRunning(w)
  <2> DEFINE q == [wk[w] EXCEPT !.pc = "introspecting", !.todo = tables[wk[w].job]]
  <2>1. wk[w].pc = "toRunning" /\ UpdateStatus(w, "running", q)
    BY <1>1 DEF BeginRunning
  <2>2. tables[wk[w].job] \in SUBSET Table
    BY <2>1, CarriedJob DEF TypeOK
  <2>3. q \in WorkerState
    BY <2>2 DEF WorkerState, Locked
  <2>4. ASSUME NEW r \in WorkerState, r = [q EXCEPT !.copy = Written(w, "running")]
        PROVE  Turn(w, r, Written(w, "running"))
    BY <2>1, <2>4 DEF Turn, Begins, WorkerState
  <2> HIDE DEF q
  <2>5. QED
    BY <2>1, <2>3, <2>4, UpdateStatusGoes DEF Locked
<1>2. CASE BeginStage(w)
  <2> DEFINE q == [wk[w] EXCEPT !.pc = "probing", !.todo = wk[w].done, !.done = {}]
  <2>1. wk[w].pc = "toStage" /\ UpdateStatus(w, "running", q)
    BY <1>2 DEF BeginStage
  <2>2. q \in WorkerState
    BY DEF WorkerState, Locked
  <2>3. ASSUME NEW r \in WorkerState, r = [q EXCEPT !.copy = Written(w, "running")]
        PROVE  Turn(w, r, Written(w, "running"))
    BY <2>1, <2>3 DEF Turn, Begins, WorkerState
  <2> HIDE DEF q
  <2>4. QED
    BY <2>1, <2>2, <2>3, UpdateStatusGoes DEF Locked
<1>3. CASE BeginFinalize(w)
  <2> DEFINE q == [wk[w] EXCEPT !.pc = "finalizing", !.todo = wk[w].done, !.done = {}]
  <2>1. /\ wk[w].pc = "probing" /\ LoopDone(w) /\ wk[w].bad = {} /\ wk[w].copy # "cancelled"
        /\ UpdateStatus(w, "finalizing", q)
    BY <1>3 DEF BeginFinalize
  <2>2. q \in WorkerState
    BY DEF WorkerState, Locked
  <2>3. ASSUME NEW r \in WorkerState, r = [q EXCEPT !.copy = Written(w, "finalizing")]
        PROVE  Turn(w, r, Written(w, "finalizing"))
    BY <2>1, <2>3 DEF Turn, Begins, WorkerState
  <2> HIDE DEF q
  <2>4. QED
    BY <2>1, <2>2, <2>3, UpdateStatusGoes DEF Locked
<1>4. QED
  BY <1>1, <1>2, <1>3

LEMMA CountFailureGoes ==
    ASSUME TypeInv, NEW w \in Worker, wk[w].pc # "idle", NEW q \in WorkerState,
           CountFailure(w, q),
           \A r \in WorkerState : r = [q EXCEPT !.copy = status[wk[w].job]]
                                     => Turn(w, r, status[wk[w].job])
    PROVE  Goes(w)
<1> DEFINE r == [q EXCEPT !.copy = status[wk[w].job]]
<1>1. OtherRows(w) /\ status'[wk[w].job] = status[wk[w].job]
  BY CarriedJob DEF CountFailure, OtherRows, TypeInv, TypeOK
<1>2. r \in WorkerState
  BY CarriedJob DEF WorkerState
<1>3. wk' = [wk EXCEPT ![w] = r] /\ Turn(w, r, status[wk[w].job])
  BY <1>2 DEF CountFailure
<1> HIDE DEF r
<1>4. QED
  BY <1>1, <1>2, <1>3 DEF Goes

\* A thread's state in which a round has moved tables from one set to another.
LEMMA RoundIsATurn ==
    ASSUME TypeInv, NEW w \in Worker, wk[w].pc \in {"introspecting", "probing"},
           wk[w].copy # "cancelled", ~LoopDone(w),
           NEW q \in WorkerState, q.pc = wk[w].pc, q.job = wk[w].job,
           q.copy = wk[w].copy, Work(q) = Work(wk[w])
    PROVE  /\ UpdateStatus(w, "running", q) => Goes(w)
           /\ CountFailure(w, q) => Goes(w)
           /\ /\ q.singles # {} /\ UNCHANGED rows
              /\ wk' = [wk EXCEPT ![w] = q]
              => Goes(w)
<1>1. "running" \in Status /\ wk[w].pc \in Locked /\ wk[w].pc # "idle"
  BY DEF Status, Active, Recoverable, Locked
<1>2. ASSUME NEW s, NEW r \in WorkerState, r = [q EXCEPT !.copy = s]
      PROVE  /\ r.copy = s /\ r.pc = wk[w].pc /\ r.job = wk[w].job
             /\ Work(r) = Work(wk[w])
  BY <1>2 DEF WorkerState, Work
<1>3. ASSUME NEW r \in WorkerState, r = [q EXCEPT !.copy = Written(w, "running")]
      PROVE  Turn(w, r, Written(w, "running"))
  BY <1>2, <1>3 DEF Turn, Rounds
<1>4. ASSUME NEW r \in WorkerState, r = [q EXCEPT !.copy = status[wk[w].job]]
      PROVE  Turn(w, r, status[wk[w].job])
  BY <1>2, <1>4 DEF Turn, Rounds
<1>5. ASSUME q.singles # {}, UNCHANGED rows, wk' = [wk EXCEPT ![w] = q]
      PROVE  Goes(w)
  BY <1>1, <1>5, UnchangedRows DEF Goes, Turn, Rounds
<1>6. QED
  BY <1>1, <1>3, <1>4, <1>5, UpdateStatusGoes, CountFailureGoes

LEMMA RunBatchGoes ==
    ASSUME TypeInv, NEW w \in Worker, wk[w].pc \in {"introspecting", "probing"},
           RunBatch(w)
    PROVE  Goes(w)
<1> DEFINE r == wk[w]
<1> USE WorkerType DEF TypeInv
<1>1. wk[w].copy # "cancelled"
  BY DEF RunBatch
<1>2. ASSUME NEW b \in Batches(r.todo),
             \/ UpdateStatus(w, "running", [r EXCEPT !.todo = @ \ b,
                                                     !.done = @ \union b])
             \/ CountFailure(w, [r EXCEPT !.todo = @ \ b, !.bad = @ \union b])
             \/ /\ r.singles = {}
                /\ wk' = [wk EXCEPT ![w] = [r EXCEPT !.todo = @ \ b, !.singles = b]]
                /\ UNCHANGED <<rows, lock>>
      PROVE  Goes(w)
  <2> DEFINE q1 == [r EXCEPT !.todo = @ \ b, !.done = @ \union b]
             q2 == [r EXCEPT !.todo = @ \ b, !.bad = @ \union b]
             q3 == [r EXCEPT !.todo = @ \ b, !.singles = b]
  <2>1. b \subseteq r.todo /\ b # {} /\ ~LoopDone(w)
    BY DEF Batches, LoopDone
  <2>2. q1 \in WorkerState /\ q2 \in WorkerState /\ q3 \in WorkerState
    BY <2>1 DEF WorkerState
  <2>3. /\ q1.pc = r.pc /\ q1.job = r.job /\ q1.copy = r.copy /\ Work(q1) = Work(r)
        /\ q2.pc = r.pc /\ q2.job = r.job /\ q2.copy = r.copy /\ Work(q2) = Work(r)
    BY <2>1 DEF WorkerState, Work
  <2>4. /\ q3.pc = r.pc /\ q3.job = r.job /\ q3.copy = r.copy /\ q3.singles # {}
        /\ r.singles = {} => Work(q3) = Work(r)
    BY <2>1 DEF WorkerState, Work
  <2>5. \/ UpdateStatus(w, "running", q1)
        \/ CountFailure(w, q2)
        \/ r.singles = {} /\ wk' = [wk EXCEPT ![w] = q3] /\ UNCHANGED rows
    BY <1>2
  <2> HIDE DEF q1, q2, q3
  <2>6. QED
    BY <1>1, <2>1, <2>2, <2>3, <2>4, <2>5, RoundIsATurn
<1>3. ASSUME NEW t \in r.singles,
             \/ UpdateStatus(w, "running", [r EXCEPT !.singles = @ \ {t},
                                                     !.done = @ \union {t}])
             \/ CountFailure(w, [r EXCEPT !.singles = @ \ {t},
                                          !.bad = @ \union {t}])
      PROVE  Goes(w)
  <2> DEFINE q1 == [r EXCEPT !.singles = @ \ {t}, !.done = @ \union {t}]
             q2 == [r EXCEPT !.singles = @ \ {t}, !.bad = @ \union {t}]
  <2>1. ~LoopDone(w)
    BY DEF LoopDone
  <2>2. q1 \in WorkerState /\ q2 \in WorkerState
    BY DEF WorkerState
  <2>3. /\ q1.pc = r.pc /\ q1.job = r.job /\ q1.copy = r.copy /\ Work(q1) = Work(r)
        /\ q2.pc = r.pc /\ q2.job = r.job /\ q2.copy = r.copy /\ Work(q2) = Work(r)
    BY DEF WorkerState, Work
  <2>4. UpdateStatus(w, "running", q1) \/ CountFailure(w, q2)
    BY <1>3
  <2> HIDE DEF q1, q2
  <2>5. QED
    BY <1>1, <2>1, <2>2, <2>3, <2>4, RoundIsATurn
<1>4. QED
  BY <1>2, <1>3 DEF RunBatch

LEMMA ConcludeGoes ==
    ASSUME TypeInv, NEW w \in Worker,
           ConcludeWithFailures(w) \/ Succeed(w) \/ MarkFailed(w) \/ HandlerFails(w)
    PROVE  Goes(w)
<1>1. CASE ConcludeWithFailures(w)
  <2>1. PICK o \in {"failed", "partial"} : UpdateAndLeave(w, o)
    BY <1>1 DEF ConcludeWithFailures
  <2>2. OtherRows(w) /\ status'[wk[w].job] = Written(w, o)
    BY <1>1, <2>1, UpdateAndLeaveRows DEF ConcludeWithFailures
  <2>3. Ends(w, Idle, status'[wk[w].job])
    BY <1>1, <2>2 DEF ConcludeWithFailures, Ends
  <2>4. QED
    BY <1>1, <2>1, <2>2, <2>3, LeaveGoes DEF ConcludeWithFailures, UpdateAndLeave
<1>2. CASE Succeed(w)
  <2>1. OtherRows(w) /\ status'[wk[w].job] = Written(w, "succeeded")
    BY <1>2, UpdateAndLeaveRows DEF Succeed
  <2>2. QED
    BY <1>2, <2>1, LeaveGoes DEF Succeed, UpdateAndLeave, Ends
<1>3. CASE wk[w].pc = "failing" /\ wk[w].copy \in Active /\ UpdateAndLeave(w, "failed")
  <2>1. OtherRows(w) /\ status'[wk[w].job] = "failed"
    BY <1>3, UpdateAndLeaveRows DEF Written, Active, Recoverable
  <2>2. QED
    BY <1>3, <2>1, LeaveGoes DEF UpdateAndLeave, Ends
<1>4. CASE /\ wk[w].pc = "failing" /\ Leave(w) /\ UNCHANGED rows
           /\ wk[w].copy \notin Active \/ "outage" \in Hazard
  BY <1>4, LeaveGoes, UnchangedRows DEF Ends
<1>5. QED
  BY <1>1, <1>2, <1>3, <1>4 DEF MarkFailed, HandlerFails

LEMMA StageTableBatchGoes ==
    ASSUME TypeInv, NEW w \in Worker, StageTableBatch(w)
    PROVE  Goes(w)
<1>1. wk[w].pc = "staging" /\ OtherRows(w) /\ status'[wk[w].job] = status[wk[w].job]
  BY UnchangedRows DEF StageTableBatch
<1>2. PICK b \in Batches(wk[w].todo) :
         wk' = [wk EXCEPT ![w].pc = "finalizing", ![w].todo = @ \ b,
                          ![w].done = @ \union b]
  BY DEF StageTableBatch
<1> DEFINE r == [wk[w] EXCEPT !.pc = "finalizing", !.todo = @ \ b,
                              !.done = @ \union b]
<1>3. b \subseteq wk[w].todo
  BY DEF Batches
<1>4. r \in WorkerState
  BY <1>3, WorkerType DEF TypeInv, WorkerState, Locked
<1>5. wk' = [wk EXCEPT ![w] = r]
  BY <1>2 DEF TypeInv, TypeOK
<1>6. /\ r.pc = "finalizing" /\ r.job = wk[w].job /\ r.copy = wk[w].copy
      /\ r.todo \union r.done = wk[w].todo \union wk[w].done
  BY <1>3, WorkerType DEF TypeInv, WorkerState
<1> HIDE DEF r
<1>7. QED
  BY <1>1, <1>4, <1>5, <1>6 DEF Goes, Turn, Reads

LEMMA PublishGoes ==
    ASSUME TypeInv, NEW w \in Worker, Publish(w)
    PROVE  Goes(w)
<1> DEFINE r == [wk[w] EXCEPT !.pc = "posting"]
<1>1. wk[w].pc = "finalizing" /\ OtherRows(w) /\ status'[wk[w].job] = status[wk[w].job]
  BY UnchangedRows DEF Publish
<1>2. r \in WorkerState /\ wk' = [wk EXCEPT ![w] = r]
  BY WorkerType DEF Publish, TypeInv, WorkerState, Locked
<1>3. Turn(w, r, status'[wk[w].job])
  BY <1>1 DEF Turn, Publishing
<1> HIDE DEF r
<1>4. QED
  BY <1>1, <1>2, <1>3 DEF Goes

LEMMA PostProcessEmbeddingsGoes ==
    ASSUME TypeInv, NEW w \in Worker, PostProcessEmbeddings(w)
    PROVE  Goes(w)
<1> DEFINE r == [wk[w] EXCEPT !.pc = "succeeding", !.copy = status[wk[w].job]]
<1>1. /\ wk[w].pc = "posting" /\ wk[w].copy # "cancelled"
      /\ OtherRows(w) /\ status'[wk[w].job] = status[wk[w].job]
  BY UnchangedRows DEF PostProcessEmbeddings
<1>2. r \in WorkerState
  BY <1>1, WorkerType, CarriedJob DEF TypeInv, WorkerState, Locked
<1>3. wk' = [wk EXCEPT ![w] = r]
  BY DEF PostProcessEmbeddings, TypeInv, TypeOK
<1>4. Turn(w, r, status'[wk[w].job])
  BY <1>1 DEF Turn, Reads
<1> HIDE DEF r
<1>5. QED
  BY <1>1, <1>2, <1>3, <1>4 DEF Goes

LEMMA StepFailsGoes ==
    ASSUME TypeInv, NEW w \in Worker, StepFails(w)
    PROVE  Goes(w)
<1>1. CASE wk[w].pc \in Locked \union {"locking"} /\ Raise(w)
  BY <1>1, RaiseGoes DEF StepFails, Locked
<1>2. CASE /\ wk[w].pc \in {"starting", "finalizing"}
           /\ wk' = [wk EXCEPT ![w] = [Idle EXCEPT !.pc = "failing",
                                          !.job = wk[w].job, !.copy = wk[w].copy]]
  <2> DEFINE r == [Idle EXCEPT !.pc = "failing", !.job = wk[w].job,
                               !.copy = wk[w].copy]
  <2>1. /\ r \in WorkerState /\ r.pc = "failing" /\ r.job = wk[w].job
        /\ r.copy = wk[w].copy
    BY WorkerType DEF TypeInv, Idle, WorkerState
  <2> HIDE DEF r
  <2>2. wk' = [wk EXCEPT ![w] = r]
    BY <1>2 DEF r
  <2>3. OtherRows(w) /\ GivesUp(w, r, status'[wk[w].job])
    BY <1>2, <2>1, UnchangedRows DEF StepFails, GivesUp
  <2>4. QED
    BY <1>2, <2>1, <2>2, <2>3 DEF Goes, Turn
<1>3. QED
  BY <1>1, <1>2 DEF StepFails

\* Whatever a thread does, it picks up a job, loses one with its permit, or
\* takes a turn with the one it has.
LEMMA ThreadTurns ==
    ASSUME TypeInv, NEW w \in Worker,
           WorkerStep(w) \/ WorkerPublishes(w) \/ WorkerBreaks(w)
    PROVE  \/ PickUp(w) /\ UNCHANGED <<catalog, server>>
           \/ ConnectFails(w)
           \/ /\ Goes(w) /\ UNCHANGED <<queue, server>>
              /\ Publish(w) \/ UNCHANGED catalog
<1>1. CASE PickUp(w) /\ UNCHANGED <<catalog, server>>
  BY <1>1
<1>2. CASE WorkerStep(w) /\ ~PickUp(w)
  <2>1. Goes(w)
    BY <1>2, AcquireLockGoes, AdmitGoes, CheckCancelledGoes, EnsureNotCancelledGoes,
       BeginGoes, RunBatchGoes, ConcludeGoes, StageTableBatchGoes,
       PostProcessEmbeddingsGoes
    DEF WorkerStep, IntrospectBatch, ProbeStageBatch
  <2>2. UNCHANGED <<queue, catalog, server>>
    BY <1>2 DEF WorkerStep, AcquireLock, Admit, CheckCancelled, EnsureNotCancelled,
       BeginRunning, IntrospectBatch, BeginStage, ProbeStageBatch, RunBatch,
       ConcludeWithFailures, BeginFinalize, StageTableBatch, PostProcessEmbeddings,
       Succeed, MarkFailed
  <2>3. QED
    BY <2>1, <2>2
<1>3. CASE WorkerPublishes(w)
  BY <1>3, PublishGoes DEF WorkerPublishes, Publish
<1>4. CASE WorkerBreaks(w) /\ ~ConnectFails(w)
  BY <1>4, StepFailsGoes, ConcludeGoes DEF WorkerBreaks, StepFails, HandlerFails
<1>5. QED
  BY <1>1, <1>2, <1>3, <1>4 DEF WorkerStep

-----------------------------------------------------------------------------
(* The steps of the system, as what they do to the rows and to who has which *)
(* job.                                                                      *)

\* Steps that change neither the rows' contents nor who has which job.
Quiet ==
    /\ UNCHANGED <<status, dsOf, tables, nextId, catalog, threads, cancelledInTime>>
    /\ \/ UNCHANGED api
       \/ api.pc \notin {"fill", "dispatch"} /\ api'.pc \notin {"fill", "dispatch"}
    /\ rec' \in {rec, NoJob}

LEMMA NextForms ==
    ASSUME TypeInv, [Next]_vars
    PROVE  \/ Quiet /\ (UNCHANGED stale \/ \E j \in Job : BecomeStale(j))
           \/ CreateSyncJob \/ StoreRequestedTables \/ DispatchSyncJob \/ CancelSyncJob
           \/ RecoverStaleJob \/ \E j \in Job : FindStaleJob(j)
           \/ \E w \in Worker :
                 \/ PickUp(w) /\ UNCHANGED <<catalog, server>>
                 \/ ConnectFails(w)
                 \/ /\ Goes(w) /\ UNCHANGED <<queue, server>>
                    /\ Publish(w) \/ UNCHANGED catalog
           \/ Crash
<1>1. CASE UNCHANGED vars
  BY <1>1 DEF vars, rows, server, Quiet
<1>2. CASE Request
  BY <1>2 DEF Request, SubmitSyncJob, RetrySyncJob, Accept, CancelRequested, ApiIdle,
     rows, Quiet
<1>3. CASE HandlerStep
  BY <1>3 DEF HandlerStep, ReuseActiveJob, ApiIdle, rows, Quiet
<1>4. CASE Recovery
  BY <1>4 DEF Recovery, SweepFails, BecomeStale, rows, server, Quiet
<1>5. CASE \E w \in Worker : WorkerStep(w) \/ WorkerPublishes(w) \/ WorkerBreaks(w)
  BY <1>5, ThreadTurns
<1>6. QED
  BY <1>1, <1>2, <1>3, <1>4, <1>5 DEF Next

\* What a thread carries after a turn it carried before.
LEMMA GoesKeepsJob ==
    ASSUME TypeInv, NEW w \in Worker, Goes(w)
    PROVE  /\ wk'[w].job \in {wk[w].job, NoJob}
           /\ wk'[w].job = NoJob => wk'[w] = Idle
           /\ \A v \in Worker \ {w} : wk'[v] = wk[v]
<1>1. PICK r \in WorkerState : /\ Turn(w, r, status'[wk[w].job])
                               /\ wk' = [wk EXCEPT ![w] = r]
  BY DEF Goes
<1>2. wk'[w] = r /\ \A v \in Worker \ {w} : wk'[v] = wk[v]
  BY <1>1 DEF TypeInv, TypeOK
<1>3. r.job = wk[w].job \/ r = Idle
  BY <1>1, WorkerType DEF TypeInv, Turn, Reads, Rounds, Begins, Publishing, GivesUp, Ends,
     WorkerState
<1>4. wk[w].job \in Job /\ Idle.job = NoJob
  BY CarriedJob DEF Goes, Idle
<1>5. QED
  BY <1>2, <1>3, <1>4

\* The job at the head of the queue, and those behind it.
LEMMA QueueParts ==
    ASSUME TypeInv, queue # <<>>
    PROVE  /\ Head(queue) \in Job /\ Head(queue) = queue[1] /\ 1 \in 1..Len(queue)
           /\ Len(queue) \in Nat /\ Len(Tail(queue)) = Len(queue) - 1
           /\ \A i \in 1..Len(Tail(queue)) :
                 /\ i + 1 \in 1..Len(queue)
                 /\ Tail(queue)[i] = queue[i + 1]
<1>1. queue \in Seq(Job)
  BY DEF TypeInv, TypeOK
<1>2. /\ Len(queue) \in Nat /\ Len(Tail(queue)) = Len(queue) - 1
      /\ \A i \in 1..Len(Tail(queue)) : Tail(queue)[i] = queue[i + 1]
      /\ Head(queue) = queue[1] /\ 1 \in 1..Len(queue)
  BY <1>1, HeadTailProperties
<1>3. Head(queue) \in Job
  BY <1>1, <1>2, ElementOfSeq
<1>4. QED
  BY <1>2, <1>3

LEMMA PickedUp ==
    ASSUME TypeInv, NEW w \in Worker, PickUp(w)
    PROVE  /\ Queued(Head(queue)) /\ Head(queue) \in Job
           /\ wk'[w] = [Idle EXCEPT !.pc = "locking", !.job = Head(queue),
                                    !.copy = status[Head(queue)]]
           /\ wk'[w].job = Head(queue) /\ wk'[w].pc = "locking"
           /\ wk'[w].copy = status[Head(queue)]
           /\ \A v \in Worker \ {w} : wk'[v] = wk[v]
           /\ wk[w] = Idle
           /\ \A j \in Job : Queued(j)' => Queued(j)
           /\ UNCHANGED rows
<1>1. queue # <<>> /\ queue' = Tail(queue)
  BY DEF PickUp
<1>2. Queued(Head(queue)) /\ Head(queue) \in Job /\ \A j \in Job : Queued(j)' => Queued(j)
  BY <1>1, QueueParts DEF Queued
<1>3. QED
  BY <1>2 DEF PickUp, TypeInv, TypeOK, KnownJobs, Idle

-----------------------------------------------------------------------------
(* A job is in one place *)

LEMMA RunOnceStep == TypeInv /\ RunOnce /\ [Next]_vars => RunOnce'
<1> SUFFICES ASSUME TypeInv, RunOnce, [Next]_vars PROVE RunOnce'
  OBVIOUS
<1>1. CASE Quiet
  BY <1>1 DEF Quiet, threads, RunOnce, Dispatching, Queued, Carried
<1>2. CASE CreateSyncJob
  <2>1. nextId \in Job /\ UNCHANGED threads /\ api'.job = nextId
    BY <1>2 DEF CreateSyncJob, TypeInv, TypeOK, KnownRequests
  <2>2. ~Queued(nextId) /\ ~Carried(nextId)
    BY <2>1, SMT DEF TypeInv, KnownJobs, Queued, Carried, Idle
  <2>3. QED
    BY <2>1, <2>2 DEF threads, RunOnce, Dispatching, Queued, Carried
<1>3. CASE StoreRequestedTables
  BY <1>3 DEF StoreRequestedTables, threads, TypeInv, TypeOK, RunOnce, Dispatching,
     Queued, Carried
<1>4. CASE DispatchSyncJob
  <2>1. api.pc = "dispatch" /\ api.job \in Job /\ Dispatching(api.job)
    BY <1>4 DEF DispatchSyncJob, TypeInv, KnownRequests, Dispatching
  <2>2. /\ Len(queue') = Len(queue) + 1 /\ Len(queue) \in Nat
        /\ \A i \in 1..Len(queue) : queue'[i] = queue[i]
        /\ queue'[Len(queue) + 1] = api.job
    BY <1>4, <2>1, AppendProperties DEF DispatchSyncJob, TypeInv, TypeOK
  <2>3. \A i \in 1..Len(queue') : i \in 1..Len(queue) \/ i = Len(queue) + 1
    BY <2>2
  <2>4. \A j \in Job : ~Dispatching(j)' /\ Carried(j)' = Carried(j)
    BY <1>4 DEF DispatchSyncJob, ApiIdle, Dispatching, Carried
  <2>5. \A j \in Job : Queued(j)' <=> Queued(j) \/ j = api.job
    BY <2>2, <2>3 DEF Queued
  <2>6. \A i, k \in 1..Len(queue') : queue'[i] = queue'[k] => i = k
    <3>1. \A i \in 1..Len(queue) : queue[i] # api.job /\ queue[i] \in Job
      BY <2>1, ElementOfSeq DEF RunOnce, Queued, TypeInv, TypeOK
    <3>2. QED
      BY <2>2, <2>3, <3>1 DEF RunOnce
  <2>7. UNCHANGED wk
    BY <1>4 DEF DispatchSyncJob
  <2>8. QED
    BY <2>1, <2>4, <2>5, <2>6, <2>7 DEF RunOnce
<1>5. CASE CancelSyncJob \/ RecoverStaleJob \/ \E j \in Job : FindStaleJob(j)
  BY <1>5 DEF CancelSyncJob, ApiIdle, RecoverStaleJob, FindStaleJob, threads, RunOnce,
     Dispatching, Queued, Carried
<1>6. ASSUME NEW w \in Worker, PickUp(w), UNCHANGED server
      PROVE  RunOnce'
  <2>1. /\ queue # <<>> /\ queue' = Tail(queue) /\ UNCHANGED api
    BY <1>6 DEF PickUp, server
  <2> PICK h \in Job : h = Head(queue)
    BY <2>1, QueueParts
  <2>2. /\ Queued(h) /\ wk'[w].job = h /\ wk[w].job = NoJob
        /\ \A v \in Worker \ {w} : wk'[v] = wk[v]
        /\ \A j \in Job : Queued(j)' => Queued(j)
    BY <1>6, PickedUp DEF Idle
  <2>3. ~Queued(h)'
    <3>1. SUFFICES ASSUME NEW i \in 1..Len(queue'), queue'[i] = h PROVE FALSE
      BY DEF Queued
    <3>2. i + 1 \in 1..Len(queue) /\ queue[i + 1] = h /\ queue[1] = h /\ 1 \in 1..Len(queue)
      BY <2>1, <3>1, QueueParts
    <3>3. i + 1 = 1
      BY <3>2 DEF RunOnce
    <3>4. QED
      BY <3>3
  <2>4. ASSUME NEW j \in Job, NEW i \in 1..Len(queue'), NEW k \in 1..Len(queue'),
               queue'[i] = j, queue'[k] = j
        PROVE  i = k
    <3>1. /\ i + 1 \in 1..Len(queue) /\ queue[i + 1] = j
          /\ k + 1 \in 1..Len(queue) /\ queue[k + 1] = j
      BY <2>1, <2>4, QueueParts
    <3>2. i + 1 = k + 1
      BY <3>1 DEF RunOnce
    <3>3. QED
      BY <3>2
  <2>5. \A j \in Job : (Dispatching(j)' <=> Dispatching(j)) /\ (Carried(j)' => Carried(j) \/ j = h)
    BY <2>1, <2>2 DEF Dispatching, Carried
  <2>6. ASSUME NEW j \in Job, NEW u \in Worker, NEW v \in Worker,
               wk'[u].job = j, wk'[v].job = j
        PROVE  u = v
    BY <2>2, <2>6 DEF RunOnce, Carried
  <2>7. \A j \in Job : /\ ~(Dispatching(j)' /\ (Queued(j)' \/ Carried(j)'))
                       /\ ~(Queued(j)' /\ Carried(j)')
    BY <2>2, <2>3, <2>5 DEF RunOnce
  <2>8. QED
    BY <2>4, <2>6, <2>7 DEF RunOnce
<1>7. ASSUME NEW w \in Worker, ConnectFails(w)
      PROVE  RunOnce'
  <2>1. queue # <<>> /\ queue' = Tail(queue) /\ UNCHANGED <<api, wk>>
    BY <1>7 DEF ConnectFails
  <2>2. \A j \in Job : /\ Queued(j)' => Queued(j)
                       /\ (Dispatching(j)' <=> Dispatching(j)) /\ (Carried(j)' <=> Carried(j))
    BY <2>1, QueueParts DEF Queued, Dispatching, Carried
  <2>3. ASSUME NEW j \in Job, NEW i \in 1..Len(queue'), NEW k \in 1..Len(queue'),
               queue'[i] = j, queue'[k] = j
        PROVE  i = k
    <3>1. /\ i + 1 \in 1..Len(queue) /\ queue[i + 1] = j
          /\ k + 1 \in 1..Len(queue) /\ queue[k + 1] = j
      BY <2>1, <2>3, QueueParts
    <3>2. i + 1 = k + 1
      BY <3>1 DEF RunOnce
    <3>3. QED
      BY <3>2
  <2>4. QED
    BY <2>1, <2>2, <2>3 DEF RunOnce
<1>8. ASSUME NEW w \in Worker, Goes(w), UNCHANGED <<queue, server>>
      PROVE  RunOnce'
  <2>1. /\ wk'[w].job \in {wk[w].job, NoJob}
        /\ \A v \in Worker \ {w} : wk'[v] = wk[v]
    BY <1>8, GoesKeepsJob
  <2>2. \A j \in Job, v \in Worker : wk'[v].job = j => wk[v].job = j
    BY <2>1
  <2>3. QED
    BY <1>8, <2>2 DEF server, RunOnce, Dispatching, Queued, Carried
<1>9. CASE Crash
  BY <1>9 DEF Crash, ApiIdle, Idle, RunOnce, Dispatching, Queued, Carried
<1>10. QED
  BY <1>1, <1>2, <1>3, <1>4, <1>5, <1>6, <1>7, <1>8, <1>9, NextForms

\* A job is never run twice: it is with the handler that will dispatch it, once
\* in the executor's queue, or with one thread, also when a crash loses it, a
\* retry makes a new row of its request or its permit leaks.
THEOREM OnePlace == Spec => []RunOnce
<1>1. Init => RunOnce
  BY DEF Init, ApiIdle, Idle, RunOnce, Dispatching, Queued, Carried
<1>2. QED
  BY <1>1, Types, RunOnceStep, PTL DEF Spec

-----------------------------------------------------------------------------
(* What a thread has to do, has done and has failed at make up the request *)

\* Progress, of a thread in state r whose job was requested for the tables T.
Part(r, T) ==
    /\ r.pc \in {"idle", "locking", "admitted", "starting", "toRunning"} =>
          r.todo = {} /\ r.singles = {} /\ r.done = {} /\ r.bad = {}
    /\ r.pc \in {"introspecting", "toStage", "probing"} => T = Work(r)
    /\ r.pc = "toStage" => r.todo = {} /\ r.singles = {}
    /\ r.pc \in {"finalizing", "staging"} => T = r.todo \union r.done

LEMMA ProgressParts == Progress <=> \A w \in Worker : Part(wk[w], tables[wk[w].job])
BY DEF Progress, Part, Work

LEMMA TurnKeepsPart ==
    ASSUME TypeInv, NEW w \in Worker, NEW r \in WorkerState, NEW s, Turn(w, r, s),
           Part(wk[w], tables[wk[w].job])
    PROVE  Part(r, tables[r.job])
<1> USE WorkerType DEF TypeInv
<1>1. CASE Reads(w, r, s)
  BY <1>1 DEF Reads, Part, Work, AtCheckpoint, AfterCheckpoint, LoopDone, WorkerState
<1>2. CASE Rounds(w, r, s)
  BY <1>2 DEF Rounds, Part
<1>3. CASE Begins(w, r, s)
  <2>1. CASE wk[w].pc = "toRunning"
    <3>1. /\ r.pc = "introspecting" /\ r.job = wk[w].job /\ r.todo = tables[r.job]
          /\ r.singles = {} /\ r.done = {} /\ r.bad = {}
      <4>1. wk[w].singles = {} /\ wk[w].done = {} /\ wk[w].bad = {}
        BY <2>1 DEF Part
      <4>2. r = [wk[w] EXCEPT !.pc = "introspecting", !.todo = tables[wk[w].job], !.copy = s]
        BY <1>3, <2>1 DEF Begins
      <4>3. QED
        BY <4>1, <4>2 DEF WorkerState
    <3>2. Work(r) = tables[r.job]
      BY <3>1 DEF Work
    <3>3. QED
      BY <3>1, <3>2 DEF Part
  <2>2. CASE wk[w].pc = "toStage"
    BY <1>3, <2>2 DEF Begins, Part, Work, WorkerState
  <2>3. CASE wk[w].pc = "probing"
    BY <1>3, <2>3 DEF Begins, Part, Work, LoopDone, WorkerState
  <2>4. QED
    BY <1>3, <2>1, <2>2, <2>3 DEF Begins
<1>4. CASE Publishing(w, r, s) \/ GivesUp(w, r, s) \/ Ends(w, r, s)
  BY <1>4 DEF Publishing, GivesUp, Ends, Part, Idle, WorkerState
<1>5. QED
  BY <1>1, <1>2, <1>3, <1>4 DEF Turn

LEMMA ProgressStep == TypeInv /\ Progress /\ [Next]_vars => Progress'
<1> SUFFICES ASSUME TypeInv, Progress, [Next]_vars, NEW v \in Worker
             PROVE  Part(wk[v], tables[wk[v].job])'
  BY DEF Progress, Part, Work
<1>1. Part(wk[v], tables[wk[v].job])
  BY ProgressParts
<1>2. Part(Idle, tables[Idle.job])
  BY DEF Part, Idle
<1>3. CASE UNCHANGED <<wk, tables>>
  BY <1>1, <1>3
<1>4. CASE StoreRequestedTables
  <2>1. UNCHANGED wk /\ \A k \in Job : tables[k] # {} => tables'[k] = tables[k]
    BY <1>4 DEF StoreRequestedTables, threads, TypeInv, TypeOK, KnownRequests
  <2>2. wk[v] = Idle \/ tables'[wk[v].job] = tables[wk[v].job]
    BY <2>1, CarriedJob DEF TypeInv, KnownJobs
  <2>3. QED
    BY <1>1, <2>1, <2>2 DEF Part, Idle
<1>5. ASSUME NEW w \in Worker, Goes(w)
      PROVE  Part(wk[v], tables[wk[v].job])'
  <2>1. UNCHANGED tables
    BY <1>5 DEF Goes, OtherRows
  <2>2. PICK r \in WorkerState : Turn(w, r, status'[wk[w].job]) /\ wk' = [wk EXCEPT ![w] = r]
    BY <1>5 DEF Goes
  <2>3. Part(wk[w], tables[wk[w].job])
    BY ProgressParts
  <2>4. Part(r, tables[r.job])
    BY <2>2, <2>3, TurnKeepsPart
  <2>5. wk'[v] = r \/ wk'[v] = wk[v]
    BY <2>2 DEF TypeInv, TypeOK
  <2>6. QED
    BY <1>1, <2>1, <2>4, <2>5
<1>6. ASSUME NEW w \in Worker, PickUp(w)
      PROVE  Part(wk[v], tables[wk[v].job])'
  <2>1. wk'[v] = wk[v] \/ wk'[v] = [Idle EXCEPT !.pc = "locking", !.job = Head(queue),
                                              !.copy = status[Head(queue)]]
    BY <1>6, PickedUp
  <2>2. UNCHANGED tables
    BY <1>6 DEF PickUp, rows
  <2>3. QED
    BY <1>1, <2>1, <2>2 DEF Part, Idle
<1>7. CASE Crash
  BY <1>2, <1>7 DEF Crash, rows, Part, Idle
<1>8. CASE Quiet \/ CreateSyncJob \/ DispatchSyncJob \/ CancelSyncJob \/ RecoverStaleJob
  BY <1>3, <1>8 DEF Quiet, CreateSyncJob, DispatchSyncJob, CancelSyncJob, RecoverStaleJob, rows,
     threads
<1>9. ASSUME NEW j \in Job, FindStaleJob(j)
      PROVE  Part(wk[v], tables[wk[v].job])'
  BY <1>3, <1>9 DEF FindStaleJob, rows, threads
<1>10. ASSUME NEW w \in Worker, ConnectFails(w)
      PROVE  Part(wk[v], tables[wk[v].job])'
  BY <1>3, <1>10 DEF ConnectFails, rows
<1>11. QED
  BY <1>4, <1>5, <1>6, <1>7, <1>8, <1>9, <1>10, NextForms

-----------------------------------------------------------------------------
(* Rows that no thread has started on *)

\* How a turn treats the rows and the start of a job.
LEMMA GoesRows ==
    ASSUME TypeInv, NEW w \in Worker, Goes(w)
    PROVE  /\ UNCHANGED <<dsOf, tables, nextId>>
           /\ wk[w].job \in Job
           /\ \A k \in Job : status'[k] = "pending" => status[k] = "pending"
           /\ \A k \in Job \ {wk[w].job} :
                 \/ status'[k] = status[k]
                 \/ status[k] \in Recoverable /\ status'[k] = "failed"
           /\ wk'[w].pc \in {"locking", "admitted", "starting"} =>
                 /\ wk[w].pc \in {"locking", "admitted"} /\ wk'[w].job = wk[w].job
                 /\ status'[wk[w].job] = status[wk[w].job]
<1>1. PICK r \in WorkerState : /\ Turn(w, r, status'[wk[w].job])
                               /\ wk' = [wk EXCEPT ![w] = r]
  BY DEF Goes
<1>2. wk'[w] = r /\ wk[w].job \in Job
  BY <1>1, CarriedJob DEF Goes, TypeInv, TypeOK
<1>3. status'[wk[w].job] = "pending" => status[wk[w].job] = "pending"
  BY <1>1 DEF Turn, Reads, Rounds, Begins, Publishing, GivesUp, Ends, Written
<1>4. r.pc \in {"locking", "admitted", "starting"} =>
         /\ wk[w].pc \in {"locking", "admitted"} /\ r.job = wk[w].job
         /\ status'[wk[w].job] = status[wk[w].job]
  <2> USE WorkerType DEF TypeInv
  <2>1. CASE Reads(w, r, status'[wk[w].job])
    BY <2>1 DEF Reads, WorkerState, AtCheckpoint, AfterCheckpoint
  <2>2. CASE Rounds(w, r, status'[wk[w].job])
    BY <2>2 DEF Rounds
  <2>3. CASE Begins(w, r, status'[wk[w].job]) \/ Publishing(w, r, status'[wk[w].job])
    BY <2>3 DEF Begins, Publishing, WorkerState
  <2>4. CASE GivesUp(w, r, status'[wk[w].job]) \/ Ends(w, r, status'[wk[w].job])
    BY <2>4 DEF GivesUp, Ends, Idle
  <2>5. QED
    BY <1>1, <2>1, <2>2, <2>3, <2>4 DEF Turn
<1>5. QED
  BY <1>2, <1>3, <1>4 DEF Goes, OtherRows

\* Only its creation makes a job unstarted.
LEMMA UnstartedBefore ==
    ASSUME TypeInv, [Next]_vars, NEW j \in Job, Unstarted(j)'
    PROVE  Unstarted(j) \/ (CreateSyncJob /\ j = nextId)
<1>1. CASE Quiet
  BY <1>1 DEF Quiet, threads, Unstarted, Dispatching, Queued
<1>2. CASE CreateSyncJob
  BY <1>2 DEF CreateSyncJob, threads, Unstarted, Dispatching, Queued
<1>3. CASE StoreRequestedTables
  BY <1>3 DEF StoreRequestedTables, threads, TypeInv, TypeOK, Unstarted, Dispatching, Queued
<1>4. CASE DispatchSyncJob
  <2>1. api.pc = "dispatch" /\ api.job \in Job /\ Dispatching(api.job)
    BY <1>4 DEF DispatchSyncJob, TypeInv, KnownRequests, Dispatching
  <2>2. /\ Len(queue') = Len(queue) + 1 /\ Len(queue) \in Nat
        /\ \A i \in 1..Len(queue) : queue'[i] = queue[i]
        /\ queue'[Len(queue) + 1] = api.job
    BY <1>4, <2>1, AppendProperties DEF DispatchSyncJob, TypeInv, TypeOK
  <2>3. \A i \in 1..Len(queue') : i \in 1..Len(queue) \/ i = Len(queue) + 1
    BY <2>2
  <2>4. Queued(j)' => Queued(j) \/ j = api.job
    BY <2>2, <2>3 DEF Queued
  <2>5. ~Dispatching(j)' /\ UNCHANGED wk
    BY <1>4 DEF DispatchSyncJob, ApiIdle, Dispatching
  <2>6. QED
    BY <2>1, <2>4, <2>5 DEF Unstarted
<1>5. CASE CancelSyncJob \/ RecoverStaleJob \/ \E k \in Job : FindStaleJob(k)
  BY <1>5 DEF CancelSyncJob, ApiIdle, RecoverStaleJob, FindStaleJob, threads, Unstarted,
     Dispatching, Queued
<1>6. ASSUME NEW w \in Worker, PickUp(w), UNCHANGED server
      PROVE  Unstarted(j)
  <2>1. /\ Queued(Head(queue)) /\ wk'[w].job = Head(queue)
        /\ \A v \in Worker \ {w} : wk'[v] = wk[v]
        /\ Queued(j)' => Queued(j)
    BY <1>6, PickedUp
  <2>2. Dispatching(j)' => Dispatching(j)
    BY <1>6 DEF server, Dispatching
  <2>3. QED
    BY <2>1, <2>2 DEF Unstarted
<1>7. ASSUME NEW w \in Worker, ConnectFails(w)
      PROVE  Unstarted(j)
  <2>1. queue # <<>> /\ queue' = Tail(queue) /\ UNCHANGED <<api, wk>>
    BY <1>7 DEF ConnectFails
  <2>2. /\ Queued(j)' => Queued(j)
        /\ Dispatching(j)' => Dispatching(j)
    BY <2>1, QueueParts DEF Queued, Dispatching
  <2>3. QED
    BY <2>1, <2>2 DEF Unstarted
<1>8. ASSUME NEW w \in Worker, Goes(w), UNCHANGED <<queue, server>>
      PROVE  Unstarted(j)
  <2>1. \A v \in Worker \ {w} : wk'[v] = wk[v]
    BY <1>8, GoesKeepsJob
  <2>2. wk'[w].pc \in {"locking", "admitted", "starting"} =>
          wk[w].pc \in {"locking", "admitted"} /\ wk'[w].job = wk[w].job
    BY <1>8, GoesRows
  <2>3. (Queued(j)' => Queued(j)) /\ (Dispatching(j)' => Dispatching(j))
    BY <1>8 DEF server, Dispatching, Queued
  <2>4. QED
    BY <2>1, <2>2, <2>3 DEF Unstarted
<1>9. CASE Crash
  BY <1>9 DEF Crash, ApiIdle, Idle, Unstarted, Dispatching, Queued
<1>10. QED
  BY <1>1, <1>2, <1>3, <1>4, <1>5, <1>6, <1>7, <1>8, <1>9, NextForms

\* A job that a thread has is unstarted only as that thread's.
LEMMA UnstartedCarried ==
    ASSUME TypeInv, RunOnce, NEW w \in Worker, NEW j \in Job, wk[w].job = j
    PROVE  Unstarted(j) <=> wk[w].pc \in {"locking", "admitted", "starting"}
BY DEF RunOnce, Carried, Unstarted

LEMMA UntouchedStep == TypeInv /\ RunOnce /\ Untouched /\ [Next]_vars => Untouched'
<1> SUFFICES ASSUME TypeInv, RunOnce, Untouched, [Next]_vars, NEW j \in Job
             PROVE  /\ Unstarted(j)' => status'[j] \in {"pending", "cancelled"} /\ rec' # j
                    /\ status'[j] = "pending" => \A k \in Job : k > j => dsOf'[k] # dsOf'[j]
  BY DEF Untouched
<1>1. /\ Unstarted(j) => status[j] \in {"pending", "cancelled"} /\ rec # j
      /\ status[j] = "pending" => \A k \in Job : k > j => dsOf[k] # dsOf[j]
  BY DEF Untouched
<1>2. CASE CreateSyncJob
  <2>1. /\ nextId \in Job /\ api.ds \in Datasource /\ ActiveOn(api.ds) = {} /\ UNCHANGED rec
        /\ status' = [status EXCEPT ![nextId] = "pending"]
        /\ dsOf' = [dsOf EXCEPT ![nextId] = api.ds]
    BY <1>2 DEF CreateSyncJob, TypeInv, KnownRequests
  <2>2. /\ \A k \in Job : k > nextId => dsOf[k] = None
        /\ None # api.ds /\ rec < nextId
    BY <2>1, SyncJobAssumption DEF TypeInv, TypeOK, KnownJobs
  <2>3. \A k \in Job : dsOf[k] = api.ds => status[k] # "pending"
    BY <2>1 DEF ActiveOn, Active
  <2>4. CASE j = nextId
    BY <2>1, <2>2, <2>4 DEF TypeInv, TypeOK
  <2>5. CASE j # nextId
    BY <1>1, <1>2, <2>1, <2>3, <2>5, UnstartedBefore DEF TypeInv, TypeOK
  <2>6. QED
    BY <2>4, <2>5
<1>3. Unstarted(j)' /\ UNCHANGED nextId => Unstarted(j)
  BY UnstartedBefore DEF CreateSyncJob, TypeInv, TypeOK
<1>4. CASE Quiet \/ StoreRequestedTables \/ DispatchSyncJob \/ Crash
  BY <1>1, <1>3, <1>4 DEF Quiet, StoreRequestedTables, DispatchSyncJob, Crash, rows
<1>5. CASE CancelSyncJob
  BY <1>1, <1>3, <1>5 DEF CancelSyncJob, TypeInv, TypeOK
<1>6. CASE RecoverStaleJob
  BY <1>1, <1>3, <1>6 DEF RecoverStaleJob, TypeInv, TypeOK
<1>7. ASSUME NEW k \in Job, FindStaleJob(k)
      PROVE  /\ Unstarted(j)' => status'[j] \in {"pending", "cancelled"} /\ rec' # j
             /\ status'[j] = "pending" => \A i \in Job : i > j => dsOf'[i] # dsOf'[j]
  BY <1>1, <1>3, <1>7 DEF FindStaleJob, rows, Recoverable
<1>8. ASSUME NEW w \in Worker, (PickUp(w) /\ UNCHANGED server) \/ ConnectFails(w)
      PROVE  /\ Unstarted(j)' => status'[j] \in {"pending", "cancelled"} /\ rec' # j
             /\ status'[j] = "pending" => \A i \in Job : i > j => dsOf'[i] # dsOf'[j]
  <2>1. UNCHANGED <<status, dsOf, nextId, rec>>
    BY <1>8 DEF PickUp, ConnectFails, rows, server
  <2>2. QED
    BY <1>1, <1>3, <2>1
<1>9. ASSUME NEW w \in Worker, Goes(w), UNCHANGED <<queue, server>>
      PROVE  /\ Unstarted(j)' => status'[j] \in {"pending", "cancelled"} /\ rec' # j
             /\ status'[j] = "pending" => \A i \in Job : i > j => dsOf'[i] # dsOf'[j]
  <2>1. UNCHANGED <<dsOf, nextId, rec>>
    BY <1>9, GoesRows DEF server
  <2>2. status'[j] = "pending" => status[j] = "pending"
    BY <1>9, GoesRows
  <2>3. Unstarted(j)' => Unstarted(j)
    BY <1>3, <2>1
  <2>4. ASSUME Unstarted(j)' PROVE status'[j] = status[j]
    <3>1. CASE wk[w].job = j
      <4>1. wk[w].pc \in {"locking", "admitted", "starting"}
        BY <2>3, <2>4, <3>1, UnstartedCarried
      <4>2. Carried(j) /\ ~Dispatching(j) /\ ~Queued(j)
            /\ \A v \in Worker \ {w} : wk[v].job # j
        BY <3>1 DEF RunOnce, Carried
      <4>3. \A v \in Worker \ {w} : wk'[v].job # j
        BY <1>9, <4>2, GoesKeepsJob
      <4>4. ~Dispatching(j)' /\ ~Queued(j)'
        BY <1>9, <4>2 DEF server, Dispatching, Queued
      <4>5. wk'[w].pc \in {"locking", "admitted", "starting"}
        BY <2>4, <4>3, <4>4 DEF Unstarted
      <4>6. QED
        BY <1>9, <3>1, <4>5, GoesRows
    <3>2. CASE wk[w].job # j
      BY <1>1, <1>9, <2>3, <2>4, <3>2, GoesRows DEF Recoverable
    <3>3. QED
      BY <3>1, <3>2
  <2>5. QED
    BY <1>1, <2>1, <2>2, <2>3, <2>4
<1>10. QED
  BY <1>2, <1>4, <1>5, <1>6, <1>7, <1>8, <1>9, NextForms

-----------------------------------------------------------------------------
(* What a datasource shows, and who has published what *)

\* All that the publication of a job rests on.
Order == TypeInv /\ LockHeld /\ RunOnce /\ Progress /\ Untouched

LEMMA OrderStep == Order /\ [Next]_vars => Order'
BY NextTypes, LockHeldStep, RunOnceStep, ProgressStep, UntouchedStep DEF Order

\* A pending job that has not been published is newer than the one on show.
LEMMA PendingIsNewer ==
    ASSUME Order, WholeSchema, Publishes, NEW j \in Job, j < nextId,
           status[j] = "pending", j \notin published
    PROVE  publisher[dsOf[j]] < j
<1> DEFINE d == dsOf[j]
<1>1. d \in Datasource /\ publisher[d] \in Job \union {NoJob}
  BY DEF Order, TypeInv, TypeOK, KnownJobs
<1>2. CASE publisher[d] = NoJob
  BY <1>2
<1>3. CASE publisher[d] \in Job
  <2>1. dsOf[publisher[d]] = d /\ publisher[d] \in published
    BY <1>1, <1>3 DEF WholeSchema
  <2>2. ~(publisher[d] > j)
    BY <1>3, <2>1 DEF Order, Untouched
  <2>3. publisher[d] # j
    BY <2>1
  <2>4. QED
    BY <1>3, <2>2, <2>3
<1>4. QED
  BY <1>1, <1>2, <1>3

\* What is on show changes only when a thread publishes.
LEMMA CatalogChanges ==
    ASSUME TypeInv, [Next]_vars, ~UNCHANGED catalog
    PROVE  \E w \in Worker : Publish(w) /\ Goes(w) /\ UNCHANGED <<queue, server>>
BY NextForms DEF Quiet, CreateSyncJob, StoreRequestedTables, DispatchSyncJob, CancelSyncJob,
   RecoverStaleJob, FindStaleJob, ConnectFails, Crash

\* Existing rows keep their datasource, and their request once they have one.
LEMMA RowsKept ==
    ASSUME TypeInv, [Next]_vars, NEW j \in Job, j < nextId
    PROVE  /\ dsOf'[j] = dsOf[j] /\ j < nextId'
           /\ tables[j] # {} => tables'[j] = tables[j]
<1>1. CASE RowStep
  BY <1>1 DEF RowStep
<1>2. CASE CreateSyncJob
  BY <1>2 DEF CreateSyncJob, TypeInv, TypeOK
<1>3. CASE StoreRequestedTables
  BY <1>3 DEF StoreRequestedTables, TypeInv, TypeOK, KnownRequests
<1>4. QED
  BY <1>1, <1>2, <1>3, NextRowStep

LEMMA WholeSchemaStep == Order /\ WholeSchema /\ [Next]_vars => WholeSchema'
<1> SUFFICES ASSUME Order, WholeSchema, [Next]_vars, NEW d \in Datasource
             PROVE  IF publisher'[d] = NoJob
                      THEN visible'[d] = {}
                      ELSE /\ dsOf'[publisher'[d]] = d /\ tables'[publisher'[d]] # {}
                           /\ visible'[d] = tables'[publisher'[d]]
                           /\ publisher'[d] \in published'
  BY DEF WholeSchema
<1> USE DEF Order
<1>1. ASSUME publisher[d] # NoJob
      PROVE  /\ dsOf'[publisher[d]] = d /\ tables[publisher[d]] # {}
             /\ tables'[publisher[d]] = tables[publisher[d]]
             /\ visible[d] = tables[publisher[d]] /\ publisher[d] \in published
  <2>1. /\ publisher[d] \in Job /\ dsOf[publisher[d]] = d /\ tables[publisher[d]] # {}
        /\ visible[d] = tables[publisher[d]] /\ publisher[d] \in published
    BY <1>1 DEF WholeSchema, TypeInv, TypeOK
  <2>2. publisher[d] < nextId
    BY <2>1, SyncJobAssumption DEF TypeInv, KnownJobs
  <2>3. QED
    BY <2>1, <2>2, RowsKept
<1>2. CASE UNCHANGED catalog
  BY <1>1, <1>2 DEF catalog, WholeSchema
<1>3. ASSUME NEW w \in Worker, Publish(w)
      PROVE  IF publisher'[d] = NoJob
               THEN visible'[d] = {}
               ELSE /\ dsOf'[publisher'[d]] = d /\ tables'[publisher'[d]] # {}
                    /\ visible'[d] = tables'[publisher'[d]]
                    /\ publisher'[d] \in published'
  <2> DEFINE j == wk[w].job
  <2>1. wk[w].pc = "finalizing" /\ wk[w].todo = {} /\ UNCHANGED rows
    BY <1>3 DEF Publish
  <2>2. j \in Job /\ tables[j] # {} /\ dsOf[j] \in Datasource
    BY <2>1, CarriedJob
  <2>3. tables[j] = wk[w].done
    BY <2>1 DEF Progress
  <2>4. CASE d = dsOf[j]
    <3>1. publisher'[d] = j /\ visible'[d] = wk[w].done /\ j \in published'
      BY <1>3, <2>2, <2>4 DEF Publish, TypeInv, TypeOK
    <3>2. QED
      BY <2>1, <2>2, <2>3, <2>4, <3>1 DEF rows
  <2>5. CASE d # dsOf[j]
    <3>1. publisher'[d] = publisher[d] /\ visible'[d] = visible[d] /\ published \subseteq published'
      BY <1>3, <2>5 DEF Publish, TypeInv, TypeOK
    <3>2. QED
      BY <1>1, <3>1 DEF WholeSchema
  <2>6. QED
    BY <2>4, <2>5
<1>4. QED
  BY <1>2, <1>3, CatalogChanges

\* Publishes, of a thread in state r.
InOrder(r) ==
    /\ r.pc \in Locked \ {"posting", "succeeding"} => r.job \notin published
    /\ r.pc \in {"posting", "succeeding"} => r.job \in published
    /\ r.pc \in Locked \ {"admitted", "starting", "posting", "succeeding"} =>
          publisher[dsOf[r.job]] < r.job

LEMMA TurnKeepsOrder ==
    ASSUME Order, WholeSchema, Publishes, NEW w \in Worker, NEW r \in WorkerState, NEW s,
           Turn(w, r, s), wk[w].pc # "idle"
    PROVE  Publish(w) \/ InOrder(r)
<1> USE WorkerType DEF Order
<1>1. InOrder(wk[w])
  BY DEF Publishes, InOrder
<1>2. wk[w].job \in Job /\ wk[w].job < nextId
  BY CarriedJob
<1>3. wk[w].pc \in {"locking", "admitted", "starting"} =>
        wk[w].job \notin published /\ status[wk[w].job] \in {"pending", "cancelled"}
  BY <1>2, UnstartedCarried DEF Publishes, Untouched
<1>4. CASE Reads(w, r, s)
  <2>1. CASE wk[w].pc = "starting"
    <3>1. status[wk[w].job] = "pending" /\ r.pc = "toRunning" /\ r.job = wk[w].job
      BY <1>3, <1>4, <2>1 DEF Reads, AfterCheckpoint, WorkerState
    <3>2. publisher[dsOf[r.job]] < r.job
      BY <1>2, <1>3, <2>1, <3>1, PendingIsNewer
    <3>3. QED
      BY <1>3, <2>1, <3>1, <3>2 DEF InOrder
  <2>2. CASE wk[w].pc \in {"locking", "admitted"}
    BY <1>3, <1>4, <2>2 DEF Reads, AtCheckpoint, InOrder, WorkerState
  <2>3. CASE wk[w].pc \in {"introspecting", "finalizing"}
    BY <1>1, <1>4, <2>3 DEF Reads, AfterCheckpoint, InOrder, Locked, WorkerState
  <2>4. CASE wk[w].pc \in {"staging", "posting"}
    BY <1>1, <1>4, <2>4 DEF Reads, AtCheckpoint, InOrder, Locked, WorkerState
  <2>5. QED
    BY <1>4, <2>1, <2>2, <2>3, <2>4 DEF Reads, AtCheckpoint
<1>5. CASE Rounds(w, r, s)
  BY <1>1, <1>5 DEF Rounds, InOrder
<1>6. CASE Begins(w, r, s)
  <2>1. /\ wk[w].pc \in {"toRunning", "toStage", "probing"} /\ r.job = wk[w].job
        /\ r.pc \in {"introspecting", "probing", "finalizing"}
    BY <1>6 DEF Begins, WorkerState
  <2>2. QED
    BY <1>1, <2>1 DEF InOrder, Locked
<1>7. CASE GivesUp(w, r, s) \/ Ends(w, r, s)
  BY <1>7 DEF GivesUp, Ends, Idle, InOrder, Locked
<1>8. QED
  BY <1>4, <1>5, <1>6, <1>7 DEF Turn, Publishing

LEMMA PublishesStep == Order /\ WholeSchema /\ Publishes /\ [Next]_vars => Publishes'
<1> SUFFICES ASSUME Order, WholeSchema, Publishes, [Next]_vars
             PROVE  Publishes'
  OBVIOUS
<1> USE DEF Order
<1>1. ASSUME NEW w \in Worker, Publish(w)
      PROVE  /\ published' = published \union {wk[w].job}
             /\ wk[w].pc = "finalizing" /\ wk[w].job \in Job /\ wk[w].job < nextId
             /\ \A d \in Datasource : d # dsOf[wk[w].job] => publisher'[d] = publisher[d]
  BY <1>1, CarriedJob DEF Publish, TypeInv, TypeOK
<1>2. \A j \in published' : j < nextId'
  <2>1. \A j \in published : j \in Job /\ j < nextId /\ j < nextId'
    BY RowsKept DEF Publishes, TypeInv, TypeOK
  <2>2. CASE UNCHANGED catalog
    BY <2>1, <2>2 DEF catalog
  <2>3. ASSUME NEW w \in Worker, Publish(w)
        PROVE  \A j \in published' : j < nextId'
    BY <1>1, <2>1, <2>3, RowsKept
  <2>4. QED
    BY <2>2, <2>3, CatalogChanges
<1>3. ASSUME NEW j \in Job, Unstarted(j)'
      PROVE  j \notin published'
  <2>1. j \notin published
    BY <1>3, UnstartedBefore DEF Publishes, CreateSyncJob, TypeInv, TypeOK
  <2>2. CASE UNCHANGED catalog
    BY <2>1, <2>2 DEF catalog
  <2>3. ASSUME NEW w \in Worker, Publish(w), Goes(w)
        PROVE  j # wk[w].job
    <3>1. UNCHANGED nextId
      BY <2>3, GoesRows
    <3>2. Unstarted(j)
      BY <1>3, <3>1, UnstartedBefore DEF CreateSyncJob, TypeInv, TypeOK
    <3>3. QED
      BY <1>1, <2>3, <3>2, UnstartedCarried
  <2>4. QED
    BY <1>1, <2>1, <2>2, <2>3, CatalogChanges
<1>4. ASSUME NEW v \in Worker
      PROVE  InOrder(wk[v])'
  <2>1. InOrder(wk[v])
    BY DEF Publishes, InOrder
  <2>2. wk[v].pc # "idle" => /\ wk[v].job \in Job /\ dsOf[wk[v].job] \in Datasource
                             /\ dsOf'[wk[v].job] = dsOf[wk[v].job]
    BY CarriedJob, RowsKept
  <2>3. CASE wk'[v] = wk[v] /\ UNCHANGED catalog
    BY <2>1, <2>2, <2>3 DEF InOrder, catalog, Locked
  <2>4. CASE wk'[v].pc \in {"idle", "locking", "failing"}
    BY <2>4 DEF InOrder, Locked
  <2>5. ASSUME NEW w \in Worker, Goes(w), Publish(w)
        PROVE  InOrder(wk[v])'
    <3>1. CASE v = w
      <4>1. wk'[v] = [wk[v] EXCEPT !.pc = "posting"]
        BY <2>5, <3>1 DEF Publish, TypeInv, TypeOK
      <4>2. wk'[v].pc = "posting" /\ wk'[v].job = wk[v].job
        BY <4>1, WorkerType DEF WorkerState
      <4>3. QED
        BY <1>1, <2>5, <3>1, <4>2 DEF InOrder
    <3>2. CASE v # w /\ wk[v].pc \in Locked
      <4>1. wk'[v] = wk[v]
        BY <2>5, <3>2, GoesKeepsJob
      <4>2. wk[v].pc # "idle" /\ wk[v].job # wk[w].job
        BY <1>1, <2>2, <2>5, <3>2 DEF RunOnce, Locked
      <4>3. dsOf[wk[v].job] # dsOf[wk[w].job]
        BY <1>1, <2>5, <3>2 DEF LockHeld, Locked
      <4>4. publisher'[dsOf'[wk[v].job]] = publisher[dsOf[wk[v].job]]
        BY <1>1, <2>2, <2>5, <4>2, <4>3
      <4>5. QED
        BY <1>1, <2>1, <2>5, <4>1, <4>2, <4>4 DEF InOrder
    <3>3. CASE v # w /\ wk[v].pc \notin Locked
      BY <2>5, <3>3, GoesKeepsJob DEF InOrder, Locked
    <3>4. QED
      BY <3>1, <3>2, <3>3
  <2>6. ASSUME NEW w \in Worker, Goes(w), UNCHANGED catalog
        PROVE  InOrder(wk[v])'
    <3>1. PICK r \in WorkerState : /\ Turn(w, r, status'[wk[w].job])
                                   /\ wk' = [wk EXCEPT ![w] = r]
      BY <2>6 DEF Goes
    <3>2. wk[w].job \in Job /\ ~Publish(w)
      <4>1. wk[w].job \in Job /\ (wk[w].pc = "finalizing" => wk[w].job \notin published)
        BY <2>6, GoesRows DEF Publishes, Locked
      <4>2. QED
        BY <1>1, <2>6, <4>1 DEF catalog
    <3>3. CASE v = w
      <4>1. InOrder(r) /\ wk'[v] = r
        BY <2>6, <3>1, <3>2, <3>3, TurnKeepsOrder DEF Goes, TypeInv, TypeOK
      <4>2. UNCHANGED <<dsOf, published, publisher>>
        BY <2>6, GoesRows DEF catalog
      <4>3. QED
        BY <4>1, <4>2 DEF InOrder
    <3>4. CASE v # w
      BY <2>3, <2>6, <3>4, GoesKeepsJob
    <3>5. QED
      BY <3>3, <3>4
  <2>7. CASE UNCHANGED wk
    BY <2>3, <2>5, <2>7, CatalogChanges
  <2>8. ASSUME NEW w \in Worker, PickUp(w), UNCHANGED catalog
        PROVE  InOrder(wk[v])'
    BY <2>3, <2>4, <2>8, PickedUp
  <2>9. CASE Crash
    BY <2>4, <2>9 DEF Crash, Idle
  <2>10. QED
    BY <2>5, <2>6, <2>7, <2>8, <2>9, NextForms DEF Quiet, CreateSyncJob, StoreRequestedTables,
       DispatchSyncJob, CancelSyncJob, RecoverStaleJob, FindStaleJob, ConnectFails, threads
<1>5. QED
  BY <1>2, <1>3, <1>4 DEF Publishes, InOrder

CatalogInv == Order /\ WholeSchema /\ Publishes

\* Rows, places, progress and publications are always in order.
LEMMA CatalogInvariant == Spec => []CatalogInv
<1>1. Init => CatalogInv
  <2> SUFFICES ASSUME Init PROVE CatalogInv
    OBVIOUS
  <2>1. TypeInv /\ LockHeld /\ RunOnce
    BY InitTypes DEF Init, ApiIdle, Idle, LockHeld, Locked, RunOnce, Dispatching, Queued, Carried
  <2>2. Progress
    BY DEF Init, Idle, Progress
  <2>3. Untouched /\ WholeSchema /\ Publishes
    BY DEF Init, ApiIdle, Idle, Untouched, WholeSchema, Publishes, Unstarted, Dispatching,
       Queued, Locked
  <2>4. QED
    BY <2>1, <2>2, <2>3 DEF CatalogInv, Order
<1>2. CatalogInv /\ [Next]_vars => CatalogInv'
  BY OrderStep, WholeSchemaStep, PublishesStep DEF CatalogInv
<1>3. QED
  BY <1>1, <1>2, PTL DEF Spec

-----------------------------------------------------------------------------
(* The catalog *)

LEMMA InitCatalog == Init => Catalog!Init
BY DEF Init, Catalog!Init, Catalog!Job

LEMMA NextCatalog == CatalogInv /\ [Next]_vars => [Catalog!Next]_(Catalog!catalogVars)
<1> DEFINE owner == [j \in Job |-> IF tables[j] = {} THEN None ELSE dsOf[j]]
<1> SUFFICES ASSUME CatalogInv, [Next]_vars
             PROVE  Catalog!Next \/ UNCHANGED <<owner, tables, visible, publisher>>
  BY DEF Catalog!catalogVars, Catalog!Job
<1> USE DEF CatalogInv, Order
<1>1. CASE StoreRequestedTables
  <2>1. /\ api.job \in Job /\ api.job < nextId /\ tables[api.job] = {}
        /\ api.tables # {} /\ api.tables \in SUBSET Table
    BY <1>1 DEF StoreRequestedTables, TypeInv, TypeOK, KnownRequests
  <2>2. dsOf[api.job] \in Datasource /\ UNCHANGED <<dsOf, visible, publisher>>
    BY <1>1, <2>1 DEF StoreRequestedTables, catalog, TypeInv, KnownJobs
  <2>3. tables' = [tables EXCEPT ![api.job] = api.tables]
    BY <1>1 DEF StoreRequestedTables
  <2>4. owner[api.job] = None /\ owner' = [owner EXCEPT ![api.job] = dsOf[api.job]]
    BY <2>1, <2>2, <2>3 DEF TypeInv, TypeOK
  <2>5. PICK j \in Job, d \in Datasource, T \in SUBSET Table :
           j = api.job /\ d = dsOf[api.job] /\ T = api.tables
    BY <2>1, <2>2
  <2>6. Catalog!RequestJob(j, d, T)
    BY <2>1, <2>2, <2>3, <2>4, <2>5 DEF Catalog!RequestJob, Catalog!Job
  <2>7. QED
    BY <2>6 DEF Catalog!Next, Catalog!Job
<1>2. CASE UNCHANGED catalog /\ ~StoreRequestedTables
  <2>1. UNCHANGED tables
    BY <1>2, NextRowStep DEF RowStep, CreateSyncJob
  <2>2. \A j \in Job : tables[j] # {} => dsOf'[j] = dsOf[j]
    BY RowsKept DEF TypeInv, KnownJobs
  <2>3. UNCHANGED owner
    BY <2>1, <2>2
  <2>4. QED
    BY <1>2, <2>1, <2>3 DEF catalog
<1>3. ASSUME NEW w \in Worker, Publish(w)
      PROVE  Catalog!Next
  <2> DEFINE j == wk[w].job
  <2>1. /\ wk[w].pc = "finalizing" /\ wk[w].todo = {} /\ UNCHANGED rows
        /\ visible' = [visible EXCEPT ![dsOf[j]] = wk[w].done]
        /\ publisher' = [publisher EXCEPT ![dsOf[j]] = j]
    BY <1>3 DEF Publish
  <2>2. j \in Job /\ tables[j] # {} /\ dsOf[j] \in Datasource
    BY <2>1, CarriedJob
  <2>3. tables[j] = wk[w].done
    BY <2>1 DEF Progress
  <2>4. publisher[dsOf[j]] < j
    BY <2>1 DEF Publishes, Locked
  <2>5. owner[j] = dsOf[j] /\ UNCHANGED <<owner, tables>>
    BY <2>1, <2>2 DEF rows
  <2>6. Catalog!ReplaceSchema(dsOf[j], j)
    BY <2>1, <2>3, <2>4, <2>5 DEF Catalog!ReplaceSchema, Catalog!Job
  <2>7. QED
    BY <2>2, <2>6 DEF Catalog!Next, Catalog!Job
<1>4. QED
  BY <1>1, <1>2, <1>3, CatalogChanges

\* The jobs implement the catalog: whatever is cancelled, recovered, retried or
\* lost in a crash, readers of a datasource see the whole selection of one job,
\* and move on to that of a later one in a single step.
THEOREM Implements == Spec => CatalogSpec
BY CatalogInvariant, InitCatalog, NextCatalog, PTL DEF Spec, CatalogSpec, Catalog!Spec

-----------------------------------------------------------------------------
(* Reported outcomes *)

Outcomes == Settled /\ OutcomeIsTrue

LEMMA OutcomesStep == CatalogInv /\ Outcomes /\ [Next]_vars => Outcomes'
<1> SUFFICES ASSUME CatalogInv, Outcomes, [Next]_vars, NEW j \in Job
             PROVE  /\ status'[j] \in {"succeeded", "partial"} => ~Unstarted(j)' /\ ~Carried(j)'
                    /\ status'[j] = "partial" => j \notin published'
                    /\ status'[j] = "succeeded" => j \in published'
  BY DEF Outcomes, Settled, OutcomeIsTrue
<1> USE DEF CatalogInv, Order
<1>1. /\ status[j] \in {"succeeded", "partial"} => ~Unstarted(j) /\ ~Carried(j)
      /\ status[j] = "partial" => j \notin published
      /\ status[j] = "succeeded" => j \in published
  BY DEF Outcomes, Settled, OutcomeIsTrue
<1>2. published \subseteq published'
  BY CatalogChanges DEF catalog, Publish
<1>3. ASSUME status'[j] = status[j] \/ status'[j] \notin {"partial", "succeeded"},
             Carried(j)' => Carried(j) \/ Unstarted(j),
             status[j] \in {"succeeded", "partial"} => ~CreateSyncJob \/ j # nextId
      PROVE  /\ status'[j] \in {"succeeded", "partial"} => ~Unstarted(j)' /\ ~Carried(j)'
             /\ status'[j] = "partial" => j \notin published'
             /\ status'[j] = "succeeded" => j \in published'
  <2>1. status[j] = "partial" => UNCHANGED catalog \/ j \notin published'
    BY <1>1, CatalogChanges DEF Publish, Carried
  <2>2. status[j] = "partial" => j \notin published'
    BY <1>1, <2>1 DEF catalog
  <2>3. status[j] \in {"succeeded", "partial"} => ~Unstarted(j)'
    BY <1>1, <1>3, UnstartedBefore
  <2>4. QED
    BY <1>1, <1>2, <1>3, <2>2, <2>3
<1>4. CASE Quiet \/ StoreRequestedTables \/ DispatchSyncJob
  BY <1>3, <1>4 DEF Quiet, StoreRequestedTables, DispatchSyncJob, CreateSyncJob, rows, threads,
     Carried, TypeInv, TypeOK
<1>5. CASE CreateSyncJob
  <2>1. nextId \in Job /\ status[nextId] = "none"
    BY <1>5 DEF CreateSyncJob, TypeInv, TypeOK, KnownJobs, KnownRequests
  <2>2. QED
    BY <1>3, <1>5, <2>1 DEF CreateSyncJob, threads, Carried, TypeInv, TypeOK
<1>6. CASE CancelSyncJob \/ RecoverStaleJob \/ \E k \in Job : FindStaleJob(k)
  BY <1>3, <1>6 DEF CancelSyncJob, RecoverStaleJob, FindStaleJob, CreateSyncJob, rows, threads,
     Carried, TypeInv, TypeOK
<1>7. ASSUME NEW w \in Worker, (PickUp(w) /\ UNCHANGED server) \/ ConnectFails(w)
      PROVE  /\ status'[j] \in {"succeeded", "partial"} => ~Unstarted(j)' /\ ~Carried(j)'
             /\ status'[j] = "partial" => j \notin published'
             /\ status'[j] = "succeeded" => j \in published'
  <2>1. UNCHANGED <<status, nextId>>
    BY <1>7 DEF PickUp, ConnectFails, rows
  <2>2. Carried(j)' => Carried(j) \/ Unstarted(j)
    BY <1>7, PickedUp DEF ConnectFails, Carried, Unstarted
  <2>3. QED
    BY <1>3, <2>1, <2>2 DEF CreateSyncJob, TypeInv, TypeOK
<1>8. CASE Crash
  <2>1. UNCHANGED <<status, nextId>>
    BY <1>8 DEF Crash, rows
  <2>2. ~Carried(j)'
    BY <1>8 DEF Crash, Idle, Carried
  <2>3. QED
    BY <1>3, <2>1, <2>2 DEF CreateSyncJob, TypeInv, TypeOK
<1>9. ASSUME NEW w \in Worker, Goes(w), UNCHANGED <<queue, server>>,
             Publish(w) \/ UNCHANGED catalog
      PROVE  /\ status'[j] \in {"succeeded", "partial"} => ~Unstarted(j)' /\ ~Carried(j)'
             /\ status'[j] = "partial" => j \notin published'
             /\ status'[j] = "succeeded" => j \in published'
  <2>1. UNCHANGED nextId /\ (Carried(j)' => Carried(j))
    BY <1>9, GoesRows, GoesKeepsJob DEF Carried
  <2>2. CASE wk[w].job # j
    <3>1. status'[j] = status[j] \/ status'[j] = "failed"
      BY <1>9, <2>2, GoesRows
    <3>2. QED
      BY <1>3, <2>1, <3>1 DEF CreateSyncJob, TypeInv, TypeOK
  <2>3. CASE wk[w].job = j
    <3>1. PICK r \in WorkerState : /\ Turn(w, r, status'[j])
                                   /\ wk' = [wk EXCEPT ![w] = r]
      BY <1>9, <2>3 DEF Goes
    <3>2. Carried(j) /\ status[j] \notin {"succeeded", "partial"}
      BY <1>1, <2>3 DEF Carried
    <3>3. CASE status'[j] = status[j] \/ status'[j] \notin {"partial", "succeeded"}
      BY <1>3, <2>1, <3>2, <3>3
    <3>4. CASE status'[j] # status[j] /\ status'[j] \in {"partial", "succeeded"}
      <4>1. /\ Ends(w, r, status'[j])
            /\ \/ status'[j] = "partial" /\ wk[w].pc = "probing"
               \/ status'[j] = "succeeded" /\ wk[w].pc = "succeeding"
        BY <2>3, <3>1, <3>4 DEF Turn, Reads, Rounds, Begins, Publishing, GivesUp, Ends, Written
      <4>2. wk'[w] = Idle
        BY <3>1, <4>1 DEF Ends, TypeInv, TypeOK
      <4>3. ~Carried(j)' /\ ~Dispatching(j) /\ ~Queued(j)
        BY <1>9, <2>3, <3>2, <4>2, GoesKeepsJob DEF RunOnce, Carried, Idle
      <4>4. ~Unstarted(j)'
        BY <1>9, <4>3 DEF server, Dispatching, Queued, Carried, Unstarted
      <4>5. UNCHANGED catalog
        BY <1>9, <4>1 DEF Publish
      <4>6. /\ status'[j] = "partial" => j \notin published
            /\ status'[j] = "succeeded" => j \in published
        BY <2>3, <4>1 DEF Publishes, Locked
      <4>7. QED
        BY <4>3, <4>4, <4>5, <4>6 DEF catalog
    <3>5. QED
      BY <3>3, <3>4
  <2>4. QED
    BY <2>2, <2>3
<1>10. QED
  BY <1>4, <1>5, <1>6, <1>7, <1>8, <1>9, NextForms

LEMMA OutcomesInvariant == Spec => []Outcomes
<1>1. Init => Outcomes
  BY DEF Init, Outcomes, Settled, OutcomeIsTrue
<1>2. QED
  BY <1>1, CatalogInvariant, OutcomesStep, PTL DEF Spec

\* A reported outcome agrees with the catalog: a job that says succeeded was
\* published, one that says partial was not and will not be, in every
\* environment and although threads write rows through stale copies.
THEOREM TrueOutcomes == Spec => []OutcomeIsTrue
BY OutcomesInvariant, PTL DEF Outcomes
=============================================================================
