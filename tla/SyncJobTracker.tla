---------------------------- MODULE SyncJobTracker ----------------------------
(***************************************************************************)
(* The table selection of one datasource in the browser: the composable    *)
(* useDatasourceSyncJob.ts and the form that uses it (DatasourceForm.vue   *)
(* inside the drawer of ParamsForm.vue).  The form is opened and opened    *)
(* again, saves a selection, follows the job by polling, asks to cancel it *)
(* and is left, while its earlier requests are still under way.  Only what *)
(* the requests read and change of the back end is here; SyncJob.tla is    *)
(* its model.                                                              *)
(***************************************************************************)
EXTENDS Naturals, FiniteSets, Sequences

CONSTANTS Jobs,    \* a bound: how many jobs the back end ever creates
          Task,    \* async functions of the form that may be under way at once
          Outcome, \* how a job may end by itself
          Budget,  \* a bound: opens, saves, cancellations and revivals
          Worlds   \* the sets of promises, see world

Promises == {"prompt", "patient", "reliable", "settled"}
Job == 1 .. Jobs
Terminal == Outcome \union {"cancelled"}
Status == {"none", "active"} \union Terminal

ASSUME TrackerAssumption ==
    /\ Jobs \in Nat \ {0} /\ Budget \in Nat
    /\ Outcome \subseteq {"succeeded", "failed", "partial"}
    /\ Worlds \subseteq SUBSET Promises /\ Task # {}

VARIABLES
    status,     \* datasource_sync_job.status, "none" before the job exists
    job,        \* job.value: id, status, and whose detail fields it shows
    dialog,     \* dialogVisible
    error,      \* requestError is not empty
    timer,      \* the job of the timeout that pollTimer holds, 0 without one
    restoring,  \* isRestoring
    cancelling, \* isCancelling
    saving,     \* saveLoading
    asking,     \* the job the confirmation is about, 0 when it is not shown
    mounted,    \* the component lives
    calls,      \* for each async function under way, the request it awaits
    line,       \* the answers on their way, oldest first, when they keep order
    told,       \* how often the end of each job was announced, twice at most
    cancelled,  \* jobs whose cancellation was requested without being asked for
    budget,
    world       \* rigid, what this browser may rely on: "prompt" answers arrive
                \* in the order of the back end, a "patient" user opens, saves,
                \* closes and leaves only when no request is under way, on a
                \* "reliable" network none is lost, and a "settled" job has ended

server == <<status>>
shown == <<job, dialog, error, timer, told>>
flags == <<restoring, cancelling, saving, asking, mounted>>
ghosts == <<cancelled, budget, world>>
vars == <<server, shown, flags, calls, line, ghosts>>

NoJob == [id |-> 0, status |-> "none", details |-> 0]
Idle == [for |-> "nothing", await |-> "nothing", job |-> 0, got |-> "nothing"]

isActive == job.status = "active"
\* Mutant: the dialog can be closed while the job runs.
CanCloseAlways == TRUE
canCloseSyncJobDialog == ~isActive \/ error
canSaveTableSelection == ~isActive /\ ~restoring
ActiveJobs == {j \in Job : status[j] = "active"}
Promised(p) == p \in world
Polls == {c \in Task : calls[c].await = "poll"}
Free == {c \in Task : calls[c] = Idle}
\* A patient user acts when nothing is under way.
MayAct == Promised("patient") => Free = Task

\* One async function of the form begins, or goes on, with a request.
Awaits(c, for, await, j) ==
    calls' = [calls EXCEPT ![c] = [for |-> for, await |-> await, job |-> j, got |-> "waiting"]]
Begins(for, await, j) ==
    Free # {} /\ Awaits(CHOOSE c \in Free : TRUE, for, await, j)
Returns(c) ==
    /\ calls' = [calls EXCEPT ![c] = Idle]
    /\ restoring' = (restoring /\ calls[c].for # "restore")
    /\ saving' = (saving /\ calls[c].for # "save")

\* Mutant: the status before is not looked at.
NotifyWhenever(new) ==
    IF mounted /\ new.status \in Terminal
      THEN [told EXCEPT ![new.id] = IF @ = 0 THEN 1 ELSE 2]
      ELSE told
\* job.value gets a new value, and the watch of its status announces an end.
notifySyncJobTerminalState(new) ==
    IF mounted /\ new.status \in Terminal /\ job.status \notin Terminal
      THEN [told EXCEPT ![new.id] = IF @ = 0 THEN 1 ELSE 2]
      ELSE told
SetJob(new) == job' = new /\ told' = notifySyncJobTerminalState(new)

\* Mutant: what was shown wins over the answer, but for the status.
DetailUnder(j, s) == [id |-> IF job = NoJob THEN j ELSE job.id, status |-> s, details |-> j]
\* A status and its detail fields replace what was shown; an answer to a submit
\* or a row of a list has no detail fields, so the ones before stay.
Detail(j, s) == [id |-> j, status |-> s, details |-> j]
Merged(j) == [id |-> j, status |-> "active", details |-> job.details]

Spends == budget > 0 /\ budget' = budget - 1 /\ UNCHANGED world

-----------------------------------------------------------------------------
(* The back end. *)

EndJob(j) ==
    /\ status[j] = "active"
    /\ \E s \in Outcome : status' = [status EXCEPT ![j] = s]
    /\ UNCHANGED <<shown, flags, calls, line, ghosts>>

\* A thread or a sweep overwrites how a job ended (JobRows.tla): a thread goes on
\* with a job taken for dead or cancelled, unless another one is active, or
\* another end is reported; what was published is not called partial.
Overwrite(j) ==
    /\ ~Promised("settled") /\ Spends
    /\ \/ /\ status[j] \in {"failed", "cancelled"} /\ ActiveJobs = {}
          /\ status' = [status EXCEPT ![j] = "active"]
       \/ /\ status[j] \in Terminal
          /\ \E s \in Outcome \ {status[j]} :
                 /\ {status[j], s} # {"succeeded", "partial"}
                 /\ status' = [status EXCEPT ![j] = s]
    /\ UNCHANGED <<shown, flags, calls, line, cancelled>>

\* The answer g about job j is on its way; on an unreliable network it may be
\* lost after the request was carried out.
Answer(c, g, j) ==
    \E lost \in IF Promised("reliable") THEN {FALSE} ELSE BOOLEAN :
        /\ calls' = [calls EXCEPT ![c].got = IF lost THEN "lost" ELSE g, ![c].job = j]
        /\ line' = IF Promised("prompt") /\ ~lost THEN Append(line, c) ELSE line

get_status(c) ==
    /\ calls[c].await = "poll"
    /\ Answer(c, status[calls[c].job], calls[c].job)
    /\ UNCHANGED status

\* The newest jobs of the datasource, of which the form takes an active one.
list_jobs(c) ==
    /\ calls[c].await = "list"
    /\ IF ActiveJobs = {} THEN Answer(c, "none", 0)
                          ELSE \E j \in ActiveJobs : Answer(c, "active", j)
    /\ UNCHANGED status

\* A small selection is refused with 422, an active job is reused.
submit_sync_job(c) ==
    /\ calls[c].await = "submit"
    /\ \/ /\ Answer(c, "small", 0)
          /\ UNCHANGED status
       \/ \E j \in ActiveJobs : Answer(c, "active", j) /\ UNCHANGED status
       \/ /\ ActiveJobs = {}
          /\ \E j \in Job :
                 /\ status[j] = "none" /\ \A k \in 1 .. j - 1 : status[k] # "none"
                 /\ Answer(c, "active", j)
                 /\ status' = [status EXCEPT ![j] = "active"]

\* The legacy save of a small selection; it creates no job.
chooseTables(c) == calls[c].await = "choose" /\ Answer(c, "none", 0) /\ UNCHANGED status

\* Only an active job can be cancelled; otherwise the answer is a 409.  The job
\* may end between the handler's look at it and its commit.
cancel_job(c) ==
    /\ calls[c].await = "cancel"
    /\ LET j == calls[c].job IN
       \/ /\ status[j] = "active" \/ (~Promised("settled") /\ status[j] \in Terminal)
          /\ Answer(c, "cancelled", j) /\ status' = [status EXCEPT ![j] = "cancelled"]
       \/ status[j] # "active" /\ Answer(c, "refused", j) /\ UNCHANGED status

Serve(c) ==
    /\ calls[c].got = "waiting"
    /\ get_status(c) \/ list_jobs(c) \/ submit_sync_job(c) \/ chooseTables(c) \/ cancel_job(c)
    /\ UNCHANGED <<shown, flags, ghosts>>

\* A request that never reaches the back end, or the timeout of axios.
Lose(c) ==
    /\ ~Promised("reliable") /\ calls[c].got = "waiting"
    /\ calls' = [calls EXCEPT ![c].got = "lost"]
    /\ UNCHANGED <<server, shown, flags, line, ghosts>>

-----------------------------------------------------------------------------
(* useDatasourceSyncJob: what its async functions do with the answers. *)

reset ==
    /\ SetJob(NoJob) /\ timer' = 0 /\ dialog' = FALSE /\ error' = FALSE
    /\ cancelling' = FALSE

\* startTracking shows the job and awaits its first poll.
startTracking(c, j) ==
    /\ dialog' = TRUE /\ error' = FALSE /\ timer' = 0
    /\ SetJob(Merged(j))
    /\ Awaits(c, calls[c].for, "poll", j)
    /\ UNCHANGED flags

\* The answer of a poll about another job than the one shown is ignored.
OtherJobShown(c) == job # NoJob /\ job.id # calls[c].job

\* Mutant: a poll that fails stops the polling and says nothing.
PollQuietly(c) ==
    /\ calls[c].await = "poll"
    /\ IF calls[c].got = "lost" THEN
         timer' = 0 /\ UNCHANGED <<error, job, told>>
       ELSE IF OtherJobShown(c) THEN UNCHANGED <<timer, error, job, told>>
       ELSE /\ error' = FALSE
            /\ SetJob(Detail(calls[c].job, calls[c].got))
            /\ timer' = IF calls[c].got = "active" THEN calls[c].job ELSE 0
    /\ Returns(c)
    /\ UNCHANGED <<dialog, cancelling, asking, mounted>>

\* Mutant: the polling is stopped before the answer is recognised as another job's.
PollStopsFirst(c) ==
    /\ calls[c].await = "poll"
    /\ IF calls[c].got = "lost" THEN
         timer' = 0 /\ error' = TRUE /\ UNCHANGED <<job, told>>
       ELSE IF OtherJobShown(c) THEN timer' = 0 /\ UNCHANGED <<error, job, told>>
       ELSE /\ error' = FALSE
            /\ SetJob(Detail(calls[c].job, calls[c].got))
            /\ timer' = IF calls[c].got = "active" THEN calls[c].job ELSE 0
    /\ Returns(c)
    /\ UNCHANGED <<dialog, cancelling, asking, mounted>>

pollJob(c) ==
    /\ calls[c].await = "poll"
    /\ IF calls[c].got = "lost" THEN
         timer' = 0 /\ error' = TRUE /\ UNCHANGED <<job, told>>
       ELSE IF OtherJobShown(c) THEN UNCHANGED <<timer, error, job, told>>
       ELSE /\ error' = FALSE
            /\ SetJob(Detail(calls[c].job, calls[c].got))
            /\ timer' = IF calls[c].got = "active" THEN calls[c].job ELSE 0
    /\ Returns(c)
    /\ UNCHANGED <<dialog, cancelling, asking, mounted>>

\* Mutant: an empty answer of the list is tracked.
RestoreWhatever(c) ==
    /\ calls[c].await = "list"
    /\ \/ /\ calls[c].got = "active" /\ startTracking(c, calls[c].job)
       \/ /\ calls[c].got = "none" /\ startTracking(c, 0)
       \/ /\ calls[c].got = "lost"
          /\ error' = TRUE
          /\ Returns(c) /\ UNCHANGED <<job, told, dialog, timer, cancelling, asking, mounted>>

restoreLatestJob(c) ==
    /\ calls[c].await = "list"
    /\ \/ /\ calls[c].got = "active" /\ startTracking(c, calls[c].job)
       \/ /\ calls[c].got = "none"
          /\ SetJob(NoJob) /\ dialog' = FALSE /\ error' = FALSE /\ timer' = 0
          /\ Returns(c) /\ UNCHANGED <<cancelling, asking, mounted>>
       \/ /\ calls[c].got = "lost"
          /\ error' = TRUE
          /\ Returns(c) /\ UNCHANGED <<job, told, dialog, timer, cancelling, asking, mounted>>

\* Mutant: a refused cancellation stops the polling, too.
CancelStops(c) ==
    /\ calls[c].await = "cancel"
    /\ IF calls[c].got = "cancelled"
         THEN error' = FALSE /\ timer' = 0 /\ SetJob(Detail(calls[c].job, "cancelled"))
         ELSE error' = TRUE /\ timer' = 0 /\ UNCHANGED <<job, told>>
    /\ cancelling' = FALSE
    /\ calls' = [calls EXCEPT ![c] = Idle]
    /\ UNCHANGED <<dialog, restoring, saving, asking, mounted>>

cancelJob(c) ==
    /\ calls[c].await = "cancel"
    /\ IF calls[c].got = "cancelled"
         THEN error' = FALSE /\ timer' = 0 /\ SetJob(Detail(calls[c].job, "cancelled"))
         ELSE error' = TRUE /\ UNCHANGED <<timer, job, told>>
    /\ cancelling' = FALSE
    /\ calls' = [calls EXCEPT ![c] = Idle]
    /\ UNCHANGED <<dialog, restoring, saving, asking, mounted>>

\* submitJob has answered: follow the job, fall back to the legacy save when
\* the selection is small, or show the error and leave everything as it is.
saveTableSelection(c) ==
    /\ calls[c].await = "submit"
    /\ \/ calls[c].got = "active" /\ startTracking(c, calls[c].job)
       \/ /\ calls[c].got = "small"
          /\ Awaits(c, "save", "choose", 0)
          /\ UNCHANGED <<shown, flags>>
       \/ /\ calls[c].got = "lost"
          /\ Returns(c) /\ UNCHANGED <<shown, cancelling, asking, mounted>>

\* The legacy save has answered: the form closes itself.
Chosen(c) ==
    /\ calls[c].await = "choose"
    /\ calls' = [calls EXCEPT ![c] = Idle]
    /\ saving' = FALSE
    /\ IF calls[c].got = "lost"
         THEN UNCHANGED <<shown, restoring, cancelling>>
         ELSE reset /\ restoring' = FALSE
    /\ UNCHANGED <<asking, mounted>>

Receive(c) ==
    /\ calls[c].got \notin {"nothing", "waiting"}
    /\ IF Promised("prompt") /\ calls[c].got # "lost"
         THEN line # <<>> /\ Head(line) = c /\ line' = Tail(line)
         ELSE UNCHANGED line
    /\ pollJob(c) \/ restoreLatestJob(c) \/ cancelJob(c) \/ saveTableSelection(c) \/ Chosen(c)
    /\ UNCHANGED <<server, ghosts>>

\* The timeout of schedulePoll.
Timeout ==
    /\ timer # 0
    /\ Begins("timer", "poll", timer)
    /\ timer' = 0
    /\ UNCHANGED <<server, job, dialog, error, told, flags, line, ghosts>>

-----------------------------------------------------------------------------
(* The user; the dialog and the confirmation are modal. *)

\* Mutant: neither the dialog nor the confirmation is modal.
OnFormAnyhow == mounted /\ MayAct
OnForm == mounted /\ ~dialog /\ asking = 0 /\ MayAct

\* initForm for the selection of tables.
initForm ==
    /\ OnForm /\ Spends
    /\ reset
    /\ restoring' = TRUE
    /\ Begins("restore", "list", 0)
    /\ UNCHANGED <<server, saving, asking, mounted, line, cancelled>>

\* The button of the drawer is never disabled, the one of the form is.
save ==
    /\ OnForm /\ Spends
    /\ Promised("patient") => canSaveTableSelection
    /\ saving' = TRUE
    /\ Begins("save", "submit", 0)
    /\ UNCHANGED <<server, shown, restoring, cancelling, asking, mounted, line, cancelled>>

close ==
    /\ OnForm
    /\ reset
    /\ restoring' = FALSE /\ saving' = FALSE
    /\ UNCHANGED <<server, calls, asking, mounted, line, ghosts>>

\* Mutant: the timeout outlives the component.
LeaveOpen ==
    /\ OnForm
    /\ mounted' = FALSE /\ UNCHANGED timer
    /\ UNCHANGED <<server, job, dialog, error, told, restoring, cancelling, saving, asking,
                   calls, line, ghosts>>

\* onBeforeUnmount.
Leave ==
    /\ OnForm
    /\ mounted' = FALSE /\ timer' = 0
    /\ UNCHANGED <<server, job, dialog, error, told, restoring, cancelling, saving, asking,
                   calls, line, ghosts>>

handleSyncJobDialogBeforeClose ==
    /\ dialog /\ asking = 0 /\ canCloseSyncJobDialog
    /\ dialog' = FALSE
    /\ UNCHANGED <<server, job, error, timer, told, flags, calls, line, ghosts>>

\* cancelSyncJob up to its confirmation; the button is there for an active job.
cancelSyncJob ==
    /\ dialog /\ asking = 0 /\ isActive /\ ~cancelling
    /\ Spends
    /\ asking' = job.id
    /\ UNCHANGED <<server, shown, restoring, cancelling, saving, mounted, calls, line, cancelled>>

\* After the confirmation cancelJob looks at the job shown by then.
Confirmed ==
    /\ asking # 0 /\ asking' = 0
    /\ IF job = NoJob \/ cancelling THEN UNCHANGED <<cancelling, calls, cancelled>>
       ELSE /\ cancelling' = TRUE
            /\ Begins("cancel", "cancel", job.id)
            /\ cancelled' = cancelled \union ({job.id} \ {asking})
    /\ UNCHANGED <<server, shown, restoring, saving, mounted, line, budget, world>>

Declined ==
    /\ asking # 0 /\ asking' = 0
    /\ UNCHANGED <<server, shown, restoring, cancelling, saving, mounted, calls, line, ghosts>>

User == \/ initForm \/ save \/ close \/ Leave
        \/ handleSyncJobDialogBeforeClose \/ cancelSyncJob \/ Confirmed \/ Declined

-----------------------------------------------------------------------------
\* The drawer has just opened and the form looks for a job that runs already.
Init ==
    /\ status \in {[j \in Job |-> "none"], [j \in Job |-> IF j = 1 THEN "active" ELSE "none"]}
    /\ job = NoJob /\ dialog = FALSE /\ error = FALSE /\ timer = 0
    /\ told = [j \in Job |-> 0]
    /\ restoring = TRUE /\ cancelling = FALSE /\ saving = FALSE /\ asking = 0
    /\ mounted = TRUE
    /\ calls = [[c \in Task |-> Idle] EXCEPT ![CHOOSE c \in Task : TRUE] =
                   [for |-> "restore", await |-> "list", job |-> 0, got |-> "waiting"]]
    /\ line = <<>>
    /\ cancelled = {} /\ budget = Budget /\ world \in Worlds

Next ==
    \/ \E j \in Job : EndJob(j) \/ Overwrite(j)
    \/ \E c \in Task : Serve(c) \/ Lose(c) \/ Receive(c)
    \/ Timeout \/ User

\* Jobs end, the back end or the timeout of axios answers, and the browser runs
\* timers and callbacks; nobody has to open, save, close or cancel.
Fairness ==
    /\ \A j \in Job : WF_vars(EndJob(j))
    /\ \A c \in Task : WF_vars(Serve(c)) /\ WF_vars(Receive(c))
    /\ WF_vars(Timeout)

Spec == Init /\ [][Next]_vars /\ Fairness
=============================================================================
