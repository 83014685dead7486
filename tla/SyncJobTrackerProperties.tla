----------------------- MODULE SyncJobTrackerProperties -----------------------
(***************************************************************************)
(* What the form promises about the job it follows.                        *)
(***************************************************************************)
EXTENDS SyncJobTracker

Shown == {NoJob} \union [id : Job, status : {"active"} \union Terminal, details : {0} \union Job]
Call == [for : {"restore", "save", "timer", "cancel"},
         await : {"poll", "list", "submit", "choose", "cancel"}, job : {0} \union Job,
         got : Status \union {"waiting", "lost", "small", "refused"}]

\* The type invariant.
TypeOK ==
    /\ status \in [Job -> Status]
    /\ job \in Shown
    /\ dialog \in BOOLEAN /\ error \in BOOLEAN /\ timer \in {0} \union Job
    /\ restoring \in BOOLEAN /\ cancelling \in BOOLEAN /\ saving \in BOOLEAN
    /\ asking \in {0} \union Job /\ mounted \in BOOLEAN
    /\ calls \in [Task -> {Idle} \union Call]
    /\ line \in Seq(Task)
    /\ told \in [Job -> 0 .. 2] /\ cancelled \subseteq Job
    /\ budget \in 0 .. Budget /\ world \in Worlds

\* While the form shows a running job, somebody is going to ask for its status
\* again or the form says that a request failed: no order of late answers,
\* second saves and cancellations leaves it showing progress for ever.
NeverSilent ==
    mounted /\ isActive => \/ error \/ timer = job.id
                           \/ \E c \in Polls : calls[c].job = job.id

\* The end the form shows is the end of the job, if that is final, and once the
\* first poll is answered the counts and errors shown next to it are its own.
ShownIsOfTheJob ==
    /\ Promised("settled") /\ job.status \in Terminal => status[job.id] = job.status
    /\ job.details \notin {0, job.id} =>
           error \/ \E c \in Polls : calls[c].for \in {"save", "restore"}

\* When answers keep their order and the user does not hurry, the end of a job
\* is announced once, whichever of the poll and the cancellation brings it.
ToldOnce == {"prompt", "patient", "settled"} \subseteq world => \A j \in Job : told[j] <= 1

\* A patient user cancels the job the confirmation was about.
CancelsWhatWasAsked == Promised("patient") => cancelled = {}

\* On a reliable network, a form that has answered a patient user and shows no
\* job has forgotten none: nothing of it runs on the back end, where a job that
\* has ended is not revived.
NothingForgotten ==
    /\ {"settled", "patient", "reliable"} \subseteq world
    /\ Free = Task /\ job = NoJob
    => ActiveJobs = {}

\* After a patient user has left, nothing is polled any more.
QuietAfterLeave == Promised("patient") /\ ~mounted => timer = 0 /\ Free = Task

\* What this browser and the back end do to the jobs is what the rows of a
\* datasource may do (SyncJob implements the same JobRows).
Rows == INSTANCE JobRows WITH rows <- status

RowsSpec == Rows!Spec

\* The dialog of a running job cannot be closed; however requests are lost and
\* reordered, it becomes possible again.
NotTrapped == dialog /\ ~canCloseSyncJobDialog ~> ~dialog \/ canCloseSyncJobDialog

\* On a reliable network a job that a patient user watches ends in a message,
\* unless the user leaves or it is no longer the one shown.
EndTold ==
    \A j \in Job :
        ({"patient", "reliable"} \subseteq world /\ isActive /\ job.id = j)
            ~> (told[j] > 0 \/ job.id # j \/ ~mounted)
=============================================================================
