------------------------- MODULE SyncJobTrackerProofs -------------------------
(***************************************************************************)
(* Proofs, for any number of jobs, requests under way and clicks, of what  *)
(* the form promises about the job it follows, each in the worlds that the *)
(* property names.                                                         *)
(***************************************************************************)
EXTENDS SyncJobTrackerProperties, FiniteSetTheorems, SequenceTheorems, TLAPS

-----------------------------------------------------------------------------
(* The inductive invariant. *)

Exists(j) == j \in Job /\ status[j] # "none"

\* What an async function may have asked, and what it may have been answered.
Asks(c) ==
    /\ calls[c].await = "nothing" => calls[c] = Idle
    /\ calls[c].await \in {"list", "submit"} => calls[c].for \in {"restore", "save"}
    /\ calls[c].await = "poll" =>
           Exists(calls[c].job) /\ calls[c].got \in {"waiting", "lost", "active"} \union Terminal
    /\ calls[c].await = "list" => calls[c].got \in {"waiting", "lost", "none", "active"}
    /\ calls[c].await = "submit" => calls[c].got \in {"waiting", "lost", "small", "active"}
    /\ calls[c].await = "choose" => calls[c].got \in {"waiting", "lost", "none"}
    /\ calls[c].await = "cancel" =>
           Exists(calls[c].job) /\ calls[c].got \in {"waiting", "lost", "refused", "cancelled"}
    /\ calls[c].got = "active" => Exists(calls[c].job)

\* Whatever is shown, polled or asked about is a job of the back end.
Real ==
    /\ job # NoJob => Exists(job.id)
    /\ timer # 0 => Exists(timer)
    /\ \A c \in Task : Asks(c)
    /\ \A j, k \in ActiveJobs : j = k

\* The details are those of another job only until a poll under way returns.
DetailsPending ==
    job.details \notin {0, job.id} =>
        error \/ \E c \in Polls : calls[c].for \in {"save", "restore"} /\ calls[c].job = job.id

\* The requests of a patient user: one about the selection alone, or those about
\* the job that is shown.
Selecting(c) == calls[c].await \in {"list", "submit", "choose"}
Following(c) == calls[c].await \in {"poll", "cancel"}
OneAffair ==
    Promised("patient") =>
        /\ \A c \in Task : Selecting(c) =>
               timer = 0 /\ ~dialog /\ asking = 0 /\ \A d \in Task \ {c} : calls[d] = Idle
        /\ \A c \in Task : Following(c) => job.id = calls[c].job
        /\ timer # 0 => isActive /\ job.id = timer
        /\ asking # 0 => dialog /\ job.id = asking
        /\ ~mounted => timer = 0 /\ ~dialog /\ asking = 0 /\ Free = Task
        /\ cancelled = {}

\* Where a job that has ended stays so, its end is known only as it is.
EndsAreTrue ==
    Promised("settled") =>
        /\ job.status \in Terminal => status[job.id] = job.status
        /\ \A c \in Task :
               /\ calls[c].got \in Terminal => status[calls[c].job] = calls[c].got
               /\ calls[c].got = "refused" => status[calls[c].job] \in Terminal

\* The answers that have arrived wait in line, and none says that a job is active
\* after one that says how it ended.
Answered(c) == calls[c].got \notin {"nothing", "waiting", "lost"}
InLine ==
    Promised("prompt") =>
        /\ \A n \in DOMAIN line : Answered(line[n])
        /\ \A c \in Task : Answered(c) => \E n \in DOMAIN line : line[n] = c
        /\ \A m, n \in DOMAIN line : line[m] = line[n] => m = n
LateNews ==
    {"prompt", "settled"} \subseteq world =>
        \A m, n \in DOMAIN line :
            m < n /\ calls[line[m]].got \in Terminal /\ calls[line[m]].job = calls[line[n]].job
            => calls[line[n]].got # "active"

\* A job whose end was announced is not heard of as active again.
Announced ==
    {"prompt", "patient", "settled"} \subseteq world =>
        \A j \in Job : told[j] # 0 =>
            /\ told[j] = 1
            /\ status[j] \in Terminal
            /\ \A c \in Task : ~(calls[c].got = "active" /\ calls[c].job = j)
            /\ job.id = j => job.status \in Terminal

\* An active job is shown, or the form is about to hear of it.
Tracked ==
    {"settled", "patient", "reliable"} \subseteq world =>
        /\ \A c \in Task : calls[c].got # "lost"
        /\ \A c \in Task : calls[c].await = "list" /\ calls[c].got = "none" => ActiveJobs = {}
        /\ \A j \in ActiveJobs :
               \/ job.id = j /\ isActive /\ dialog /\ ~error
               \/ \E c \in Task :
                      \/ calls[c].await = "list" /\ calls[c].got = "waiting"
                      \/ Selecting(c) /\ calls[c].got = "active" /\ calls[c].job = j

IInv ==
    /\ TypeOK /\ Real
    /\ NeverSilent /\ DetailsPending
    /\ OneAffair /\ EndsAreTrue
    /\ InLine /\ LateNews /\ Announced
    /\ Tracked

-----------------------------------------------------------------------------
(* What the back end's answers and the requests of the form do to calls. *)

Typed == TypeOK /\ Real

LEMMA Names ==
    /\ Terminal \subseteq {"succeeded", "failed", "partial", "cancelled"}
    /\ "cancelled" \in Terminal /\ Outcome \subseteq Terminal
BY TrackerAssumption DEF Terminal

\* A request begins in a function that is free.
LEMMA OneBegins ==
    ASSUME NEW for, NEW await, NEW j, Begins(for, await, j)
    PROVE  \E c \in Task : calls[c] = Idle /\ Awaits(c, for, await, j)
BY DEF Begins, Free

\* Function c hears g about job j, the others nothing.
Hears(c, g, j) ==
    /\ calls' \in [Task -> {Idle} \union Call]
    /\ calls'[c] # Idle /\ calls'[c].for = calls[c].for /\ calls'[c].await = calls[c].await
    /\ calls'[c].job = j /\ calls'[c].got = g
    /\ \A d \in Task \ {c} : calls'[d] = calls[d]
    /\ line' = IF Promised("prompt") /\ g # "lost" THEN Append(line, c) ELSE line

LEMMA AnswerIsHeard ==
    ASSUME TypeOK, NEW c \in Task, calls[c].await # "nothing", NEW j \in {0} \union Job,
           NEW g \in Status \union {"small", "refused"}, Answer(c, g, j)
    PROVE  Hears(c, g, j) \/ (Hears(c, "lost", j) /\ ~Promised("reliable"))
<1>1. calls \in [Task -> {Idle} \union Call] /\ calls[c] \in Call
  BY DEF TypeOK, Idle
<1>2. PICK h \in Status \union {"small", "refused", "lost"} :
          /\ calls' = [calls EXCEPT ![c] = [calls[c] EXCEPT !.got = h, !.job = j]]
          /\ line' = IF Promised("prompt") /\ h # "lost" THEN Append(line, c) ELSE line
          /\ h # g => h = "lost" /\ ~Promised("reliable")
  <2>1. g # "lost"
    BY Names DEF Status
  <2>2. PICK lost \in IF Promised("reliable") THEN {FALSE} ELSE BOOLEAN :
            /\ calls' = [calls EXCEPT ![c].got = IF lost THEN "lost" ELSE g, ![c].job = j]
            /\ line' = IF Promised("prompt") /\ ~lost THEN Append(line, c) ELSE line
    BY DEF Answer
  <2>3. CASE lost = TRUE
    BY <1>1, <2>2, <2>3
  <2>4. CASE lost = FALSE
    <3>1. calls' = [calls EXCEPT ![c] = [calls[c] EXCEPT !.got = g, !.job = j]]
      BY <1>1, <2>2, <2>4
    <3>2. line' = IF Promised("prompt") /\ g # "lost" THEN Append(line, c) ELSE line
      BY <2>1, <2>2, <2>4
    <3>3. g \in Status \union {"small", "refused", "lost"}
      OBVIOUS
    <3>4. QED
      BY <3>1, <3>2, <3>3
  <2>5. QED
    BY <2>3, <2>4
<1>3. PICK k \in Call : k = [calls[c] EXCEPT !.got = h, !.job = j]
  BY <1>1 DEF Call
<1>4. k.for = calls[c].for /\ k.await = calls[c].await /\ k.job = j /\ k.got = h
  BY <1>1, <1>3 DEF Call
<1>5. k.await # "nothing"
  BY <1>3 DEF Call
<1>6. Hears(c, h, j)
  BY <1>1, <1>2, <1>3, <1>4, <1>5 DEF Hears, Idle
<1>7. QED
  BY <1>2, <1>6

\* What the back end may say, and what it does.
Carries(c, g, j) ==
    \/ /\ calls[c].await = "poll" /\ status' = status
       /\ j = calls[c].job /\ g \in {"lost", status[j]}
    \/ /\ calls[c].await = "list" /\ status' = status
       /\ \/ g = "lost"
          \/ g = "none" /\ ActiveJobs = {}
          \/ g = "active" /\ j \in ActiveJobs
    \/ /\ calls[c].await = "submit"
       /\ \/ g \in {"lost", "small"} /\ status' = status
          \/ g \in {"lost", "active"} /\ j \in ActiveJobs /\ status' = status
          \/ /\ g \in {"lost", "active"} /\ ActiveJobs = {} /\ j \in Job /\ status[j] = "none"
             /\ status' = [status EXCEPT ![j] = "active"]
    \/ /\ calls[c].await = "choose" /\ g \in {"lost", "none"} /\ status' = status
    \/ /\ calls[c].await = "cancel" /\ j = calls[c].job
       /\ \/ /\ g \in {"lost", "cancelled"}
             /\ status[j] = "active" \/ (~Promised("settled") /\ status[j] \in Terminal)
             /\ status' = [status EXCEPT ![j] = "cancelled"]
          \/ g \in {"lost", "refused"} /\ status[j] # "active" /\ status' = status

Serves(c, g, j) ==
    /\ calls[c].got = "waiting" /\ Hears(c, g, j) /\ Carries(c, g, j)
    /\ g = "lost" => ~Promised("reliable")
    /\ UNCHANGED <<shown, flags, ghosts>>

Carried(c) ==
    \E g \in Status \union {"small", "refused", "lost"}, j \in {0} \union Job : Serves(c, g, j)

LEMMA ServeServes ==
    ASSUME Typed, NEW c \in Task, Serve(c)
    PROVE  Carried(c)
<1>0. calls[c].got = "waiting" /\ UNCHANGED <<shown, flags, ghosts>>
  BY DEF Serve
<1>x. ASSUME NEW g \in Status \union {"small", "refused"}, NEW j \in {0} \union Job, Answer(c, g, j),
             calls[c].await # "nothing", Carries(c, g, j), Carries(c, "lost", j)
      PROVE  Carried(c)
  <2>1. g # "lost"
    BY Names DEF Status
  <2>2. CASE Hears(c, g, j)
    BY <1>0, <1>x, <2>1, <2>2 DEF Serves, Carried
  <2>3. CASE Hears(c, "lost", j) /\ ~Promised("reliable")
    <3>1. Serves(c, "lost", j)
      BY <1>0, <1>x, <2>3 DEF Serves
    <3>2. "lost" \in Status \union {"small", "refused", "lost"}
      OBVIOUS
    <3>3. QED
      BY <3>1, <3>2 DEF Carried
  <2>4. TypeOK
    BY DEF Typed
  <2>5. QED
    BY <1>x, <2>2, <2>3, <2>4, AnswerIsHeard
<1>y. \A s \in {"none", "active", "cancelled"} : s \in Status \union {"small", "refused"}
  BY Names DEF Status
<1>1. CASE get_status(c)
  <2>1. calls[c].job \in Job /\ status[calls[c].job] \in Status
    BY <1>1 DEF get_status, Typed, TypeOK, Real, Asks, Exists
  <2>2. PICK j \in Job, g \in Status : j = calls[c].job /\ g = status[j]
    BY <2>1
  <2>3. Answer(c, g, j) /\ Carries(c, g, j) /\ Carries(c, "lost", j) /\ calls[c].await # "nothing"
    BY <1>1, <2>2 DEF get_status, Carries
  <2>4. QED
    BY <1>x, <2>3
<1>2. CASE list_jobs(c)
  <2>1. CASE ActiveJobs = {}
    <3>1. Answer(c, "none", 0) /\ Carries(c, "none", 0) /\ Carries(c, "lost", 0)
          /\ calls[c].await # "nothing"
      BY <1>2, <2>1 DEF list_jobs, Carries
    <3>2. QED
      BY <1>x, <1>y, <3>1
  <2>2. CASE ActiveJobs # {}
    <3>1. PICK j \in ActiveJobs : Answer(c, "active", j)
      BY <1>2, <2>2 DEF list_jobs
    <3>2. Carries(c, "active", j) /\ Carries(c, "lost", j) /\ calls[c].await # "nothing"
      BY <1>2, <3>1 DEF list_jobs, Carries
    <3>3. QED
      BY <1>x, <1>y, <3>1, <3>2 DEF ActiveJobs
  <2>3. QED
    BY <2>1, <2>2
<1>3. CASE submit_sync_job(c)
  <2>0. calls[c].await = "submit"
    BY <1>3 DEF submit_sync_job
  <2>1. CASE Answer(c, "small", 0) /\ UNCHANGED status
    BY <1>x, <2>0, <2>1 DEF Carries
  <2>2. CASE \E j \in ActiveJobs : Answer(c, "active", j) /\ UNCHANGED status
    BY <1>x, <1>y, <2>0, <2>2 DEF Carries, ActiveJobs
  <2>3. ASSUME ActiveJobs = {}, NEW j \in Job, status[j] = "none", Answer(c, "active", j),
               status' = [status EXCEPT ![j] = "active"]
        PROVE  Carried(c)
    BY <1>x, <1>y, <2>0, <2>3 DEF Carries
  <2>4. QED
    BY <1>3, <2>1, <2>2, <2>3 DEF submit_sync_job
<1>4. CASE chooseTables(c)
  BY <1>4, <1>x, <1>y DEF chooseTables, Carries
<1>5. CASE cancel_job(c)
  <2>1. PICK j \in Job : j = calls[c].job
    BY <1>5 DEF cancel_job, Typed, Real, Asks, Exists
  <2>2. ASSUME status[j] = "active" \/ (~Promised("settled") /\ status[j] \in Terminal),
               Answer(c, "cancelled", j), status' = [status EXCEPT ![j] = "cancelled"]
        PROVE  Carried(c)
    <3>1. Carries(c, "cancelled", j) /\ Carries(c, "lost", j) /\ calls[c].await # "nothing"
      BY <1>5, <2>1, <2>2 DEF cancel_job, Carries
    <3>2. QED
      BY <1>x, <1>y, <2>2, <3>1
  <2>3. ASSUME status[j] # "active", Answer(c, "refused", j), UNCHANGED status
        PROVE  Carried(c)
    <3>1. Carries(c, "refused", j) /\ Carries(c, "lost", j) /\ calls[c].await # "nothing"
      BY <1>5, <2>1, <2>3 DEF cancel_job, Carries
    <3>2. QED
      BY <1>x, <2>3, <3>1
  <2>4. QED
    BY <1>5, <2>1, <2>2, <2>3 DEF cancel_job
<1>6. QED
  BY <1>1, <1>2, <1>3, <1>4, <1>5 DEF Serve

-----------------------------------------------------------------------------
(* Types, and jobs that exist. *)

\* The end of a job is announced for the job it is.
LEMMA TellsOne ==
    ASSUME TypeOK, NEW new, new = NoJob \/ new.id \in Job, SetJob(new)
    PROVE  told' \in [Job -> 0 .. 2]
BY Names DEF TypeOK, SetJob, notifySyncJobTerminalState, NoJob

\* What the rows do when no request is served.
RowsOnly == UNCHANGED <<shown, flags, calls, line, cancelled, world>> /\ budget' \in 0 .. Budget

LEMMA RowsType ==
    ASSUME Typed, NEW j \in Job, EndJob(j) \/ Overwrite(j)
    PROVE  RowsOnly /\ Typed'
<1>1. RowsOnly
  BY TrackerAssumption DEF EndJob, Overwrite, Spends, Typed, TypeOK, RowsOnly, ghosts
<1>2. \E s \in Terminal \union {"active"} : status' = [status EXCEPT ![j] = s]
  BY Names DEF EndJob, Overwrite
<1>3. /\ status' \in [Job -> Status]
      /\ \A k \in Job : status[k] # "none" => status'[k] # "none"
  BY <1>2, Names DEF Typed, TypeOK, Status
<1>4. \A k, l \in ActiveJobs' : k = l
  BY Names DEF EndJob, Overwrite, ActiveJobs, Typed, TypeOK, Real
<1>5. TypeOK'
  BY <1>1, <1>3 DEF RowsOnly, Typed, TypeOK, shown, flags
<1>6. \A c \in Task : Asks(c)'
  BY <1>1, <1>3 DEF RowsOnly, Typed, Real, Asks, Exists
<1>7. QED
  BY <1>1, <1>3, <1>4, <1>5, <1>6 DEF RowsOnly, Typed, Real, Exists, shown

\* An answer leaves every job where it is, or makes the first one there is.
LEMMA CarriesRows ==
    ASSUME Typed, NEW c \in Task, NEW g, NEW j, Carries(c, g, j)
    PROVE  /\ status' \in [Job -> Status]
           /\ \A k \in Job : status[k] # "none" => status'[k] # "none"
           /\ \A k, l \in ActiveJobs' : k = l
BY Names DEF Carries, Typed, TypeOK, Real, Asks, Exists, ActiveJobs, Status

LEMMA ServeType ==
    ASSUME Typed, NEW c \in Task, Serve(c)
    PROVE  Typed'
<1>1. PICK g \in Status \union {"small", "refused", "lost"}, j \in {0} \union Job : Serves(c, g, j)
  BY ServeServes DEF Carried
<1>2. /\ status' \in [Job -> Status]
      /\ \A k \in Job : status[k] # "none" => status'[k] # "none"
      /\ \A k, l \in ActiveJobs' : k = l
  BY <1>1, CarriesRows DEF Serves
<1>3. line' \in Seq(Task)
  BY <1>1 DEF Serves, Hears, Typed, TypeOK
<1>4. TypeOK'
  BY <1>1, <1>2, <1>3 DEF Serves, Hears, Typed, TypeOK, shown, flags, ghosts
<1>5. Asks(c)'
  <2>1. calls[c].await # "nothing" /\ Asks(c)
    BY <1>1 DEF Serves, Carries, Typed, Real
  <2>2. calls'[c].for = calls[c].for /\ calls'[c].await = calls[c].await /\ calls'[c].job = j /\ calls'[c].got = g /\ calls'[c] # Idle
    BY <1>1 DEF Serves, Hears
  <2>3. g = "active" => Exists(j)'
    BY <1>1, <1>2, <2>1, Names DEF Serves, Carries, Asks, Exists, ActiveJobs, Typed, TypeOK, Job
  <2>4. Following(c) => Exists(j)'
    BY <1>1, <1>2, <2>1 DEF Serves, Carries, Asks, Exists, Following
  <2>5. calls[c].await = "poll" => g \in {"lost", "active"} \union Terminal
    BY <1>1, <2>1 DEF Serves, Carries, Asks, Exists, Typed, TypeOK, Status
  <2>6. QED
    BY <1>1, <2>1, <2>2, <2>3, <2>4, <2>5 DEF Serves, Carries, Asks, Following
<1>6. \A d \in Task \ {c} : Asks(d)'
  BY <1>1, <1>2 DEF Serves, Hears, Typed, Real, Asks, Exists
<1>7. Real'
  BY <1>1, <1>2, <1>5, <1>6 DEF Serves, Typed, Real, Exists, shown
<1>8. QED
  BY <1>4, <1>7 DEF Typed

LEMMA LoseType ==
    ASSUME Typed, NEW c \in Task, Lose(c)
    PROVE  Typed'
<1>1. calls[c] \in Call /\ Asks(c) /\ calls[c] # Idle
  BY DEF Lose, Typed, TypeOK, Idle, Real
<1>2. PICK k \in Call : k = [calls[c] EXCEPT !.got = "lost"]
  BY <1>1 DEF Call
<1>3. k.for = calls[c].for /\ k.await = calls[c].await /\ k.job = calls[c].job /\ k.got = "lost" /\ k # Idle
  BY <1>1, <1>2 DEF Call, Idle
<1>4. calls' = [calls EXCEPT ![c] = k] /\ UNCHANGED <<server, shown, flags, line, ghosts>>
  BY <1>2 DEF Lose
<1>5. TypeOK'
  BY <1>4 DEF Typed, TypeOK, server, shown, flags, ghosts
<1>6. \A d \in Task : Asks(d)'
  BY <1>1, <1>3, <1>4, Names DEF Typed, TypeOK, Real, Asks, Exists, server
<1>7. QED
  BY <1>4, <1>5, <1>6 DEF Typed, Real, Exists, ActiveJobs, server, shown

\* A function that asks something new.
LEMMA AwaitsType ==
    ASSUME Typed, NEW c \in Task, NEW for \in {"restore", "save", "timer", "cancel"},
           NEW await \in {"poll", "list", "submit", "choose", "cancel"}, NEW j \in {0} \union Job,
           await \in {"poll", "cancel"} => Exists(j),
           await \in {"list", "submit"} => for \in {"restore", "save"},
           Awaits(c, for, await, j), status' = status
    PROVE  calls' \in [Task -> {Idle} \union Call] /\ \A d \in Task : Asks(d)'
<1>1. PICK k \in Call : k = [for |-> for, await |-> await, job |-> j, got |-> "waiting"]
  BY DEF Call
<1>2. calls' = [calls EXCEPT ![c] = k] /\ k.for = for /\ k.await = await /\ k.job = j /\ k.got = "waiting"
  BY <1>1 DEF Awaits
<1>3. calls' \in [Task -> {Idle} \union Call]
  BY <1>2 DEF Typed, TypeOK
<1>4. Asks(c)'
  BY <1>2 DEF Asks, Exists, Typed, TypeOK
<1>5. \A d \in Task \ {c} : Asks(d)'
  BY <1>2 DEF Asks, Exists, Typed, TypeOK, Real
<1>6. QED
  BY <1>3, <1>4, <1>5

\* One that has returned.
LEMMA IdleType ==
    ASSUME Typed, NEW c \in Task, calls' = [calls EXCEPT ![c] = Idle], status' = status
    PROVE  calls' \in [Task -> {Idle} \union Call] /\ \A d \in Task : Asks(d)'
<1>1. calls' \in [Task -> {Idle} \union Call]
  BY DEF Typed, TypeOK
<1>2. Asks(c)'
  BY Names DEF Asks, Idle, Typed, TypeOK
<1>3. \A d \in Task \ {c} : Asks(d)'
  BY DEF Asks, Exists, Typed, TypeOK, Real
<1>4. QED
  BY <1>1, <1>2, <1>3

\* The rows of one job with the details of another are no stranger than the job.
LEMMA ShownTypes ==
    /\ NoJob \in Shown
    /\ \A j \in Job, s \in {"active"} \union Terminal : Detail(j, s) \in Shown
    /\ \A j \in Job : TypeOK => Merged(j) \in Shown
BY DEF Shown, NoJob, Detail, Merged, TypeOK

LEMMA StartType ==
    ASSUME Typed, NEW c \in Task, NEW j, Exists(j), calls[c] # Idle, startTracking(c, j),
           status' = status, line' \in Seq(Task), UNCHANGED ghosts
    PROVE  Typed'
<1>0. calls[c].for \in {"restore", "save", "timer", "cancel"} /\ j \in Job
  BY DEF Typed, TypeOK, Call, Exists
<1>1. calls' \in [Task -> {Idle} \union Call] /\ \A d \in Task : Asks(d)'
  BY <1>0, AwaitsType DEF startTracking
<1>2. job' = Merged(j) /\ job' \in Shown
  BY <1>0, ShownTypes DEF startTracking, SetJob, Typed
<1>3. told' \in [Job -> 0 .. 2]
  BY <1>0, TellsOne DEF startTracking, Merged, Typed
<1>4. TypeOK'
  BY <1>1, <1>2, <1>3 DEF Typed, TypeOK, startTracking, flags, ghosts
<1>5. QED
  BY <1>1, <1>2, <1>4 DEF Typed, Real, startTracking, Merged, Exists, ActiveJobs, NoJob

LEMMA ResetType ==
    ASSUME Typed, reset
    PROVE  /\ job' = NoJob /\ job' \in Shown /\ told' = told
           /\ timer' = 0 /\ ~dialog' /\ ~error' /\ ~cancelling'
BY ShownTypes, Names DEF reset, SetJob, notifySyncJobTerminalState, NoJob

LEMMA ReceiveType ==
    ASSUME Typed, NEW c \in Task, Receive(c)
    PROVE  Typed'
<1>0. /\ calls[c] # Idle /\ Asks(c) /\ calls[c].got \notin {"nothing", "waiting"}
      /\ status' = status /\ UNCHANGED ghosts /\ line' \in Seq(Task)
  <2>1. calls[c] # Idle /\ Asks(c) /\ calls[c].got \notin {"nothing", "waiting"}
    BY DEF Receive, Idle, Typed, Real
  <2>2. line \in Seq(Task) /\ (line # <<>> => Tail(line) \in Seq(Task))
    BY HeadTailProperties DEF Typed, TypeOK
  <2>3. QED
    BY <2>1, <2>2 DEF Receive, server
<1>i. ASSUME calls' = [calls EXCEPT ![c] = Idle],
             job' = job \/ job' = NoJob \/ (job' \in Shown /\ Exists(job'.id)),
             told' \in [Job -> 0 .. 2], dialog' \in BOOLEAN, error' \in BOOLEAN,
             timer' = timer \/ timer' = 0 \/ Exists(timer'),
             restoring' \in BOOLEAN, cancelling' \in BOOLEAN, saving' \in BOOLEAN,
             UNCHANGED <<asking, mounted>>
      PROVE  Typed'
  <2>1. calls' \in [Task -> {Idle} \union Call] /\ \A d \in Task : Asks(d)'
    BY <1>0, <1>i, IdleType
  <2>2. TypeOK'
    BY <1>0, <1>i, <2>1, ShownTypes DEF Typed, TypeOK, ghosts, Exists
  <2>3. QED
    BY <1>0, <1>i, <2>1, <2>2 DEF Typed, Real, Exists, ActiveJobs
<1>1. CASE pollJob(c)
  <2>1. Exists(calls[c].job) /\ calls[c].got \in {"lost", "active"} \union Terminal
    BY <1>0, <1>1 DEF pollJob, Asks
  <2>2. calls[c].got # "lost" => Detail(calls[c].job, calls[c].got) \in Shown
    BY <2>1, ShownTypes DEF Exists
  <2>3. CASE UNCHANGED <<job, told>>
    BY <1>i, <1>1, <2>1, <2>3 DEF pollJob, Returns, Typed, TypeOK
  <2>4. CASE calls[c].got # "lost" /\ SetJob(Detail(calls[c].job, calls[c].got))
    <3>1. told' \in [Job -> 0 .. 2]
      BY <2>1, <2>4, TellsOne DEF Typed, Detail, Exists
    <3>2. job' \in Shown /\ Exists(job'.id)
      BY <2>1, <2>2, <2>4 DEF SetJob, Detail
    <3>3. QED
      BY <1>i, <1>1, <2>1, <3>1, <3>2 DEF pollJob, Returns, Typed, TypeOK
  <2>5. QED
    BY <1>1, <2>3, <2>4 DEF pollJob
<1>2. CASE restoreLatestJob(c)
  <2>1. CASE calls[c].got = "active" /\ startTracking(c, calls[c].job)
    BY <1>0, <2>1, StartType DEF Asks
  <2>2. CASE calls[c].got # "active"
    <3>1. told' \in [Job -> 0 .. 2] /\ (job' = job \/ job' = NoJob)
      BY <1>2, <2>2, TellsOne DEF restoreLatestJob, SetJob, Typed, TypeOK
    <3>2. QED
      BY <1>i, <1>2, <2>2, <3>1 DEF restoreLatestJob, Returns, Typed, TypeOK
  <2>3. QED
    BY <1>2, <2>1, <2>2 DEF restoreLatestJob
<1>3. CASE cancelJob(c)
  <2>1. Exists(calls[c].job)
    BY <1>0, <1>3 DEF cancelJob, Asks
  <2>2. Detail(calls[c].job, "cancelled") \in Shown
    BY <2>1, ShownTypes, Names DEF Exists
  <2>3. CASE calls[c].got = "cancelled"
    <3>1. told' \in [Job -> 0 .. 2]
      BY <1>3, <2>1, <2>3, TellsOne DEF cancelJob, Typed, Detail, Exists
    <3>2. job' \in Shown /\ Exists(job'.id)
      BY <1>3, <2>1, <2>2, <2>3 DEF cancelJob, SetJob, Detail
    <3>3. QED
      BY <1>i, <1>3, <2>3, <3>1, <3>2 DEF cancelJob, Typed, TypeOK
  <2>4. CASE calls[c].got # "cancelled"
    BY <1>i, <1>3, <2>4 DEF cancelJob, Typed, TypeOK
  <2>5. QED
    BY <2>3, <2>4
<1>4. CASE saveTableSelection(c)
  <2>1. CASE calls[c].got = "active" /\ startTracking(c, calls[c].job)
    BY <1>0, <2>1, StartType DEF Asks
  <2>2. CASE Awaits(c, "save", "choose", 0) /\ UNCHANGED <<shown, flags>>
    <3>1. calls' \in [Task -> {Idle} \union Call] /\ \A d \in Task : Asks(d)'
      BY <1>0, <2>2, AwaitsType
    <3>2. TypeOK'
      BY <1>0, <2>2, <3>1 DEF Typed, TypeOK, shown, flags, ghosts
    <3>3. QED
      BY <1>0, <2>2, <3>1, <3>2 DEF Typed, Real, Exists, ActiveJobs, shown
  <2>3. CASE calls[c].got = "lost" /\ Returns(c) /\ UNCHANGED <<shown, cancelling, asking, mounted>>
    BY <1>i, <2>3 DEF Returns, Typed, TypeOK, shown
  <2>4. QED
    BY <1>4, <2>1, <2>2, <2>3 DEF saveTableSelection
<1>5. CASE Chosen(c)
  <2>1. CASE calls[c].got = "lost"
    BY <1>i, <1>5, <2>1 DEF Chosen, Typed, TypeOK, shown
  <2>2. CASE calls[c].got # "lost"
    <3>1. reset
      BY <1>5, <2>2 DEF Chosen
    <3>2. job' = NoJob /\ told' = told /\ timer' = 0 /\ dialog' = FALSE /\ error' = FALSE /\ cancelling' = FALSE
      BY <3>1, ResetType DEF reset
    <3>3. QED
      BY <1>i, <1>5, <2>2, <3>2 DEF Chosen, Typed, TypeOK
  <2>3. QED
    BY <2>1, <2>2
<1>6. QED
  BY <1>1, <1>2, <1>3, <1>4, <1>5 DEF Receive

\* A timeout or a click sends at most one request and changes no row.
LEMMA SpendsType ==
    ASSUME TypeOK, Spends
    PROVE  budget' \in 0 .. Budget /\ world' = world
BY TrackerAssumption DEF TypeOK, Spends

LEMMA TimeoutType ==
    ASSUME Typed, Timeout
    PROVE  Typed'
<1>1. PICK c \in Task : calls[c] = Idle /\ Awaits(c, "timer", "poll", timer)
  BY OneBegins DEF Timeout
<1>2. Exists(timer) /\ timer \in {0} \union Job
  BY DEF Timeout, Typed, Real, TypeOK
<1>3. calls' \in [Task -> {Idle} \union Call] /\ \A d \in Task : Asks(d)'
  BY <1>1, <1>2, AwaitsType DEF Timeout, server
<1>4. QED
  BY <1>3 DEF Timeout, Typed, TypeOK, Real, Exists, ActiveJobs, server, flags, ghosts

LEMMA UserType ==
    ASSUME Typed, User
    PROVE  Typed'
<1> USE DEF ActiveJobs, Exists, server
<1>1. CASE initForm
  <2>1. PICK c \in Task : calls[c] = Idle /\ Awaits(c, "restore", "list", 0)
    BY <1>1, OneBegins DEF initForm
  <2>2. calls' \in [Task -> {Idle} \union Call] /\ \A d \in Task : Asks(d)'
    BY <1>1, <2>1, AwaitsType DEF initForm
  <2>3. /\ job' = NoJob /\ job' \in Shown /\ told' = told
        /\ timer' = 0 /\ dialog' = FALSE /\ error' = FALSE /\ cancelling' = FALSE
    BY <1>1, ResetType DEF initForm, reset
  <2>4. budget' \in 0 .. Budget /\ world' = world
    BY <1>1, SpendsType DEF initForm, Typed
  <2>5. QED
    BY <1>1, <2>2, <2>3, <2>4 DEF initForm, Typed, TypeOK, Real
<1>2. CASE save
  <2>1. PICK c \in Task : calls[c] = Idle /\ Awaits(c, "save", "submit", 0)
    BY <1>2, OneBegins DEF save
  <2>2. calls' \in [Task -> {Idle} \union Call] /\ \A d \in Task : Asks(d)'
    BY <1>2, <2>1, AwaitsType DEF save
  <2>4. budget' \in 0 .. Budget /\ world' = world
    BY <1>2, SpendsType DEF save, Typed
  <2>5. QED
    BY <1>2, <2>2, <2>4 DEF save, Typed, TypeOK, Real, shown
<1>3. CASE close
  <2>3. /\ job' = NoJob /\ job' \in Shown /\ told' = told
        /\ timer' = 0 /\ dialog' = FALSE /\ error' = FALSE /\ cancelling' = FALSE
    BY <1>3, ResetType DEF close, reset
  <2>4. \A d \in Task : Asks(d)'
    BY <1>3 DEF close, Asks, Typed, Real
  <2>5. QED
    BY <1>3, <2>3, <2>4 DEF close, Typed, TypeOK, Real, ghosts
<1>4. CASE Leave
  <2>4. \A d \in Task : Asks(d)'
    BY <1>4 DEF Leave, Asks, Typed, Real
  <2>5. QED
    BY <1>4, <2>4 DEF Leave, Typed, TypeOK, Real, ghosts
<1>5. CASE handleSyncJobDialogBeforeClose
  <2>4. \A d \in Task : Asks(d)'
    BY <1>5 DEF handleSyncJobDialogBeforeClose, Asks, Typed, Real
  <2>5. QED
    BY <1>5, <2>4 DEF handleSyncJobDialogBeforeClose, Typed, TypeOK, Real, ghosts, flags
<1>6. CASE cancelSyncJob
  <2>1. \A d \in Task : Asks(d)'
    BY <1>6 DEF cancelSyncJob, Asks, Typed, Real
  <2>2. job.id \in Job
    BY <1>6 DEF cancelSyncJob, isActive, Typed, TypeOK, Real, NoJob
  <2>4. budget' \in 0 .. Budget /\ world' = world
    BY <1>6, SpendsType DEF cancelSyncJob, Typed
  <2>5. QED
    BY <1>6, <2>1, <2>2, <2>4 DEF cancelSyncJob, Typed, TypeOK, Real, shown
<1>7. CASE Confirmed
  <2>1. CASE UNCHANGED <<cancelling, calls, cancelled>>
    <3>1. \A d \in Task : Asks(d)'
      BY <1>7, <2>1 DEF Confirmed, Asks, Typed, Real
    <3>2. QED
      BY <1>7, <2>1, <3>1 DEF Confirmed, Typed, TypeOK, Real, shown
  <2>2. CASE job # NoJob /\ ~cancelling /\ Begins("cancel", "cancel", job.id)
    <3>1. PICK c \in Task : calls[c] = Idle /\ Awaits(c, "cancel", "cancel", job.id)
      BY <2>2, OneBegins
    <3>2. Exists(job.id)
      BY <2>2 DEF Typed, Real
    <3>3. calls' \in [Task -> {Idle} \union Call] /\ \A d \in Task : Asks(d)'
      BY <1>7, <3>1, <3>2, AwaitsType DEF Confirmed
    <3>4. cancelled' \subseteq Job /\ cancelling' = TRUE
      BY <1>7, <2>2, <3>2 DEF Confirmed, Typed, TypeOK
    <3>5. QED
      BY <1>7, <3>3, <3>4 DEF Confirmed, Typed, TypeOK, Real, shown
  <2>3. QED
    BY <1>7, <2>1, <2>2 DEF Confirmed
<1>8. CASE Declined
  <2>4. \A d \in Task : Asks(d)'
    BY <1>8 DEF Declined, Asks, Typed, Real
  <2>5. QED
    BY <1>8, <2>4 DEF Declined, Typed, TypeOK, Real, ghosts, shown
<1>9. QED
  BY <1>1, <1>2, <1>3, <1>4, <1>5, <1>6, <1>7, <1>8 DEF User

-----------------------------------------------------------------------------
(* Somebody is going to ask again, and the details will be the job's. *)

Watched == NeverSilent /\ DetailsPending

\* Polls that go on and a job shown as before.
LEMMA StillWatched ==
    ASSUME Typed, Watched, UNCHANGED <<job, error, timer>>, mounted' => mounted,
           \A c \in Polls : c \in Polls' /\ calls'[c].job = calls[c].job /\ calls'[c].for = calls[c].for
    PROVE  Watched'
BY DEF Watched, NeverSilent, DetailsPending, isActive

\* Nothing active, and nothing shown but one's own details.
LEMMA NothingToWatch ==
    ASSUME job.status # "active" \/ error \/ timer = job.id, job.details \in {0, job.id} \/ error
    PROVE  Watched
BY DEF Watched, NeverSilent, DetailsPending, isActive

LEMMA StartWatched ==
    ASSUME Typed, NEW c \in Task, NEW j, calls[c].for \in {"restore", "save"}, startTracking(c, j)
    PROVE  Watched'
<1>1. calls'[c].await = "poll" /\ calls'[c].job = j /\ calls'[c].for = calls[c].for
  BY DEF startTracking, Awaits, Typed, TypeOK
<1>2. job'.id = j
  BY DEF startTracking, SetJob, Merged
<1>3. QED
  BY <1>1, <1>2 DEF Watched, NeverSilent, DetailsPending, Polls

LEMMA ReceiveWatched ==
    ASSUME Typed, Watched, NEW c \in Task, Receive(c)
    PROVE  Watched'
<1>0. \A d \in Task \ {c} : d \in Polls /\ calls' = [calls EXCEPT ![c] = Idle] =>
          d \in Polls' /\ calls'[d] = calls[d]
  BY DEF Polls, Typed, TypeOK
<1>f. calls[c].await \in {"list", "submit"} => calls[c].for \in {"restore", "save"}
  BY DEF Typed, Real, Asks
<1>1. CASE pollJob(c)
  <2>1. calls' = [calls EXCEPT ![c] = Idle]
    BY <1>1 DEF pollJob, Returns
  <2>2. CASE calls[c].got = "lost"
    BY <1>1, <2>2, NothingToWatch DEF pollJob, Watched, NeverSilent, DetailsPending
  <2>3. CASE calls[c].got # "lost" /\ OtherJobShown(c)
    BY <1>0, <1>1, <2>1, <2>3
       DEF pollJob, OtherJobShown, Watched, NeverSilent, DetailsPending, isActive, Polls, NoJob
  <2>4. CASE calls[c].got # "lost" /\ ~OtherJobShown(c)
    BY <1>1, <2>4 DEF pollJob, SetJob, Detail, Watched, NeverSilent, DetailsPending, isActive
  <2>5. QED
    BY <2>2, <2>3, <2>4
<1>2. CASE restoreLatestJob(c)
  <2>1. CASE startTracking(c, calls[c].job)
    BY <1>f, <1>2, <2>1, StartWatched DEF restoreLatestJob
  <2>2. CASE SetJob(NoJob)
    BY <2>2 DEF SetJob, NoJob, Watched, NeverSilent, DetailsPending, isActive
  <2>3. CASE error' = TRUE
    BY <2>3 DEF Watched, NeverSilent, DetailsPending
  <2>4. QED
    BY <1>2, <2>1, <2>2, <2>3 DEF restoreLatestJob
<1>3. CASE cancelJob(c)
  <2>1. CASE SetJob(Detail(calls[c].job, "cancelled"))
    BY <2>1 DEF SetJob, Detail, Watched, NeverSilent, DetailsPending, isActive
  <2>2. CASE error' = TRUE
    BY <2>2 DEF Watched, NeverSilent, DetailsPending
  <2>3. QED
    BY <1>3, <2>1, <2>2 DEF cancelJob
<1>4. CASE saveTableSelection(c)
  <2>1. CASE startTracking(c, calls[c].job)
    BY <1>f, <1>4, <2>1, StartWatched DEF saveTableSelection
  <2>2. CASE Awaits(c, "save", "choose", 0) /\ UNCHANGED <<shown, flags>>
    BY <1>4, <2>2, StillWatched DEF saveTableSelection, Awaits, shown, flags, Polls, Typed, TypeOK
  <2>3. CASE Returns(c) /\ UNCHANGED <<shown, cancelling, asking, mounted>>
    BY <1>4, <2>3, StillWatched DEF saveTableSelection, Returns, shown, Polls, Typed, TypeOK
  <2>4. QED
    BY <1>4, <2>1, <2>2, <2>3 DEF saveTableSelection
<1>5. CASE Chosen(c)
  <2>1. CASE calls[c].got = "lost"
    BY <1>5, <2>1, StillWatched DEF Chosen, shown, Polls, Typed, TypeOK
  <2>2. CASE reset
    BY <2>2 DEF reset, SetJob, NoJob, Watched, NeverSilent, DetailsPending, isActive
  <2>3. QED
    BY <1>5, <2>1, <2>2 DEF Chosen
<1>6. QED
  BY <1>1, <1>2, <1>3, <1>4, <1>5 DEF Receive

LEMMA UserWatched ==
    ASSUME Typed, Watched, User
    PROVE  Watched'
<1>1. CASE reset
  BY <1>1 DEF reset, SetJob, NoJob, Watched, NeverSilent, DetailsPending, isActive
<1>2. ASSUME NEW c \in Task, calls[c] = Idle, NEW for, NEW await, NEW j, Awaits(c, for, await, j)
      PROVE  \A d \in Polls : d \in Polls' /\ calls'[d] = calls[d]
  BY <1>2 DEF Awaits, Polls, Idle, Typed, TypeOK
<1>3. CASE save
  <2>1. PICK c \in Task : calls[c] = Idle /\ Awaits(c, "save", "submit", 0)
    BY <1>3, OneBegins DEF save
  <2>2. QED
    BY <1>2, <1>3, <2>1, StillWatched DEF save, shown
<1>4. CASE Leave
  BY <1>4 DEF Leave, Watched, NeverSilent, DetailsPending, Polls
<1>5. CASE handleSyncJobDialogBeforeClose
  BY <1>5, StillWatched DEF handleSyncJobDialogBeforeClose, flags, Polls
<1>6. CASE cancelSyncJob
  BY <1>6, StillWatched DEF cancelSyncJob, shown, Polls
<1>7. CASE Confirmed
  <2>1. CASE UNCHANGED calls
    BY <1>7, <2>1, StillWatched DEF Confirmed, shown, Polls
  <2>2. CASE Begins("cancel", "cancel", job.id)
    <3>1. PICK c \in Task : calls[c] = Idle /\ Awaits(c, "cancel", "cancel", job.id)
      BY <2>2, OneBegins
    <3>2. QED
      BY <1>2, <1>7, <3>1, StillWatched DEF Confirmed, shown
  <2>3. QED
    BY <1>7, <2>1, <2>2 DEF Confirmed
<1>8. CASE Declined
  BY <1>8, StillWatched DEF Declined, shown, Polls
<1>9. QED
  BY <1>1, <1>3, <1>4, <1>5, <1>6, <1>7, <1>8 DEF User, initForm, close

LEMMA BackWatched ==
    ASSUME Typed, Watched,
           \/ \E j \in Job : EndJob(j) \/ Overwrite(j)
           \/ \E c \in Task : Serve(c) \/ Lose(c)
           \/ Timeout
    PROVE  Watched'
<1>1. CASE \E j \in Job : EndJob(j) \/ Overwrite(j)
  <2>1. RowsOnly
    BY <1>1, RowsType
  <2>2. QED
    BY <2>1, StillWatched DEF RowsOnly, shown, flags, Polls
<1>2. ASSUME NEW c \in Task, Serve(c) PROVE Watched'
  <2>1. PICK g \in Status \union {"small", "refused", "lost"}, j \in {0} \union Job : Serves(c, g, j)
    BY <1>2, ServeServes DEF Carried
  <2>2. \A d \in Polls : d \in Polls' /\ calls'[d].job = calls[d].job /\ calls'[d].for = calls[d].for
    BY <2>1 DEF Serves, Hears, Carries, Polls
  <2>3. QED
    BY <2>1, <2>2, StillWatched DEF Serves, shown, flags
<1>3. ASSUME NEW c \in Task, Lose(c) PROVE Watched'
  <2>1. calls[c] \in Call
    BY <1>3 DEF Lose, Typed, TypeOK, Idle
  <2>2. \A d \in Polls : d \in Polls' /\ calls'[d].job = calls[d].job /\ calls'[d].for = calls[d].for
    BY <1>3, <2>1 DEF Lose, Polls, Typed, TypeOK, Call
  <2>3. QED
    BY <1>3, <2>2, StillWatched DEF Lose, shown, flags
<1>4. CASE Timeout
  <2>1. PICK c \in Task : calls[c] = Idle /\ Awaits(c, "timer", "poll", timer)
    BY <1>4, OneBegins DEF Timeout
  <2>2. \A d \in Polls : d \in Polls' /\ calls'[d] = calls[d]
    BY <2>1 DEF Awaits, Polls, Idle, Typed, TypeOK
  <2>3. c \in Polls' /\ calls'[c].job = timer
    BY <2>1 DEF Awaits, Polls, Typed, TypeOK
  <2>4. QED
    BY <1>4, <2>2, <2>3 DEF Timeout, flags, Watched, NeverSilent, DetailsPending, isActive
<1>5. QED
  BY <1>1, <1>2, <1>3, <1>4

-----------------------------------------------------------------------------
(* A patient user has one affair at a time. *)

\* Requests that stay what they are, about the job that is shown.
LEMMA SameAffair ==
    ASSUME Typed, OneAffair, UNCHANGED <<job, timer, dialog, asking, mounted, cancelled, world>>,
           \A c \in Task : calls'[c].await = calls[c].await /\ (calls[c] = Idle <=> calls'[c] = Idle),
           \A c \in Task : Following(c) => calls'[c].job = calls[c].job
    PROVE  OneAffair'
BY DEF OneAffair, Promised, Selecting, Following, isActive, Free

\* An affair that ends, or goes on with the job of its answer.
LEMMA AffairEnds ==
    ASSUME Typed, OneAffair, NEW c \in Task, calls[c] # Idle, UNCHANGED <<mounted, world, cancelled>>,
           calls' = [calls EXCEPT ![c] = Idle],
           Promised("patient") =>
               /\ \A d \in Task \ {c} : Selecting(d) => timer' = 0 /\ ~dialog' /\ asking' = 0
               /\ \A d \in Task \ {c} : Following(d) => job'.id = calls[d].job
               /\ timer' # 0 => isActive' /\ job'.id = timer'
               /\ asking' # 0 => dialog' /\ job'.id = asking'
    PROVE  OneAffair'
<1>1. Promised("patient") => mounted
  BY DEF OneAffair, Free
<1>2. \A d \in Task : ~(Selecting(c)' \/ Following(c)') /\ (d # c => calls'[d] = calls[d])
  BY DEF Selecting, Following, Idle, Typed, TypeOK
<1>3. QED
  BY <1>1, <1>2 DEF OneAffair, Promised, Selecting, Following

LEMMA ReceiveAffair ==
    ASSUME Typed, OneAffair, NEW c \in Task, Receive(c)
    PROVE  OneAffair'
<1>0. calls[c] # Idle /\ UNCHANGED ghosts
  BY DEF Receive, Idle
<1>1. ASSUME Selecting(c), NEW j, Exists(j), startTracking(c, j) PROVE OneAffair'
  <2>1. Promised("patient") => asking = 0 /\ mounted /\ cancelled = {} /\ \A d \in Task \ {c} : calls[d] = Idle
    BY <1>0, <1>1 DEF OneAffair, Free
  <2>2. \A d \in Task : d # c => calls'[d] = calls[d]
    BY <1>1 DEF startTracking, Awaits, Typed, TypeOK
  <2>3. calls'[c].await = "poll" /\ calls'[c].job = j /\ job'.id = j /\ timer' = 0
        /\ UNCHANGED <<asking, mounted>>
    BY <1>1 DEF startTracking, Awaits, SetJob, Merged, flags, Typed, TypeOK
  <2>4. QED
    BY <1>0, <2>1, <2>2, <2>3 DEF OneAffair, Promised, Selecting, Following, Idle, ghosts
<1>2. CASE pollJob(c)
  <2>1. Following(c) /\ Exists(calls[c].job) /\ calls' = [calls EXCEPT ![c] = Idle]
        /\ UNCHANGED <<dialog, asking, mounted>>
    BY <1>2 DEF pollJob, Returns, Following, Typed, Real, Asks
  <2>2. Promised("patient") => job.id = calls[c].job /\ ~OtherJobShown(c)
    BY <2>1 DEF OneAffair, OtherJobShown
  <2>3. Promised("patient") => job'.id = job.id /\ (timer' # 0 => isActive' /\ job'.id = timer')
    BY <1>2, <2>2 DEF pollJob, SetJob, Detail, isActive
  <2>4. \A d \in Task \ {c} : Promised("patient") => ~Selecting(d)
    BY <1>0 DEF OneAffair
  <2>5. QED
    BY <1>0, <2>1, <2>3, <2>4, AffairEnds DEF OneAffair, ghosts
<1>3. CASE restoreLatestJob(c)
  <2>1. Selecting(c) /\ (calls[c].got = "active" => Exists(calls[c].job))
    BY <1>3 DEF restoreLatestJob, Selecting, Typed, Real, Asks
  <2>2. Promised("patient") => timer = 0 /\ asking = 0 /\ \A d \in Task \ {c} : calls[d] = Idle
    BY <2>1 DEF OneAffair
  <2>3. CASE calls[c].got = "active"
    BY <1>1, <1>3, <2>1, <2>3 DEF restoreLatestJob
  <2>4. CASE calls[c].got # "active"
    BY <1>0, <1>3, <2>2, <2>4, AffairEnds
       DEF restoreLatestJob, Returns, ghosts, Selecting, Following, Idle
  <2>5. QED
    BY <2>3, <2>4
<1>4. CASE cancelJob(c)
  <2>1. Following(c) /\ Exists(calls[c].job)
    BY <1>4 DEF cancelJob, Following, Typed, Real, Asks
  <2>2. Promised("patient") => job'.id = job.id /\ (timer' # 0 => timer' = timer /\ job' = job)
    BY <1>4, <2>1 DEF cancelJob, SetJob, Detail, OneAffair
  <2>3. \A d \in Task \ {c} : Promised("patient") => ~Selecting(d)
    BY <1>0 DEF OneAffair
  <2>4. QED
    BY <1>0, <1>4, <2>2, <2>3, AffairEnds DEF cancelJob, OneAffair, ghosts, isActive
<1>5. CASE saveTableSelection(c)
  <2>1. Selecting(c) /\ (calls[c].got = "active" => Exists(calls[c].job))
    BY <1>5 DEF saveTableSelection, Selecting, Typed, Real, Asks
  <2>2. Promised("patient") => timer = 0 /\ asking = 0 /\ \A d \in Task \ {c} : calls[d] = Idle
    BY <2>1 DEF OneAffair
  <2>3. CASE calls[c].got = "active" /\ startTracking(c, calls[c].job)
    BY <1>1, <2>1, <2>3
  <2>4. CASE Awaits(c, "save", "choose", 0) /\ UNCHANGED <<shown, flags>>
    <3>1. calls'[c].await = "choose" /\ \A d \in Task \ {c} : calls'[d] = calls[d]
      BY <2>4 DEF Awaits, Typed, TypeOK
    <3>2. QED
      BY <1>0, <2>1, <2>2, <2>4, <3>1
         DEF OneAffair, Promised, Selecting, Following, Idle, shown, flags, ghosts, Free
  <2>5. CASE Returns(c) /\ UNCHANGED <<shown, cancelling, asking, mounted>>
    <3>1. \A d \in Task \ {c} : Promised("patient") => ~Selecting(d) /\ ~Following(d)
      BY <2>2 DEF Selecting, Following, Idle
    <3>2. calls' = [calls EXCEPT ![c] = Idle]
      BY <2>5 DEF Returns
    <3>3. UNCHANGED <<timer, dialog, asking, mounted, world, cancelled, job>>
      BY <1>0, <2>5 DEF shown, ghosts
    <3>4. QED
      BY <1>0, <2>2, <3>1, <3>2, <3>3, AffairEnds
  <2>6. QED
    BY <1>5, <2>3, <2>4, <2>5 DEF saveTableSelection
<1>6. CASE Chosen(c)
  <2>1. Selecting(c)
    BY <1>6 DEF Chosen, Selecting
  <2>2. Promised("patient") => timer = 0 /\ asking = 0 /\ \A d \in Task \ {c} : calls[d] = Idle
    BY <2>1 DEF OneAffair
  <2>3. timer' = timer \/ timer' = 0
    BY <1>6 DEF Chosen, reset, shown
  <2>4. QED
    <3>1. \A d \in Task \ {c} : Promised("patient") => ~Selecting(d) /\ ~Following(d)
      BY <2>2 DEF Selecting, Following, Idle
    <3>2. calls' = [calls EXCEPT ![c] = Idle] /\ UNCHANGED <<asking, mounted, world, cancelled>>
      BY <1>0, <1>6 DEF Chosen, ghosts
    <3>3. QED
      BY <1>0, <2>2, <2>3, <3>1, <3>2, AffairEnds
<1>7. QED
  BY <1>2, <1>3, <1>4, <1>5, <1>6 DEF Receive

LEMMA BackAffair ==
    ASSUME Typed, OneAffair,
           \/ \E j \in Job : EndJob(j) \/ Overwrite(j)
           \/ \E c \in Task : Serve(c) \/ Lose(c)
           \/ Timeout
    PROVE  OneAffair'
<1>1. CASE \E j \in Job : EndJob(j) \/ Overwrite(j)
  <2>1. RowsOnly
    BY <1>1, RowsType
  <2>2. QED
    BY <2>1, SameAffair DEF RowsOnly, shown, flags
<1>2. ASSUME NEW c \in Task, Serve(c) PROVE OneAffair'
  <2>1. PICK g \in Status \union {"small", "refused", "lost"}, j \in {0} \union Job : Serves(c, g, j)
    BY <1>2, ServeServes DEF Carried
  <2>2. calls[c] # Idle
    BY <2>1 DEF Serves, Idle
  <2>3. \A d \in Task : calls'[d].await = calls[d].await /\ (calls[d] = Idle <=> calls'[d] = Idle)
    BY <2>1, <2>2 DEF Serves, Hears
  <2>4. \A d \in Task : Following(d) => calls'[d].job = calls[d].job
    BY <2>1 DEF Serves, Hears, Carries, Following
  <2>5. QED
    BY <2>1, <2>3, <2>4, SameAffair DEF Serves, shown, flags, ghosts
<1>3. ASSUME NEW c \in Task, Lose(c) PROVE OneAffair'
  <2>1. calls[c] \in Call /\ calls[c] # Idle
    BY <1>3 DEF Lose, Typed, TypeOK, Idle
  <2>2. \A d \in Task : /\ calls'[d].await = calls[d].await /\ calls'[d].job = calls[d].job
                        /\ calls[d] = Idle <=> calls'[d] = Idle
    BY <1>3, <2>1 DEF Lose, Typed, TypeOK, Call, Idle
  <2>3. QED
    BY <1>3, <2>2, SameAffair DEF Lose, shown, flags, ghosts
<1>4. CASE Timeout
  <2>1. PICK c \in Task : calls[c] = Idle /\ Awaits(c, "timer", "poll", timer)
    BY <1>4, OneBegins DEF Timeout
  <2>2. \A d \in Task \ {c} : calls'[d] = calls[d]
    BY <2>1 DEF Awaits, Typed, TypeOK
  <2>3. calls'[c].await = "poll" /\ calls'[c].job = timer
    BY <2>1 DEF Awaits, Typed, TypeOK
  <2>4. Promised("patient") => mounted /\ job.id = timer /\ \A d \in Task : ~Selecting(d)
    BY <1>4 DEF Timeout, OneAffair
  <2>5. QED
    BY <1>4, <2>2, <2>3, <2>4
       DEF Timeout, OneAffair, Promised, Selecting, Following, flags, ghosts
<1>5. QED
  BY <1>1, <1>2, <1>3, <1>4

LEMMA UserAffair ==
    ASSUME Typed, OneAffair, User
    PROVE  OneAffair'
<1>1. ASSUME NEW c \in Task, calls[c] = Idle, NEW for, NEW await, NEW j, Awaits(c, for, await, j)
      PROVE  /\ calls'[c].await = await /\ calls'[c].job = j
             /\ \A d \in Task \ {c} : calls'[d] = calls[d]
  BY <1>1 DEF Awaits, Typed, TypeOK
<1>2. Promised("patient") /\ OnForm => Free = Task /\ ~dialog /\ asking = 0 /\ mounted
  BY DEF OnForm, MayAct
<1>3. CASE initForm
  <2>1. PICK c \in Task : calls[c] = Idle /\ Awaits(c, "restore", "list", 0)
    BY <1>3, OneBegins DEF initForm
  <2>2. calls'[c].await = "list" /\ \A d \in Task \ {c} : calls'[d] = calls[d]
    BY <1>1, <2>1
  <2>3. timer' = 0 /\ ~dialog' /\ UNCHANGED <<asking, mounted, cancelled, world>>
    BY <1>3 DEF initForm, reset, Spends
  <2>4. QED
    BY <1>2, <1>3, <2>2, <2>3 DEF initForm, OneAffair, Promised, Selecting, Following, Idle, Free
<1>4. CASE save
  <2>1. PICK c \in Task : calls[c] = Idle /\ Awaits(c, "save", "submit", 0)
    BY <1>4, OneBegins DEF save
  <2>2. calls'[c].await = "submit" /\ \A d \in Task \ {c} : calls'[d] = calls[d]
    BY <1>1, <2>1
  <2>3. UNCHANGED <<job, timer, dialog, asking, mounted, cancelled, world>>
    BY <1>4 DEF save, Spends, shown
  <2>4. Promised("patient") => timer = 0
    BY <1>4 DEF save, canSaveTableSelection, OneAffair
  <2>5. QED
    BY <1>2, <1>4, <2>2, <2>3, <2>4 DEF save, OneAffair, Promised, Selecting, Following, Idle, Free
<1>5. CASE close
  <2>1. timer' = 0 /\ ~dialog' /\ UNCHANGED <<calls, asking, mounted, cancelled, world>>
    BY <1>5 DEF close, reset, ghosts
  <2>2. QED
    BY <1>2, <1>5, <2>1 DEF close, OneAffair, Promised, Selecting, Following, Idle, Free
<1>6. CASE Leave
  BY <1>2, <1>6 DEF Leave, OneAffair, Promised, Selecting, Following, Idle, Free, ghosts
<1>7. CASE handleSyncJobDialogBeforeClose
  BY <1>7 DEF handleSyncJobDialogBeforeClose, OneAffair, Promised, Selecting, Following, Free, flags,
              ghosts, isActive
<1>8. CASE cancelSyncJob
  BY <1>8 DEF cancelSyncJob, OneAffair, Promised, Selecting, Following, Free, shown, Spends, isActive
<1>9. CASE Confirmed
  <2>1. Promised("patient") => mounted /\ dialog /\ job.id = asking /\ \A d \in Task : ~Selecting(d)
    BY <1>9 DEF Confirmed, OneAffair
  <2>2. Promised("patient") => cancelled' = {}
    BY <1>9, <2>1 DEF Confirmed, OneAffair
  <2>3. asking' = 0 /\ UNCHANGED <<job, timer, dialog, mounted, world>>
    BY <1>9 DEF Confirmed, shown
  <2>4. CASE UNCHANGED calls
    BY <2>1, <2>2, <2>3, <2>4 DEF OneAffair, Promised, Selecting, Following, isActive
  <2>5. CASE Begins("cancel", "cancel", job.id)
    <3>1. PICK c \in Task : calls[c] = Idle /\ Awaits(c, "cancel", "cancel", job.id)
      BY <2>5, OneBegins
    <3>2. calls'[c].await = "cancel" /\ calls'[c].job = job.id /\ \A d \in Task \ {c} : calls'[d] = calls[d]
      BY <1>1, <3>1
    <3>3. QED
      BY <2>1, <2>2, <2>3, <3>2 DEF OneAffair, Promised, Selecting, Following, isActive
  <2>6. QED
    BY <1>9, <2>4, <2>5 DEF Confirmed
<1>10. CASE Declined
  BY <1>10 DEF Declined, OneAffair, Promised, Selecting, Following, Free, shown, ghosts, isActive
<1>11. QED
  BY <1>3, <1>4, <1>5, <1>6, <1>7, <1>8, <1>9, <1>10 DEF User

-----------------------------------------------------------------------------
(* Ends are known as they are. *)

LEMMA RowsStayEnded ==
    ASSUME Typed, Promised("settled"),
           \/ \E j \in Job : EndJob(j) \/ Overwrite(j)
           \/ \E c \in Task : \E g, j : Carries(c, g, j)
           \/ status' = status
    PROVE  \A k \in Job : status[k] \in Terminal => status'[k] = status[k]
<1>1. \A k \in Job : status[k] \in Terminal => status[k] # "active" /\ status[k] # "none"
  BY Names
<1>2. CASE \E j \in Job : EndJob(j) \/ Overwrite(j)
  BY <1>1, <1>2 DEF EndJob, Overwrite, Typed, TypeOK
<1>3. CASE \E c \in Task : \E g, j : Carries(c, g, j)
  BY <1>1, <1>3 DEF Carries, Typed, TypeOK, Real, Asks, Exists
<1>4. QED
  BY <1>2, <1>3

\* Nothing new is heard, and what is shown has changed only to what is true.
LEMMA EndsStayTrue ==
    ASSUME Typed, EndsAreTrue, world' = world,
           \A k \in Job : Promised("settled") /\ status[k] \in Terminal => status'[k] = status[k],
           \/ job' = job
           \/ job'.status \notin Terminal
           \/ Promised("settled") => job'.id \in Job /\ status[job'.id] = job'.status,
           \A c \in Task : \/ calls'[c].got \in {"nothing", "waiting", "lost"}
                           \/ calls'[c] = calls[c]
    PROVE  EndsAreTrue'
<1>1. \A c \in Task : calls[c].got \in Terminal \union {"refused"} => calls[c].job \in Job
  BY Names DEF Typed, Real, Asks, Exists, TypeOK, Call, Idle
<1>2. job.status \in Terminal => job.id \in Job
  BY Names DEF Typed, TypeOK, Shown, NoJob
<1>3. QED
  BY <1>1, <1>2, Names DEF EndsAreTrue, Promised

LEMMA ReceiveEnds ==
    ASSUME Typed, EndsAreTrue, NEW c \in Task, Receive(c)
    PROVE  EndsAreTrue'
<1>0. UNCHANGED ghosts /\ status' = status
  BY DEF Receive, server
<1>1. \/ job' = job
      \/ job'.status \notin Terminal
      \/ Promised("settled") => job'.id \in Job /\ status[job'.id] = job'.status
  <2>1. CASE pollJob(c)
    <3>1. Exists(calls[c].job)
      BY <2>1 DEF pollJob, Typed, Real, Asks
    <3>2. QED
      BY <2>1, <3>1 DEF pollJob, SetJob, Detail, EndsAreTrue, Exists
  <2>2. CASE restoreLatestJob(c)
    BY <2>2, Names DEF restoreLatestJob, startTracking, SetJob, Merged, NoJob
  <2>3. CASE cancelJob(c)
    <3>1. Exists(calls[c].job)
      BY <2>3 DEF cancelJob, Typed, Real, Asks
    <3>2. QED
      BY <2>3, <3>1, Names DEF cancelJob, SetJob, Detail, EndsAreTrue, Exists
  <2>4. CASE saveTableSelection(c)
    BY <2>4, Names DEF saveTableSelection, startTracking, SetJob, Merged, shown
  <2>5. CASE Chosen(c)
    BY <2>5, Names DEF Chosen, reset, SetJob, NoJob, shown
  <2>6. QED
    BY <2>1, <2>2, <2>3, <2>4, <2>5 DEF Receive
<1>2. calls'[c].got \in {"nothing", "waiting"} /\ \A d \in Task \ {c} : calls'[d] = calls[d]
  BY DEF Receive, pollJob, restoreLatestJob, cancelJob, saveTableSelection, Chosen, startTracking, Awaits,
         Returns, Idle, Typed, TypeOK
<1>3. QED
  BY <1>0, <1>1, <1>2, EndsStayTrue DEF ghosts

LEMMA BackEnds ==
    ASSUME Typed, EndsAreTrue,
           \/ \E j \in Job : EndJob(j) \/ Overwrite(j)
           \/ \E c \in Task : Serve(c) \/ Lose(c)
           \/ Timeout
    PROVE  EndsAreTrue'
<1>1. CASE \E j \in Job : EndJob(j) \/ Overwrite(j)
  <2>1. RowsOnly
    BY <1>1, RowsType
  <2>2. QED
    BY <1>1, <2>1, RowsStayEnded, EndsStayTrue DEF RowsOnly, shown
<1>2. ASSUME NEW c \in Task, Serve(c) PROVE EndsAreTrue'
  <2>1. PICK g \in Status \union {"small", "refused", "lost"}, j \in {0} \union Job : Serves(c, g, j)
    BY <1>2, ServeServes DEF Carried
  <2>2. Promised("settled") => \A k \in Job : status[k] \in Terminal => status'[k] = status[k]
    BY <2>1, RowsStayEnded DEF Serves
  <2>3. g \in Terminal => status'[j] = g
    BY <2>1, Names DEF Serves, Carries, Typed, TypeOK, Real, Asks, Exists
  <2>4. g = "refused" => status'[j] \in Terminal
    BY <2>1, Names DEF Serves, Carries, Typed, TypeOK, Real, Asks, Exists, Status
  <2>5. \A d \in Task \ {c} : calls[d].got \in Terminal \union {"refused"} => calls[d].job \in Job
    BY Names DEF Typed, Real, Asks, Exists, TypeOK, Call, Idle
  <2>6. job.status \in Terminal => job.id \in Job
    BY Names DEF Typed, TypeOK, Shown, NoJob
  <2>7. calls'[c].got = g /\ calls'[c].job = j /\ \A d \in Task \ {c} : calls'[d] = calls[d]
    BY <2>1 DEF Serves, Hears
  <2>8. world' = world /\ job' = job
    BY <2>1 DEF Serves, ghosts, shown
  <2>9. QED
    BY <2>2, <2>3, <2>4, <2>5, <2>6, <2>7, <2>8 DEF EndsAreTrue, Promised
<1>3. ASSUME NEW c \in Task, Lose(c) PROVE EndsAreTrue'
  <2>1. calls[c] \in Call
    BY <1>3 DEF Lose, Typed, TypeOK, Idle
  <2>2. calls'[c].got = "lost" /\ \A d \in Task \ {c} : calls'[d] = calls[d]
    BY <1>3, <2>1 DEF Lose, Typed, TypeOK, Call
  <2>3. QED
    BY <1>3, <2>2, EndsStayTrue DEF Lose, shown, ghosts, server
<1>4. CASE Timeout
  <2>1. PICK c \in Task : calls[c] = Idle /\ Awaits(c, "timer", "poll", timer)
    BY <1>4, OneBegins DEF Timeout
  <2>2. calls'[c].got = "waiting" /\ \A d \in Task \ {c} : calls'[d] = calls[d]
    BY <2>1 DEF Awaits, Typed, TypeOK
  <2>3. QED
    BY <1>4, <2>2, EndsStayTrue DEF Timeout, server, ghosts
<1>5. QED
  BY <1>1, <1>2, <1>3, <1>4

\* What a click does to the requests, the row and what is shown.
LEMMA UserCalls ==
    ASSUME Typed, User
    PROVE  /\ status' = status /\ world' = world /\ line' = line
           /\ \/ job' = job /\ told' = told
              \/ job' = NoJob /\ told' = told
           /\ \/ calls' = calls
              \/ \E c \in Task : /\ calls[c] = Idle /\ calls'[c].got = "waiting"
                                 /\ \A d \in Task \ {c} : calls'[d] = calls[d]
<1>1. ASSUME NEW c \in Task, calls[c] = Idle, NEW for, NEW await, NEW j, Awaits(c, for, await, j)
      PROVE  calls'[c].got = "waiting" /\ \A d \in Task \ {c} : calls'[d] = calls[d]
  BY <1>1 DEF Awaits, Typed, TypeOK
<1>2. ASSUME NEW for, NEW await, NEW j, Begins(for, await, j)
      PROVE  \E c \in Task : /\ calls[c] = Idle /\ calls'[c].got = "waiting"
                             /\ \A d \in Task \ {c} : calls'[d] = calls[d]
  BY <1>1, <1>2, OneBegins
<1>3. reset => job' = NoJob /\ told' = told
  BY Names DEF reset, SetJob, notifySyncJobTerminalState, NoJob
<1>4. CASE initForm
  BY <1>2, <1>3, <1>4 DEF initForm, Spends, server
<1>5. CASE save
  BY <1>2, <1>5 DEF save, Spends, server, shown
<1>6. CASE close
  BY <1>3, <1>6 DEF close, server, ghosts
<1>7. CASE Leave \/ handleSyncJobDialogBeforeClose \/ cancelSyncJob \/ Declined
  BY <1>7 DEF Leave, handleSyncJobDialogBeforeClose, cancelSyncJob, Declined, server, ghosts, shown, Spends
<1>8. CASE Confirmed
  BY <1>2, <1>8 DEF Confirmed, server, shown
<1>9. QED
  BY <1>4, <1>5, <1>6, <1>7, <1>8 DEF User

LEMMA UserEnds ==
    ASSUME Typed, EndsAreTrue, User
    PROVE  EndsAreTrue'
<1>1. job' = job \/ job'.status \notin Terminal
  BY UserCalls, Names DEF NoJob
<1>2. QED
  BY <1>1, UserCalls, EndsStayTrue

-----------------------------------------------------------------------------
(* Answers in line. *)

Lined == InLine /\ LateNews

\* The line after an answer is added, and after the first has been received.
LEMMA LineGrows ==
    ASSUME line \in Seq(Task), NEW c \in Task, line' = Append(line, c)
    PROVE  /\ DOMAIN line' = DOMAIN line \union {Len(line) + 1}
           /\ \A n \in DOMAIN line : line'[n] = line[n] /\ n < Len(line) + 1
           /\ line'[Len(line) + 1] = c
BY AppendProperties, LenProperties

LEMMA LineMoves ==
    ASSUME line \in Seq(Task), line # <<>>, line' = Tail(line)
    PROVE  /\ 1 \in DOMAIN line
           /\ \A n \in DOMAIN line' : n + 1 \in DOMAIN line /\ line'[n] = line[n + 1]
           /\ \A n \in DOMAIN line : n # 1 => n - 1 \in DOMAIN line'
           /\ DOMAIN line \subseteq Nat \ {0} /\ DOMAIN line' \subseteq Nat \ {0}
<1>1. Len(line) \in Nat \ {0} /\ DOMAIN line = 1 .. Len(line)
  BY LenProperties, EmptySeq
<1>2. /\ line' \in Seq(Task) /\ Len(line') = Len(line) - 1
      /\ \A i \in 1 .. Len(line') : line'[i] = line[i + 1]
  BY HeadTailProperties
<1>3. DOMAIN line' = 1 .. Len(line')
  BY <1>2, LenProperties
<1>4. QED
  BY <1>1, <1>2, <1>3

\* Requests begin and are lost outside the line.
LEMMA SameLine ==
    ASSUME Typed, Lined, line' = line, world' = world, NEW c \in Task, ~Answered(c),
           calls'[c].got \in {"nothing", "waiting", "lost"},
           \A d \in Task \ {c} : calls'[d] = calls[d]
    PROVE  Lined'
<1>1. \A n \in DOMAIN line : line[n] \in Task
  BY ElementOfSeq, LenProperties DEF Typed, TypeOK
<1>2. Promised("prompt") => \A n \in DOMAIN line : line[n] # c
  BY DEF Lined, InLine
<1>3. InLine'
  BY <1>1, <1>2 DEF Lined, InLine, Answered, Promised
<1>4. LateNews'
  BY <1>1, <1>2 DEF Lined, LateNews, Promised
<1>5. QED
  BY <1>3, <1>4 DEF Lined

LEMMA UntouchedLine ==
    ASSUME Typed, Lined, UNCHANGED <<line, world, calls>>
    PROVE  Lined'
BY DEF Lined, InLine, LateNews, Answered, Promised

\* An answer that says active is true when it is given.
LEMMA ActiveIsTrue ==
    ASSUME Typed, NEW c \in Task, NEW j, Carries(c, "active", j)
    PROVE  j \in Job /\ status'[j] = "active"
BY Names DEF Carries, Typed, TypeOK, Real, Asks, Exists, ActiveJobs, Status

LEMMA ServeLine ==
    ASSUME Typed, EndsAreTrue, Lined, NEW c \in Task, Serve(c)
    PROVE  Lined'
<1>1. PICK g \in Status \union {"small", "refused", "lost"}, j \in {0} \union Job : Serves(c, g, j)
  BY ServeServes DEF Carried
<1>2. /\ ~Answered(c) /\ calls'[c].got = g /\ calls'[c].job = j /\ world' = world
      /\ \A d \in Task \ {c} : calls'[d] = calls[d]
  BY <1>1 DEF Serves, Hears, Answered, ghosts
<1>3. CASE g = "lost"
  <2>1. line' = line
    BY <1>1, <1>3 DEF Serves, Hears
  <2>2. QED
    BY <1>2, <1>3, <2>1, SameLine
<1>4. CASE g # "lost" /\ Promised("prompt")
  <2>1. line \in Seq(Task) /\ line' = Append(line, c)
    BY <1>1, <1>4 DEF Serves, Hears, Typed, TypeOK
  <2>2. \A n \in DOMAIN line : line[n] \in Task /\ line[n] # c
    BY <1>2, <1>4, <2>1, ElementOfSeq, LenProperties DEF Lined, InLine
  <2>3. g \notin {"nothing", "waiting"}
    BY Names DEF Status
  <2>4. InLine'
    BY <1>2, <1>4, <2>1, <2>2, <2>3, LineGrows DEF Lined, InLine, Answered, Promised
  <2>5. ASSUME {"prompt", "settled"} \subseteq world, NEW m \in DOMAIN line, g = "active",
               calls[line[m]].got \in Terminal, calls[line[m]].job = j
        PROVE  FALSE
    <3>1. status[j] \in Terminal
      BY <2>2, <2>5 DEF EndsAreTrue, Promised
    <3>2. j \in Job /\ status'[j] = "active"
      BY <1>1, <2>5, ActiveIsTrue DEF Serves
    <3>3. status'[j] = status[j]
      BY <1>1, <2>5, <3>1, <3>2, RowsStayEnded DEF Serves, Promised
    <3>4. QED
      BY <3>1, <3>2, <3>3, Names
  <2>6. LateNews'
    <3>1. SUFFICES ASSUME {"prompt", "settled"} \subseteq world, NEW m \in DOMAIN line', NEW n \in DOMAIN line',
                          m < n, calls'[line'[m]].got \in Terminal,
                          calls'[line'[m]].job = calls'[line'[n]].job
                   PROVE  calls'[line'[n]].got # "active"
      BY <1>2 DEF LateNews
    <3>2. m \in DOMAIN line
      BY <2>1, <3>1, LineGrows, LenProperties
    <3>3. calls'[line'[m]] = calls[line[m]]
      BY <1>2, <2>1, <2>2, <3>2, LineGrows
    <3>4. CASE n \in DOMAIN line
      BY <1>2, <2>1, <2>2, <3>1, <3>2, <3>3, <3>4, LineGrows DEF Lined, LateNews
    <3>5. CASE n = Len(line) + 1
      BY <1>2, <2>1, <2>5, <3>1, <3>2, <3>3, <3>5, LineGrows
    <3>6. QED
      BY <2>1, <3>4, <3>5, LineGrows
  <2>7. QED
    BY <2>4, <2>6 DEF Lined
<1>5. CASE ~Promised("prompt")
  BY <1>2, <1>5 DEF Lined, InLine, LateNews, Promised
<1>6. QED
  BY <1>3, <1>4, <1>5

\* What a function that has received its answer leaves of the requests.
LEMMA ReceiveCalls ==
    ASSUME Typed, NEW c \in Task, Receive(c)
    PROVE  /\ calls'[c].got \in {"nothing", "waiting"}
           /\ \A d \in Task \ {c} : calls'[d] = calls[d]
           /\ status' = status /\ UNCHANGED ghosts
           /\ calls[c].got \notin {"nothing", "waiting"}
           /\ Promised("prompt") =>
                  \/ calls[c].got = "lost" /\ line' = line
                  \/ Answered(c) /\ line # <<>> /\ Head(line) = c /\ line' = Tail(line)
BY DEF Receive, pollJob, restoreLatestJob, cancelJob, saveTableSelection, Chosen, startTracking, Awaits,
       Returns, Idle, Typed, TypeOK, Answered, server

\* The answer received first is the first of the line.
LEMMA FirstInLine ==
    ASSUME Typed, Promised("prompt"), line # <<>>
    PROVE  line \in Seq(Task) /\ 1 \in DOMAIN line /\ line[1] = Head(line)
BY LenProperties, EmptySeq, HeadTailProperties DEF Typed, TypeOK

LEMMA ReceiveLine ==
    ASSUME Typed, Lined, NEW c \in Task, Receive(c)
    PROVE  Lined'
<1>1. world' = world
  BY ReceiveCalls DEF ghosts
<1>2. CASE ~Promised("prompt")
  BY <1>1, <1>2 DEF Lined, InLine, LateNews, Promised
<1>3. CASE Promised("prompt") /\ calls[c].got = "lost" /\ line' = line
  <2>1. ~Answered(c)
    BY <1>3 DEF Answered
  <2>2. QED
    BY <1>1, <1>3, <2>1, ReceiveCalls, SameLine
<1>4. CASE Promised("prompt") /\ line # <<>> /\ Head(line) = c /\ line' = Tail(line)
  <2>1. line \in Seq(Task) /\ 1 \in DOMAIN line /\ line[1] = c
    BY <1>4, FirstInLine
  <2>2. \A n \in DOMAIN line : line[n] \in Task /\ (n # 1 => line[n] # c)
    BY <1>4, <2>1, ElementOfSeq, LenProperties DEF Lined, InLine
  <2>3. \A n \in DOMAIN line' : /\ n + 1 \in DOMAIN line /\ line'[n] = line[n + 1] /\ n \in Nat
                                /\ n + 1 # 1 /\ calls'[line'[n]] = calls[line[n + 1]]
    BY <1>4, <2>1, <2>2, LineMoves, ReceiveCalls
  <2>4. InLine'
    <3>1. \A n \in DOMAIN line' : Answered(line[n + 1])
      BY <1>4, <2>3 DEF Lined, InLine
    <3>2. \A n \in DOMAIN line' : calls'[line'[n]].got \notin {"nothing", "waiting", "lost"}
      BY <2>3, <3>1 DEF Answered
    <3>3. \A d \in Task : Answered(d)' => d # c /\ Answered(d)
      BY ReceiveCalls DEF Answered
    <3>4. \A d \in Task : Answered(d)' => \E n \in DOMAIN line' : line'[n] = d
      <4>1. SUFFICES ASSUME NEW d \in Task, Answered(d)' PROVE \E n \in DOMAIN line' : line'[n] = d
        OBVIOUS
      <4>2. PICK n \in DOMAIN line : line[n] = d
        BY <1>4, <3>3, <4>1 DEF Lined, InLine
      <4>3. n # 1 /\ n - 1 \in DOMAIN line' /\ n \in Nat
        BY <1>4, <2>1, <3>3, <4>1, <4>2, LineMoves
      <4>4. QED
        BY <2>3, <4>2, <4>3
    <3>5. \A m, n \in DOMAIN line' : line'[m] = line'[n] => m = n
      <4>1. \A m, n \in DOMAIN line : line[m] = line[n] => m = n
        BY <1>4 DEF Lined, InLine
      <4>2. QED
        BY <2>3, <4>1
    <3>6. QED
      BY <3>2, <3>4, <3>5 DEF InLine, Answered
  <2>5. LateNews'
    BY <1>1, <2>3 DEF Lined, LateNews
  <2>6. QED
    BY <2>4, <2>5 DEF Lined
<1>5. QED
  BY <1>2, <1>3, <1>4, ReceiveCalls

LEMMA OthersLine ==
    ASSUME Typed, Lined,
           (\E j \in Job : EndJob(j) \/ Overwrite(j)) \/ (\E c \in Task : Lose(c)) \/ Timeout \/ User
    PROVE  Lined'
<1>1. CASE \E j \in Job : EndJob(j) \/ Overwrite(j)
  BY <1>1, RowsType, UntouchedLine DEF RowsOnly
<1>2. ASSUME NEW c \in Task, Lose(c) PROVE Lined'
  <2>1. calls[c] \in Call
    BY <1>2 DEF Lose, Typed, TypeOK, Idle
  <2>2. calls'[c].got = "lost" /\ ~Answered(c) /\ \A d \in Task \ {c} : calls'[d] = calls[d]
    BY <1>2, <2>1 DEF Lose, Typed, TypeOK, Call, Answered
  <2>3. QED
    BY <1>2, <2>2, SameLine DEF Lose, ghosts
<1>3. CASE Timeout
  <2>1. PICK c \in Task : calls[c] = Idle /\ Awaits(c, "timer", "poll", timer)
    BY <1>3, OneBegins DEF Timeout
  <2>2. calls'[c].got = "waiting" /\ ~Answered(c) /\ \A d \in Task \ {c} : calls'[d] = calls[d]
    BY <2>1 DEF Awaits, Typed, TypeOK, Answered, Idle
  <2>3. QED
    BY <1>3, <2>2, SameLine DEF Timeout, ghosts
<1>4. CASE User
  <2>1. CASE calls' = calls
    BY <1>4, <2>1, UserCalls, UntouchedLine
  <2>2. ASSUME NEW c \in Task, calls[c] = Idle, calls'[c].got = "waiting",
               \A d \in Task \ {c} : calls'[d] = calls[d]
        PROVE  Lined'
    BY <1>4, <2>2, UserCalls, SameLine DEF Answered, Idle
  <2>3. QED
    BY <1>4, <2>1, <2>2, UserCalls
<1>5. QED
  BY <1>1, <1>2, <1>3, <1>4

-----------------------------------------------------------------------------
(* The end of a job is announced once. *)

LEMMA SameTold ==
    ASSUME Typed, Announced, UNCHANGED <<told, world>>,
           Promised("settled") => \A k \in Job : status[k] \in Terminal => status'[k] = status[k],
           \/ job' = job
           \/ job' = NoJob
           \/ job'.id \in Job /\ ({"prompt", "patient", "settled"} \subseteq world => told[job'.id] = 0),
           \A c \in Task : \/ calls'[c].got # "active"
                           \/ calls'[c] = calls[c]
                           \/ calls'[c].job \in Job /\ status'[calls'[c].job] = "active"
    PROVE  Announced'
<1>1. SUFFICES ASSUME {"prompt", "patient", "settled"} \subseteq world, NEW j \in Job, told[j] # 0
               PROVE  /\ told[j] = 1 /\ status'[j] \in Terminal
                      /\ \A c \in Task : ~(calls'[c].got = "active" /\ calls'[c].job = j)
                      /\ job'.id = j => job'.status \in Terminal
  BY DEF Announced
<1>2. /\ told[j] = 1 /\ status[j] \in Terminal
      /\ \A c \in Task : ~(calls[c].got = "active" /\ calls[c].job = j)
      /\ job.id = j => job.status \in Terminal
  BY <1>1 DEF Announced
<1>3. status'[j] = status[j] /\ status[j] # "active"
  BY <1>1, <1>2, Names DEF Promised
<1>4. job'.id = j => job'.status \in Terminal
  BY <1>1, <1>2 DEF NoJob, Job
<1>5. QED
  BY <1>2, <1>3, <1>4

\* The one answer that ends a job.
LEMMA EndAnnounced ==
    ASSUME Typed, EndsAreTrue, Lined, OneAffair, Announced, NEW c \in Task, Receive(c), Following(c),
           NEW s \in Terminal, calls[c].got = s, SetJob(Detail(calls[c].job, s))
    PROVE  Announced'
<1> DEFINE j == calls[c].job
<1>1. SUFFICES ASSUME {"prompt", "patient", "settled"} \subseteq world, NEW k \in Job, told'[k] # 0
               PROVE  /\ told'[k] = 1 /\ status[k] \in Terminal
                      /\ \A d \in Task : ~(calls'[d].got = "active" /\ calls'[d].job = k)
                      /\ job'.id = k => job'.status \in Terminal
  BY ReceiveCalls DEF Announced, ghosts
<1>2. j \in Job /\ job.id = j /\ status[j] = s
  BY <1>1 DEF Following, OneAffair, EndsAreTrue, Promised, Typed, Real, Asks, Exists
<1>3. job'.id = j /\ job'.status = s
  BY DEF SetJob, Detail
<1>4. \A d \in Task : ~(calls'[d].got = "active" /\ calls'[d].job = j)
  <2>1. SUFFICES ASSUME NEW d \in Task, calls'[d].got = "active", calls'[d].job = j PROVE FALSE
    OBVIOUS
  <2>2. d # c /\ calls[d].got = "active" /\ calls[d].job = j /\ Answered(d)
    BY <2>1, ReceiveCalls DEF Answered
  <2>3. line # <<>> /\ line[1] = c /\ 1 \in DOMAIN line /\ line \in Seq(Task)
    BY <1>1, ReceiveCalls, FirstInLine, Names DEF Promised
  <2>4. PICK n \in DOMAIN line : line[n] = d
    BY <1>1, <2>2 DEF Lined, InLine, Promised
  <2>5. 1 < n
    BY <2>2, <2>3, <2>4, LenProperties
  <2>6. QED
    BY <1>1, <2>2, <2>3, <2>4, <2>5 DEF Lined, LateNews
<1>5. CASE k = j
  <2>1. told'[j] = 1
    BY <1>1, <1>2, <1>5 DEF SetJob, notifySyncJobTerminalState, Detail, Announced, Typed, TypeOK
  <2>2. QED
    BY <1>2, <1>3, <1>4, <1>5, <2>1
<1>6. CASE k # j
  <2>1. told'[k] = told[k]
    BY <1>6 DEF SetJob, notifySyncJobTerminalState, Detail, Typed, TypeOK
  <2>2. \A d \in Task : ~(calls[d].got = "active" /\ calls[d].job = k)
    BY <1>1, <2>1 DEF Announced
  <2>3. \A d \in Task : calls'[d].got = "active" => calls'[d] = calls[d]
    BY ReceiveCalls
  <2>4. QED
    BY <1>1, <1>3, <1>6, <2>1, <2>2, <2>3 DEF Announced
<1>7. QED
  BY <1>5, <1>6

LEMMA ReceiveAnnounced ==
    ASSUME Typed, EndsAreTrue, Lined, OneAffair, Announced, NEW c \in Task, Receive(c)
    PROVE  Announced'
<1>1. /\ \A d \in Task : calls'[d].got # "active" \/ calls'[d] = calls[d]
      /\ status' = status /\ world' = world
  BY ReceiveCalls DEF ghosts
<1>2. CASE job' = NoJob /\ SetJob(NoJob)
  <2>1. told' = told
    BY <1>2, Names DEF SetJob, notifySyncJobTerminalState, NoJob
  <2>2. QED
    BY <1>1, <1>2, <2>1, SameTold
<1>3. CASE UNCHANGED <<job, told>>
  BY <1>1, <1>3, SameTold
<1>4. ASSUME calls[c].got = "active", NEW new, new.id = calls[c].job, new.status = "active", SetJob(new)
      PROVE  Announced'
  <2>1. told' = told /\ job' = new
    BY <1>4, Names DEF SetJob, notifySyncJobTerminalState
  <2>2. calls[c].job \in Job
    BY <1>4 DEF Typed, Real, Asks, Exists
  <2>3. {"prompt", "patient", "settled"} \subseteq world => told[calls[c].job] = 0
    BY <1>4, <2>2 DEF Announced
  <2>4. QED
    BY <1>1, <1>4, <2>1, <2>2, <2>3, SameTold
<1>5. ASSUME calls[c].got = "active", startTracking(c, calls[c].job) PROVE Announced'
  BY <1>4, <1>5 DEF startTracking, Merged
<1>6. CASE pollJob(c)
  <2>1. Following(c) /\ calls[c].got \in {"lost", "active"} \union Terminal
    BY <1>6, ReceiveCalls DEF pollJob, Following, Typed, Real, Asks
  <2>2. CASE calls[c].got = "active" /\ SetJob(Detail(calls[c].job, calls[c].got))
    BY <1>4, <2>2 DEF Detail
  <2>3. CASE calls[c].got \in Terminal /\ SetJob(Detail(calls[c].job, calls[c].got))
    BY <2>1, <2>3, EndAnnounced
  <2>4. QED
    BY <1>3, <1>6, <2>1, <2>2, <2>3 DEF pollJob
<1>7. CASE restoreLatestJob(c)
  BY <1>2, <1>3, <1>5, <1>7 DEF restoreLatestJob, SetJob
<1>8. CASE cancelJob(c)
  <2>1. Following(c)
    BY <1>8 DEF cancelJob, Following
  <2>2. CASE calls[c].got = "cancelled"
    <3>1. SetJob(Detail(calls[c].job, "cancelled"))
      BY <1>8, <2>2 DEF cancelJob
    <3>2. QED
      BY <2>1, <2>2, <3>1, EndAnnounced, Names
  <2>3. CASE calls[c].got # "cancelled"
    BY <1>3, <1>8, <2>3 DEF cancelJob
  <2>4. QED
    BY <2>2, <2>3
<1>9. CASE saveTableSelection(c)
  BY <1>3, <1>5, <1>9 DEF saveTableSelection, shown
<1>10. CASE Chosen(c)
  BY <1>2, <1>3, <1>10 DEF Chosen, reset, SetJob, shown
<1>11. QED
  BY <1>6, <1>7, <1>8, <1>9, <1>10 DEF Receive

LEMMA OthersAnnounced ==
    ASSUME Typed, Announced,
           \/ \E j \in Job : EndJob(j) \/ Overwrite(j)
           \/ \E c \in Task : Serve(c) \/ Lose(c)
           \/ Timeout \/ User
    PROVE  Announced'
<1>1. CASE \E j \in Job : EndJob(j) \/ Overwrite(j)
  <2>1. RowsOnly
    BY <1>1, RowsType
  <2>2. QED
    BY <1>1, <2>1, RowsStayEnded, SameTold DEF RowsOnly, shown
<1>2. ASSUME NEW c \in Task, Serve(c) PROVE Announced'
  <2>1. PICK g \in Status \union {"small", "refused", "lost"}, j \in {0} \union Job : Serves(c, g, j)
    BY <1>2, ServeServes DEF Carried
  <2>2. Promised("settled") => \A k \in Job : status[k] \in Terminal => status'[k] = status[k]
    BY <2>1, RowsStayEnded DEF Serves
  <2>3. g = "active" => j \in Job /\ status'[j] = "active"
    BY <2>1, ActiveIsTrue DEF Serves
  <2>4. calls'[c].got = g /\ calls'[c].job = j /\ \A d \in Task \ {c} : calls'[d] = calls[d]
    BY <2>1 DEF Serves, Hears
  <2>5. UNCHANGED <<told, world, job>>
    BY <2>1 DEF Serves, ghosts, shown
  <2>6. QED
    BY <2>2, <2>3, <2>4, <2>5, SameTold
<1>3. ASSUME NEW c \in Task, Lose(c) PROVE Announced'
  <2>1. calls[c] \in Call
    BY <1>3 DEF Lose, Typed, TypeOK, Idle
  <2>2. calls'[c].got = "lost" /\ \A d \in Task \ {c} : calls'[d] = calls[d]
    BY <1>3, <2>1 DEF Lose, Typed, TypeOK, Call
  <2>3. QED
    BY <1>3, <2>2, SameTold DEF Lose, shown, ghosts, server
<1>4. CASE Timeout
  <2>1. PICK c \in Task : calls[c] = Idle /\ Awaits(c, "timer", "poll", timer)
    BY <1>4, OneBegins DEF Timeout
  <2>2. calls'[c].got = "waiting" /\ \A d \in Task \ {c} : calls'[d] = calls[d]
    BY <2>1 DEF Awaits, Typed, TypeOK
  <2>3. QED
    BY <1>4, <2>2, SameTold DEF Timeout, server, ghosts
<1>5. CASE User
  <2>1. told' = told /\ world' = world /\ status' = status /\ (job' = job \/ job' = NoJob)
    BY <1>5, UserCalls
  <2>2. \A d \in Task : calls'[d].got # "active" \/ calls'[d] = calls[d]
    BY <1>5, UserCalls
  <2>3. QED
    BY <2>1, <2>2, SameTold
<1>6. QED
  BY <1>1, <1>2, <1>3, <1>4, <1>5

-----------------------------------------------------------------------------
(* An active job is not forgotten. *)

Steady == {"settled", "patient", "reliable"} \subseteq world
NewsOf(c, j) ==
    \/ calls[c].await = "list" /\ calls[c].got = "waiting"
    \/ Selecting(c) /\ calls[c].got = "active" /\ calls[c].job = j

\* While a selection is under way nothing else is, and no dialog is open.
LEMMA Alone ==
    ASSUME Typed, OneAffair, Steady, NEW c \in Task, Selecting(c)
    PROVE  ~dialog /\ \A d \in Task \ {c} : calls[d] = Idle /\ ~Selecting(d)
BY DEF Steady, OneAffair, Promised, Selecting, Idle

\* All is as before, except for requests that were not about selections.
LEMMA SameTracks ==
    ASSUME Typed, Tracked, world' = world, UNCHANGED <<job, dialog, error>>, ActiveJobs' \subseteq ActiveJobs,
           \A c \in Task : Selecting(c) => calls'[c] = calls[c],
           Steady => \A c \in Task : /\ calls'[c].got # "lost"
                                     /\ calls'[c].await = "list" /\ calls'[c].got = "none" => Selecting(c)
    PROVE  Tracked'
<1>1. SUFFICES ASSUME Steady PROVE Tracked'
  BY DEF Tracked, Steady
<1>2. \A c \in Task : calls'[c].await = "list" /\ calls'[c].got = "none" =>
          calls[c].await = "list" /\ calls[c].got = "none"
  BY <1>1
<1>3. \A c \in Task : Selecting(c) => Selecting(c)'
  BY DEF Selecting
<1>4. QED
  BY <1>1, <1>2, <1>3 DEF Tracked, Steady, isActive, Selecting

LEMMA OthersTracked ==
    ASSUME Typed, OneAffair, Tracked,
           (\E j \in Job : EndJob(j) \/ Overwrite(j)) \/ (\E c \in Task : Lose(c)) \/ Timeout
    PROVE  Tracked'
<1>1. ASSUME NEW j \in Job, EndJob(j) \/ Overwrite(j) PROVE Tracked'
  <2>1. RowsOnly
    BY <1>1, RowsType
  <2>2. Steady => ActiveJobs' \subseteq ActiveJobs
    BY <1>1, Names DEF EndJob, Overwrite, Steady, Promised, ActiveJobs, Typed, TypeOK
  <2>3. QED
    BY <2>1, <2>2 DEF RowsOnly, shown, Tracked, Steady, Selecting, isActive
<1>2. ASSUME NEW c \in Task, Lose(c) PROVE Tracked'
  BY <1>2 DEF Lose, Tracked, Promised, ghosts
<1>3. CASE Timeout
  <2>1. PICK c \in Task : calls[c] = Idle /\ Awaits(c, "timer", "poll", timer)
    BY <1>3, OneBegins DEF Timeout
  <2>2. calls'[c].got = "waiting" /\ ~Selecting(c) /\ \A d \in Task \ {c} : calls'[d] = calls[d]
    BY <2>1 DEF Awaits, Typed, TypeOK, Selecting, Idle
  <2>3. Steady => \A d \in Task : /\ calls'[d].got # "lost"
                                  /\ calls'[d].await = "list" /\ calls'[d].got = "none" => Selecting(d)
    BY <2>2 DEF Tracked, Steady, Selecting
  <2>4. QED
    BY <1>3, <2>2, <2>3, SameTracks DEF Timeout, server, ghosts, ActiveJobs
<1>4. QED
  BY <1>1, <1>2, <1>3

LEMMA ServeTracked ==
    ASSUME Typed, OneAffair, Tracked, NEW c \in Task, Serve(c)
    PROVE  Tracked'
<1>1. PICK g \in Status \union {"small", "refused", "lost"}, j \in {0} \union Job : Serves(c, g, j)
  BY ServeServes DEF Carried
<1>2. /\ calls'[c].got = g /\ calls'[c].job = j /\ calls'[c].await = calls[c].await
      /\ calls[c].got = "waiting" /\ \A d \in Task \ {c} : calls'[d] = calls[d]
      /\ world' = world /\ UNCHANGED <<job, dialog, error>>
  BY <1>1 DEF Serves, Hears, shown, ghosts
<1>3. SUFFICES ASSUME Steady PROVE Tracked'
  BY <1>2 DEF Tracked, Steady
<1>4. g # "lost" /\ \A d \in Task : calls[d].got # "lost"
  BY <1>1, <1>3 DEF Serves, Tracked, Steady, Promised
<1>5. \A k, l \in ActiveJobs : k = l
  BY DEF Typed, Real
<1>6. CASE Selecting(c)
  <2>1. ~dialog /\ \A d \in Task \ {c} : calls[d] = Idle /\ ~Selecting(d)
    BY <1>3, <1>6, Alone
  <2>2. \A d \in Task \ {c} : calls'[d].await = "nothing"
    BY <1>2, <2>1 DEF Idle
  <2>3. calls[c].await # "list" => ActiveJobs = {}
    BY <1>2, <1>3, <2>1 DEF Tracked, Steady, Selecting
  <2>4. calls[c].await = "list" /\ g = "none" => ActiveJobs' = {}
    BY <1>1 DEF Serves, Carries, ActiveJobs
  <2>5. \A k \in ActiveJobs' : g = "active" /\ j = k
    <3>1. CASE calls[c].await = "list"
      BY <1>1, <1>4, <1>5, <3>1 DEF Serves, Carries, ActiveJobs
    <3>2. CASE calls[c].await = "submit"
      BY <1>1, <1>4, <2>3, <3>2 DEF Serves, Carries, ActiveJobs, Typed, TypeOK
    <3>3. CASE calls[c].await = "choose"
      BY <1>1, <2>3, <3>3 DEF Serves, Carries, ActiveJobs
    <3>4. QED
      BY <1>6, <3>1, <3>2, <3>3 DEF Selecting
  <2>6. Selecting(c)'
    BY <1>2, <1>6 DEF Selecting
  <2>7. QED
    BY <1>2, <1>4, <2>2, <2>4, <2>5, <2>6 DEF Tracked
<1>7. CASE ~Selecting(c)
  <2>1. ActiveJobs' \subseteq ActiveJobs
    BY <1>1, <1>7, Names DEF Serves, Carries, Selecting, ActiveJobs, Typed, TypeOK
  <2>2. \A d \in Task : /\ calls'[d].got # "lost"
                        /\ calls'[d].await = "list" /\ calls'[d].got = "none" => Selecting(d)
    BY <1>2, <1>4, <1>7 DEF Selecting
  <2>3. QED
    BY <1>2, <1>7, <2>1, <2>2, SameTracks
<1>8. QED
  BY <1>6, <1>7

LEMMA ReceiveTracked ==
    ASSUME Typed, OneAffair, EndsAreTrue, Tracked, NEW c \in Task, Receive(c)
    PROVE  Tracked'
<1>0. /\ calls'[c].got \in {"nothing", "waiting"} /\ \A d \in Task \ {c} : calls'[d] = calls[d]
      /\ status' = status /\ ActiveJobs' = ActiveJobs /\ world' = world
      /\ calls[c].got \notin {"nothing", "waiting"} /\ calls[c] # Idle
  BY ReceiveCalls DEF ActiveJobs, ghosts, Idle
<1>1. SUFFICES ASSUME Steady PROVE Tracked'
  BY <1>0 DEF Tracked, Steady
<1>2. calls[c].got # "lost" /\ \A d \in Task : calls'[d].got # "lost"
  BY <1>0, <1>1 DEF Tracked, Steady
<1>3. \A d \in Task : calls'[d].await = "list" /\ calls'[d].got = "none" => ActiveJobs' = {}
  BY <1>0, <1>1 DEF Tracked, Steady
<1>4. ASSUME \A k \in ActiveJobs : job'.id = k /\ isActive' /\ dialog' /\ ~error'
      PROVE  Tracked'
  BY <1>0, <1>2, <1>3, <1>4 DEF Tracked
<1>5. CASE Selecting(c)
  <2>1. ~dialog /\ \A d \in Task \ {c} : calls[d] = Idle /\ ~Selecting(d)
    BY <1>1, <1>5, Alone
  <2>2. \A k \in ActiveJobs : calls[c].got = "active" /\ calls[c].job = k
    BY <1>0, <1>1, <2>1 DEF Tracked, Steady, Selecting
  <2>3. CASE startTracking(c, calls[c].job)
    BY <1>4, <2>2, <2>3 DEF startTracking, SetJob, Merged, isActive
  <2>4. CASE calls[c].got # "active"
    BY <1>4, <2>2, <2>4
  <2>5. QED
    BY <1>2, <1>5, <2>3, <2>4 DEF Receive, pollJob, restoreLatestJob, cancelJob, saveTableSelection,
       Chosen, Selecting, Typed, Real, Asks
<1>6. CASE Following(c)
  <2>1. \A d \in Task : ~Selecting(d)
    BY <1>0, <1>1, <1>6 DEF OneAffair, Steady, Promised, Selecting, Following
  <2>2. \A k \in ActiveJobs : job.id = k /\ isActive /\ dialog /\ ~error
    BY <1>1, <2>1 DEF Tracked, Steady, Selecting
  <2>3. job.id = calls[c].job /\ Exists(calls[c].job)
    BY <1>1, <1>6 DEF OneAffair, Steady, Promised, Following, Typed, Real, Asks
  <2>4. calls[c].got \in Terminal \union {"refused"} => \A k \in ActiveJobs : k # job.id
    BY <1>1, <2>3, Names DEF EndsAreTrue, Steady, Promised, ActiveJobs, Exists
  <2>5. CASE pollJob(c)
    <3>1. ~OtherJobShown(c)
      BY <2>3 DEF OtherJobShown
    <3>2. calls[c].got \in {"active"} \union Terminal
      BY <1>0, <1>2, <2>5 DEF pollJob, Typed, Real, Asks
    <3>3. CASE calls[c].got = "active"
      BY <1>2, <1>4, <2>2, <2>3, <2>5, <3>1, <3>3 DEF pollJob, SetJob, Detail, isActive
    <3>4. CASE calls[c].got \in Terminal
      BY <1>4, <2>2, <2>4, <3>4
    <3>5. QED
      BY <3>2, <3>3, <3>4
  <2>6. CASE cancelJob(c)
    <3>1. calls[c].got \in {"refused", "cancelled"}
      BY <1>0, <1>2, <2>6 DEF cancelJob, Typed, Real, Asks
    <3>2. QED
      BY <1>4, <2>2, <2>4, <3>1, Names
  <2>7. QED
    BY <1>6, <2>5, <2>6 DEF Receive, restoreLatestJob, saveTableSelection, Chosen, Following
<1>7. QED
  BY <1>5, <1>6 DEF Receive, pollJob, restoreLatestJob, cancelJob, saveTableSelection, Chosen, Selecting,
     Following

LEMMA UserTracked ==
    ASSUME Typed, OneAffair, Tracked, User
    PROVE  Tracked'
<1>1. /\ status' = status /\ world' = world /\ ActiveJobs' = ActiveJobs
      /\ \/ calls' = calls
         \/ \E c \in Task : /\ calls[c] = Idle /\ calls'[c].got = "waiting"
                            /\ \A d \in Task \ {c} : calls'[d] = calls[d]
  BY UserCalls DEF ActiveJobs
<1>2. SUFFICES ASSUME Steady PROVE Tracked'
  BY <1>1 DEF Tracked, Steady
<1>3. \A c \in Task : /\ calls'[c].got # "lost"
                      /\ Selecting(c) => calls'[c] = calls[c]
                      /\ calls'[c].await = "list" /\ calls'[c].got = "none" => Selecting(c)
  BY <1>1, <1>2 DEF Tracked, Steady, Selecting, Idle
<1>4. OnForm => ActiveJobs = {}
  <2>1. ASSUME OnForm PROVE \A c \in Task : ~Selecting(c)
    BY <1>2, <2>1 DEF OnForm, MayAct, Steady, Promised, Free, Selecting, Idle
  <2>2. OnForm => ~dialog
    BY DEF OnForm
  <2>3. QED
    BY <1>2, <2>1, <2>2 DEF Tracked, Steady, Selecting
<1>5. CASE ActiveJobs = {}
  BY <1>1, <1>3, <1>5 DEF Tracked
<1>6. CASE cancelSyncJob \/ Confirmed \/ Declined
  <2>1. UNCHANGED <<job, dialog, error>>
    BY <1>6 DEF cancelSyncJob, Confirmed, Declined, shown
  <2>2. QED
    BY <1>1, <1>3, <2>1, SameTracks
<1>7. CASE handleSyncJobDialogBeforeClose
  <2>1. ~isActive \/ error
    BY <1>7 DEF handleSyncJobDialogBeforeClose, canCloseSyncJobDialog
  <2>2. calls' = calls
    BY <1>7 DEF handleSyncJobDialogBeforeClose
  <2>3. QED
    BY <1>1, <1>2, <2>1, <2>2 DEF Tracked, Steady, Selecting
<1>8. QED
  BY <1>4, <1>5, <1>6, <1>7 DEF User, initForm, save, close, Leave

-----------------------------------------------------------------------------
(* The theorems. *)

LEMMA Initially == Init => IInv
<1> SUFFICES ASSUME Init PROVE IInv
  OBVIOUS
<1>1. PICK a \in Task :
          /\ calls[a] = [for |-> "restore", await |-> "list", job |-> 0, got |-> "waiting"]
          /\ \A c \in Task \ {a} : calls[c] = Idle
          /\ calls \in [Task -> {Idle} \union Call]
  <2>1. PICK k \in Call : k = [for |-> "restore", await |-> "list", job |-> 0, got |-> "waiting"]
    BY DEF Call
  <2>2. PICK a \in Task : a = CHOOSE c \in Task : TRUE
    BY TrackerAssumption
  <2>3. calls = [[c \in Task |-> Idle] EXCEPT ![a] = k]
    BY <2>1, <2>2 DEF Init
  <2>4. QED
    BY <2>1, <2>3
<1>2. status \in [Job -> {"none", "active"}] /\ \A j, k \in ActiveJobs : j = k
  BY DEF Init, ActiveJobs
<1>3. TypeOK
  <2>1. line \in Seq(Task)
    BY EmptySeq DEF Init
  <2>2. budget \in 0 .. Budget
    BY TrackerAssumption DEF Init
  <2>3. status \in [Job -> Status]
    BY <1>2 DEF Status
  <2>4. told \in [Job -> 0 .. 2]
    BY DEF Init
  <2>5. QED
    BY <1>1, <2>1, <2>2, <2>3, <2>4 DEF Init, TypeOK, Shown
<1>4. Real
  <2>1. \A c \in Task : Asks(c)
    BY <1>1 DEF Asks, Idle
  <2>2. QED
    BY <1>2, <2>1 DEF Init, Real
<1>5. Watched
  BY DEF Init, Watched, NeverSilent, DetailsPending, isActive, NoJob
<1>6. OneAffair
  <2>1. Selecting(a) /\ ~Following(a)
    BY <1>1 DEF Selecting, Following
  <2>2. \A c \in Task \ {a} : ~Selecting(c) /\ ~Following(c)
    BY <1>1 DEF Selecting, Following, Idle
  <2>3. QED
    BY <1>1, <2>1, <2>2 DEF Init, OneAffair
<1>7. EndsAreTrue
  BY <1>1, Names DEF Init, EndsAreTrue, NoJob, Idle
<1>8. Lined
  <2>1. line = <<>> /\ DOMAIN line = {}
    BY DEF Init
  <2>2. \A c \in Task : ~Answered(c)
    BY <1>1 DEF Answered, Idle
  <2>3. QED
    BY <2>1, <2>2 DEF Lined, InLine, LateNews
<1>9. Announced
  BY DEF Init, Announced
<1>10. Tracked
  BY <1>1 DEF Init, Tracked, Idle
<1>11. QED
  BY <1>3, <1>4, <1>5, <1>6, <1>7, <1>8, <1>9, <1>10 DEF IInv, Watched, Lined

LEMMA Inductive == IInv /\ [Next]_vars => IInv'
<1> SUFFICES ASSUME IInv, [Next]_vars PROVE IInv'
  OBVIOUS
<1>1. Typed /\ Watched /\ OneAffair /\ EndsAreTrue /\ Lined /\ Announced /\ Tracked
  BY DEF IInv, Typed, Watched, Lined
<1>2. SUFFICES Typed' /\ Watched' /\ OneAffair' /\ EndsAreTrue' /\ Lined' /\ Announced' /\ Tracked'
  BY DEF IInv, Typed, Watched, Lined
<1>3. ASSUME NEW j \in Job, EndJob(j) \/ Overwrite(j)
      PROVE  Typed' /\ Watched' /\ OneAffair' /\ EndsAreTrue' /\ Lined' /\ Announced' /\ Tracked'
  BY <1>1, <1>3, RowsType, BackWatched, BackAffair, BackEnds, OthersLine, OthersAnnounced, OthersTracked
<1>4. ASSUME NEW c \in Task, Serve(c)
      PROVE  Typed' /\ Watched' /\ OneAffair' /\ EndsAreTrue' /\ Lined' /\ Announced' /\ Tracked'
  BY <1>1, <1>4, ServeType, BackWatched, BackAffair, BackEnds, ServeLine, OthersAnnounced, ServeTracked
<1>5. ASSUME NEW c \in Task, Lose(c)
      PROVE  Typed' /\ Watched' /\ OneAffair' /\ EndsAreTrue' /\ Lined' /\ Announced' /\ Tracked'
  BY <1>1, <1>5, LoseType, BackWatched, BackAffair, BackEnds, OthersLine, OthersAnnounced, OthersTracked
<1>6. ASSUME NEW c \in Task, Receive(c)
      PROVE  Typed' /\ Watched' /\ OneAffair' /\ EndsAreTrue' /\ Lined' /\ Announced' /\ Tracked'
  BY <1>1, <1>6, ReceiveType, ReceiveWatched, ReceiveAffair, ReceiveEnds, ReceiveLine, ReceiveAnnounced,
     ReceiveTracked
<1>7. CASE Timeout
  BY <1>1, <1>7, TimeoutType, BackWatched, BackAffair, BackEnds, OthersLine, OthersAnnounced, OthersTracked
<1>8. CASE User
  BY <1>1, <1>8, UserType, UserWatched, UserAffair, UserEnds, OthersLine, OthersAnnounced, UserTracked
<1>9. CASE UNCHANGED vars
  <2> USE <1>9 DEF vars, server, shown, flags, ghosts
  <2>1. Typed'
    <3>1. TypeOK'
      BY <1>1 DEF Typed, TypeOK
    <3>2. Real'
      BY <1>1 DEF Typed, Real, Asks, Exists, ActiveJobs
    <3>3. QED
      BY <3>1, <3>2 DEF Typed
  <2>2. Watched'
    BY <1>1, StillWatched DEF Polls
  <2>3. OneAffair'
    BY <1>1, SameAffair
  <2>4. EndsAreTrue'
    BY <1>1 DEF EndsAreTrue, Promised
  <2>5. Lined'
    BY <1>1, UntouchedLine
  <2>6. Announced'
    BY <1>1 DEF Announced
  <2>7. Tracked'
    BY <1>1 DEF Tracked, isActive, Selecting, ActiveJobs
  <2>8. QED
    BY <2>1, <2>2, <2>3, <2>4, <2>5, <2>6, <2>7
<1>10. QED
  BY <1>3, <1>4, <1>5, <1>6, <1>7, <1>8, <1>9 DEF Next

LEMMA Invariance == Spec => []IInv
BY Initially, Inductive, PTL DEF Spec

\* Every variable keeps its type, whatever is clicked, lost or answered late.
THEOREM TrackerTypes == Spec => []TypeOK
<1>1. IInv => TypeOK
  BY DEF IInv
<1>2. QED
  BY <1>1, Invariance, PTL

\* The form never shows a running job that nobody asks about any more, unless it
\* says that a request failed: in every world, for any number of requests.
THEOREM NeverLeftSilent == Spec => []NeverSilent
<1>1. IInv => NeverSilent
  BY DEF IInv
<1>2. QED
  BY <1>1, Invariance, PTL

\* The end and the details that are shown are those of the job.
THEOREM ShowsTheJob == Spec => []ShownIsOfTheJob
<1>1. IInv => ShownIsOfTheJob
  BY DEF IInv, EndsAreTrue, DetailsPending, ShownIsOfTheJob
<1>2. QED
  BY <1>1, Invariance, PTL

\* Where answers keep their order, nobody hurries and an end is an end, the end
\* of a job is announced at most once.
THEOREM AnnouncedOnce == Spec => []ToldOnce
<1>1. IInv => ToldOnce
  BY DEF IInv, Announced, ToldOnce, TypeOK
<1>2. QED
  BY <1>1, Invariance, PTL

\* A patient user cancels the job the confirmation was about.
THEOREM CancelsTheRightJob == Spec => []CancelsWhatWasAsked
<1>1. IInv => CancelsWhatWasAsked
  BY DEF IInv, OneAffair, CancelsWhatWasAsked
<1>2. QED
  BY <1>1, Invariance, PTL

\* A form that shows no job has forgotten none.
THEOREM ForgetsNone == Spec => []NothingForgotten
<1>1. IInv => NothingForgotten
  BY DEF IInv, Tracked, NothingForgotten, Free, Idle, Selecting, NoJob, ActiveJobs, Job
<1>2. QED
  BY <1>1, Invariance, PTL

\* Nothing is polled after a patient user has left.
THEOREM QuietForGood == Spec => []QuietAfterLeave
<1>1. IInv => QuietAfterLeave
  BY DEF IInv, OneAffair, QuietAfterLeave
<1>2. QED
  BY <1>1, Invariance, PTL

-----------------------------------------------------------------------------
(* The rows of the back end. *)

\* What the back end does with a request, to one row at most.
LEMMA CarriesAsRows ==
    ASSUME Typed, NEW c \in Task, NEW g, NEW j, Carries(c, g, j)
    PROVE  Rows!Next \/ UNCHANGED status
<1>1. CASE ActiveJobs = {} /\ j \in Job /\ status[j] = "none"
           /\ status' = [status EXCEPT ![j] = "active"]
  BY <1>1 DEF Rows!Next, Rows!BeginJob, Rows!NoneActive, ActiveJobs
<1>2. CASE calls[c].await = "cancel" /\ j = calls[c].job /\ status[j] = "active"
           /\ status' = [status EXCEPT ![j] = "cancelled"]
  <2>1. j \in Job /\ "cancelled" \in Rows!Ended
    BY <1>2 DEF Typed, Real, Asks, Exists, Rows!Ended
  <2>2. Rows!EndJob(j)
    BY <1>2, <2>1 DEF Rows!EndJob
  <2>3. QED
    BY <2>1, <2>2 DEF Rows!Next
<1>3. CASE calls[c].await = "cancel" /\ j = calls[c].job /\ status[j] \in Terminal
           /\ status' = [status EXCEPT ![j] = "cancelled"]
  <2>1. /\ j \in Job /\ "cancelled" \in Rows!Ended /\ status[j] \in Rows!Ended
        /\ {status[j], "cancelled"} # {"succeeded", "partial"}
    BY <1>3 DEF Typed, Real, Asks, Exists, Rows!Ended, Terminal
  <2>2. Rows!ReplaceEnd(j)
    BY <1>3, <2>1 DEF Rows!ReplaceEnd
  <2>3. QED
    BY <2>1, <2>2 DEF Rows!Next
<1>4. QED
  BY <1>1, <1>2, <1>3 DEF Carries

LEMMA BackEndAsRows ==
    ASSUME Typed, NEW j \in Job, EndJob(j) \/ Overwrite(j)
    PROVE  Rows!Next
<1>0. Terminal = Rows!Ended /\ Outcome \subseteq Terminal
  BY DEF Terminal, Rows!Ended
<1>1. CASE EndJob(j)
  BY <1>0, <1>1 DEF EndJob, Rows!EndJob, Rows!Next
<1>2. CASE Overwrite(j)
  <2>1. CASE status[j] \in {"failed", "cancelled"} /\ ActiveJobs = {}
             /\ status' = [status EXCEPT ![j] = "active"]
    BY <2>1 DEF ActiveJobs, Rows!ReviveJob, Rows!NoneActive, Rows!Next
  <2>2. ASSUME status[j] \in Terminal, NEW s \in Outcome,
               {status[j], s} # {"succeeded", "partial"}, status' = [status EXCEPT ![j] = s]
        PROVE  Rows!Next
    BY <1>0, <2>2 DEF Rows!ReplaceEnd, Rows!Next
  <2>3. QED
    BY <1>2, <2>1, <2>2 DEF Overwrite
<1>3. QED
  BY <1>1, <1>2

\* Nothing that may happen to a job that ended is left out, save what another
\* user's cancellation does.
LEMMA AllThatMayHappen ==
    ASSUME Typed, NEW j \in Job, Rows!ReplaceEnd(j) \/ Rows!ReviveJob(j),
           status' # status, status'[j] # "cancelled", ~Promised("settled"), Spends,
           UNCHANGED <<shown, flags, calls, line, cancelled>>
    PROVE  Overwrite(j)
<1>0. Terminal = Rows!Ended /\ status \in [Job -> Status]
  BY DEF Terminal, Rows!Ended, Typed, TypeOK
<1>1. CASE Rows!ReviveJob(j)
  BY <1>0, <1>1 DEF Rows!ReviveJob, Rows!NoneActive, ActiveJobs, Overwrite
<1>2. CASE Rows!ReplaceEnd(j)
  <2>1. PICK s \in Rows!Ended : /\ {status[j], s} # {"succeeded", "partial"}
                                /\ status' = [status EXCEPT ![j] = s]
    BY <1>2 DEF Rows!ReplaceEnd
  <2>2. s \in Outcome \ {status[j]} /\ status[j] \in Terminal
    BY <1>0, <1>2, <2>1 DEF Rows!Ended, Rows!ReplaceEnd
  <2>3. QED
    BY <2>1, <2>2 DEF Overwrite
<1>3. QED
  BY <1>1, <1>2

LEMMA NextAsRows ==
    ASSUME Typed, [Next]_vars
    PROVE  Rows!Next \/ UNCHANGED status
<1>1. ASSUME NEW c \in Task, Serve(c)
      PROVE  Rows!Next \/ UNCHANGED status
  BY <1>1, ServeServes, CarriesAsRows DEF Carried, Serves
<1>2. CASE (\E c \in Task : Lose(c) \/ Receive(c)) \/ Timeout \/ User
  BY <1>2 DEF Lose, Receive, Timeout, User, initForm, save, close, Leave,
     handleSyncJobDialogBeforeClose, cancelSyncJob, Confirmed, Declined, server
<1>3. QED
  BY <1>1, <1>2, BackEndAsRows DEF Next, vars, server

\* Whatever the form does, and whatever else happens on the back end, the rows
\* change as JobRows says: the model of the form asks nothing of the back end that
\* the jobs of SyncJob, which implement JobRows too, may not do.
THEOREM BackEndIsTheirs == Spec => RowsSpec
<1>1. Init => Rows!Init
  BY DEF Init, Rows!Init
<1>2. Typed /\ [Next]_vars => [Rows!Next]_status
  BY NextAsRows
<1>3. Spec => []Typed
  <2>1. IInv => Typed
    BY DEF IInv, Typed
  <2>2. QED
    BY <2>1, Invariance, PTL
<1>4. QED
  BY <1>1, <1>2, <1>3, PTL DEF Spec, RowsSpec, Rows!Spec
=============================================================================
