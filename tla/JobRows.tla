------------------------------- MODULE JobRows -------------------------------
(***************************************************************************)
(* What whoever reads the status of the jobs of one datasource may rely    *)
(* on, whatever threads, sweeps, cancellations and crashes do to the rows: *)
(* at most one job is active, a job begins once, and one that has ended    *)
(* may be said to have ended otherwise, or turn out to go on, but only in  *)
(* the ways below.                                                         *)
(***************************************************************************)
CONSTANTS Job,
          Outcome \* how a job may end by itself

VARIABLE rows \* the status of each job: "none", "active" or how it ended

Ended == Outcome \union {"cancelled"}

NoneActive == \A j \in Job : rows[j] # "active"

\* A reader may come when a job runs already.
Init == rows \in [Job -> {"none", "active"}]
        /\ \A j, k \in Job : rows[j] = "active" /\ rows[k] = "active" => j = k

BeginJob(j) ==
    /\ rows[j] = "none" /\ NoneActive
    /\ rows' = [rows EXCEPT ![j] = "active"]

EndJob(j) ==
    /\ rows[j] = "active"
    /\ \E s \in Ended : rows' = [rows EXCEPT ![j] = s]

\* What was published is not called partial, nor the other way round.
ReplaceEnd(j) ==
    /\ rows[j] \in Ended
    /\ \E s \in Ended :
         /\ {rows[j], s} # {"succeeded", "partial"}
         /\ rows' = [rows EXCEPT ![j] = s]

\* A thread goes on with a job that was cancelled or taken for dead.
ReviveJob(j) ==
    /\ rows[j] \in {"failed", "cancelled"} /\ NoneActive
    /\ rows' = [rows EXCEPT ![j] = "active"]

Next == \E j \in Job : BeginJob(j) \/ EndJob(j) \/ ReplaceEnd(j) \/ ReviveJob(j)

Spec == Init /\ [][Next]_rows
=============================================================================
