---------------------------- MODULE SchemaCatalog ----------------------------
(***************************************************************************)
(* What the readers of a datasource's schema are promised by asynchronous  *)
(* synchronisation: at any time they see the complete selection of one     *)
(* synchronisation job, and only ever move on to that of a later one.      *)
(***************************************************************************)
EXTENDS Naturals

CONSTANTS MaxJobs, Datasource, Table, None

Job == 1..MaxJobs

VARIABLES
    owner,      \* the datasource a job was requested for, None before
    request,    \* the tables it was requested to make visible
    visible,    \* what readers see
    publisher   \* the job they see the selection of, 0 before the first

catalogVars == <<owner, request, visible, publisher>>

Init ==
    /\ owner = [j \in Job |-> None]
    /\ request = [j \in Job |-> {}]
    /\ visible = [d \in Datasource |-> {}]
    /\ publisher = [d \in Datasource |-> 0]

\* A job is requested once, and its request never changes.
RequestJob(j, d, T) ==
    /\ owner[j] = None /\ T # {}
    /\ owner' = [owner EXCEPT ![j] = d]
    /\ request' = [request EXCEPT ![j] = T]
    /\ UNCHANGED <<visible, publisher>>

\* The selection of j replaces that of an earlier job, all at once.
ReplaceSchema(d, j) ==
    /\ owner[j] = d /\ publisher[d] < j
    /\ visible' = [visible EXCEPT ![d] = request[j]]
    /\ publisher' = [publisher EXCEPT ![d] = j]
    /\ UNCHANGED <<owner, request>>

Next == \E d \in Datasource, j \in Job :
            \/ \E T \in SUBSET Table : RequestJob(j, d, T)
            \/ ReplaceSchema(d, j)

Spec == Init /\ [][Next]_catalogVars
=============================================================================
