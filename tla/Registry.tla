------------------------------- MODULE Registry -------------------------------
(***************************************************************************)
(* Users, workspaces and keys as requests see them, through the caches:    *)
(* as if there were neither a cache nor a transaction that commits later.  *)
(* Each comes into being once and goes for good; a key is managed by its   *)
(* owner while the owner exists, and nobody has more than MaxKeys.         *)
(***************************************************************************)
EXTENDS Naturals, FiniteSets

CONSTANTS User, Admin, Workspace, Default, Key, MaxKeys, Unborn, Gone

VARIABLES
    life,  \* of each user: "unborn", "live" or "gone"
    place, \* of each workspace: "none", "open" or "dropped"
    row    \* of each key: Unborn, its owner and status, or Gone

registry == <<life, place, row>>

Issued(k) == row[k] \notin {Unborn, Gone}
KeysOf(u) == {k \in Key : Issued(k) /\ row[k].uid = u}

Init ==
    /\ life \in [User -> {"unborn", "live"}] /\ life[Admin] = "live"
    /\ place = [w \in Workspace |-> IF w = Default THEN "open" ELSE "none"]
    /\ row = [k \in Key |-> Unborn]

\* Users S are born, workspaces M opened and workspaces D dropped.
Administer(S, M, D) ==
    /\ \A u \in S : life[u] = "unborn"
    /\ \A w \in M : place[w] = "none"
    /\ \A w \in D : place[w] = "open" /\ w # Default
    /\ life' = [u \in User |-> IF u \in S THEN "live" ELSE life[u]]
    /\ place' = [w \in Workspace |-> IF w \in M THEN "open"
                                     ELSE IF w \in D THEN "dropped" ELSE place[w]]
    /\ UNCHANGED row

Leave(u) ==
    /\ life[u] = "live" /\ u # Admin
    /\ life' = [life EXCEPT ![u] = "gone"]
    /\ UNCHANGED <<place, row>>

CreateKey(u, k) ==
    /\ life[u] = "live" /\ row[k] = Unborn
    /\ Cardinality(KeysOf(u)) < MaxKeys
    /\ row' = [row EXCEPT ![k] = [uid |-> u, status |-> TRUE]]
    /\ UNCHANGED <<life, place>>

SwitchKey(k) ==
    /\ Issued(k) /\ life[row[k].uid] = "live"
    /\ row' = [row EXCEPT ![k].status = ~@]
    /\ UNCHANGED <<life, place>>

DeleteKey(k) ==
    /\ Issued(k) /\ life[row[k].uid] = "live"
    /\ row' = [row EXCEPT ![k] = Gone]
    /\ UNCHANGED <<life, place>>

Next ==
    \/ \E S \in SUBSET User, M, D \in SUBSET Workspace : Administer(S, M, D)
    \/ \E u \in User : Leave(u) \/ \E k \in Key : CreateKey(u, k)
    \/ \E k \in Key : SwitchKey(k) \/ DeleteKey(k)

Spec == Init /\ [][Next]_registry
=============================================================================
