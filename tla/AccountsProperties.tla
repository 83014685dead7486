-------------------------- MODULE AccountsProperties --------------------------
(***************************************************************************)
(* What holds of users, workspaces, keys and what is cached of them.       *)
(***************************************************************************)
EXTENDS ApiKeys

\* The type invariant.
TypeOK ==
    /\ user \in [User -> Row \union {Unborn, Gone}]
    /\ member \subseteq User \X Workspace
    /\ ws \in [Workspace -> {"none", "open", "dropped"}]
    /\ cache \in [User -> Row \union {Gone, NotCached}]
    /\ tx \subseteq Writes /\ lag \subseteq User /\ world \subseteq Promises
    /\ key \in [Key -> KeyRow \union {Unborn, Gone}]
    /\ keyCache \in [Key -> KeyRow \union {Gone, NotCached}]

\* Writes that do not overlap leave every user at home, in one of the user's
\* workspaces and nowhere only if there is none, and no membership of a user or
\* a workspace that is gone.
HomeInOrder ==
    Promised("serial") =>
        /\ \A u \in Live \ {Admin} :
               IF user[u].oid = Homeless THEN WorkspacesOf(u) = {}
                                         ELSE user[u].oid \in WorkspacesOf(u)
        /\ \A m \in member : m[1] \in Live /\ m[2] \in Open

\* The administrator's workspace exists, if no request reads his row while he
\* moves: the deletion of a workspace looks at what is cached of him.
AdminAtHome == Promised("serial") /\ Promised("quiet") => user[Admin].oid \in Open

\* What is cached of a user is what the database says, unless it was read while
\* a change of the row was not yet committed, or the row was changed by one of
\* the two handlers whose decorator names no entry (update and statusChange).
CacheIsTrue ==
    \A u \in User \ lag : cache[u] \in {NotCached, user[u]}

\* A deleted user is not let in, whatever was on its way when he was deleted.
DeletedIsOut == \A u \in User : user[u] = Gone => cache[u] \in {NotCached, Gone}

\* What is cached of a key is what the database says: a key that is disabled or
\* deleted is refused from then on.
KeyIsTrue == \A k \in Key : keyCache[k] \in {NotCached, key[k]}

\* Whoever sends requests sees users, workspaces and keys come and go as Registry
\* says, whatever is cached and whenever transactions are committed.
LifeOf(u) == IF Seen(u) = Unborn THEN "unborn" ELSE IF Seen(u) = Gone THEN "gone" ELSE "live"
Directory == INSTANCE Registry WITH
    life  <- [u \in User |-> LifeOf(u)],
    place <- ws,
    row   <- [k \in Key |-> SeenKey(k)]

RegistrySpec == Directory!Spec

\* Nobody has more keys than create allows.
KeyLimit == \A u \in User : Cardinality(KeysOf(u)) <= MaxKeys
=============================================================================
