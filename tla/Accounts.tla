------------------------------- MODULE Accounts -------------------------------
(***************************************************************************)
(* Users, workspaces and who belongs where, with the cache of user         *)
(* information that every request is authenticated from.                   *)
(*                                                                         *)
(* A handler runs on the event loop without a pause: it empties a cache    *)
(* entry, reads the rows and prepares its writes.  The session is          *)
(* committed later, by a thread of the pool (get_session), and other       *)
(* requests run in between.  The cache is the one in memory, of a single   *)
(* process, as start.sh starts it.                                         *)
(***************************************************************************)
EXTENDS Naturals, FiniteSets

CONSTANTS User, Admin,         \* identifiers; Admin is the user with id 1
          Workspace, Default,  \* identifiers; Default is the workspace with id 1
          Unborn, Gone,        \* an identifier not yet used, and one deleted
          Homeless, NotCached, \* oid 0, and no cache entry
          Overlap,             \* a bound: transactions open at a time
          Worlds               \* the environments to check

ASSUME AccountsAssumption ==
    /\ Admin \in User /\ Default \in Workspace /\ Homeless \notin Workspace
    /\ Overlap \in Nat
    /\ Unborn # Gone /\ NotCached \notin {Unborn, Gone}

VARIABLES
    user,   \* sys_user: the rows
    member, \* sys_user_ws: who belongs to which workspace
    ws,     \* sys_workspace
    cache,  \* the cached user information, by user
    tx,     \* transactions that are prepared and not committed
    lag,    \* history: users whose information was cached while a change was on
            \* its way, or changed by a handler that empties no entry of theirs
    world   \* rigid, what can be relied on:
            \* "serial": no write begins while another is not committed,
            \* "quiet": nor is a request authenticated,
            \* "keys": only keys are managed and users deleted (a bound)

accountVars == <<user, member, ws, cache, tx, lag, world>>

Promises == {"serial", "quiet", "keys"}
Promised(p) == p \in world

Row == [status : BOOLEAN, oid : Workspace \union {Homeless}]

ASSUME RowAssumption == /\ \A v \in {Unborn, Gone, NotCached} : v \notin Row
                        /\ Worlds \subseteq SUBSET Promises
Live == {u \in User : user[u] \notin {Unborn, Gone}}
Open == {w \in Workspace : ws[w] = "open"}
WorkspacesOf(u) == {w \in Workspace : <<u, w>> \in member}

Writes == [oid : UNION {[S -> Workspace \union {Homeless}] : S \in SUBSET User},
           status : UNION {[S -> BOOLEAN] : S \in SUBSET User},
           born : UNION {[S -> Row] : S \in SUBSET User},
           bound : SUBSET (User \X Workspace), unbound : SUBSET (User \X Workspace),
           made : SUBSET Workspace, dropped : SUBSET Workspace,
           unclear : SUBSET User, core : BOOLEAN]

Nothing == [x \in {} |-> Homeless]
NoWrites == [oid |-> Nothing, status |-> Nothing, born |-> Nothing,
             bound |-> {}, unbound |-> {}, made |-> {}, dropped |-> {},
             unclear |-> {}, core |-> FALSE]
\* A column is written only if its value changes.
HomeWrite(u, w) == [x \in {v \in {u} : user[v].oid # w} |-> w]
Touches(t) == DOMAIN t.oid \union DOMAIN t.status

-----------------------------------------------------------------------------
(* The cache. *)

\* Mutant: the entry is overwritten with nothing.
clear_cacheEmpty(S) ==
    /\ cache' = [u \in User |-> IF u \in S THEN Unborn ELSE cache[u]]
    /\ lag' = lag \ S

\* clear_cache, for the users whose key the decorator builds.
clear_cache(S) ==
    /\ cache' = [u \in User |-> IF u \in S THEN NotCached ELSE cache[u]]
    /\ lag' = lag \ S

Seen(u) == IF cache[u] = NotCached THEN user[u] ELSE cache[u]

\* get_user_info behind its cache: what is found in the database stays.
get_user_info(u) ==
    /\ cache' = [cache EXCEPT ![u] = Seen(u)]
    /\ lag' = IF cache[u] = NotCached /\ \E t \in tx : u \in Touches(t)
                THEN lag \union {u} ELSE lag

\* The checks of validateToken.
Accepted(info) == info \notin {Unborn, Gone} /\ info.status /\ info.oid # Homeless

\* Any request of a user is authenticated first.
validateToken(u) ==
    /\ user[u] # Unborn
    /\ Promised("quiet") => tx = {}
    /\ get_user_info(u)
    /\ UNCHANGED <<user, member, ws, tx, world>>

\* An entry lives for a day.
Expire(u) ==
    /\ clear_cache({u})
    /\ UNCHANGED <<user, member, ws, tx, world>>

-----------------------------------------------------------------------------
(* The handlers. *)

Handler ==
    /\ Promised("serial") => tx = {}
    /\ ~Promised("keys") /\ Cardinality(tx) < Overlap
    /\ UNCHANGED <<user, member, ws, world>>
Prepare(t) == tx' = IF t = NoWrites THEN tx ELSE tx \union {t}

\* A user switches to a workspace of the list user_ws_options; to another one
\* only the cache entry is lost.
ws_change(u, w) ==
    /\ Handler /\ u \in Live /\ Accepted(Seen(u))
    /\ clear_cache({u})
    /\ IF w \in Open /\ (u = Admin \/ w \in WorkspacesOf(u))
         THEN Prepare([NoWrites EXCEPT !.oid = HomeWrite(u, w)])
         ELSE UNCHANGED tx

\* The key expression "id" names no parameter: the decorator empties the entry
\* of nobody.
statusChange(u, s) ==
    /\ Handler /\ u \in Live \ {Admin}
    /\ UNCHANGED <<cache, lag>>
    /\ Prepare([NoWrites EXCEPT !.status = [x \in {v \in {u} : user[v].status # s} |-> s],
                                !.unclear = {v \in {u} : user[v].status # s}])

\* A user with the workspaces W, the first of them as home.
user_create(u, W) ==
    /\ Handler /\ user[u] = Unborn /\ W \subseteq Open
    /\ \A t \in tx : u \notin DOMAIN t.born
    /\ \E h \in IF W = {} THEN {Homeless} ELSE W :
           Prepare([NoWrites EXCEPT !.born = [x \in {u} |-> [status |-> TRUE, oid |-> h]],
                                    !.bound = {u} \X W])
    /\ UNCHANGED <<cache, lag>>

\* The home is kept if it is still in the list.  The key expression names
\* current_user, which the handler does not have: nobody's entry is emptied.
update(u, W) ==
    /\ Handler /\ u \in Live \ {Admin} /\ W \subseteq Open
    /\ \E h \in CASE W = {} -> {Homeless}
                  [] user[u].oid \in W -> {user[u].oid}
                  [] OTHER -> W :
           Prepare([NoWrites EXCEPT !.oid = HomeWrite(u, h),
                                    !.bound = {u} \X (W \ WorkspacesOf(u)),
                                    !.unbound = {u} \X (WorkspacesOf(u) \ W),
                                    !.unclear = {v \in {u} : user[v].oid # h}])
    /\ UNCHANGED <<cache, lag>>

DeletedRows(u) ==
    IF u \in Live
      THEN /\ user' = [user EXCEPT ![u] = Gone]
           /\ member' = {m \in member : m[1] # u}
      ELSE UNCHANGED <<user, member>>

\* Mutant: the entry stays.
delete_userCached(u) ==
    /\ u \in User \ {Admin} /\ user[u] # Unborn
    /\ Promised("serial") => tx = {}
    /\ DeletedRows(u)
    /\ UNCHANGED <<cache, lag, ws, tx, world>>

\* single_delete of crud/user.py, which commits by itself.
delete_user(u) ==
    /\ u \in User \ {Admin} /\ user[u] # Unborn
    /\ Promised("serial") => tx = {}
    /\ clear_cache({u})
    /\ DeletedRows(u)
    /\ UNCHANGED <<ws, tx, world>>

\* Mutant: a user without a home is given none.
bindHomeless(u, w) ==
    /\ Handler /\ u \in Live \ {Admin} /\ w \in Open
    /\ clear_cache({u})
    /\ Prepare([NoWrites EXCEPT !.bound = {<<u, w>>}])

\* create of workspace.py with reset_single_user_oid: a user without a home
\* gets this one.
bind(u, w) ==
    /\ Handler /\ u \in Live \ {Admin} /\ w \in Open
    /\ clear_cache({u})
    /\ Prepare([NoWrites EXCEPT !.oid = IF user[u].oid = Homeless THEN HomeWrite(u, w) ELSE @,
                                !.bound = {<<u, w>>}])

\* delete of workspace.py: a user whose home it was moves to another one.
Moved(u, w) == IF WorkspacesOf(u) \subseteq {w} THEN {Homeless} ELSE WorkspacesOf(u) \ {w}
unbind(u, w) ==
    /\ Handler /\ w \in WorkspacesOf(u)
    /\ clear_cache({u})
    /\ \E h \in Moved(u, w) :
           Prepare([NoWrites EXCEPT
               !.oid = IF u \in Live /\ user[u].oid = w THEN HomeWrite(u, h) ELSE @,
               !.unbound = {<<u, w>>}])

add_ws(w) ==
    /\ Handler /\ ws[w] = "none" /\ \A t \in tx : w \notin t.made
    /\ Prepare([NoWrites EXCEPT !.made = {w}])
    /\ UNCHANGED <<cache, lag>>

\* reset_user_oid: the members of w whose home is not among their other
\* workspaces, and where they go.
Members(w) == {u \in Live \ {Admin} : w \in WorkspacesOf(u)}
Displaced(w) == {u \in Members(w) : user[u].oid \notin WorkspacesOf(u) \ {w}}
Relocations(w) ==
    {f \in [Displaced(w) -> Workspace \union {Homeless}] :
        \A u \in Displaced(w) : f[u] \in Moved(u, w)}
\* The administrator is moved if it is the home of the request.
Evicted(w) == {u \in {Admin} : Seen(u) \in Row /\ Seen(u).oid = w}

\* The cache entries S are emptied, the administrator is moved if among A, the
\* memberships M end.
Dissolve(w, S, A, M) ==
    /\ Handler /\ w \in Open \ {Default}
    /\ clear_cache(S)
    /\ \E f \in Relocations(w) :
           Prepare([NoWrites EXCEPT
               !.oid = [u \in A \union Displaced(w) |-> IF u = Admin THEN Default ELSE f[u]],
               !.unbound = M, !.dropped = {w}, !.core = TRUE])
Memberships(w) == {m \in member : m[2] = w}
Informed(w) == Evicted(w) \union {u \in User : w \in WorkspacesOf(u)}

\* Mutants: the members' entries stay; the administrator stays.
delete_wsCached(w) == Dissolve(w, Evicted(w), Evicted(w), Memberships(w))
delete_wsStay(w) == Dissolve(w, Informed(w), {}, Memberships(w))

\* single_delete of workspace.py.
delete_ws(w) == Dissolve(w, Informed(w), Evicted(w), Memberships(w))

-----------------------------------------------------------------------------
(* The commit. *)

Written(t, u) ==
    IF u \in DOMAIN t.born THEN t.born[u]
    ELSE IF u \notin Live THEN user[u]
    ELSE [status |-> IF u \in DOMAIN t.status THEN t.status[u] ELSE user[u].status,
          oid |-> IF u \in DOMAIN t.oid THEN t.oid[u] ELSE user[u].oid]

\* An object of the session whose row is gone fails the commit, and all is
\* rolled back; an UPDATE statement finds no row and goes on.
Fails(t) == ~t.core /\ \E u \in Touches(t) : u \notin Live

Commit(t) ==
    /\ t \in tx /\ tx' = tx \ {t}
    /\ IF Fails(t)
         THEN UNCHANGED <<user, member, ws, lag>>
         ELSE /\ user' = [u \in User |-> Written(t, u)]
              /\ member' = (member \ t.unbound) \union t.bound
              /\ ws' = [w \in Workspace |-> IF w \in t.made THEN "open"
                                            ELSE IF w \in t.dropped THEN "dropped" ELSE ws[w]]
              /\ lag' = lag \union t.unclear
    /\ UNCHANGED <<cache, world>>

AccountsInit ==
    /\ \E S \in SUBSET (User \ {Admin}) :
           /\ user = [u \in User |-> IF u \in S \union {Admin}
                                      THEN [status |-> TRUE, oid |-> Default] ELSE Unborn]
           /\ member = S \X {Default}
    /\ ws = [w \in Workspace |-> IF w = Default THEN "open" ELSE "none"]
    /\ cache = [u \in User |-> NotCached]
    /\ tx = {} /\ lag = {}
    /\ world \in Worlds

AccountsNext ==
    \/ \E u \in User :
           \/ validateToken(u) \/ Expire(u) \/ delete_user(u)
           \/ \E s \in BOOLEAN : statusChange(u, s)
           \/ \E W \in SUBSET Workspace : user_create(u, W) \/ update(u, W)
           \/ \E w \in Workspace : ws_change(u, w) \/ bind(u, w) \/ unbind(u, w)
    \/ \E w \in Workspace : add_ws(w) \/ delete_ws(w)
    \/ \E t \in tx : Commit(t)
=============================================================================
