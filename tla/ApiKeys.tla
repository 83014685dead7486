------------------------------- MODULE ApiKeys -------------------------------
(***************************************************************************)
(* The API keys of the users (apikey.py), which requests of programs are   *)
(* authenticated with through a cache of their own.  These handlers empty  *)
(* the cache entry and commit in one go, without giving up the event loop. *)
(***************************************************************************)
EXTENDS Accounts

CONSTANTS Key,    \* identifiers of keys
          MaxKeys \* the limit of create: 5 in the code

ASSUME ApiKeysAssumption == MaxKeys \in Nat /\ IsFiniteSet(Key)

VARIABLES
    key,     \* the rows of sys_apikey
    keyCache \* get_api_key, by access key

keyVars == <<key, keyCache>>
vars == <<accountVars, keyVars>>

KeyRow == [uid : User, status : BOOLEAN]

ASSUME KeyRowAssumption == \A v \in {Unborn, Gone} : v \notin KeyRow
KeysOf(u) == {k \in Key : key[k] \in KeyRow /\ key[k].uid = u}

clear_api_key_cache(k) == keyCache' = [keyCache EXCEPT ![k] = NotCached]
SeenKey(k) == IF keyCache[k] = NotCached THEN key[k] ELSE keyCache[k]

\* Only a user that is let in manages keys.
Manages(u) == Promised("keys") /\ Accepted(Seen(u)) /\ UNCHANGED accountVars

create(u, k) ==
    /\ Manages(u) /\ key[k] = Unborn
    /\ Cardinality(KeysOf(u)) < MaxKeys
    /\ key' = [key EXCEPT ![k] = [uid |-> u, status |-> TRUE]]
    /\ UNCHANGED keyCache

\* Mutant: the entry is emptied only when a key is switched on.
statusCached(u, k, s) ==
    /\ Manages(u) /\ k \in KeysOf(u) /\ key[k].status # s
    /\ key' = [key EXCEPT ![k].status = s]
    /\ IF s THEN clear_api_key_cache(k) ELSE UNCHANGED keyCache

status(u, k, s) ==
    /\ Manages(u) /\ k \in KeysOf(u) /\ key[k].status # s
    /\ key' = [key EXCEPT ![k].status = s]
    /\ clear_api_key_cache(k)

delete(u, k) ==
    /\ Manages(u) /\ k \in KeysOf(u)
    /\ key' = [key EXCEPT ![k] = Gone]
    /\ clear_api_key_cache(k)

\* validateAskToken: the key first, and if it is enabled its user.
validateAskToken(k) ==
    /\ key[k] # Unborn
    /\ Promised("quiet") => tx = {}
    /\ keyCache' = [keyCache EXCEPT ![k] = SeenKey(k)]
    /\ IF SeenKey(k) \in KeyRow /\ SeenKey(k).status
         THEN get_user_info(SeenKey(k).uid)
         ELSE UNCHANGED <<cache, lag>>
    /\ UNCHANGED <<key, user, member, ws, tx, world>>

ExpireKey(k) == clear_api_key_cache(k) /\ UNCHANGED <<key, accountVars>>

Init ==
    /\ AccountsInit
    /\ key = [k \in Key |-> Unborn]
    /\ keyCache = [k \in Key |-> NotCached]

Next ==
    \/ AccountsNext /\ UNCHANGED keyVars
    \/ \E k \in Key :
           \/ validateAskToken(k) \/ ExpireKey(k)
           \/ \E u \in User :
                  \/ create(u, k) \/ delete(u, k)
                  \/ \E s \in BOOLEAN : status(u, k, s)

Spec == Init /\ [][Next]_vars
=============================================================================
