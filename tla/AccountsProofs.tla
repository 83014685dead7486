--------------------------- MODULE AccountsProofs ---------------------------
(***************************************************************************)
(* Proofs, for any users, workspaces and keys and any number of open       *)
(* transactions, of what holds of accounts, keys and what is cached.       *)
(***************************************************************************)
EXTENDS AccountsProperties, FiniteSetTheorems, TLAPS

-----------------------------------------------------------------------------
(* The writes of a transaction. *)

Homes == UNION {[S -> Workspace \union {Homeless}] : S \in SUBSET User}
States == UNION {[S -> BOOLEAN] : S \in SUBSET User}
Births == UNION {[S -> Row] : S \in SUBSET User}

LEMMA WritesType ==
    ASSUME NEW t \in Writes
    PROVE  /\ t.oid \in Homes /\ t.status \in States /\ t.born \in Births
           /\ t.bound \subseteq User \X Workspace /\ t.unbound \subseteq User \X Workspace
           /\ t.made \subseteq Workspace /\ t.dropped \subseteq Workspace
           /\ t.unclear \subseteq User /\ t.core \in BOOLEAN
BY DEF Writes, Homes, States, Births

LEMMA IsWrites ==
    ASSUME NEW o \in Homes, NEW s \in States, NEW b \in Births,
           NEW x \in SUBSET (User \X Workspace), NEW y \in SUBSET (User \X Workspace),
           NEW m \in SUBSET Workspace, NEW d \in SUBSET Workspace,
           NEW c \in SUBSET User, NEW k \in BOOLEAN
    PROVE  [oid |-> o, status |-> s, born |-> b, bound |-> x, unbound |-> y,
            made |-> m, dropped |-> d, unclear |-> c, core |-> k] \in Writes
BY DEF Writes, Homes, States, Births

LEMMA HomesType ==
    ASSUME NEW S \in SUBSET User, NEW f \in [S -> Workspace \union {Homeless}]
    PROVE  f \in Homes /\ DOMAIN f = S
BY DEF Homes

LEMMA StatesType ==
    ASSUME NEW S \in SUBSET User, NEW f \in [S -> BOOLEAN]
    PROVE  f \in States /\ DOMAIN f = S
BY DEF States

LEMMA BirthsType ==
    ASSUME NEW S \in SUBSET User, NEW f \in [S -> Row]
    PROVE  f \in Births /\ DOMAIN f = S
BY DEF Births

LEMMA PartialTypes ==
    /\ \A f \in Homes : /\ DOMAIN f \subseteq User
                        /\ \A u \in DOMAIN f : f[u] \in Workspace \union {Homeless}
    /\ \A f \in States : DOMAIN f \subseteq User /\ \A u \in DOMAIN f : f[u] \in BOOLEAN
    /\ \A f \in Births : DOMAIN f \subseteq User /\ \A u \in DOMAIN f : f[u] \in Row
BY DEF Homes, States, Births

LEMMA NothingType ==
    Nothing \in Homes /\ Nothing \in States /\ Nothing \in Births /\ DOMAIN Nothing = {}
<1>1. Nothing \in [{} -> Workspace \union {Homeless}] /\ Nothing \in [{} -> BOOLEAN]
      /\ Nothing \in [{} -> Row] /\ DOMAIN Nothing = {}
  BY DEF Nothing
<1>2. QED
  BY <1>1, HomesType, StatesType, BirthsType

LEMMA HomeWriteType ==
    ASSUME NEW u \in User, NEW w \in Workspace \union {Homeless}
    PROVE  /\ HomeWrite(u, w) \in Homes
           /\ DOMAIN HomeWrite(u, w) = {v \in {u} : user[v].oid # w}
           /\ \A v \in DOMAIN HomeWrite(u, w) : HomeWrite(u, w)[v] = w
<1>1. HomeWrite(u, w) \in [{v \in {u} : user[v].oid # w} -> Workspace \union {Homeless}]
  BY DEF HomeWrite
<1>2. QED
  BY <1>1, HomesType DEF HomeWrite

-----------------------------------------------------------------------------
(* The inductive invariant. *)

\* A user under creation does not exist yet, and in one transaction only.
BornOnce ==
    \A t \in tx : \A u \in DOMAIN t.born :
        user[u] = Unborn /\ \A s \in tx \ {t} : u \notin DOMAIN s.born

\* Nothing is cached of a user that does not exist yet.
UnbornUnseen == \A u \in User : user[u] = Unborn => cache[u] = NotCached

\* A user whose row is about to change is not cached, or known to lag, or will be.
PendingIsKnown ==
    \A t \in tx : \A u \in Touches(t) : u \in lag \union t.unclear \/ cache[u] = NotCached

\* A key belongs to a user that exists or existed.
KeysHaveUsers ==
    \A k \in Key : /\ key[k] = Unborn => keyCache[k] = NotCached
                   /\ key[k] \in KeyRow => user[key[k].uid] # Unborn

\* The administrator is no member of any workspace, and the default one stays.
AdminApart ==
    /\ user[Admin] \in Row /\ ws[Default] = "open"
    /\ \A m \in member : m[1] # Admin
    /\ \A t \in tx : /\ \A m \in t.bound : m[1] # Admin
                     /\ Admin \notin t.unclear /\ Default \notin t.dropped

\* What a transaction would leave of a workspace.
Kept(t, w) == IF w \in t.made THEN "open" ELSE IF w \in t.dropped THEN "dropped" ELSE ws[w]
Members2(t) == (member \ t.unbound) \union t.bound

\* The rows as a transaction would leave them are in order.
OrderAfter(t) ==
    /\ \A u \in User \ {Admin} :
           Written(t, u) \notin {Unborn, Gone} =>
               IF Written(t, u).oid = Homeless
                 THEN \A w \in Workspace : <<u, w>> \notin Members2(t)
                 ELSE <<u, Written(t, u).oid>> \in Members2(t)
    /\ \A m \in Members2(t) : Written(t, m[1]) \notin {Unborn, Gone} /\ Kept(t, m[2]) = "open"

AdminAfter(t) == /\ Written(t, Admin).oid \in Workspace
                 /\ Kept(t, Written(t, Admin).oid) = "open"

Serially ==
    Promised("serial") =>
        /\ \A s, t \in tx : s = t
        /\ \A t \in tx : OrderAfter(t)
        /\ Promised("quiet") => Admin \notin lag /\ \A t \in tx : AdminAfter(t)

Cached == /\ BornOnce /\ UnbornUnseen /\ PendingIsKnown /\ CacheIsTrue /\ DeletedIsOut
          /\ KeysHaveUsers /\ KeyIsTrue
Ordered == AdminApart /\ Serially /\ HomeInOrder /\ AdminAtHome
IInv == TypeOK /\ Cached /\ Ordered

-----------------------------------------------------------------------------
(* Rows, and what a transaction makes of them. *)

LEMMA UserType ==
    ASSUME TypeOK, NEW u \in User
    PROVE  /\ user[u] \in Row \union {Unborn, Gone}
           /\ u \in Live <=> user[u] \in Row
           /\ user[u] \in Row => /\ user[u].status \in BOOLEAN
                                 /\ user[u].oid \in Workspace \union {Homeless}
           /\ cache[u] \in Row \union {Gone, NotCached}
<1>1. user[u] \in Row \union {Unborn, Gone} /\ cache[u] \in Row \union {Gone, NotCached}
  BY DEF TypeOK
<1>2. u \in Live <=> user[u] \in Row
  BY <1>1, RowAssumption DEF Live
<1>3. QED
  BY <1>1, <1>2 DEF Row

LEMMA WrittenType ==
    ASSUME TypeOK, NEW t \in Writes, NEW u \in User
    PROVE  /\ u \in DOMAIN t.born => Written(t, u) = t.born[u] /\ Written(t, u) \in Row
           /\ u \notin DOMAIN t.born /\ u \in Live =>
                  /\ Written(t, u) \in Row
                  /\ Written(t, u).oid = IF u \in DOMAIN t.oid THEN t.oid[u] ELSE user[u].oid
           /\ u \notin DOMAIN t.born /\ u \notin Live => Written(t, u) = user[u]
           /\ u \notin DOMAIN t.born /\ u \notin Touches(t) => Written(t, u) = user[u]
           /\ Written(t, u) \in Row \union {Unborn, Gone}
<1>1. t.oid \in Homes /\ t.status \in States /\ t.born \in Births
  BY WritesType
<1>2. CASE u \in DOMAIN t.born
  BY <1>1, <1>2, PartialTypes DEF Written
<1>3. CASE u \notin DOMAIN t.born /\ u \notin Live
  BY <1>3, UserType DEF Written
<1>4. CASE u \notin DOMAIN t.born /\ u \in Live
  <2> DEFINE s == IF u \in DOMAIN t.status THEN t.status[u] ELSE user[u].status
             o == IF u \in DOMAIN t.oid THEN t.oid[u] ELSE user[u].oid
  <2>1. s \in BOOLEAN /\ o \in Workspace \union {Homeless}
    BY <1>1, <1>4, UserType, PartialTypes
  <2>2. Written(t, u) = [status |-> s, oid |-> o]
    BY <1>4 DEF Written
  <2>3. Written(t, u) \in Row /\ Written(t, u).oid = o
    BY <2>1, <2>2 DEF Row
  <2>4. u \notin Touches(t) => Written(t, u) = user[u]
    BY <1>4, <2>2, UserType DEF Touches, Row
  <2>5. QED
    BY <1>4, <2>3, <2>4
<1>5. QED
  BY <1>2, <1>3, <1>4

-----------------------------------------------------------------------------
(* What all handlers have in common. *)

\* What a transaction is worth that is prepared while the entries of S are emptied.
Good(S, t) ==
    /\ Touches(t) \subseteq S \union t.unclear
    /\ \A u \in DOMAIN t.born : user[u] = Unborn /\ \A s \in tx : u \notin DOMAIN s.born
    /\ \A m \in t.bound : m[1] # Admin
    /\ Admin \notin t.unclear /\ Default \notin t.dropped
    /\ Promised("serial") => OrderAfter(t) /\ (Promised("quiet") => AdminAfter(t))

Prepares(S) ==
    /\ \/ tx' = tx
       \/ /\ Promised("serial") => tx = {}
          /\ \E t \in Writes : tx' = tx \union {t} /\ Good(S, t)
    /\ clear_cache(S)
    /\ UNCHANGED <<user, member, ws, world, keyVars>>

LEMMA ClearType ==
    ASSUME TypeOK, NEW S \in SUBSET User, clear_cache(S)
    PROVE  /\ cache' \in [User -> Row \union {Gone, NotCached}] /\ lag' \subseteq User
           /\ \A u \in User : cache'[u] = IF u \in S THEN NotCached ELSE cache[u]
           /\ lag' = lag \ S
BY DEF clear_cache, TypeOK

LEMMA PreparesKeeps ==
    ASSUME IInv, NEW S \in SUBSET User, Prepares(S)
    PROVE  IInv'
<1> USE DEF keyVars
<1>1. TypeOK /\ Cached /\ Ordered
  BY DEF IInv
<1>2. /\ UNCHANGED <<user, member, ws, world, key, keyCache>>
      /\ \A u \in User : cache'[u] = IF u \in S THEN NotCached ELSE cache[u]
      /\ lag' = lag \ S
      /\ cache' \in [User -> Row \union {Gone, NotCached}] /\ lag' \subseteq User
  BY <1>1, ClearType DEF Prepares
<1>3. \A t \in tx' : t \in tx \/ (t \in Writes /\ Good(S, t))
  BY DEF Prepares
<1>4. TypeOK'
  <2>1. tx' \subseteq Writes
    BY <1>1, <1>3 DEF TypeOK
  <2>2. QED
    BY <1>1, <1>2, <2>1 DEF TypeOK
<1>5. UnbornUnseen' /\ CacheIsTrue' /\ DeletedIsOut' /\ KeysHaveUsers' /\ KeyIsTrue'
  BY <1>1, <1>2 DEF Cached, UnbornUnseen, CacheIsTrue, DeletedIsOut, KeysHaveUsers, KeyIsTrue
<1>6. BornOnce'
  <2> SUFFICES ASSUME NEW t \in tx', NEW u \in DOMAIN t.born
               PROVE  user[u] = Unborn /\ \A s \in tx' \ {t} : u \notin DOMAIN s.born
    BY <1>2 DEF BornOnce
  <2>1. CASE tx' = tx
    BY <1>1, <2>1 DEF Cached, BornOnce
  <2>2. CASE tx' # tx
    <3>1. PICK n \in Writes : tx' = tx \union {n} /\ Good(S, n)
      BY <2>2 DEF Prepares
    <3>2. \A v \in DOMAIN n.born : user[v] = Unborn /\ \A s \in tx : v \notin DOMAIN s.born
      BY <3>1 DEF Good
    <3>3. CASE t = n
      BY <3>1, <3>2, <3>3
    <3>4. CASE t \in tx
      <4>1. user[u] = Unborn /\ \A s \in tx \ {t} : u \notin DOMAIN s.born
        BY <1>1, <3>4 DEF Cached, BornOnce
      <4>2. u \notin DOMAIN n.born
        BY <3>2, <3>4
      <4>3. QED
        BY <3>1, <4>1, <4>2
    <3>5. QED
      BY <3>1, <3>3, <3>4
  <2>3. QED
    BY <2>1, <2>2
<1>7. PendingIsKnown'
  <2> SUFFICES ASSUME NEW t \in tx', NEW u \in Touches(t)
               PROVE  u \in lag' \union t.unclear \/ cache'[u] = NotCached
    BY DEF PendingIsKnown, Touches
  <2>1. u \in User
    <3>1. t \in Writes
      BY <1>1, <1>3 DEF TypeOK
    <3>2. QED
      BY <3>1, WritesType, PartialTypes DEF Touches
  <2>2. CASE t \in tx
    BY <1>1, <1>2, <2>1, <2>2 DEF Cached, PendingIsKnown
  <2>3. CASE Good(S, t)
    BY <1>2, <2>1, <2>3 DEF Good
  <2>4. QED
    BY <1>3, <2>2, <2>3
<1>8. AdminApart'
  BY <1>1, <1>2, <1>3 DEF Ordered, AdminApart, Good
<1>9. Serially'
  <2> SUFFICES ASSUME Promised("serial")'
               PROVE  Serially'
    BY DEF Serially
  <2>1. Promised("serial") /\ (Promised("quiet")' <=> Promised("quiet"))
    BY <1>2 DEF Promised
  <2>2. tx' = tx \/ tx = {}
    BY <2>1 DEF Prepares
  <2>3. \A s, t \in tx' : s = t
    BY <1>1, <2>1, <2>2 DEF Prepares, Ordered, Serially
  <2>4. ASSUME NEW t \in tx' PROVE OrderAfter(t)' /\ (Promised("quiet") => AdminAfter(t)')
    <3>1. OrderAfter(t) /\ (Promised("quiet") => AdminAfter(t))
      BY <1>1, <1>3, <2>1 DEF Good, Ordered, Serially
    <3>2. QED
      BY <1>2, <3>1 DEF OrderAfter, AdminAfter, Written, Members2, Kept, Live
  <2>5. Promised("quiet") => Admin \notin lag'
    BY <1>1, <1>2, <2>1 DEF Ordered, Serially
  <2>6. QED
    BY <2>1, <2>3, <2>4, <2>5 DEF Serially
<1>10. HomeInOrder' /\ AdminAtHome'
  BY <1>1, <1>2 DEF Ordered, HomeInOrder, AdminAtHome, Promised, Live, Open, WorkspacesOf
<1>11. QED
  BY <1>4, <1>5, <1>6, <1>7, <1>8, <1>9, <1>10 DEF IInv, Cached, Ordered

-----------------------------------------------------------------------------
(* The handlers. *)

\* The rows after a transaction that creates nobody.
LEMMA NobodyBorn ==
    ASSUME TypeOK, NEW t \in Writes, t.born = Nothing, NEW u \in User
    PROVE  /\ Written(t, u) \notin {Unborn, Gone} <=> u \in Live
           /\ u \in Live => /\ Written(t, u) \in Row
                            /\ Written(t, u).oid = IF u \in DOMAIN t.oid THEN t.oid[u]
                                                                         ELSE user[u].oid
           /\ u \notin Live => Written(t, u) = user[u]
<1>1. u \notin DOMAIN t.born
  BY NothingType
<1>2. QED
  BY <1>1, WrittenType, RowAssumption DEF Live

LEMMA NoWritesType ==
    /\ NoWrites \in Writes /\ NoWrites.oid = Nothing /\ NoWrites.status = Nothing
    /\ NoWrites.born = Nothing /\ NoWrites.bound = {} /\ NoWrites.unbound = {}
    /\ NoWrites.made = {} /\ NoWrites.dropped = {} /\ NoWrites.unclear = {}
BY NothingType, IsWrites DEF NoWrites

LEMMA HandlerClear ==
    ASSUME TypeOK, UNCHANGED <<cache, lag>>
    PROVE  clear_cache({})
BY DEF TypeOK, clear_cache

LEMMA AdminType ==
    ASSUME IInv
    PROVE  /\ Admin \in User /\ Admin \in Live /\ user[Admin] \in Row
           /\ \A m \in member : m[1] # Admin
           /\ Default \in Workspace /\ ws[Default] = "open"
BY AccountsAssumption, UserType DEF IInv, Ordered, AdminApart

LEMMA HomeIs ==
    ASSUME IInv, Promised("serial")
    PROVE  /\ \A u \in Live \ {Admin} :
                  IF user[u].oid = Homeless THEN \A w \in Workspace : <<u, w>> \notin member
                                            ELSE <<u, user[u].oid>> \in member
           /\ \A m \in member : m[1] \in Live /\ m[2] \in Open
BY DEF IInv, Ordered, HomeInOrder, WorkspacesOf

\* A transaction about the live user u alone leaves the others in order, and
\* everything if it leaves u so.
LEMMA OrderOfOne ==
    ASSUME IInv, Promised("serial"), NEW u \in Live, NEW t \in Writes, t.born = Nothing,
           t.made = {}, t.dropped = {}, DOMAIN t.oid \subseteq {u},
           \A m \in t.bound : m[1] = u /\ m[2] \in Open, \A m \in t.unbound : m[1] = u,
           u # Admin =>
               IF Written(t, u).oid = Homeless
                 THEN \A w \in Workspace : <<u, w>> \notin Members2(t)
                 ELSE <<u, Written(t, u).oid>> \in Members2(t)
    PROVE  OrderAfter(t)
<1>1. TypeOK /\ u \in User
  BY DEF IInv, Live
<1>2. ASSUME NEW v \in User \ {Admin}, Written(t, v) \notin {Unborn, Gone}, v # u
      PROVE  IF Written(t, v).oid = Homeless
               THEN \A w \in Workspace : <<v, w>> \notin Members2(t)
               ELSE <<v, Written(t, v).oid>> \in Members2(t)
  <2>1. v \in Live /\ Written(t, v).oid = user[v].oid
    BY <1>1, <1>2, NobodyBorn
  <2>2. \A w : <<v, w>> \in Members2(t) <=> <<v, w>> \in member
    <3>1. \A w : <<v, w>> \notin t.bound /\ <<v, w>> \notin t.unbound
      BY <1>2
    <3>2. QED
      BY <3>1 DEF Members2
  <2>3. QED
    BY <1>2, <2>1, <2>2, HomeIs
<1>3. ASSUME NEW m \in Members2(t)
      PROVE  Written(t, m[1]) \notin {Unborn, Gone} /\ Kept(t, m[2]) = "open"
  <2>1. m[1] \in Live /\ m[2] \in Open
    BY <1>3, HomeIs DEF Members2
  <2>2. QED
    BY <1>1, <2>1, NobodyBorn DEF Kept, Open, Live
<1>4. QED
  BY <1>2, <1>3 DEF OrderAfter

\* A transaction that neither moves the administrator nor drops a workspace.
LEMMA AdminUnmoved ==
    ASSUME IInv, Promised("serial"), Promised("quiet"), NEW t \in Writes, t.born = Nothing,
           t.dropped = {}, Admin \notin DOMAIN t.oid
    PROVE  AdminAfter(t)
<1>1. TypeOK /\ user[Admin].oid \in Open
  BY DEF IInv, Ordered, AdminAtHome
<1>2. Written(t, Admin).oid = user[Admin].oid
  BY <1>1, AdminType, NobodyBorn
<1>3. QED
  BY <1>1, <1>2 DEF AdminAfter, Kept, Open

LEMMA ChangeStep ==
    ASSUME IInv, NEW u \in User, NEW w \in Workspace, ws_change(u, w), UNCHANGED keyVars
    PROVE  IInv'
<1>1. TypeOK
  BY DEF IInv
<1>2. PICK o : o = HomeWrite(u, w)
  OBVIOUS
<1>3. /\ o \in Homes /\ DOMAIN o = {v \in {u} : user[v].oid # w}
      /\ \A v \in DOMAIN o : o[v] = w
  BY <1>2, HomeWriteType
<1>4. PICK t : t = [NoWrites EXCEPT !.oid = o]
  OBVIOUS
<1>5. /\ t \in Writes /\ t.oid = o /\ t.status = Nothing /\ t.born = Nothing
      /\ t.bound = {} /\ t.unbound = {} /\ t.made = {} /\ t.dropped = {} /\ t.unclear = {}
  BY <1>3, <1>4, NoWritesType DEF Writes, Homes
<1>6. DOMAIN t.born = {} /\ Touches(t) \subseteq {u} /\ u \in Live
  BY <1>3, <1>5, NothingType DEF Touches, ws_change
<1>7. Written(t, u).oid = w
  BY <1>1, <1>3, <1>5, <1>6, NobodyBorn
<1>8. ASSUME w \in Open, u = Admin \/ w \in WorkspacesOf(u)
      PROVE  Good({u}, t)
  <2>1. Promised("serial") => OrderAfter(t)
    BY <1>3, <1>5, <1>6, <1>7, <1>8, AccountsAssumption, OrderOfOne
       DEF WorkspacesOf, Members2
  <2>2. ASSUME Promised("serial"), Promised("quiet") PROVE AdminAfter(t)
    <3>1. CASE u = Admin
      BY <1>5, <1>7, <1>8, <3>1 DEF AdminAfter, Kept, Open
    <3>2. CASE u # Admin
      BY <1>3, <1>5, <2>2, <3>2, AdminUnmoved
    <3>3. QED
      BY <3>1, <3>2
  <2>3. QED
    BY <1>5, <1>6, <2>1, <2>2 DEF Good
<1>9. Prepares({u})
  <2>1. \/ tx' = tx
        \/ w \in Open /\ (u = Admin \/ w \in WorkspacesOf(u)) /\ tx' = tx \union {t}
    BY <1>2, <1>4 DEF ws_change, Prepare
  <2>2. QED
    BY <1>5, <1>8, <2>1 DEF Prepares, ws_change, Handler
<1>10. QED
  BY <1>9, PreparesKeeps

LEMMA StatusStep ==
    ASSUME IInv, NEW u \in User, NEW s \in BOOLEAN, statusChange(u, s), UNCHANGED keyVars
    PROVE  IInv'
<1>1. TypeOK
  BY DEF IInv
<1> DEFINE S == {v \in {u} : user[v].status # s}
<1>2. PICK f : f = [x \in S |-> s]
  OBVIOUS
<1>3. f \in States /\ DOMAIN f = S
  BY <1>2, StatesType
<1>4. PICK t : t = [NoWrites EXCEPT !.status = f, !.unclear = S]
  OBVIOUS
<1>5. /\ t \in Writes /\ t.oid = Nothing /\ t.status = f /\ t.born = Nothing
      /\ t.bound = {} /\ t.unbound = {} /\ t.made = {} /\ t.dropped = {} /\ t.unclear = S
  BY <1>3, <1>4, NoWritesType DEF Writes, States
<1>6. DOMAIN t.born = {} /\ Touches(t) = S /\ DOMAIN t.oid = {} /\ u \in Live \ {Admin}
  BY <1>3, <1>5, NothingType DEF Touches, statusChange
<1>7. Promised("serial") => OrderAfter(t)
  BY <1>1, <1>5, <1>6, NobodyBorn, HomeIs, OrderOfOne DEF Members2
<1>8. Promised("serial") /\ Promised("quiet") => AdminAfter(t)
  BY <1>5, <1>6, AdminUnmoved
<1>9. Good({}, t)
  BY <1>5, <1>6, <1>7, <1>8 DEF Good
<1>10. Prepares({})
  <2>1. tx' = tx \/ tx' = tx \union {t}
    BY <1>2, <1>4 DEF statusChange, Prepare
  <2>2. clear_cache({})
    BY <1>1, HandlerClear DEF statusChange
  <2>3. QED
    BY <1>5, <1>9, <2>1, <2>2 DEF Prepares, statusChange, Handler
<1>11. QED
  BY <1>10, PreparesKeeps

LEMMA CreateStep ==
    ASSUME IInv, NEW u \in User, NEW W \in SUBSET Workspace, user_create(u, W),
           UNCHANGED keyVars
    PROVE  IInv'
<1>1. TypeOK /\ user[u] = Unborn /\ u \notin Live /\ u # Admin
  BY AdminType, RowAssumption DEF IInv, user_create, Live
<1>2. PICK h \in IF W = {} THEN {Homeless} ELSE W :
          Prepare([NoWrites EXCEPT !.born = [x \in {u} |-> [status |-> TRUE, oid |-> h]],
                                   !.bound = {u} \X W])
  BY DEF user_create
<1>3. PICK f : f = [x \in {u} |-> [status |-> TRUE, oid |-> h]]
  OBVIOUS
<1>4. f \in Births /\ DOMAIN f = {u} /\ f[u].oid = h /\ f[u] \in Row
  <2>1. [status |-> TRUE, oid |-> h] \in Row
    BY DEF Row
  <2>2. f \in [{u} -> Row]
    BY <1>3, <2>1
  <2>3. f \in Births /\ DOMAIN f = {u}
    BY <2>2, BirthsType
  <2>4. f[u] = [status |-> TRUE, oid |-> h]
    BY <1>3
  <2>5. QED
    BY <2>1, <2>3, <2>4
<1>5. PICK t : t = [NoWrites EXCEPT !.born = f, !.bound = {u} \X W]
  OBVIOUS
<1>6. /\ t \in Writes /\ t.oid = Nothing /\ t.status = Nothing /\ t.born = f
      /\ t.bound = {u} \X W /\ t.unbound = {} /\ t.made = {} /\ t.dropped = {}
      /\ t.unclear = {}
  BY <1>4, <1>5, NoWritesType DEF Writes, Births
<1>7. Touches(t) = {}
  BY <1>6, NothingType DEF Touches
<1>8. ASSUME Promised("serial") PROVE OrderAfter(t)
  <2>1. Members2(t) = member \union ({u} \X W)
    BY <1>6 DEF Members2
  <2>2. Written(t, u) \notin {Unborn, Gone} /\ Written(t, u).oid = h
    BY <1>1, <1>4, <1>6, WrittenType, RowAssumption
  <2>3. ASSUME NEW v \in User, v # u PROVE Written(t, v) = user[v]
    BY <1>1, <1>4, <1>6, <1>7, <2>3, WrittenType
  <2>4. ASSUME NEW v \in User \ {Admin}, Written(t, v) \notin {Unborn, Gone}
        PROVE  IF Written(t, v).oid = Homeless
                 THEN \A w \in Workspace : <<v, w>> \notin Members2(t)
                 ELSE <<v, Written(t, v).oid>> \in Members2(t)
    <3>1. CASE v = u
      <4>1. \A w : <<u, w>> \notin member
        BY <1>1, <1>8, HomeIs
      <4>2. W = {} => h = Homeless
        OBVIOUS
      <4>3. W # {} => h \in W /\ h # Homeless
        BY AccountsAssumption
      <4>4. QED
        BY <2>1, <2>2, <3>1, <4>1, <4>2, <4>3
    <3>2. CASE v # u
      BY <1>8, <2>1, <2>3, <2>4, <3>2, HomeIs DEF Live
    <3>3. QED
      BY <3>1, <3>2
  <2>5. ASSUME NEW m \in Members2(t)
        PROVE  Written(t, m[1]) \notin {Unborn, Gone} /\ Kept(t, m[2]) = "open"
    <3>1. CASE m \in member
      BY <1>1, <1>6, <1>8, <2>3, <3>1, HomeIs DEF Live, Kept, Open
    <3>2. CASE m \in {u} \X W
      BY <1>6, <2>2, <3>2 DEF user_create, Kept, Open
    <3>3. QED
      BY <2>1, <3>1, <3>2
  <2>6. QED
    BY <2>4, <2>5 DEF OrderAfter
<1>9. ASSUME Promised("serial"), Promised("quiet") PROVE AdminAfter(t)
  <2>1. Written(t, Admin) = user[Admin]
    BY <1>1, <1>4, <1>6, <1>7, AdminType, WrittenType
  <2>2. user[Admin].oid \in Open
    BY <1>9 DEF IInv, Ordered, AdminAtHome
  <2>3. QED
    BY <1>6, <2>1, <2>2 DEF AdminAfter, Kept, Open
<1>10. Good({}, t)
  BY <1>1, <1>4, <1>6, <1>7, <1>8, <1>9 DEF Good, user_create
<1>11. Prepares({})
  <2>1. tx' = tx \/ tx' = tx \union {t}
    BY <1>2, <1>3, <1>5 DEF Prepare
  <2>2. clear_cache({})
    BY <1>1, HandlerClear DEF user_create
  <2>3. QED
    BY <1>6, <1>10, <2>1, <2>2 DEF Prepares, user_create, Handler
<1>12. QED
  BY <1>11, PreparesKeeps

LEMMA UpdateStep ==
    ASSUME IInv, NEW u \in User, NEW W \in SUBSET Workspace, update(u, W),
           UNCHANGED keyVars
    PROVE  IInv'
<1>1. TypeOK /\ u \in Live \ {Admin} /\ W \subseteq Open
  BY DEF IInv, update
<1> DEFINE x == {u} \X (W \ WorkspacesOf(u))
           y == {u} \X (WorkspacesOf(u) \ W)
           H == CASE W = {} -> {Homeless}
                  [] user[u].oid \in W -> {user[u].oid}
                  [] OTHER -> W
<1>2. PICK h \in H :
          Prepare([NoWrites EXCEPT !.oid = HomeWrite(u, h), !.bound = x, !.unbound = y,
                                   !.unclear = {v \in {u} : user[v].oid # h}])
  BY DEF update
<1>3. IF W = {} THEN h = Homeless ELSE h \in W
  OBVIOUS
<1>4. PICK o : o = HomeWrite(u, h)
  OBVIOUS
<1>5. /\ o \in Homes /\ DOMAIN o = {v \in {u} : user[v].oid # h}
      /\ \A v \in DOMAIN o : o[v] = h
  <2>1. h \in Workspace \union {Homeless}
    BY <1>3
  <2>2. QED
    BY <1>4, <2>1, HomeWriteType
<1>6. PICK t : t = [NoWrites EXCEPT !.oid = o, !.bound = x, !.unbound = y,
                                    !.unclear = {v \in {u} : user[v].oid # h}]
  OBVIOUS
<1>7. x \subseteq User \X Workspace /\ y \subseteq User \X Workspace
  BY DEF WorkspacesOf
<1>8. /\ t \in Writes /\ t.oid = o /\ t.status = Nothing /\ t.born = Nothing
      /\ t.bound = x /\ t.unbound = y /\ t.made = {} /\ t.dropped = {}
      /\ t.unclear = DOMAIN o
  <2> HIDE DEF x, y
  <2>1. {v \in {u} : user[v].oid # h} \in SUBSET User
    OBVIOUS
  <2>2. QED
    BY <1>5, <1>6, <1>7, <2>1, NoWritesType DEF Writes, Homes
<1>9. DOMAIN t.born = {} /\ Touches(t) = DOMAIN o
  BY <1>8, NothingType DEF Touches
<1>10. ASSUME Promised("serial") PROVE OrderAfter(t)
  <2>1. Written(t, u).oid = h
    BY <1>1, <1>5, <1>8, NobodyBorn
  <2>2. \A w \in Workspace : <<u, w>> \in Members2(t) <=> w \in W
    BY <1>8 DEF Members2, WorkspacesOf
  <2>3. IF Written(t, u).oid = Homeless
          THEN \A w \in Workspace : <<u, w>> \notin Members2(t)
          ELSE <<u, Written(t, u).oid>> \in Members2(t)
    BY <1>3, <2>1, <2>2, AccountsAssumption
  <2>4. \A m \in t.bound : m[1] = u /\ m[2] \in Open
    BY <1>1, <1>8
  <2>5. \A m \in t.unbound : m[1] = u
    BY <1>8
  <2>6. QED
    BY <1>1, <1>5, <1>8, <1>10, <2>3, <2>4, <2>5, OrderOfOne
<1>11. Promised("serial") /\ Promised("quiet") => AdminAfter(t)
  BY <1>1, <1>5, <1>8, AdminUnmoved
<1>12. Good({}, t)
  BY <1>1, <1>5, <1>8, <1>9, <1>10, <1>11 DEF Good
<1>13. Prepares({})
  <2>1. tx' = tx \/ tx' = tx \union {t}
    BY <1>2, <1>4, <1>6 DEF Prepare
  <2>2. clear_cache({})
    BY <1>1, HandlerClear DEF update
  <2>3. QED
    BY <1>8, <1>12, <2>1, <2>2 DEF Prepares, update, Handler
<1>14. QED
  BY <1>13, PreparesKeeps

LEMMA BindStep ==
    ASSUME IInv, NEW u \in User, NEW w \in Workspace, bind(u, w), UNCHANGED keyVars
    PROVE  IInv'
<1>1. TypeOK /\ u \in Live \ {Admin} /\ w \in Open
  BY DEF IInv, bind
<1>2. PICK o : o = IF user[u].oid = Homeless THEN HomeWrite(u, w) ELSE Nothing
  OBVIOUS
<1>3. /\ o \in Homes /\ DOMAIN o \subseteq {u} /\ \A v \in DOMAIN o : o[v] = w
      /\ u \in DOMAIN o <=> user[u].oid = Homeless
  <2>1. CASE user[u].oid = Homeless
    <3>1. o = HomeWrite(u, w) /\ w # Homeless
      BY <1>2, <2>1, AccountsAssumption
    <3>2. /\ o \in Homes /\ DOMAIN o = {v \in {u} : user[v].oid # w}
          /\ \A v \in DOMAIN o : o[v] = w
      BY <3>1, HomeWriteType
    <3>3. QED
      BY <2>1, <3>1, <3>2
  <2>2. CASE user[u].oid # Homeless
    BY <1>2, <2>2, NothingType
  <2>3. QED
    BY <2>1, <2>2
<1>4. PICK t : t = [NoWrites EXCEPT !.oid = o, !.bound = {<<u, w>>}]
  OBVIOUS
<1>5. /\ t \in Writes /\ t.oid = o /\ t.status = Nothing /\ t.born = Nothing
      /\ t.bound = {<<u, w>>} /\ t.unbound = {} /\ t.made = {} /\ t.dropped = {}
      /\ t.unclear = {}
  <2>1. {<<u, w>>} \in SUBSET (User \X Workspace)
    OBVIOUS
  <2>2. QED
    BY <1>3, <1>4, <2>1, NoWritesType DEF Writes, Homes
<1>6. DOMAIN t.born = {} /\ Touches(t) = DOMAIN o
  BY <1>5, NothingType DEF Touches
<1>7. ASSUME Promised("serial") PROVE OrderAfter(t)
  <2>1. Written(t, u).oid = IF user[u].oid = Homeless THEN w ELSE user[u].oid
    BY <1>1, <1>3, <1>5, NobodyBorn
  <2>2. Members2(t) = member \union {<<u, w>>}
    BY <1>5 DEF Members2
  <2>3. IF Written(t, u).oid = Homeless
          THEN \A v \in Workspace : <<u, v>> \notin Members2(t)
          ELSE <<u, Written(t, u).oid>> \in Members2(t)
    BY <1>1, <1>7, <2>1, <2>2, HomeIs, AccountsAssumption
  <2>4. \A m \in t.bound : m[1] = u /\ m[2] \in Open
    BY <1>1, <1>5
  <2>5. QED
    BY <1>1, <1>3, <1>5, <1>7, <2>3, <2>4, OrderOfOne
<1>8. Promised("serial") /\ Promised("quiet") => AdminAfter(t)
  BY <1>1, <1>3, <1>5, AdminUnmoved
<1>9. Good({u}, t)
  BY <1>1, <1>3, <1>5, <1>6, <1>7, <1>8 DEF Good
<1>10. Prepares({u})
  <2>1. tx' = tx \/ tx' = tx \union {t}
    <3>1. Prepare([NoWrites EXCEPT
              !.oid = IF user[u].oid = Homeless THEN HomeWrite(u, w) ELSE @,
              !.bound = {<<u, w>>}])
      BY DEF bind
    <3>2. Prepare(t)
      BY <1>2, <1>4, <3>1, NoWritesType
    <3>3. QED
      BY <3>2 DEF Prepare
  <2>2. QED
    BY <1>5, <1>9, <2>1 DEF Prepares, bind, Handler
<1>11. QED
  BY <1>10, PreparesKeeps

LEMMA MovedType ==
    ASSUME NEW u \in User, NEW w \in Workspace, NEW h \in Moved(u, w)
    PROVE  /\ h \in Workspace \union {Homeless}
           /\ h = Homeless => WorkspacesOf(u) \subseteq {w}
           /\ h # Homeless => h \in WorkspacesOf(u) \ {w}
BY AccountsAssumption DEF Moved, WorkspacesOf

LEMMA UnbindStep ==
    ASSUME IInv, NEW u \in User, NEW w \in Workspace, unbind(u, w), UNCHANGED keyVars
    PROVE  IInv'
<1>1. TypeOK /\ u # Admin /\ <<u, w>> \in member
  BY AdminType DEF IInv, unbind, WorkspacesOf
<1> DEFINE left == u \in Live /\ user[u].oid = w
<1>2. PICK h \in Moved(u, w) :
          Prepare([NoWrites EXCEPT !.oid = IF left THEN HomeWrite(u, h) ELSE @,
                                   !.unbound = {<<u, w>>}])
  BY DEF unbind
<1>3. PICK o : o = IF left THEN HomeWrite(u, h) ELSE Nothing
  OBVIOUS
<1>4. /\ o \in Homes /\ DOMAIN o \subseteq {u}
      /\ left => u \in DOMAIN o /\ o[u] = h
      /\ u \in DOMAIN o => left
  <2>1. CASE left
    <3>1. h \in Workspace \union {Homeless} /\ h # w
      BY MovedType, AccountsAssumption
    <3>2. /\ o \in Homes /\ DOMAIN o = {v \in {u} : user[v].oid # h}
          /\ \A v \in DOMAIN o : o[v] = h
      BY <1>3, <2>1, <3>1, HomeWriteType
    <3>3. u \in DOMAIN o
      BY <2>1, <3>1, <3>2
    <3>4. QED
      BY <2>1, <3>2, <3>3
  <2>2. CASE ~left
    BY <1>3, <2>2, NothingType
  <2>3. QED
    BY <2>1, <2>2
<1>5. PICK t : t = [NoWrites EXCEPT !.oid = o, !.unbound = {<<u, w>>}]
  OBVIOUS
<1>6. /\ t \in Writes /\ t.oid = o /\ t.status = Nothing /\ t.born = Nothing
      /\ t.bound = {} /\ t.unbound = {<<u, w>>} /\ t.made = {} /\ t.dropped = {}
      /\ t.unclear = {}
  <2>1. {<<u, w>>} \in SUBSET (User \X Workspace)
    OBVIOUS
  <2>2. QED
    BY <1>4, <1>5, <2>1, NoWritesType DEF Writes, Homes
<1>7. DOMAIN t.born = {} /\ Touches(t) = DOMAIN o
  BY <1>6, NothingType DEF Touches
<1>8. ASSUME Promised("serial") PROVE OrderAfter(t)
  <2>1. u \in Live \ {Admin} /\ user[u].oid # Homeless /\ <<u, user[u].oid>> \in member
    BY <1>1, <1>8, HomeIs
  <2>2. Written(t, u).oid = IF left THEN h ELSE user[u].oid
    BY <1>1, <1>4, <1>6, <2>1, NobodyBorn
  <2>3. Members2(t) = member \ {<<u, w>>}
    BY <1>6 DEF Members2
  <2>4. IF Written(t, u).oid = Homeless
          THEN \A v \in Workspace : <<u, v>> \notin Members2(t)
          ELSE <<u, Written(t, u).oid>> \in Members2(t)
    <3>1. CASE left
      <4>1. /\ h = Homeless => WorkspacesOf(u) \subseteq {w}
            /\ h # Homeless => h \in WorkspacesOf(u) \ {w}
        BY MovedType
      <4>2. QED
        BY <2>2, <2>3, <3>1, <4>1 DEF WorkspacesOf
    <3>2. CASE ~left
      BY <2>1, <2>2, <2>3, <3>2
    <3>3. QED
      BY <3>1, <3>2
  <2>5. QED
    BY <1>4, <1>6, <1>8, <2>1, <2>4, OrderOfOne
<1>9. Promised("serial") /\ Promised("quiet") => AdminAfter(t)
  BY <1>1, <1>4, <1>6, AdminUnmoved
<1>10. Good({u}, t)
  BY <1>1, <1>4, <1>6, <1>7, <1>8, <1>9 DEF Good
<1>11. Prepares({u})
  <2>1. Prepare(t)
    BY <1>2, <1>3, <1>5, NoWritesType
  <2>2. tx' = tx \/ tx' = tx \union {t}
    BY <2>1 DEF Prepare
  <2>3. QED
    BY <1>6, <1>10, <2>2 DEF Prepares, unbind, Handler
<1>12. QED
  BY <1>11, PreparesKeeps

LEMMA AddStep ==
    ASSUME IInv, NEW w \in Workspace, add_ws(w), UNCHANGED keyVars
    PROVE  IInv'
<1>1. TypeOK /\ ws[w] = "none"
  BY DEF IInv, add_ws
<1>2. PICK t : t = [NoWrites EXCEPT !.made = {w}]
  OBVIOUS
<1>3. /\ t \in Writes /\ t.oid = Nothing /\ t.status = Nothing /\ t.born = Nothing
      /\ t.bound = {} /\ t.unbound = {} /\ t.made = {w} /\ t.dropped = {} /\ t.unclear = {}
  BY <1>2, NoWritesType DEF Writes
<1>4. DOMAIN t.born = {} /\ Touches(t) = {} /\ DOMAIN t.oid = {}
  BY <1>3, NothingType DEF Touches
<1>5. ASSUME Promised("serial") PROVE OrderAfter(t)
  <2>1. Members2(t) = member
    BY <1>3 DEF Members2
  <2>2. \A v \in User : Written(t, v) = user[v]
    BY <1>1, <1>4, <1>3, WrittenType
  <2>3. \A x \in Open : Kept(t, x) = "open"
    BY <1>3 DEF Kept, Open
  <2>4. ASSUME NEW v \in User \ {Admin}, Written(t, v) \notin {Unborn, Gone}
        PROVE  IF Written(t, v).oid = Homeless
                 THEN \A x \in Workspace : <<v, x>> \notin Members2(t)
                 ELSE <<v, Written(t, v).oid>> \in Members2(t)
    BY <1>5, <2>1, <2>2, <2>4, HomeIs DEF Live
  <2>5. QED
    BY <1>5, <2>1, <2>2, <2>3, <2>4, HomeIs DEF OrderAfter, Live
<1>6. Promised("serial") /\ Promised("quiet") => AdminAfter(t)
  BY <1>3, <1>4, AdminUnmoved
<1>7. Good({}, t)
  BY <1>3, <1>4, <1>5, <1>6 DEF Good
<1>8. Prepares({})
  <2>1. tx' = tx \/ tx' = tx \union {t}
    BY <1>2 DEF add_ws, Prepare
  <2>2. clear_cache({})
    BY <1>1, HandlerClear DEF add_ws
  <2>3. QED
    BY <1>3, <1>7, <2>1, <2>2 DEF Prepares, add_ws, Handler
<1>9. QED
  BY <1>8, PreparesKeeps

LEMMA DissolveStep ==
    ASSUME IInv, NEW w \in Workspace, delete_ws(w), UNCHANGED keyVars
    PROVE  IInv'
<1> DEFINE D == Displaced(w)  E == Evicted(w)
<1>1. TypeOK /\ w \in Open \ {Default}
  BY DEF IInv, delete_ws, Dissolve
<1>2. /\ D \subseteq Members(w) /\ Members(w) \subseteq Live \ {Admin} /\ E \subseteq {Admin}
      /\ Informed(w) \subseteq User /\ D \union E \subseteq Informed(w)
      /\ Admin \in User /\ Memberships(w) \subseteq User \X Workspace
  BY <1>1, AccountsAssumption
     DEF Displaced, Members, Evicted, Informed, Live, Memberships, TypeOK, WorkspacesOf
<1>3. PICK f \in Relocations(w) :
          Prepare([NoWrites EXCEPT
              !.oid = [u \in E \union D |-> IF u = Admin THEN Default ELSE f[u]],
              !.unbound = Memberships(w), !.dropped = {w}, !.core = TRUE])
  BY DEF delete_ws, Dissolve
<1>4. PICK o : o = [u \in E \union D |-> IF u = Admin THEN Default ELSE f[u]]
  OBVIOUS
<1>5. /\ DOMAIN o = E \union D
      /\ \A u \in D : o[u] \in Moved(u, w) /\ o[u] \in Workspace \union {Homeless}
      /\ \A u \in E : o[u] = Default
      /\ o \in Homes
  <2>1. \A u \in D : u # Admin /\ f[u] \in Moved(u, w) /\ f[u] \in Workspace \union {Homeless}
    BY <1>2 DEF Relocations
  <2>2. o \in [E \union D -> Workspace \union {Homeless}]
    BY <1>2, <1>4, <2>1, AccountsAssumption
  <2>3. E \union D \in SUBSET User
    BY <1>2
  <2>4. o \in Homes
    BY <2>2, <2>3, HomesType
  <2>5. QED
    BY <1>2, <1>4, <2>1, <2>4
<1>6. PICK t : t = [NoWrites EXCEPT !.oid = o, !.unbound = Memberships(w), !.dropped = {w},
                                    !.core = TRUE]
  OBVIOUS
<1>7. /\ t \in Writes /\ t.oid = o /\ t.status = Nothing /\ t.born = Nothing
      /\ t.bound = {} /\ t.unbound = Memberships(w) /\ t.made = {} /\ t.dropped = {w}
      /\ t.unclear = {}
  BY <1>2, <1>5, <1>6, NoWritesType DEF Writes, Homes
<1>8. DOMAIN t.born = {} /\ Touches(t) = E \union D
  BY <1>5, <1>7, NothingType DEF Touches
<1>9. ASSUME Promised("serial") PROVE OrderAfter(t)
  <2>1. \A m : m \in Members2(t) <=> m \in member /\ m[2] # w
    BY <1>7 DEF Members2, Memberships
  <2>2. ASSUME NEW u \in User \ {Admin}, Written(t, u) \notin {Unborn, Gone}
        PROVE  IF Written(t, u).oid = Homeless
                 THEN \A x \in Workspace : <<u, x>> \notin Members2(t)
                 ELSE <<u, Written(t, u).oid>> \in Members2(t)
    <3>1. u \in Live /\ Written(t, u).oid = IF u \in D THEN o[u] ELSE user[u].oid
      BY <1>1, <1>2, <1>5, <1>7, <2>2, NobodyBorn
    <3>2. CASE u \in D
      <4>1. o[u] \in Moved(u, w)
        BY <1>5, <3>2
      <4>2. /\ o[u] = Homeless => WorkspacesOf(u) \subseteq {w}
            /\ o[u] # Homeless => o[u] \in WorkspacesOf(u) \ {w}
        BY <4>1, MovedType
      <4>3. QED
        BY <2>1, <3>1, <3>2, <4>2 DEF WorkspacesOf
    <3>3. CASE u \notin D
      <4>1. IF user[u].oid = Homeless THEN \A x \in Workspace : <<u, x>> \notin member
                                      ELSE <<u, user[u].oid>> \in member
        BY <1>9, <2>2, <3>1, HomeIs
      <4>2. <<u, w>> \in member => user[u].oid \in WorkspacesOf(u) \ {w}
        BY <2>2, <3>1, <3>3 DEF Displaced, Members, WorkspacesOf
      <4>3. user[u].oid \in Workspace \union {Homeless}
        BY <1>1, <3>1, UserType DEF Live
      <4>4. user[u].oid # w
        BY <4>1, <4>2, AccountsAssumption
      <4>5. QED
        BY <2>1, <3>1, <3>3, <4>1, <4>4
    <3>4. QED
      BY <3>2, <3>3
  <2>3. ASSUME NEW m \in Members2(t)
        PROVE  Written(t, m[1]) \notin {Unborn, Gone} /\ Kept(t, m[2]) = "open"
    <3>1. m[1] \in Live /\ m[2] \in Open /\ m[2] # w
      BY <1>9, <2>1, <2>3, HomeIs
    <3>2. QED
      BY <1>1, <1>7, <3>1, NobodyBorn DEF Kept, Open, Live
  <2>4. QED
    BY <2>2, <2>3 DEF OrderAfter
<1>10. ASSUME Promised("serial"), Promised("quiet") PROVE AdminAfter(t)
  <2>1. user[Admin].oid \in Open /\ cache[Admin] \in {NotCached, user[Admin]}
    BY <1>2, <1>10 DEF IInv, Ordered, AdminAtHome, Serially, Cached, CacheIsTrue
  <2>2. Seen(Admin) = user[Admin]
    BY <2>1 DEF Seen
  <2>3. Admin \in E <=> user[Admin].oid = w
    BY <2>2, AdminType DEF Evicted
  <2>4. Written(t, Admin).oid = IF user[Admin].oid = w THEN Default ELSE user[Admin].oid
    BY <1>1, <1>2, <1>5, <1>7, <2>3, AdminType, NobodyBorn
  <2>5. QED
    BY <1>1, <1>7, <2>1, <2>4, AdminType DEF AdminAfter, Kept, Open
<1>11. Good(Informed(w), t)
  BY <1>1, <1>2, <1>7, <1>8, <1>9, <1>10 DEF Good
<1>12. Prepares(Informed(w))
  <2>1. Prepare(t)
    BY <1>3, <1>4, <1>6
  <2>2. tx' = tx \/ tx' = tx \union {t}
    BY <2>1 DEF Prepare
  <2>3. QED
    BY <1>7, <1>11, <2>2 DEF Prepares, delete_ws, Dissolve, Handler
<1>13. QED
  BY <1>2, <1>12, PreparesKeeps

LEMMA ExpireStep ==
    ASSUME IInv, NEW u \in User, Expire(u), UNCHANGED keyVars
    PROVE  IInv'
<1>1. Prepares({u})
  BY DEF Expire, Prepares
<1>2. QED
  BY <1>1, PreparesKeeps

\* The deletion of a user is committed at once, whatever else is on its way.
LEMMA DeleteStep ==
    ASSUME IInv, NEW u \in User, delete_user(u), UNCHANGED keyVars
    PROVE  IInv'
<1> USE DEF keyVars
<1>1. TypeOK /\ Cached /\ Ordered /\ u # Admin /\ user[u] # Unborn
  BY DEF IInv, delete_user
<1>2. /\ cache' \in [User -> Row \union {Gone, NotCached}] /\ lag' \subseteq User
      /\ \A v \in User : cache'[v] = IF v = u THEN NotCached ELSE cache[v]
      /\ lag' = lag \ {u}
  BY <1>1, ClearType DEF delete_user
<1>3. UNCHANGED <<ws, tx, world, key, keyCache>>
  BY DEF delete_user
<1>4. /\ user' \in [User -> Row \union {Unborn, Gone}] /\ member' \subseteq member
      /\ \A v \in User \ {u} : user'[v] = user[v]
      /\ user'[u] # Unborn
      /\ \A m \in member : m[1] # u => m \in member'
      /\ u \in Live => user'[u] = Gone /\ \A m \in member' : m[1] # u
      /\ u \notin Live => member' = member /\ user' = user
  <2>1. CASE u \in Live
    BY <1>1, <2>1, AccountsAssumption DEF delete_user, DeletedRows, TypeOK
  <2>2. CASE u \notin Live
    BY <1>1, <2>2 DEF delete_user, DeletedRows, TypeOK
  <2>3. QED
    BY <2>1, <2>2
<1>5. TypeOK'
  BY <1>1, <1>2, <1>3, <1>4 DEF TypeOK
<1>6. BornOnce'
  <2> SUFFICES ASSUME NEW t \in tx, NEW v \in DOMAIN t.born
               PROVE  user'[v] = Unborn /\ \A s \in tx \ {t} : v \notin DOMAIN s.born
    BY <1>3 DEF BornOnce
  <2>1. v \in User /\ user[v] = Unborn /\ \A s \in tx \ {t} : v \notin DOMAIN s.born
    BY <1>1, WritesType, PartialTypes DEF Cached, BornOnce, TypeOK
  <2>2. QED
    BY <1>1, <1>4, <2>1
<1>7. PendingIsKnown'
  <2> SUFFICES ASSUME NEW t \in tx, NEW v \in Touches(t)
               PROVE  v \in lag' \union t.unclear \/ cache'[v] = NotCached
    BY <1>3 DEF PendingIsKnown, Touches
  <2>1. v \in User
    BY <1>1, WritesType, PartialTypes DEF TypeOK, Touches
  <2>2. QED
    BY <1>1, <1>2, <2>1 DEF Cached, PendingIsKnown
<1>8. UnbornUnseen' /\ CacheIsTrue' /\ DeletedIsOut' /\ KeyIsTrue'
  BY <1>1, <1>2, <1>3, <1>4
     DEF Cached, UnbornUnseen, CacheIsTrue, DeletedIsOut, KeyIsTrue
<1>9. KeysHaveUsers'
  <2> SUFFICES ASSUME NEW k \in Key, key[k] \in KeyRow
               PROVE  user'[key[k].uid] # Unborn
    BY <1>1, <1>3 DEF Cached, KeysHaveUsers
  <2>1. key[k].uid \in User
    BY DEF KeyRow
  <2>2. QED
    BY <1>1, <1>4, <2>1 DEF Cached, KeysHaveUsers
<1>10. AdminApart'
  BY <1>1, <1>3, <1>4, AccountsAssumption DEF Ordered, AdminApart
<1>11. Promised("serial") => tx = {}
  BY DEF delete_user
<1>12. Serially'
  BY <1>1, <1>2, <1>3, <1>11 DEF Ordered, Serially, Promised
<1>13. HomeInOrder'
  <2> SUFFICES ASSUME Promised("serial")
               PROVE  /\ \A v \in Live' \ {Admin} :
                             IF user'[v].oid = Homeless THEN WorkspacesOf(v)' = {}
                                                        ELSE user'[v].oid \in WorkspacesOf(v)'
                      /\ \A m \in member' : m[1] \in Live' /\ m[2] \in Open'
    BY <1>3 DEF HomeInOrder, Promised
  <2>1. \A v \in User : v \in Live' <=> v \in Live \ {u}
    BY <1>4 DEF Live
  <2>2. \A v \in User \ {u} : WorkspacesOf(v)' = WorkspacesOf(v)
    BY <1>4 DEF WorkspacesOf
  <2>3. ASSUME NEW v \in Live' \ {Admin}
        PROVE  IF user'[v].oid = Homeless THEN WorkspacesOf(v)' = {}
                                          ELSE user'[v].oid \in WorkspacesOf(v)'
    <3>1. v \in User /\ v \in Live /\ v # u
      BY <2>1 DEF Live
    <3>2. IF user[v].oid = Homeless THEN WorkspacesOf(v) = {}
                                    ELSE user[v].oid \in WorkspacesOf(v)
      BY <1>1, <3>1 DEF Ordered, HomeInOrder
    <3>3. QED
      BY <1>4, <2>2, <3>1, <3>2
  <2>4. ASSUME NEW m \in member' PROVE m[1] \in Live' /\ m[2] \in Open'
    <3>1. m \in member /\ m[1] \in Live /\ m[2] \in Open
      BY <1>4, HomeIs
    <3>2. m[1] # u
      BY <1>4, <3>1
    <3>3. QED
      BY <1>3, <2>1, <3>1, <3>2 DEF Live, Open
  <2>5. QED
    BY <2>3, <2>4
<1>14. AdminAtHome'
  BY <1>1, <1>3, <1>4, AccountsAssumption DEF Ordered, AdminAtHome, Promised, Open
<1>15. QED
  BY <1>5, <1>6, <1>7, <1>8, <1>9, <1>10, <1>12, <1>13, <1>14 DEF IInv, Cached, Ordered

-----------------------------------------------------------------------------
(* Authentication and the commit. *)

\* A request reads the user's row, or what is cached of it.
LEMMA SeenKeeps ==
    ASSUME IInv, NEW u \in User, user[u] # Unborn, Promised("quiet") => tx = {},
           get_user_info(u), UNCHANGED <<user, member, ws, tx, world>>
    PROVE  /\ cache' \in [User -> Row \union {Gone, NotCached}] /\ lag' \subseteq User
           /\ BornOnce' /\ UnbornUnseen' /\ PendingIsKnown' /\ CacheIsTrue' /\ DeletedIsOut'
           /\ Ordered'
<1>1. TypeOK /\ Cached /\ Ordered
  BY DEF IInv
<1>2. Seen(u) \in Row \union {Gone, NotCached}
  BY <1>1, UserType DEF Seen
<1>3. /\ cache' \in [User -> Row \union {Gone, NotCached}]
      /\ \A v \in User : cache'[v] = IF v = u THEN Seen(u) ELSE cache[v]
      /\ lag' \subseteq User /\ lag \subseteq lag' /\ lag' \subseteq lag \union {u}
      /\ tx = {} => lag' = lag
      /\ cache[u] = NotCached /\ (\E t \in tx : u \in Touches(t)) => u \in lag'
  BY <1>1, <1>2 DEF get_user_info, TypeOK
<1>4. Seen(u) = IF cache[u] = NotCached THEN user[u] ELSE cache[u]
  BY DEF Seen
<1>5. BornOnce'
  BY <1>1 DEF Cached, BornOnce
<1>6. UnbornUnseen' /\ CacheIsTrue' /\ DeletedIsOut'
  BY <1>1, <1>3, <1>4 DEF Cached, UnbornUnseen, CacheIsTrue, DeletedIsOut
<1>7. PendingIsKnown'
  <2> SUFFICES ASSUME NEW t \in tx, NEW v \in Touches(t)
               PROVE  v \in lag' \union t.unclear \/ cache'[v] = NotCached
    BY DEF PendingIsKnown, Touches
  <2>1. v \in User
    BY <1>1, WritesType, PartialTypes DEF TypeOK, Touches
  <2>2. v \in lag \union t.unclear \/ cache[v] = NotCached
    BY <1>1 DEF Cached, PendingIsKnown
  <2>3. QED
    BY <1>3, <2>1, <2>2
<1>8. AdminApart' /\ HomeInOrder' /\ AdminAtHome'
  BY <1>1 DEF Ordered, AdminApart, HomeInOrder, AdminAtHome, Promised, Live, Open, WorkspacesOf
<1>9. Serially'
  <2>1. \A t \in tx : (OrderAfter(t)' <=> OrderAfter(t)) /\ (AdminAfter(t)' <=> AdminAfter(t))
    BY DEF OrderAfter, AdminAfter, Written, Members2, Kept, Live
  <2>2. Promised("quiet") => lag' = lag
    BY <1>3
  <2>3. QED
    BY <1>1, <2>1, <2>2 DEF Ordered, Serially, Promised
<1>10. QED
  BY <1>3, <1>5, <1>6, <1>7, <1>8, <1>9 DEF Ordered

LEMMA ValidateStep ==
    ASSUME IInv, NEW u \in User, validateToken(u), UNCHANGED keyVars
    PROVE  IInv'
<1>1. /\ cache' \in [User -> Row \union {Gone, NotCached}] /\ lag' \subseteq User
      /\ BornOnce' /\ UnbornUnseen' /\ PendingIsKnown' /\ CacheIsTrue' /\ DeletedIsOut'
      /\ Ordered'
  BY SeenKeeps DEF validateToken
<1>2. UNCHANGED <<user, member, ws, tx, world, key, keyCache>>
  BY DEF validateToken, keyVars
<1>3. TypeOK'
  BY <1>1, <1>2 DEF IInv, TypeOK
<1>4. KeysHaveUsers' /\ KeyIsTrue'
  BY <1>2 DEF IInv, Cached, KeysHaveUsers, KeyIsTrue
<1>5. QED
  BY <1>1, <1>3, <1>4 DEF IInv, Cached

LEMMA CommitStep ==
    ASSUME IInv, NEW t \in tx, Commit(t), UNCHANGED keyVars
    PROVE  IInv'
<1> USE DEF keyVars
<1>1. TypeOK /\ Cached /\ Ordered /\ t \in Writes
  BY DEF IInv, TypeOK
<1>2. tx' = tx \ {t} /\ UNCHANGED <<cache, world, key, keyCache>>
  BY DEF Commit
<1>3. CASE Fails(t)
  <2>1. UNCHANGED <<user, member, ws, lag>>
    BY <1>3 DEF Commit
  <2>2. TypeOK'
    BY <1>1, <1>2, <2>1 DEF TypeOK
  <2>3. Cached'
    <3>1. BornOnce' /\ PendingIsKnown'
      BY <1>1, <1>2, <2>1 DEF Cached, BornOnce, PendingIsKnown, Touches
    <3>2. UnbornUnseen' /\ CacheIsTrue' /\ DeletedIsOut' /\ KeysHaveUsers' /\ KeyIsTrue'
      BY <1>1, <1>2, <2>1
         DEF Cached, UnbornUnseen, CacheIsTrue, DeletedIsOut, KeysHaveUsers, KeyIsTrue
    <3>3. QED
      BY <3>1, <3>2 DEF Cached
  <2>4. AdminApart' /\ HomeInOrder' /\ AdminAtHome'
    BY <1>1, <1>2, <2>1
       DEF Ordered, AdminApart, HomeInOrder, AdminAtHome, Promised, Live, Open, WorkspacesOf
  <2>5. Serially'
    <3>1. \A s \in tx : /\ OrderAfter(s)' <=> OrderAfter(s)
                        /\ AdminAfter(s)' <=> AdminAfter(s)
      BY <2>1 DEF OrderAfter, AdminAfter, Written, Members2, Kept, Live
    <3>2. QED
      BY <1>1, <1>2, <2>1, <3>1 DEF Ordered, Serially, Promised
  <2>6. QED
    BY <2>2, <2>3, <2>4, <2>5 DEF IInv, Ordered
<1>4. CASE ~Fails(t)
  <2>1. /\ user' = [u \in User |-> Written(t, u)] /\ member' = Members2(t)
        /\ ws' = [w \in Workspace |-> Kept(t, w)] /\ lag' = lag \union t.unclear
    BY <1>4 DEF Commit, Members2, Kept
  <2>2. \A u \in User : user'[u] = Written(t, u)
    BY <2>1
  <2>3. \A w \in Workspace : ws'[w] = Kept(t, w)
    BY <2>1
  <2>4. TypeOK'
    <3>1. user' \in [User -> Row \union {Unborn, Gone}]
      BY <1>1, <2>1, WrittenType
    <3>2. member' \subseteq User \X Workspace /\ lag' \subseteq User
      BY <1>1, <2>1, WritesType DEF TypeOK, Members2
    <3>3. ws' \in [Workspace -> {"none", "open", "dropped"}]
      BY <1>1, <2>1 DEF TypeOK, Kept
    <3>4. QED
      BY <1>1, <1>2, <3>1, <3>2, <3>3 DEF TypeOK
  <2>5. ASSUME NEW u \in User
        PROVE  /\ user[u] # Unborn => user'[u] # Unborn
               /\ user'[u] \in {Unborn, Gone} => user'[u] = user[u]
               /\ user[u] = Unborn /\ u \notin DOMAIN t.born => user'[u] = Unborn
               /\ u \in DOMAIN t.born => user[u] = Unborn
               /\ u \notin DOMAIN t.born /\ u \notin Touches(t) => user'[u] = user[u]
    <3>1. u \in DOMAIN t.born => user[u] = Unborn
      BY <1>1 DEF Cached, BornOnce
    <3>2. user[u] = Unborn => u \notin Live
      BY DEF Live
    <3>3. QED
      BY <1>1, <2>2, <3>1, <3>2, WrittenType, RowAssumption
  <2>6. BornOnce'
    <3> SUFFICES ASSUME NEW s \in tx \ {t}, NEW u \in DOMAIN s.born
                 PROVE  /\ user'[u] = Unborn
                        /\ \A r \in (tx \ {t}) \ {s} : u \notin DOMAIN r.born
      BY <1>2 DEF BornOnce
    <3>1. /\ u \in User /\ user[u] = Unborn
          /\ \A r \in tx \ {s} : u \notin DOMAIN r.born
      BY <1>1, WritesType, PartialTypes DEF Cached, BornOnce, TypeOK
    <3>2. QED
      BY <2>5, <3>1
  <2>7. UnbornUnseen' /\ DeletedIsOut'
    BY <1>1, <1>2, <2>5 DEF Cached, UnbornUnseen, DeletedIsOut
  <2>8. PendingIsKnown'
    BY <1>1, <1>2, <2>1 DEF Cached, PendingIsKnown, Touches
  <2>9. CacheIsTrue'
    <3> SUFFICES ASSUME NEW u \in User, u \notin lag'
                 PROVE  cache[u] \in {NotCached, user'[u]}
      BY <1>2 DEF CacheIsTrue
    <3>1. u \notin lag /\ u \notin t.unclear /\ cache[u] \in {NotCached, user[u]}
      BY <1>1, <2>1 DEF Cached, CacheIsTrue
    <3>2. u \in Touches(t) \/ user[u] = Unborn => cache[u] = NotCached
      BY <1>1, <3>1 DEF Cached, PendingIsKnown, UnbornUnseen
    <3>3. QED
      BY <2>5, <3>1, <3>2
  <2>10. KeysHaveUsers' /\ KeyIsTrue'
    <3>1. \A k \in Key : key[k] \in KeyRow => key[k].uid \in User
      BY DEF KeyRow
    <3>2. QED
      BY <1>1, <1>2, <2>5, <3>1 DEF Cached, KeysHaveUsers, KeyIsTrue
  <2>11. AdminApart'
    <3>1. user'[Admin] \in Row
      BY <2>4, <2>5, AdminType, RowAssumption DEF TypeOK
    <3>2. ws'[Default] = "open"
      BY <1>1, <2>3, AdminType DEF Ordered, AdminApart, Kept
    <3>3. \A m \in member' : m[1] # Admin
      BY <1>1, <2>1 DEF Ordered, AdminApart, Members2
    <3>4. QED
      BY <1>1, <1>2, <3>1, <3>2, <3>3 DEF Ordered, AdminApart
  <2>12. Serially'
    <3> SUFFICES ASSUME Promised("serial") PROVE Serially'
      BY <1>2 DEF Serially, Promised
    <3>1. tx' = {}
      BY <1>1, <1>2 DEF Ordered, Serially
    <3>2. Promised("quiet") => Admin \notin lag'
      BY <1>1, <2>1 DEF Ordered, Serially, AdminApart
    <3>3. QED
      BY <1>2, <3>1, <3>2 DEF Serially, Promised
  <2>13. HomeInOrder'
    <3> SUFFICES ASSUME Promised("serial")
                 PROVE  /\ \A u \in Live' \ {Admin} :
                               IF user'[u].oid = Homeless THEN WorkspacesOf(u)' = {}
                                                          ELSE user'[u].oid \in WorkspacesOf(u)'
                        /\ \A m \in member' : m[1] \in Live' /\ m[2] \in Open'
      BY <1>2 DEF HomeInOrder, Promised
    <3>1. OrderAfter(t)
      BY <1>1 DEF Ordered, Serially
    <3>2. member' \subseteq User \X Workspace
      BY <2>4 DEF TypeOK
    <3>3. ASSUME NEW u \in Live' \ {Admin}
          PROVE  IF user'[u].oid = Homeless THEN WorkspacesOf(u)' = {}
                                            ELSE user'[u].oid \in WorkspacesOf(u)'
      <4>1. u \in User /\ user'[u] = Written(t, u) /\ Written(t, u) \notin {Unborn, Gone}
        BY <2>2, <3>3 DEF Live
      <4>2. IF user'[u].oid = Homeless THEN \A w \in Workspace : <<u, w>> \notin member'
                                       ELSE <<u, user'[u].oid>> \in member'
        BY <2>1, <3>1, <3>3, <4>1 DEF OrderAfter
      <4>3. QED
        BY <3>2, <4>2 DEF WorkspacesOf
    <3>4. ASSUME NEW m \in member' PROVE m[1] \in Live' /\ m[2] \in Open'
      <4>1. m[1] \in User /\ m[2] \in Workspace
        BY <3>2
      <4>2. Written(t, m[1]) \notin {Unborn, Gone} /\ Kept(t, m[2]) = "open"
        BY <2>1, <3>1 DEF OrderAfter
      <4>3. QED
        BY <2>2, <2>3, <4>1, <4>2 DEF Live, Open
    <3>5. QED
      BY <3>3, <3>4
  <2>14. AdminAtHome'
    BY <1>1, <1>2, <2>2, <2>3, AdminType
       DEF AdminAtHome, Promised, Ordered, Serially, AdminAfter, Open
  <2>15. QED
    BY <2>4, <2>6, <2>7, <2>8, <2>9, <2>10, <2>11, <2>12, <2>13, <2>14
       DEF IInv, Cached, Ordered
<1>5. QED
  BY <1>3, <1>4

-----------------------------------------------------------------------------
(* Keys. *)

\* The accounts are as they were.
LEMMA AccountsSame ==
    ASSUME IInv, UNCHANGED accountVars
    PROVE  /\ BornOnce' /\ UnbornUnseen' /\ PendingIsKnown' /\ CacheIsTrue' /\ DeletedIsOut'
           /\ Ordered'
<1> USE DEF accountVars
<1>1. BornOnce' /\ UnbornUnseen' /\ PendingIsKnown' /\ CacheIsTrue' /\ DeletedIsOut'
  BY DEF IInv, Cached, BornOnce, UnbornUnseen, PendingIsKnown, CacheIsTrue, DeletedIsOut,
         Touches
<1>2. AdminApart' /\ HomeInOrder' /\ AdminAtHome'
  BY DEF IInv, Ordered, AdminApart, HomeInOrder, AdminAtHome, Promised, Live, Open,
         WorkspacesOf
<1>3. Serially'
  <2>1. \A s \in tx : /\ OrderAfter(s)' <=> OrderAfter(s)
                      /\ AdminAfter(s)' <=> AdminAfter(s)
    BY DEF OrderAfter, AdminAfter, Written, Members2, Kept, Live
  <2>2. QED
    BY <2>1 DEF IInv, Ordered, Serially, Promised
<1>4. QED
  BY <1>1, <1>2, <1>3 DEF Ordered

\* A user that manages keys exists or existed.
LEMMA ManagerExists ==
    ASSUME IInv, NEW u \in User, Manages(u)
    PROVE  user[u] # Unborn
BY DEF IInv, Cached, UnbornUnseen, Manages, Accepted, Seen

LEMMA KeyType ==
    ASSUME IInv, NEW k \in Key
    PROVE  /\ key[k] \in KeyRow \union {Unborn, Gone}
           /\ keyCache[k] \in {NotCached, key[k]}
           /\ key[k] = Unborn => keyCache[k] = NotCached
           /\ key[k] \in KeyRow => /\ key[k].uid \in User /\ user[key[k].uid] # Unborn
BY DEF IInv, TypeOK, Cached, KeyIsTrue, KeysHaveUsers, KeyRow

\* What a handler may do to a key: make one, or change one and empty its entry.
LEMMA ManageStep ==
    ASSUME IInv, NEW u \in User, NEW k \in Key, Manages(u),
           key' \in [Key -> KeyRow \union {Unborn, Gone}],
           keyCache' \in [Key -> KeyRow \union {Gone, NotCached}],
           \A l \in Key \ {k} : key'[l] = key[l] /\ keyCache'[l] = keyCache[l],
           keyCache'[k] = NotCached, key'[k] \in KeyRow => key'[k].uid = u
    PROVE  IInv'
<1>1. UNCHANGED accountVars
  BY DEF Manages
<1>2. TypeOK'
  BY <1>1 DEF IInv, TypeOK, accountVars
<1>3. KeysHaveUsers' /\ KeyIsTrue'
  <2> SUFFICES ASSUME NEW l \in Key
               PROVE  /\ key'[l] = Unborn => keyCache'[l] = NotCached
                      /\ key'[l] \in KeyRow => user[key'[l].uid] # Unborn
                      /\ keyCache'[l] \in {NotCached, key'[l]}
    BY <1>1 DEF accountVars, KeysHaveUsers, KeyIsTrue
  <2>1. CASE l = k
    BY <2>1, ManagerExists
  <2>2. CASE l # k
    BY <2>2, KeyType
  <2>3. QED
    BY <2>1, <2>2
<1>4. QED
  BY <1>1, <1>2, <1>3, AccountsSame DEF IInv, Cached

LEMMA KeyStep ==
    ASSUME IInv, NEW u \in User, NEW k \in Key,
           create(u, k) \/ delete(u, k) \/ (\E s \in BOOLEAN : status(u, k, s))
    PROVE  IInv'
<1>1. TypeOK
  BY DEF IInv
<1>2. CASE create(u, k)
  <2>1. keyCache[k] = NotCached
    BY <1>2, KeyType DEF create
  <2>2. [uid |-> u, status |-> TRUE] \in KeyRow /\ [uid |-> u, status |-> TRUE].uid = u
    BY DEF KeyRow
  <2>3. key' = [key EXCEPT ![k] = [uid |-> u, status |-> TRUE]] /\ keyCache' = keyCache
    BY <1>2 DEF create
  <2>4. /\ key' \in [Key -> KeyRow \union {Unborn, Gone}] /\ key'[k].uid = u
        /\ \A l \in Key \ {k} : key'[l] = key[l]
    BY <1>1, <2>2, <2>3 DEF TypeOK
  <2>5. QED
    BY <1>1, <1>2, <2>1, <2>3, <2>4, ManageStep DEF create, TypeOK
<1>3. CASE delete(u, k)
  <2>1. /\ key' = [key EXCEPT ![k] = Gone] /\ Manages(u)
        /\ keyCache' = [keyCache EXCEPT ![k] = NotCached]
    BY <1>3 DEF delete, clear_api_key_cache
  <2>2. key'[k] \notin KeyRow
    BY <1>1, <2>1, KeyRowAssumption DEF TypeOK
  <2>3. QED
    BY <1>1, <2>1, <2>2, ManageStep DEF TypeOK
<1>4. ASSUME NEW s \in BOOLEAN, status(u, k, s) PROVE IInv'
  <2>1. /\ key' = [key EXCEPT ![k].status = s] /\ Manages(u)
        /\ keyCache' = [keyCache EXCEPT ![k] = NotCached]
        /\ key[k] \in KeyRow /\ key[k].uid = u
    BY <1>4 DEF status, clear_api_key_cache, KeysOf
  <2>2. [key[k] EXCEPT !.status = s] \in KeyRow /\ [key[k] EXCEPT !.status = s].uid = u
    BY <2>1 DEF KeyRow
  <2>3. /\ key' \in [Key -> KeyRow \union {Unborn, Gone}] /\ key'[k].uid = u
        /\ \A l \in Key \ {k} : key'[l] = key[l]
    BY <1>1, <2>1, <2>2 DEF TypeOK
  <2>4. QED
    BY <1>1, <2>1, <2>3, ManageStep DEF TypeOK
<1>5. QED
  BY <1>2, <1>3, <1>4

LEMMA AskStep ==
    ASSUME IInv, NEW k \in Key, validateAskToken(k)
    PROVE  IInv'
<1>1. TypeOK /\ key[k] # Unborn /\ UNCHANGED <<key, user, member, ws, tx, world>>
  BY DEF IInv, validateAskToken
<1>2. SeenKey(k) = key[k]
  BY KeyType DEF SeenKey
<1>3. /\ keyCache' \in [Key -> KeyRow \union {Gone, NotCached}]
      /\ \A l \in Key : keyCache'[l] = IF l = k THEN key[k] ELSE keyCache[l]
  BY <1>1, <1>2, KeyType DEF validateAskToken, TypeOK
<1>4. KeysHaveUsers' /\ KeyIsTrue'
  BY <1>1, <1>3, KeyType DEF KeysHaveUsers, KeyIsTrue
<1>5. /\ cache' \in [User -> Row \union {Gone, NotCached}] /\ lag' \subseteq User
      /\ BornOnce' /\ UnbornUnseen' /\ PendingIsKnown' /\ CacheIsTrue' /\ DeletedIsOut'
      /\ Ordered'
  <2>1. CASE key[k] \in KeyRow /\ key[k].status
    <3>1. PICK u \in User : u = key[k].uid
      BY <2>1, KeyType
    <3>2. user[u] # Unborn /\ get_user_info(u) /\ (Promised("quiet") => tx = {})
      BY <1>2, <2>1, <3>1, KeyType DEF validateAskToken
    <3>3. QED
      BY <1>1, <3>2, SeenKeeps
  <2>2. CASE ~(key[k] \in KeyRow /\ key[k].status)
    <3>1. UNCHANGED accountVars
      BY <1>1, <1>2, <2>2 DEF validateAskToken, accountVars
    <3>2. QED
      BY <1>1, <3>1, AccountsSame DEF TypeOK, accountVars
  <2>3. QED
    BY <2>1, <2>2
<1>6. TypeOK'
  BY <1>1, <1>3, <1>5 DEF TypeOK
<1>7. QED
  BY <1>4, <1>5, <1>6 DEF IInv, Cached

LEMMA ExpireKeyStep ==
    ASSUME IInv, NEW k \in Key, ExpireKey(k)
    PROVE  IInv'
<1>1. /\ UNCHANGED accountVars /\ UNCHANGED key
      /\ keyCache' = [keyCache EXCEPT ![k] = NotCached]
  BY DEF ExpireKey, clear_api_key_cache
<1>2. TypeOK'
  BY <1>1 DEF IInv, TypeOK, accountVars
<1>3. KeysHaveUsers' /\ KeyIsTrue'
  <2>1. \A l \in Key : keyCache'[l] = IF l = k THEN NotCached ELSE keyCache[l]
    BY <1>1 DEF IInv, TypeOK
  <2>2. QED
    BY <1>1, <2>1, KeyType DEF KeysHaveUsers, KeyIsTrue, accountVars
<1>4. QED
  BY <1>1, <1>2, <1>3, AccountsSame DEF IInv, Cached

-----------------------------------------------------------------------------
(* The invariant holds. *)

LEMMA Initially == Init => IInv
<1> SUFFICES ASSUME Init PROVE IInv
  OBVIOUS
<1> USE DEF Init, AccountsInit
<1>1. PICK S \in SUBSET (User \ {Admin}) :
          /\ user = [u \in User |-> IF u \in S \union {Admin}
                                     THEN [status |-> TRUE, oid |-> Default] ELSE Unborn]
          /\ member = S \X {Default}
  OBVIOUS
<1>2. [status |-> TRUE, oid |-> Default] \in Row /\ [status |-> TRUE, oid |-> Default].oid = Default
  BY AccountsAssumption DEF Row
<1>3. /\ user \in [User -> Row \union {Unborn, Gone}] /\ user[Admin] \in Row
      /\ user[Admin].oid = Default /\ ws[Default] = "open"
      /\ \A u \in User : user[u] \notin {Unborn, Gone} <=> u \in S \union {Admin}
      /\ \A u \in S : user[u].oid = Default
  BY <1>1, <1>2, AccountsAssumption, RowAssumption
<1>4. TypeOK
  BY <1>1, <1>3, AccountsAssumption, RowAssumption DEF TypeOK
<1>5. Cached
  BY KeyRowAssumption DEF Cached, BornOnce, UnbornUnseen, PendingIsKnown, CacheIsTrue,
     DeletedIsOut, KeysHaveUsers, KeyIsTrue
<1>6. AdminApart /\ Serially
  BY <1>1, <1>3 DEF AdminApart, Serially
<1>7. HomeInOrder /\ AdminAtHome
  BY <1>1, <1>3, AccountsAssumption DEF HomeInOrder, AdminAtHome, Live, Open, WorkspacesOf
<1>8. QED
  BY <1>4, <1>5, <1>6, <1>7 DEF IInv, Ordered

LEMMA Inductive == IInv /\ [Next]_vars => IInv'
<1> SUFFICES ASSUME IInv, [Next]_vars PROVE IInv'
  OBVIOUS
<1>1. ASSUME NEW u \in User, UNCHANGED keyVars,
             validateToken(u) \/ Expire(u) \/ delete_user(u)
      PROVE  IInv'
  BY <1>1, ValidateStep, ExpireStep, DeleteStep
<1>2. ASSUME NEW u \in User, UNCHANGED keyVars, NEW s \in BOOLEAN, statusChange(u, s)
      PROVE  IInv'
  BY <1>2, StatusStep
<1>3. ASSUME NEW u \in User, UNCHANGED keyVars, NEW W \in SUBSET Workspace,
             user_create(u, W) \/ update(u, W)
      PROVE  IInv'
  BY <1>3, CreateStep, UpdateStep
<1>4. ASSUME NEW u \in User, UNCHANGED keyVars, NEW w \in Workspace,
             ws_change(u, w) \/ bind(u, w) \/ unbind(u, w)
      PROVE  IInv'
  BY <1>4, ChangeStep, BindStep, UnbindStep
<1>5. ASSUME UNCHANGED keyVars, NEW w \in Workspace, add_ws(w) \/ delete_ws(w)
      PROVE  IInv'
  BY <1>5, AddStep, DissolveStep
<1>6. ASSUME UNCHANGED keyVars, NEW t \in tx, Commit(t)
      PROVE  IInv'
  BY <1>6, CommitStep
<1>7. ASSUME NEW k \in Key, validateAskToken(k) \/ ExpireKey(k)
      PROVE  IInv'
  BY <1>7, AskStep, ExpireKeyStep
<1>8. ASSUME NEW k \in Key, NEW u \in User,
             create(u, k) \/ delete(u, k) \/ (\E s \in BOOLEAN : status(u, k, s))
      PROVE  IInv'
  BY <1>8, KeyStep
<1>9. CASE UNCHANGED vars
  <2>1. UNCHANGED accountVars /\ UNCHANGED keyVars
    BY <1>9 DEF vars
  <2>2. TypeOK' /\ KeysHaveUsers' /\ KeyIsTrue'
    BY <2>1 DEF IInv, TypeOK, Cached, KeysHaveUsers, KeyIsTrue, accountVars, keyVars
  <2>3. QED
    BY <2>1, <2>2, AccountsSame DEF IInv, Cached
<1>10. QED
  BY <1>1, <1>2, <1>3, <1>4, <1>5, <1>6, <1>7, <1>8, <1>9 DEF Next, AccountsNext

LEMMA Invariance == Spec => []IInv
BY Initially, Inductive, PTL DEF Spec

-----------------------------------------------------------------------------
(* Coming and going: what transactions on their way will make and drop, and *)
(* what the cache knows to be gone.                                         *)

MadeOnce ==
    \A t \in tx :
        /\ \A w \in t.made : ws[w] = "none" /\ \A s \in tx \ {t} : w \notin s.made
        /\ \A w \in t.dropped : ws[w] # "none"

GoneIsGone == \A u \in User : cache[u] = Gone => user[u] = Gone

Lasting == MadeOnce /\ GoneIsGone /\ KeyLimit

\* What a prepared transaction does to workspaces.
Shapely(t) ==
    /\ \A w \in t.made : ws[w] = "none" /\ \A s \in tx : w \notin s.made
    /\ \A w \in t.dropped : ws[w] = "open"

\* What every handler leaves behind.
Handled ==
    /\ UNCHANGED <<user, ws, key>>
    /\ \A u \in User : cache'[u] \in {NotCached, cache[u]}
    /\ \E t : Shapely(t) /\ (tx' = tx \/ tx' = tx \union {t})

LEMMA ClearForgets ==
    ASSUME NEW S, clear_cache(S)
    PROVE  \A u \in User : cache'[u] \in {NotCached, cache[u]}
BY DEF clear_cache

LEMMA ChangeHandled ==
    ASSUME NEW u \in User, NEW w \in Workspace, ws_change(u, w), UNCHANGED keyVars
    PROVE  Handled
<1>1. UNCHANGED <<user, ws, key>> /\ \A v \in User : cache'[v] \in {NotCached, cache[v]}
  BY ClearForgets DEF ws_change, Handler, keyVars
<1>2. PICK t : t = [NoWrites EXCEPT !.oid = HomeWrite(u, w)]
  OBVIOUS
<1>3. Shapely(t)
  BY <1>2 DEF Shapely, NoWrites
<1>4. Prepare(t) \/ tx' = tx
  BY <1>2 DEF ws_change
<1>5. QED
  BY <1>1, <1>3, <1>4 DEF Handled, Prepare

LEMMA StatusHandled ==
    ASSUME NEW u \in User, NEW s \in BOOLEAN, statusChange(u, s), UNCHANGED keyVars
    PROVE  Handled
<1>1. UNCHANGED <<user, ws, key, cache>>
  BY DEF statusChange, Handler, keyVars
<1>2. PICK t : /\ t = [NoWrites EXCEPT !.status = [x \in {v \in {u} : user[v].status # s} |-> s],
                                       !.unclear = {v \in {u} : user[v].status # s}]
               /\ Prepare(t)
  BY DEF statusChange
<1>3. Shapely(t)
  BY <1>2 DEF Shapely, NoWrites
<1>4. QED
  BY <1>1, <1>2, <1>3 DEF Handled, Prepare

LEMMA CreateHandled ==
    ASSUME NEW u \in User, NEW W \in SUBSET Workspace, user_create(u, W), UNCHANGED keyVars
    PROVE  Handled
<1>1. UNCHANGED <<user, ws, key, cache>>
  BY DEF user_create, Handler, keyVars
<1>2. PICK h : Prepare([NoWrites EXCEPT !.born = [x \in {u} |-> [status |-> TRUE, oid |-> h]],
                                        !.bound = {u} \X W])
  BY DEF user_create
<1>3. PICK t : /\ t = [NoWrites EXCEPT !.born = [x \in {u} |-> [status |-> TRUE, oid |-> h]],
                                       !.bound = {u} \X W]
               /\ Prepare(t)
  BY <1>2
<1>4. Shapely(t)
  BY <1>3 DEF Shapely, NoWrites
<1>5. QED
  BY <1>1, <1>3, <1>4 DEF Handled, Prepare

LEMMA UpdateHandled ==
    ASSUME NEW u \in User, NEW W \in SUBSET Workspace, update(u, W), UNCHANGED keyVars
    PROVE  Handled
<1>1. UNCHANGED <<user, ws, key, cache>>
  BY DEF update, Handler, keyVars
<1>2. PICK h : Prepare([NoWrites EXCEPT !.oid = HomeWrite(u, h),
                                        !.bound = {u} \X (W \ WorkspacesOf(u)),
                                        !.unbound = {u} \X (WorkspacesOf(u) \ W),
                                        !.unclear = {v \in {u} : user[v].oid # h}])
  BY DEF update
<1>3. PICK t : /\ t = [NoWrites EXCEPT !.oid = HomeWrite(u, h),
                                       !.bound = {u} \X (W \ WorkspacesOf(u)),
                                       !.unbound = {u} \X (WorkspacesOf(u) \ W),
                                       !.unclear = {v \in {u} : user[v].oid # h}]
               /\ Prepare(t)
  BY <1>2
<1>4. Shapely(t)
  BY <1>3 DEF Shapely, NoWrites
<1>5. QED
  BY <1>1, <1>3, <1>4 DEF Handled, Prepare

LEMMA BindHandled ==
    ASSUME NEW u \in User, NEW w \in Workspace, bind(u, w), UNCHANGED keyVars
    PROVE  Handled
<1>1. UNCHANGED <<user, ws, key>> /\ \A v \in User : cache'[v] \in {NotCached, cache[v]}
  BY ClearForgets DEF bind, Handler, keyVars
<1>2. PICK t : /\ t = [NoWrites EXCEPT !.oid = IF user[u].oid = Homeless THEN HomeWrite(u, w)
                                                                     ELSE @,
                                       !.bound = {<<u, w>>}]
               /\ Prepare(t)
  BY DEF bind
<1>3. Shapely(t)
  BY <1>2 DEF Shapely, NoWrites
<1>4. QED
  BY <1>1, <1>2, <1>3 DEF Handled, Prepare

LEMMA UnbindHandled ==
    ASSUME NEW u \in User, NEW w \in Workspace, unbind(u, w), UNCHANGED keyVars
    PROVE  Handled
<1>1. UNCHANGED <<user, ws, key>> /\ \A v \in User : cache'[v] \in {NotCached, cache[v]}
  BY ClearForgets DEF unbind, Handler, keyVars
<1>2. PICK h : Prepare([NoWrites EXCEPT
                  !.oid = IF u \in Live /\ user[u].oid = w THEN HomeWrite(u, h) ELSE @,
                  !.unbound = {<<u, w>>}])
  BY DEF unbind
<1>3. PICK t : /\ t = [NoWrites EXCEPT
                      !.oid = IF u \in Live /\ user[u].oid = w THEN HomeWrite(u, h) ELSE @,
                      !.unbound = {<<u, w>>}]
               /\ Prepare(t)
  BY <1>2
<1>4. Shapely(t)
  BY <1>3 DEF Shapely, NoWrites
<1>5. QED
  BY <1>1, <1>3, <1>4 DEF Handled, Prepare

LEMMA AddHandled ==
    ASSUME NEW w \in Workspace, add_ws(w), UNCHANGED keyVars
    PROVE  Handled
<1>1. UNCHANGED <<user, ws, key, cache>> /\ ws[w] = "none" /\ \A s \in tx : w \notin s.made
  BY DEF add_ws, Handler, keyVars
<1>2. PICK t : t = [NoWrites EXCEPT !.made = {w}] /\ Prepare(t)
  BY DEF add_ws
<1>3. t.made = {w} /\ t.dropped = {}
  BY <1>2 DEF NoWrites
<1>4. Shapely(t)
  BY <1>1, <1>3 DEF Shapely
<1>5. QED
  BY <1>1, <1>2, <1>4 DEF Handled, Prepare

LEMMA DissolveHandled ==
    ASSUME NEW w \in Workspace, delete_ws(w), UNCHANGED keyVars
    PROVE  Handled
<1>1. /\ UNCHANGED <<user, ws, key>> /\ \A v \in User : cache'[v] \in {NotCached, cache[v]}
      /\ w \in Open
  BY ClearForgets DEF delete_ws, Dissolve, Handler, keyVars
<1>2. PICK f : Prepare([NoWrites EXCEPT
                  !.oid = [u \in Evicted(w) \union Displaced(w) |->
                              IF u = Admin THEN Default ELSE f[u]],
                  !.unbound = Memberships(w), !.dropped = {w}, !.core = TRUE])
  BY DEF delete_ws, Dissolve
<1>3. PICK t : /\ t = [NoWrites EXCEPT
                      !.oid = [u \in Evicted(w) \union Displaced(w) |->
                                  IF u = Admin THEN Default ELSE f[u]],
                      !.unbound = Memberships(w), !.dropped = {w}, !.core = TRUE]
               /\ Prepare(t)
  BY <1>2
<1>4. t.made = {} /\ t.dropped = {w}
  BY <1>3 DEF NoWrites
<1>5. Shapely(t)
  BY <1>1, <1>4 DEF Shapely, Open
<1>6. QED
  BY <1>1, <1>3, <1>5 DEF Handled, Prepare

\* Whatever a handler prepares, what it makes and drops is in order.
LEMMA HandledLasts ==
    ASSUME TypeOK, Lasting, Handled
    PROVE  Lasting'
<1>1. PICK t : Shapely(t) /\ (tx' = tx \/ tx' = tx \union {t})
  BY DEF Handled
<1>2. MadeOnce'
  BY <1>1 DEF Lasting, MadeOnce, Handled, Shapely
<1>3. GoneIsGone'
  BY RowAssumption, AccountsAssumption DEF Lasting, GoneIsGone, Handled
<1>4. KeyLimit'
  BY DEF Lasting, KeyLimit, Handled, KeysOf
<1>5. QED
  BY <1>2, <1>3, <1>4 DEF Lasting

\* A request that is authenticated leaves the rows alone.
LEMMA ReadLasts ==
    ASSUME TypeOK, Lasting, NEW u \in User, get_user_info(u), UNCHANGED <<user, ws, tx, key>>
    PROVE  Lasting'
<1>1. \A v \in User : cache'[v] \in {cache[v], user[v]}
  BY DEF get_user_info, Seen, TypeOK
<1>2. GoneIsGone'
  BY <1>1 DEF Lasting, GoneIsGone
<1>3. MadeOnce' /\ KeyLimit'
  BY DEF Lasting, MadeOnce, KeyLimit, KeysOf
<1>4. QED
  BY <1>2, <1>3 DEF Lasting

LEMMA DeleteLasts ==
    ASSUME TypeOK, Lasting, NEW u \in User, delete_user(u), UNCHANGED keyVars
    PROVE  Lasting'
<1>1. UNCHANGED <<ws, tx, key>> /\ \A v \in User : cache'[v] \in {NotCached, cache[v]}
  BY ClearForgets DEF delete_user, keyVars
<1>2. \A v \in User : user[v] = Gone => user'[v] = Gone
  BY DEF delete_user, DeletedRows, TypeOK
<1>3. GoneIsGone'
  BY <1>1, <1>2, RowAssumption, AccountsAssumption DEF Lasting, GoneIsGone
<1>4. MadeOnce' /\ KeyLimit'
  BY <1>1 DEF Lasting, MadeOnce, KeyLimit, KeysOf
<1>5. QED
  BY <1>3, <1>4 DEF Lasting

\* What a commit does to users and workspaces.
LEMMA CommitMoves ==
    ASSUME IInv, Lasting, NEW t \in tx, Commit(t), ~Fails(t)
    PROVE  /\ DOMAIN t.born \subseteq User /\ \A u \in DOMAIN t.born : user[u] = Unborn
           /\ \A u \in User : IF u \in DOMAIN t.born THEN user'[u] \in Row
                              ELSE /\ user'[u] \in Row <=> user[u] \in Row
                                   /\ user[u] \notin Row => user'[u] = user[u]
           /\ t.made \subseteq Workspace /\ t.dropped \subseteq Workspace
           /\ \A w \in t.made : ws[w] = "none"
           /\ \A w \in t.dropped : ws[w] # "none" /\ w # Default
           /\ ws' = [w \in Workspace |-> IF w \in t.made THEN "open"
                                         ELSE IF w \in t.dropped THEN "dropped" ELSE ws[w]]
<1>1. TypeOK /\ Cached /\ Ordered /\ t \in Writes
  BY DEF IInv, TypeOK
<1>2. t.born \in Births /\ t.made \subseteq Workspace /\ t.dropped \subseteq Workspace
  BY <1>1, WritesType
<1>3. DOMAIN t.born \subseteq User /\ \A u \in DOMAIN t.born : user[u] = Unborn
  BY <1>1, <1>2, PartialTypes DEF Cached, BornOnce
<1>4. \A u \in User : user'[u] = Written(t, u)
  BY DEF Commit
<1>5. ASSUME NEW u \in User
      PROVE  IF u \in DOMAIN t.born THEN user'[u] \in Row
             ELSE /\ user'[u] \in Row <=> user[u] \in Row
                  /\ user[u] \notin Row => user'[u] = user[u]
  <2>1. u \in Live <=> user[u] \in Row
    BY <1>1, UserType
  <2>2. QED
    BY <1>1, <1>4, <2>1, WrittenType
<1>6. /\ \A w \in t.made : ws[w] = "none"
      /\ \A w \in t.dropped : ws[w] # "none" /\ w # Default
  BY <1>1 DEF Lasting, MadeOnce, Ordered, AdminApart
<1>7. QED
  BY <1>2, <1>3, <1>5, <1>6 DEF Commit

LEMMA CommitLasts ==
    ASSUME IInv, Lasting, NEW t \in tx, Commit(t), UNCHANGED keyVars
    PROVE  Lasting'
<1>1. TypeOK /\ tx' = tx \ {t} /\ UNCHANGED <<cache, key>>
  BY DEF IInv, Commit, keyVars
<1>2. KeyLimit'
  BY <1>1 DEF Lasting, KeyLimit, KeysOf
<1>3. CASE Fails(t)
  <2>1. UNCHANGED <<user, ws>>
    BY <1>3 DEF Commit
  <2>2. QED
    BY <1>1, <1>2, <2>1 DEF Lasting, MadeOnce, GoneIsGone
<1>4. CASE ~Fails(t)
  <2>1. GoneIsGone'
    <3> SUFFICES ASSUME NEW u \in User, cache[u] = Gone PROVE user'[u] = Gone
      BY <1>1 DEF GoneIsGone
    <3>1. user[u] = Gone /\ user[u] \notin Row /\ user[u] # Unborn
      BY RowAssumption, AccountsAssumption DEF Lasting, GoneIsGone
    <3>2. QED
      BY <1>4, <3>1, CommitMoves
  <2>2. ASSUME NEW s \in tx', NEW w \in s.made
        PROVE  ws'[w] = "none" /\ \A r \in tx' \ {s} : w \notin r.made
    <3>1. s \in tx /\ s # t /\ ws[w] = "none" /\ \A r \in tx \ {s} : w \notin r.made
      BY <1>1, <2>2 DEF Lasting, MadeOnce
    <3>2. w \in Workspace /\ w \notin t.made
      BY <3>1, <2>2, WritesType DEF IInv, TypeOK
    <3>3. w \notin t.dropped
      BY <3>1 DEF Lasting, MadeOnce
    <3>4. QED
      BY <1>1, <1>4, <3>1, <3>2, <3>3, CommitMoves
  <2>3. ASSUME NEW s \in tx', NEW w \in s.dropped PROVE ws'[w] # "none"
    <3>1. s \in tx /\ ws[w] # "none" /\ w \in Workspace
      BY <1>1, <2>3, WritesType DEF Lasting, MadeOnce, IInv, TypeOK
    <3>2. QED
      BY <1>4, <3>1, CommitMoves
  <2>4. QED
    BY <1>2, <2>1, <2>2, <2>3 DEF Lasting, MadeOnce
<1>5. QED
  BY <1>3, <1>4

\* The keys of a user are finitely many.
LEMMA KeysFinite ==
    ASSUME NEW S \in SUBSET Key
    PROVE  IsFiniteSet(S) /\ Cardinality(S) \in Nat
BY ApiKeysAssumption, FS_Subset, FS_CardinalityType

LEMMA KeysLast ==
    ASSUME TypeOK, Lasting, NEW u \in User, NEW k \in Key,
           create(u, k) \/ delete(u, k) \/ (\E s \in BOOLEAN : status(u, k, s))
    PROVE  Lasting'
<1>1. UNCHANGED accountVars
  BY DEF create, delete, status, Manages
<1>2. MadeOnce' /\ GoneIsGone'
  BY <1>1 DEF accountVars, Lasting, MadeOnce, GoneIsGone
<1>3. \A v \in User : KeysOf(v) \in SUBSET Key /\ KeysOf(v)' \in SUBSET Key
  BY DEF KeysOf
<1>4. CASE create(u, k)
  <2>1. key' = [key EXCEPT ![k] = [uid |-> u, status |-> TRUE]] /\ key[k] = Unborn
    BY <1>4 DEF create
  <2>2. /\ [uid |-> u, status |-> TRUE] \in KeyRow /\ [uid |-> u, status |-> TRUE].uid = u
        /\ key[k] \notin KeyRow
    BY <2>1, KeyRowAssumption DEF KeyRow
  <2>3. KeysOf(u)' = KeysOf(u) \union {k} /\ k \notin KeysOf(u)
    BY <2>1, <2>2 DEF KeysOf, TypeOK
  <2>4. \A v \in User \ {u} : KeysOf(v)' = KeysOf(v)
    BY <2>1, <2>2 DEF KeysOf, TypeOK
  <2>5. Cardinality(KeysOf(u)') = Cardinality(KeysOf(u)) + 1
    BY <1>3, <2>3, KeysFinite, FS_AddElement
  <2>6. Cardinality(KeysOf(u)) < MaxKeys /\ MaxKeys \in Nat /\ Cardinality(KeysOf(u)) \in Nat
    BY <1>3, <1>4, KeysFinite, ApiKeysAssumption DEF create
  <2>7. Cardinality(KeysOf(u)') <= MaxKeys
    BY <2>5, <2>6
  <2>8. KeyLimit'
    BY <2>4, <2>7 DEF Lasting, KeyLimit
  <2>9. QED
    BY <1>2, <2>8 DEF Lasting
<1>5. CASE delete(u, k) \/ (\E s \in BOOLEAN : status(u, k, s))
  <2>1. \A v \in User : KeysOf(v)' \subseteq KeysOf(v)
    <3>1. CASE delete(u, k)
      <4>1. key' = [key EXCEPT ![k] = Gone] /\ Gone \notin KeyRow
        BY <3>1, KeyRowAssumption DEF delete
      <4>2. QED
        BY <4>1 DEF KeysOf, TypeOK
    <3>2. ASSUME NEW s \in BOOLEAN, status(u, k, s)
          PROVE  \A v \in User : KeysOf(v)' \subseteq KeysOf(v)
      <4>1. key' = [key EXCEPT ![k].status = s] /\ key[k] \in KeyRow
        BY <3>2 DEF status, KeysOf
      <4>2. [key[k] EXCEPT !.status = s].uid = key[k].uid
        BY <4>1 DEF KeyRow
      <4>3. \A l \in Key : l # k => key'[l] = key[l]
        BY <4>1 DEF TypeOK
      <4>4. key'[k] = [key[k] EXCEPT !.status = s]
        BY <4>1 DEF TypeOK
      <4>5. QED
        BY <4>1, <4>2, <4>3, <4>4 DEF KeysOf
    <3>3. QED
      BY <1>5, <3>1, <3>2
  <2>2. \A v \in User : Cardinality(KeysOf(v)') <= MaxKeys
    <3> TAKE v \in User
    <3>1. Cardinality(KeysOf(v)') <= Cardinality(KeysOf(v))
      BY <1>3, <2>1, KeysFinite, FS_Subset
    <3>2. QED
      BY <1>3, <3>1, KeysFinite, ApiKeysAssumption DEF Lasting, KeyLimit
  <2>3. KeyLimit'
    BY <2>2 DEF KeyLimit
  <2>4. QED
    BY <1>2, <2>3 DEF Lasting
<1>6. QED
  BY <1>4, <1>5

LEMMA AskLasts ==
    ASSUME IInv, Lasting, NEW k \in Key, validateAskToken(k)
    PROVE  Lasting'
<1>1. TypeOK /\ UNCHANGED <<key, user, ws, tx>> /\ SeenKey(k) = key[k]
  BY KeyType DEF IInv, validateAskToken, SeenKey
<1>2. CASE key[k] \in KeyRow /\ key[k].status
  <2>1. key[k].uid \in User
    BY <1>2, KeyType
  <2>2. QED
    BY <1>1, <1>2, <2>1, ReadLasts DEF validateAskToken
<1>3. CASE ~(key[k] \in KeyRow /\ key[k].status)
  <2>1. UNCHANGED cache
    BY <1>1, <1>3 DEF validateAskToken
  <2>2. QED
    BY <1>1, <2>1 DEF Lasting, MadeOnce, GoneIsGone, KeyLimit, KeysOf
<1>4. QED
  BY <1>2, <1>3

LEMMA ExpireLasts ==
    ASSUME TypeOK, Lasting, NEW u \in User, Expire(u), UNCHANGED keyVars
    PROVE  Lasting'
<1>1. UNCHANGED <<user, ws, tx, key>> /\ \A v \in User : cache'[v] \in {NotCached, cache[v]}
  BY ClearForgets DEF Expire, keyVars
<1>2. GoneIsGone'
  BY <1>1, AccountsAssumption DEF Lasting, GoneIsGone
<1>3. QED
  BY <1>1, <1>2 DEF Lasting, MadeOnce, KeyLimit, KeysOf

LEMMA SameLasts ==
    ASSUME Lasting, UNCHANGED <<user, ws, tx, cache, key>>
    PROVE  Lasting'
BY DEF Lasting, MadeOnce, GoneIsGone, KeyLimit, KeysOf

LEMMA LastingAtFirst == Init => Lasting
<1> SUFFICES ASSUME Init PROVE Lasting
  OBVIOUS
<1>1. MadeOnce /\ GoneIsGone
  BY AccountsAssumption DEF Init, AccountsInit, MadeOnce, GoneIsGone
<1>2. \A u \in User : KeysOf(u) = {}
  BY KeyRowAssumption DEF Init, KeysOf
<1>3. KeyLimit
  BY <1>2, FS_EmptySet, ApiKeysAssumption DEF KeyLimit
<1>4. QED
  BY <1>1, <1>3 DEF Lasting

\* Every handler that prepares a transaction.
AnyHandler ==
    \/ \E u \in User :
           \/ \E s \in BOOLEAN : statusChange(u, s)
           \/ \E W \in SUBSET Workspace : user_create(u, W) \/ update(u, W)
           \/ \E w \in Workspace : ws_change(u, w) \/ bind(u, w) \/ unbind(u, w)
    \/ \E w \in Workspace : add_ws(w) \/ delete_ws(w)

LEMMA AllHandled ==
    ASSUME AnyHandler, UNCHANGED keyVars
    PROVE  Handled
BY ChangeHandled, StatusHandled, CreateHandled, UpdateHandled, BindHandled, UnbindHandled,
   AddHandled, DissolveHandled DEF AnyHandler

\* The steps, by what they may do to a row.
LEMMA Steps ==
    ASSUME [Next]_vars
    PROVE  \/ UNCHANGED keyVars /\ AnyHandler
           \/ UNCHANGED keyVars /\ \E u \in User : validateToken(u) \/ Expire(u)
           \/ UNCHANGED keyVars /\ \E u \in User : delete_user(u)
           \/ UNCHANGED keyVars /\ \E t \in tx : Commit(t)
           \/ \E k \in Key : validateAskToken(k) \/ ExpireKey(k)
           \/ \E k \in Key, u \in User :
                  \/ create(u, k) \/ delete(u, k)
                  \/ \E s \in BOOLEAN : status(u, k, s)
           \/ UNCHANGED vars
<1>1. CASE AccountsNext /\ UNCHANGED keyVars
  BY <1>1 DEF AccountsNext, AnyHandler
<1>2. CASE Next /\ ~(AccountsNext /\ UNCHANGED keyVars)
  BY <1>2 DEF Next
<1>3. QED
  BY <1>1, <1>2

LEMMA LastingKept == IInv /\ Lasting /\ [Next]_vars => Lasting'
<1> SUFFICES ASSUME IInv, Lasting, [Next]_vars PROVE Lasting'
  OBVIOUS
<1>0. TypeOK
  BY DEF IInv
<1>1. CASE UNCHANGED keyVars /\ AnyHandler
  BY <1>0, <1>1, AllHandled, HandledLasts
<1>2. ASSUME UNCHANGED keyVars, NEW u \in User, validateToken(u) PROVE Lasting'
  <2>1. get_user_info(u) /\ UNCHANGED <<user, ws, tx, key>>
    BY <1>2 DEF validateToken, keyVars
  <2>2. QED
    BY <1>0, <2>1, ReadLasts
<1>3. ASSUME UNCHANGED keyVars, NEW u \in User, Expire(u) PROVE Lasting'
  BY <1>0, <1>3, ExpireLasts
<1>4. ASSUME UNCHANGED keyVars, NEW u \in User, delete_user(u) PROVE Lasting'
  BY <1>0, <1>4, DeleteLasts
<1>5. ASSUME UNCHANGED keyVars, NEW t \in tx, Commit(t) PROVE Lasting'
  BY <1>5, CommitLasts
<1>6. ASSUME NEW k \in Key, validateAskToken(k) PROVE Lasting'
  BY <1>6, AskLasts
<1>7. ASSUME NEW k \in Key, ExpireKey(k) PROVE Lasting'
  <2>1. UNCHANGED <<user, ws, tx, cache, key>>
    BY <1>7 DEF ExpireKey, accountVars
  <2>2. QED
    BY <2>1, SameLasts
<1>8. ASSUME NEW k \in Key, NEW u \in User,
             create(u, k) \/ delete(u, k) \/ (\E s \in BOOLEAN : status(u, k, s))
      PROVE  Lasting'
  BY <1>0, <1>8, KeysLast
<1>9. CASE UNCHANGED vars
  <2>1. UNCHANGED <<user, ws, tx, cache, key>>
    BY <1>9 DEF vars, accountVars, keyVars
  <2>2. QED
    BY <2>1, SameLasts
<1>10. QED
  BY <1>1, <1>2, <1>3, <1>4, <1>5, <1>6, <1>7, <1>8, <1>9, Steps

LEMMA LastingInvariance == Spec => [](IInv /\ Lasting)
<1>1. Init => IInv /\ Lasting
  BY Initially, LastingAtFirst
<1>2. IInv /\ Lasting /\ [Next]_vars => IInv' /\ Lasting'
  BY Inductive, LastingKept
<1>3. QED
  BY <1>1, <1>2, PTL DEF Spec

-----------------------------------------------------------------------------
(* The registry. *)

\* A request sees a user live, gone or not born yet as the row says, and every
\* key as its row.
Standing(r) == IF r = Unborn THEN "unborn" ELSE IF r = Gone THEN "gone" ELSE "live"
Lives == [u \in User |-> LifeOf(u)]
Rows == [k \in Key |-> SeenKey(k)]

LEMMA SeenAsIs ==
    ASSUME IInv, Lasting
    PROVE  /\ Lives = [u \in User |-> Standing(user[u])]
           /\ Rows = key
<1>1. TypeOK
  BY DEF IInv
<1>2. ASSUME NEW u \in User PROVE LifeOf(u) = Standing(user[u])
  <2>1. CASE cache[u] = NotCached
    BY <2>1 DEF LifeOf, Seen, Standing
  <2>2. CASE cache[u] = Gone
    BY <2>2, AccountsAssumption DEF LifeOf, Seen, Standing, Lasting, GoneIsGone
  <2>3. CASE cache[u] \in Row
    <3>1. cache[u] \notin {Unborn, Gone, NotCached}
      BY <2>3, RowAssumption
    <3>2. user[u] # Unborn /\ user[u] # Gone
      BY <3>1 DEF IInv, Cached, UnbornUnseen, DeletedIsOut
    <3>3. QED
      BY <3>1, <3>2 DEF LifeOf, Seen, Standing
  <2>4. QED
    BY <1>1, <2>1, <2>2, <2>3, UserType
<1>3. \A k \in Key : SeenKey(k) = key[k]
  BY KeyType DEF SeenKey
<1>4. key = [k \in Key |-> key[k]]
  BY <1>1 DEF TypeOK
<1>5. QED
  BY <1>2, <1>3, <1>4 DEF Lives, Rows

LEMMA SeenNext ==
    ASSUME IInv', Lasting'
    PROVE  /\ Lives' = [u \in User |-> Standing(user'[u])]
           /\ Rows' = key'
<1>1. TypeOK'
  BY DEF IInv
<1>2. ASSUME NEW u \in User PROVE LifeOf(u)' = Standing(user'[u])
  <2>0. cache'[u] \in Row \union {Gone, NotCached}
    BY <1>1 DEF TypeOK
  <2>1. CASE cache'[u] = NotCached
    BY <2>1 DEF LifeOf, Seen, Standing
  <2>2. CASE cache'[u] = Gone
    BY <2>2, AccountsAssumption DEF LifeOf, Seen, Standing, Lasting, GoneIsGone
  <2>3. CASE cache'[u] \in Row
    <3>1. cache'[u] \notin {Unborn, Gone, NotCached}
      BY <2>3, RowAssumption
    <3>2. user'[u] # Unborn /\ user'[u] # Gone
      BY <3>1 DEF IInv, Cached, UnbornUnseen, DeletedIsOut
    <3>3. QED
      BY <3>1, <3>2 DEF LifeOf, Seen, Standing
  <2>4. QED
    BY <2>0, <2>1, <2>2, <2>3
<1>3. ASSUME NEW k \in Key PROVE SeenKey(k)' = key'[k]
  <2>1. keyCache'[k] \in {NotCached, key'[k]}
    BY DEF IInv, Cached, KeyIsTrue
  <2>2. QED
    BY <2>1 DEF SeenKey
<1>4. key' = [k \in Key |-> key'[k]]
  BY <1>1 DEF TypeOK
<1>5. QED
  BY <1>2, <1>3, <1>4 DEF Lives, Rows

\* The actions of the registry, said of what requests see.
LEMMA DirectoryIs ==
    Directory!Init <=> /\ Lives \in [User -> {"unborn", "live"}] /\ Lives[Admin] = "live"
                       /\ ws = [w \in Workspace |-> IF w = Default THEN "open" ELSE "none"]
                       /\ Rows = [k \in Key |-> Unborn]
BY DEF Directory!Init, Lives, Rows

LEMMA DirectoryMoves ==
    /\ \A S, M, D : Directory!Administer(S, M, D) <=>
           /\ \A u \in S : Lives[u] = "unborn"
           /\ \A w \in M : ws[w] = "none"
           /\ \A w \in D : ws[w] = "open" /\ w # Default
           /\ Lives' = [u \in User |-> IF u \in S THEN "live" ELSE Lives[u]]
           /\ ws' = [w \in Workspace |-> IF w \in M THEN "open"
                                         ELSE IF w \in D THEN "dropped" ELSE ws[w]]
           /\ Rows' = Rows
    /\ \A u : Directory!Leave(u) <=>
           /\ Lives[u] = "live" /\ u # Admin
           /\ Lives' = [Lives EXCEPT ![u] = "gone"]
           /\ ws' = ws /\ Rows' = Rows
BY DEF Directory!Administer, Directory!Leave, Lives, Rows

LEMMA Counted == \A S : Directory!Cardinality(S) = Cardinality(S)
BY DEF Directory!Cardinality, Cardinality

LEMMA DirectoryCreates ==
    ASSUME NEW u, NEW k
    PROVE  Directory!CreateKey(u, k) <=>
           /\ Lives[u] = "live" /\ Rows[k] = Unborn
           /\ Cardinality({l \in Key : Rows[l] \notin {Unborn, Gone} /\ Rows[l].uid = u}) < MaxKeys
           /\ Rows' = [Rows EXCEPT ![k] = [uid |-> u, status |-> TRUE]]
           /\ Lives' = Lives /\ ws' = ws
<1>1. Directory!KeysOf(u) = {l \in Key : Rows[l] \notin {Unborn, Gone} /\ Rows[l].uid = u}
  BY Zenon DEF Directory!KeysOf, Directory!Issued, Rows
<1>2. QED
  BY <1>1, Counted, Zenon DEF Directory!CreateKey, Lives, Rows

LEMMA DirectorySwitches ==
    ASSUME NEW k
    PROVE  Directory!SwitchKey(k) <=>
           /\ Rows[k] \notin {Unborn, Gone} /\ Lives[Rows[k].uid] = "live"
           /\ Rows' = [Rows EXCEPT ![k].status = ~@]
           /\ Lives' = Lives /\ ws' = ws
BY Zenon DEF Directory!SwitchKey, Directory!Issued, Lives, Rows

LEMMA DirectoryDeletes ==
    ASSUME NEW k
    PROVE  Directory!DeleteKey(k) <=>
           /\ Rows[k] \notin {Unborn, Gone} /\ Lives[Rows[k].uid] = "live"
           /\ Rows' = [Rows EXCEPT ![k] = Gone]
           /\ Lives' = Lives /\ ws' = ws
BY Zenon DEF Directory!DeleteKey, Directory!Issued, Lives, Rows

-----------------------------------------------------------------------------
(* Every step is one of the registry, or none. *)

LEMMA NothingSeen ==
    ASSUME IInv, Lasting, IInv', Lasting', UNCHANGED <<user, ws, key>>
    PROVE  UNCHANGED Directory!registry
<1>1. Lives' = Lives /\ Rows' = Rows
  BY SeenAsIs, SeenNext
<1>2. QED
  BY <1>1, Zenon DEF Directory!registry, Lives, Rows

LEMMA SeenLeave ==
    ASSUME IInv, Lasting, IInv', Lasting', NEW u \in User, delete_user(u), UNCHANGED keyVars
    PROVE  [Directory!Next]_Directory!registry
<1>1. TypeOK /\ UNCHANGED <<ws, key>>
  BY DEF IInv, delete_user, keyVars
<1>2. CASE u \notin Live
  <2>1. UNCHANGED user
    BY <1>2 DEF delete_user, DeletedRows
  <2>2. QED
    BY <1>1, <2>1, NothingSeen
<1>3. CASE u \in Live
  <2>1. u # Admin /\ user' = [user EXCEPT ![u] = Gone] /\ user[u] \in Row
    BY <1>1, <1>3, UserType DEF delete_user, DeletedRows
  <2>2. Lives[u] = "live"
    BY <2>1, SeenAsIs, RowAssumption DEF Standing
  <2>3. Lives' = [Lives EXCEPT ![u] = "gone"]
    BY <1>1, <2>1, SeenAsIs, SeenNext, AccountsAssumption DEF TypeOK, Standing
  <2>4. Rows' = Rows
    BY <1>1, SeenAsIs, SeenNext
  <2>5. Directory!Leave(u)
    BY <1>1, <2>1, <2>2, <2>3, <2>4, DirectoryMoves
  <2>6. QED
    BY <2>5 DEF Directory!Next
<1>4. QED
  BY <1>2, <1>3

LEMMA SeenCommit ==
    ASSUME IInv, Lasting, IInv', Lasting', NEW t \in tx, Commit(t), UNCHANGED keyVars
    PROVE  [Directory!Next]_Directory!registry
<1>1. TypeOK /\ UNCHANGED key
  BY DEF IInv, keyVars
<1>2. CASE Fails(t)
  <2>1. UNCHANGED <<user, ws>>
    BY <1>2 DEF Commit
  <2>2. QED
    BY <1>1, <2>1, NothingSeen
<1>3. CASE ~Fails(t)
  <2> DEFINE S == DOMAIN t.born
             M == t.made
             D == {w \in t.dropped : ws[w] = "open"}
  <2>1. S \in SUBSET User /\ M \in SUBSET Workspace /\ D \in SUBSET Workspace
    BY <1>3, CommitMoves
  <2>2. /\ \A u \in S : Lives[u] = "unborn"
        /\ \A w \in M : ws[w] = "none"
        /\ \A w \in D : ws[w] = "open" /\ w # Default
    BY <1>3, CommitMoves, SeenAsIs DEF Standing
  <2>3. Lives' = [u \in User |-> IF u \in S THEN "live" ELSE Lives[u]]
    <3>1. ASSUME NEW u \in User
          PROVE  Standing(user'[u]) = IF u \in S THEN "live" ELSE Standing(user[u])
      <4>1. CASE u \in S
        <5>1. user'[u] \in Row
          BY <1>3, <4>1, CommitMoves
        <5>2. QED
          BY <4>1, <5>1, RowAssumption DEF Standing
      <4>2. CASE u \notin S /\ user[u] \in Row
        <5>1. user'[u] \in Row
          BY <1>3, <4>2, CommitMoves
        <5>2. QED
          BY <4>2, <5>1, RowAssumption DEF Standing
      <4>3. CASE u \notin S /\ user[u] \notin Row
        <5>1. user'[u] = user[u]
          BY <1>3, <4>3, CommitMoves
        <5>2. QED
          BY <4>3, <5>1
      <4>4. QED
        BY <4>1, <4>2, <4>3
    <3>2. QED
      BY <3>1, SeenAsIs, SeenNext
  <2>4. ws' = [w \in Workspace |-> IF w \in M THEN "open"
                                   ELSE IF w \in D THEN "dropped" ELSE ws[w]]
    <3>1. ASSUME NEW w \in Workspace
          PROVE  (IF w \in M THEN "open" ELSE IF w \in t.dropped THEN "dropped" ELSE ws[w])
                 = IF w \in M THEN "open" ELSE IF w \in D THEN "dropped" ELSE ws[w]
      <4>1. ws[w] \in {"none", "open", "dropped"}
        BY <1>1 DEF TypeOK
      <4>2. w \in t.dropped => ws[w] # "none"
        BY <1>3, CommitMoves
      <4>3. QED
        BY <4>1, <4>2
    <3>2. ws' = [w \in Workspace |-> IF w \in M THEN "open"
                                     ELSE IF w \in t.dropped THEN "dropped" ELSE ws[w]]
      BY <1>3, CommitMoves
    <3>3. QED
      BY <3>1, <3>2
  <2>5. Rows' = Rows
    BY <1>1, SeenAsIs, SeenNext
  <2> HIDE DEF S, M, D
  <2>6. Directory!Administer(S, M, D)
    BY <2>2, <2>3, <2>4, <2>5, DirectoryMoves
  <2>7. QED
    BY <2>1, <2>6 DEF Directory!Next
<1>4. QED
  BY <1>2, <1>3

\* Whoever manages a key is seen living.
LEMMA ManagerLives ==
    ASSUME NEW u \in User, Manages(u)
    PROVE  Lives[u] = "live"
BY DEF Manages, Accepted, Lives, LifeOf

LEMMA SeenKeys ==
    ASSUME IInv, Lasting, IInv', Lasting', NEW u \in User, NEW k \in Key,
           create(u, k) \/ delete(u, k) \/ (\E s \in BOOLEAN : status(u, k, s))
    PROVE  [Directory!Next]_Directory!registry
<1>1. TypeOK /\ Manages(u) /\ UNCHANGED <<user, ws>>
  BY DEF IInv, create, delete, status, Manages, accountVars
<1>2. Lives[u] = "live" /\ Lives' = Lives /\ Rows = key /\ Rows' = key'
  BY <1>1, ManagerLives, SeenAsIs, SeenNext
<1>3. \A l \in Key : key[l] \in KeyRow <=> Rows[l] \notin {Unborn, Gone}
  BY <1>1, <1>2, KeyRowAssumption DEF TypeOK
<1>4. CASE create(u, k)
  <2>1. /\ key[k] = Unborn /\ Cardinality(KeysOf(u)) < MaxKeys
        /\ key' = [key EXCEPT ![k] = [uid |-> u, status |-> TRUE]]
    BY <1>4 DEF create
  <2>2. KeysOf(u) = {l \in Key : Rows[l] \notin {Unborn, Gone} /\ Rows[l].uid = u}
    BY <1>2, <1>3 DEF KeysOf
  <2>3. Directory!CreateKey(u, k)
    BY <1>1, <1>2, <2>1, <2>2, DirectoryCreates
  <2>4. QED
    BY <2>3 DEF Directory!Next
<1>5. CASE delete(u, k)
  <2>1. key' = [key EXCEPT ![k] = Gone] /\ key[k] \in KeyRow /\ key[k].uid = u
    BY <1>5 DEF delete, KeysOf
  <2>2. Directory!DeleteKey(k)
    BY <1>1, <1>2, <1>3, <2>1, DirectoryDeletes
  <2>3. QED
    BY <2>2 DEF Directory!Next
<1>6. ASSUME NEW s \in BOOLEAN, status(u, k, s)
      PROVE  [Directory!Next]_Directory!registry
  <2>1. /\ key' = [key EXCEPT ![k].status = s] /\ key[k] \in KeyRow /\ key[k].uid = u
        /\ key[k].status # s
    BY <1>6 DEF status, KeysOf
  <2>2. key[k].status \in BOOLEAN
    BY <2>1 DEF KeyRow
  <2>3. s = ~key[k].status
    BY <2>1, <2>2
  <2>4. key' = [key EXCEPT ![k].status = ~@]
    BY <2>1, <2>3, Zenon
  <2>5. Directory!SwitchKey(k)
    BY <1>1, <1>2, <1>3, <2>1, <2>4, DirectorySwitches, Zenon
  <2>6. QED
    BY <2>5 DEF Directory!Next
<1>7. QED
  BY <1>4, <1>5, <1>6

LEMMA SeenAtFirst == Init => Directory!Init
<1> SUFFICES ASSUME Init PROVE Directory!Init
  OBVIOUS
<1>1. IInv /\ Lasting
  BY Initially, LastingAtFirst
<1>2. Lives = [u \in User |-> Standing(user[u])] /\ Rows = key
  BY <1>1, SeenAsIs
<1>3. /\ \A u \in User : user[u] = Unborn \/ user[u] \in Row
      /\ user[Admin] \in Row
  <2>1. [status |-> TRUE, oid |-> Default] \in Row
    BY AccountsAssumption DEF Row
  <2>2. QED
    BY <2>1, AccountsAssumption DEF Init, AccountsInit
<1>4. Lives \in [User -> {"unborn", "live"}] /\ Lives[Admin] = "live"
  BY <1>2, <1>3, RowAssumption, AccountsAssumption DEF Standing
<1>5. QED
  BY <1>2, <1>4, DirectoryIs DEF Init, AccountsInit

LEMMA SeenStep ==
    IInv /\ Lasting /\ [Next]_vars /\ IInv' /\ Lasting' => [Directory!Next]_Directory!registry
<1> SUFFICES ASSUME IInv, Lasting, [Next]_vars, IInv', Lasting'
             PROVE  [Directory!Next]_Directory!registry
  OBVIOUS
<1>1. CASE UNCHANGED keyVars /\ AnyHandler
  <2>1. UNCHANGED <<user, ws, key>>
    BY <1>1, AllHandled DEF Handled
  <2>2. QED
    BY <2>1, NothingSeen
<1>2. CASE UNCHANGED keyVars /\ \E u \in User : validateToken(u) \/ Expire(u)
  <2>1. UNCHANGED <<user, ws, key>>
    BY <1>2 DEF validateToken, Expire, keyVars
  <2>2. QED
    BY <2>1, NothingSeen
<1>3. CASE UNCHANGED keyVars /\ \E u \in User : delete_user(u)
  BY <1>3, SeenLeave
<1>4. CASE UNCHANGED keyVars /\ \E t \in tx : Commit(t)
  BY <1>4, SeenCommit
<1>5. CASE (\E k \in Key : validateAskToken(k) \/ ExpireKey(k)) \/ UNCHANGED vars
  <2>1. UNCHANGED <<user, ws, key>>
    BY <1>5 DEF validateAskToken, ExpireKey, vars, accountVars, keyVars
  <2>2. QED
    BY <2>1, NothingSeen
<1>6. CASE \E k \in Key, u \in User :
               \/ create(u, k) \/ delete(u, k)
               \/ \E s \in BOOLEAN : status(u, k, s)
  BY <1>6, SeenKeys
<1>7. QED
  BY <1>1, <1>2, <1>3, <1>4, <1>5, <1>6, Steps

-----------------------------------------------------------------------------
(* Theorems *)

\* Every variable keeps its type: what a transaction leaves of a row is a row.
THEOREM AccountTypes == Spec => []TypeOK
<1>1. IInv => TypeOK
  BY DEF IInv
<1>2. QED
  BY <1>1, Invariance, PTL

\* A key that is disabled or deleted is refused from then on, however requests,
\* handlers and the end of cache entries interleave.
THEOREM KeysAreTrue == Spec => []KeyIsTrue
<1>1. IInv => KeyIsTrue
  BY DEF IInv, Cached
<1>2. QED
  BY <1>1, Invariance, PTL

\* A deleted user is not let in: no transaction prepared before the deletion and
\* committed after it brings back the row or what is cached of it.
THEOREM DeletedStaysOut == Spec => []DeletedIsOut
<1>1. IInv => DeletedIsOut
  BY DEF IInv, Cached
<1>2. QED
  BY <1>1, Invariance, PTL

\* What is cached of a user differs from the row only for the two reasons known.
THEOREM CacheKnown == Spec => []CacheIsTrue
<1>1. IInv => CacheIsTrue
  BY DEF IInv, Cached
<1>2. QED
  BY <1>1, Invariance, PTL

\* Without overlapping writes every user is at home in a workspace of the user,
\* and no membership outlives its user or its workspace.
THEOREM HomesInOrder == Spec => []HomeInOrder
<1>1. IInv => HomeInOrder
  BY DEF IInv, Ordered
<1>2. QED
  BY <1>1, Invariance, PTL

\* The administrator's workspace exists, if no request reads the row during a write.
THEOREM AdminsHome == Spec => []AdminAtHome
<1>1. IInv => AdminAtHome
  BY DEF IInv, Ordered
<1>2. QED
  BY <1>1, Invariance, PTL

\* Requests see users, workspaces and keys come and go as the registry says: each
\* once and for good, whatever is cached, prepared, rolled back or committed late.
THEOREM RequestsSeeARegistry == Spec => RegistrySpec
<1>1. Spec => Directory!Init
  BY SeenAtFirst DEF Spec
<1>2. IInv /\ Lasting /\ [Next]_vars /\ IInv' /\ Lasting'
      => [Directory!Next]_Directory!registry
  BY SeenStep
<1>3. QED
  BY <1>1, <1>2, LastingInvariance, PTL DEF Spec, RegistrySpec, Directory!Spec

\* No user ever has more keys than the limit of create.
THEOREM KeysLimited == Spec => []KeyLimit
<1>1. Lasting => KeyLimit
  BY DEF Lasting
<1>2. QED
  BY <1>1, LastingInvariance, PTL
=============================================================================
