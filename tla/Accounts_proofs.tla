--------------------------- MODULE Accounts_proofs ---------------------------
(***************************************************************************)
(* Proofs about Accounts, for any numbers of names, tenants, users, keys,  *)
(* requests and injected events.                                           *)
(***************************************************************************)
EXTENDS Accounts, TLAPS

\* An admin is created in the admin tenant, everybody else in a known one.
LEMMA TargetIsTenant ==
  ASSUME NEW n \in Names, NEW role, NEW t \in TargetTenants(n, role)
  PROVE  t \in TenantIds /\ (role = "admin" => t = AdminTenant)
  BY AccountsAssumption DEF TargetTenants

\* A generated name is a name like any other: what a step of the handlers does.
LEMMA HandleSteps ==
  ASSUME NEW r \in Requests, Handle(r)
  PROVE  \/ Answer(r)
         \/ Logout(r)
         \/ \E t \in TenantIds : CreateTenant(r, t)
         \/ \E t \in Deletable, hard \in BOOLEAN : t \in TenantIds /\ DeleteTenant(r, t, hard)
         \/ \E n \in Names, role \in {"admin", "user"} :
              \E t \in TargetTenants(n, role) : CreateUser(r, n, role, t)
         \/ \E u \in UserIds : DeleteUser(r, u)
         \/ \E u \in UserIds, role \in {"admin", "user"} : UpdateUser(r, u, role)
         \/ \E u \in UserIds, expires \in {"never", "later"} : RegenerateKey(r, u, expires)
  <1>1. ASSUME NEW role \in {"admin", "user"}, CreateAutoUser(r, role)
        PROVE  \E n \in Names : \E t \in TargetTenants(n, role) : CreateUser(r, n, role, t)
    <2>1. PICK i \in DOMAIN AutoNames :
                 \E t \in TargetTenants(AutoNames[i], role) : CreateUser(r, AutoNames[i], role, t)
      BY <1>1 DEF CreateAutoUser
    <2>2. AutoNames[i] \in Names BY AccountsAssumption
    <2> QED BY <2>1, <2>2
  <1>2. Creatable \subseteq TenantIds /\ Deletable \subseteq TenantIds
        /\ NewRoles \subseteq {"admin", "user"}
    BY AccountsAssumption
  <1> QED BY <1>1, <1>2 DEF Handle

-----------------------------------------------------------------------------
(* Types.                                                                  *)

\* A user is added under an id and with a key that were never given out.
LEMMA NewUserType ==
  ASSUME TypeOK, NEW n \in Names, NEW t \in TenantIds, NEW role \in {"admin", "user"},
         NEW expires \in Expiry, NewUser(n, t, role, expires)
  PROVE  /\ users' \in [UserIds -> User \cup {None}]
         /\ lastUser' = lastUser + 1 /\ lastUser' \in 1..MaxUsers
         /\ lastKey' = lastKey + 1 /\ lastKey' \in 1..MaxKeys
         /\ users'[lastUser'].name = n /\ users'[lastUser'].tenant = t
         /\ users'[lastUser'].role = role /\ users'[lastUser'].key = lastKey'
         /\ \A u \in UserIds \ {lastUser'} : users'[u] = users[u]
  BY AccountsAssumption DEF TypeOK, NewUser, User, UserIds, Keys

\* Deleting users deletes rows and ends keys.
LEMMA DropUsersType ==
  ASSUME TypeOK, NEW U \in SUBSET Accounts, DropUsers(U)
  PROVE  /\ users' \in [UserIds -> User \cup {None}]
         /\ sessions' \in [Keys -> Session \cup {None}]
         /\ revoked' \subseteq Keys
  <1>1. SessionKeys(U) \subseteq Keys BY DEF SessionKeys
  <1>2. AccountKeys(U) \subseteq Keys
    BY DEF AccountKeys, Accounts, TypeOK, User
  <1> QED BY <1>1, <1>2 DEF DropUsers, TypeOK

LEMMA MembersAreAccounts ==
  ASSUME NEW t
  PROVE  Members(t) \subseteq Accounts
  BY DEF Members

\* Injected events are counted.
LEMMA InjectType ==
  ASSUME TypeOK, NEW kind, Inject(kind)
  PROVE  faults' \in 1..MaxFaults
  BY AccountsAssumption DEF TypeOK, Inject

LEMMA EnsureTenantType ==
  ASSUME TypeOK, NEW t \in TenantIds, EnsureTenant(t)
  PROVE  /\ tenants' \in [TenantIds -> {"none", "active", "deleted"}]
         /\ dirs' \subseteq TenantIds
  BY DEF TypeOK, EnsureTenant

LEMMA ContextType ==
  ASSUME TypeOK, NEW r \in Requests, Finished(r) \/ Down
  PROVE  ctx' \in [Requests -> Context \cup {None}]
  BY DEF TypeOK, Finished, Down

\* A key resolves to users that exist.
LEMMA ResolvedIsAccount ==
  ASSUME NEW k, NEW who \in Resolve(k)
  PROVE  who.user \in Accounts
  <1>1. CASE \E u \in Accounts : who = [user |-> u, expires |-> sessions[k].expires]
    BY <1>1
  <1>2. CASE \E u \in Accounts : who = [user |-> u, expires |-> users[u].expires]
    BY <1>2
  <1> QED BY <1>1, <1>2 DEF Resolve

LEMMA TypeInvariance ==
  ASSUME TypeOK, [Next]_vars
  PROVE  TypeOK'
  <1> USE AccountsAssumption
  <1>1. CASE Start
    <2>1. tenants' \in [TenantIds -> {"none", "active", "deleted"}] /\ dirs' \subseteq TenantIds
      BY <1>1, EnsureTenantType DEF Start, TypeOK
    <2>2. CASE NewUser(AdminName, AdminTenant, "admin", "later") /\ UNCHANGED faults
      BY <1>1, <2>1, <2>2, NewUserType DEF Start, TypeOK, Expiry
    <2>3. CASE UNCHANGED <<users, lastUser, lastKey, faults>>
      BY <1>1, <2>1, <2>3 DEF Start, TypeOK
    <2>4. CASE Inject("crash") /\ UNCHANGED <<users, lastUser, lastKey>>
      BY <1>1, <2>1, <2>4, InjectType DEF Start, TypeOK
    <2> QED BY <1>1, <2>2, <2>3, <2>4 DEF Start
  <1>2. CASE Crash
    BY <1>2, InjectType DEF Crash, Down, TypeOK, dbVars
  <1>3. CASE Expire
    <2>1. ASSUME NEW k \in Keys, sessions[k] # None,
                 sessions' = [sessions EXCEPT ![k].expires = "past"], UNCHANGED users
          PROVE  TypeOK'
      BY <1>3, <2>1, InjectType DEF Expire, TypeOK, Session, Expiry
    <2>2. ASSUME NEW u \in Accounts, users' = [users EXCEPT ![u].expires = "past"],
                 UNCHANGED sessions
          PROVE  TypeOK'
      <3>1. users[u] \in User BY DEF Accounts, TypeOK
      <3>2. users' \in [UserIds -> User \cup {None}]
        BY <2>2, <3>1 DEF TypeOK, User, Expiry
      <3> QED BY <1>3, <2>2, <3>2, InjectType DEF Expire, TypeOK
    <2> QED BY <1>3, <2>1, <2>2 DEF Expire
  <1>4. ASSUME NEW n \in Names, Login(n) PROVE TypeOK'
    <2>1. PICK u \in Named(n) :
            \/ /\ lastKey < MaxKeys
               /\ sessions' = [sessions EXCEPT ![lastKey + 1] =
                                 [user |-> u, expires |-> "later"]]
               /\ lastKey' = lastKey + 1
               /\ UNCHANGED faults
            \/ Inject("login") /\ UNCHANGED <<sessions, lastKey>>
      BY <1>4 DEF Login
    <2>2. u \in UserIds BY DEF Named, Accounts
    <2> QED BY <1>4, <2>1, <2>2, InjectType DEF Login, TypeOK, Session, Expiry, Keys
  <1>5. ASSUME NEW r \in Requests, NEW k \in Keys, Admit(r, k) PROVE TypeOK'
    <2>1. PICK who \in Resolve(k) :
                 ctx' = [ctx EXCEPT ![r] = [user |-> who.user, role |-> users[who.user].role,
                                            key |-> k]]
      BY <1>5 DEF Admit
    <2>2. who.user \in Accounts BY ResolvedIsAccount
    <2>3. [user |-> who.user, role |-> users[who.user].role, key |-> k] \in Context
      BY <2>2 DEF Accounts, TypeOK, User, Context
    <2>4. ctx' \in [Requests -> Context \cup {None}] BY <2>1, <2>3 DEF TypeOK
    <2> QED BY <1>5, <2>4 DEF Admit, TypeOK, dbVars
  <1>6. ASSUME NEW r \in Requests, Handle(r) PROVE TypeOK'
    <2>1. CASE Answer(r)
      BY <2>1, ContextType DEF Answer, TypeOK, dbVars
    <2>2. CASE Logout(r)
      <3>1. ctx[r].key \in Keys BY <2>2 DEF Logout, TypeOK, Context
      <3> QED BY <2>2, <3>1, ContextType DEF Logout, TypeOK
    <2>3. ASSUME NEW t \in TenantIds, CreateTenant(r, t) PROVE TypeOK'
      BY <2>3, ContextType, EnsureTenantType DEF CreateTenant, TypeOK
    <2>4. ASSUME NEW t \in TenantIds, NEW hard \in BOOLEAN, DeleteTenant(r, t, hard)
          PROVE  TypeOK'
      <3>1. dirs' \subseteq TenantIds BY <2>4 DEF DeleteTenant, TypeOK
      <3>2. tenants' \in [TenantIds -> {"none", "active", "deleted"}]
        BY <2>4 DEF DeleteTenant, TypeOK
      <3>3. /\ users' \in [UserIds -> User \cup {None}]
            /\ sessions' \in [Keys -> Session \cup {None}]
            /\ revoked' \subseteq Keys
        <4>1. CASE DropUsers(Members(t)) BY <4>1, DropUsersType, MembersAreAccounts
        <4>2. CASE UNCHANGED <<users, sessions, revoked>> BY <4>2 DEF TypeOK
        <4> QED BY <2>4, <4>1, <4>2 DEF DeleteTenant
      <3>4. faults' \in 0..MaxFaults /\ server' \in {"up", "down", "aborted"}
        BY <2>4, InjectType DEF DeleteTenant, TypeOK, Down
      <3>5. ctx' \in [Requests -> Context \cup {None}]
        BY <2>4, ContextType DEF DeleteTenant
      <3> QED BY <2>4, <3>1, <3>2, <3>3, <3>4, <3>5 DEF DeleteTenant, TypeOK
    <2>5. ASSUME NEW n \in Names, NEW role \in {"admin", "user"},
                 NEW t \in TargetTenants(n, role), CreateUser(r, n, role, t)
          PROVE  TypeOK'
      <3>1. t \in TenantIds BY TargetIsTenant
      <3>2. tenants' \in [TenantIds -> {"none", "active", "deleted"}] /\ dirs' \subseteq TenantIds
        BY <2>5, <3>1, EnsureTenantType DEF CreateUser, TypeOK
      <3>3. /\ users' \in [UserIds -> User \cup {None}]
            /\ lastUser' \in 0..MaxUsers /\ lastKey' \in 0..MaxKeys
        <4>1. ASSUME NEW expires \in {"never", "later"}, NewUser(n, t, role, expires)
              PROVE  /\ users' \in [UserIds -> User \cup {None}]
                     /\ lastUser' \in 0..MaxUsers /\ lastKey' \in 0..MaxKeys
          BY <3>1, <4>1, NewUserType DEF Expiry
        <4>2. CASE UNCHANGED <<users, lastUser, lastKey>> BY <4>2 DEF TypeOK
        <4> QED BY <2>5, <4>1, <4>2 DEF CreateUser
      <3>4. faults' \in 0..MaxFaults /\ server' \in {"up", "down", "aborted"}
        BY <2>5, InjectType DEF CreateUser, TypeOK, Down
      <3>5. ctx' \in [Requests -> Context \cup {None}]
        BY <2>5, ContextType DEF CreateUser
      <3> QED BY <2>5, <3>2, <3>3, <3>4, <3>5 DEF CreateUser, TypeOK
    <2>6. ASSUME NEW u \in UserIds, DeleteUser(r, u) PROVE TypeOK'
      <3>1. {u} \subseteq Accounts BY <2>6 DEF DeleteUser
      <3> QED BY <2>6, <3>1, DropUsersType, ContextType DEF DeleteUser, TypeOK
    <2>7. ASSUME NEW u \in UserIds, NEW role \in {"admin", "user"}, UpdateUser(r, u, role)
          PROVE  TypeOK'
      <3>1. users[u] \in User BY <2>7 DEF UpdateUser, Accounts, TypeOK
      <3>2. users' \in [UserIds -> User \cup {None}]
        BY <2>7, <3>1 DEF UpdateUser, TypeOK, User
      <3> QED BY <2>7, <3>2, ContextType DEF UpdateUser, TypeOK
    <2>8. ASSUME NEW u \in UserIds, NEW expires \in {"never", "later"},
                 RegenerateKey(r, u, expires)
          PROVE  TypeOK'
      <3>1. users[u] \in User BY <2>8 DEF RegenerateKey, Accounts, TypeOK
      <3>2. /\ users' \in [UserIds -> User \cup {None}] /\ lastKey' \in 0..MaxKeys
        <4>1. CASE /\ lastKey < MaxKeys /\ lastKey' = lastKey + 1
                   /\ users' = [users EXCEPT ![u].key = lastKey + 1,
                                  ![u].expires = IF expires = "never" THEN @ ELSE expires]
          <5> DEFINE e == IF expires = "never" THEN users[u].expires ELSE expires
          <5>1. lastKey + 1 \in Keys /\ e \in Expiry
            BY <3>1, <4>1 DEF TypeOK, User, Expiry, Keys
          <5>2. [users[u] EXCEPT !.key = lastKey + 1, !.expires = e] \in User
            BY <3>1, <5>1 DEF User
          <5>3. users' = [users EXCEPT ![u] = [users[u] EXCEPT !.key = lastKey + 1, !.expires = e]]
            BY <3>1, <4>1 DEF TypeOK, User
          <5> QED BY <4>1, <5>2, <5>3 DEF TypeOK
        <4>2. CASE UNCHANGED <<users, lastKey>> BY <4>2 DEF TypeOK
        <4> QED BY <2>8, <4>1, <4>2 DEF RegenerateKey
      <3>3. /\ sessions' \in [Keys -> Session \cup {None}] /\ revoked' \subseteq Keys
        <4>1. SessionKeys({u}) \subseteq Keys /\ AccountKeys({u}) \subseteq Keys
          BY <3>1 DEF SessionKeys, AccountKeys, User
        <4> QED BY <2>8, <4>1 DEF RegenerateKey, DropSessions, TypeOK
      <3>4. faults' \in 0..MaxFaults /\ server' \in {"up", "down", "aborted"}
        BY <2>8, InjectType DEF RegenerateKey, DropSessions, TypeOK, Down
      <3>5. ctx' \in [Requests -> Context \cup {None}]
        BY <2>8, ContextType DEF RegenerateKey
      <3> QED BY <2>8, <3>2, <3>3, <3>4, <3>5 DEF RegenerateKey, TypeOK
    <2> QED BY <1>6, <2>1, <2>2, <2>3, <2>4, <2>5, <2>6, <2>7, <2>8, HandleSteps
  <1>7. CASE UNCHANGED vars BY <1>7 DEF vars, TypeOK
  <1> QED BY <1>1, <1>2, <1>3, <1>4, <1>5, <1>6, <1>7 DEF Next

\* The types of the accounts model hold in every instance.
THEOREM TypeCorrect == Spec => []TypeOK
  <1>1. Init => TypeOK
    BY AccountsAssumption DEF Init, TypeOK
  <1>2. TypeOK /\ [Next]_vars => TypeOK' BY TypeInvariance
  <1> QED BY <1>1, <1>2, PTL DEF Spec

-----------------------------------------------------------------------------
(* Which steps can disturb what.                                           *)

\* The user row is new: an admin in the admin tenant, or somebody in a tenant
\* that was made sure of.
Created(u) ==
    /\ users'[u].role = "admin" => users'[u].tenant = AdminTenant
    /\ users'[u].tenant = AdminTenant \/ tenants'[users'[u].tenant] = "active"

\* What can become of a user, or make one: it stays where it is, it is new, or a
\* PATCH changes its role and moves it.
LEMMA UserSteps ==
  ASSUME TypeOK, [Next]_vars, NEW u \in UserIds, users'[u] # None
  PROVE  \/ /\ users[u] # None
            /\ users'[u].tenant = users[u].tenant /\ users'[u].role = users[u].role
         \/ Created(u)
         \/ \E r \in Requests, role \in {"admin", "user"} : UpdateUser(r, u, role)
  <1> DEFINE Stays == /\ users[u] # None
                      /\ users'[u].tenant = users[u].tenant /\ users'[u].role = users[u].role
  <1>1. CASE Start
    <2>1. CASE NewUser(AdminName, AdminTenant, "admin", "later")
      BY <2>1, NewUserType, AccountsAssumption DEF Created, Expiry
    <2>2. CASE UNCHANGED users BY <2>2
    <2> QED BY <1>1, <2>1, <2>2 DEF Start
  <1>2. CASE Expire
    <2>1. CASE UNCHANGED users BY <2>1
    <2>2. ASSUME NEW v \in Accounts, users' = [users EXCEPT ![v].expires = "past"]
          PROVE  Stays
      <3>1. users[v] \in User BY DEF Accounts, TypeOK
      <3> QED BY <2>2, <3>1 DEF Accounts, TypeOK, User
    <2> QED BY <1>2, <2>1, <2>2 DEF Expire
  <1>3. ASSUME NEW r \in Requests, Handle(r)
        PROVE  \/ Stays \/ Created(u)
               \/ \E role \in {"admin", "user"} : UpdateUser(r, u, role)
    <2>1. CASE UNCHANGED users BY <2>1
    <2>2. ASSUME NEW t, DropUsers(Members(t)) PROVE Stays
      BY <2>2 DEF DropUsers
    <2>3. ASSUME NEW n \in Names, NEW role \in {"admin", "user"},
                 NEW t \in TargetTenants(n, role), CreateUser(r, n, role, t)
          PROVE  Stays \/ Created(u)
      <3>1. t \in TenantIds /\ (role = "admin" => t = AdminTenant) BY TargetIsTenant
      <3>2. role # "admin" => tenants'[t] = "active"
        BY <2>3, <3>1 DEF CreateUser, EnsureTenant, TypeOK
      <3>3. ASSUME NEW expires \in {"never", "later"}, NewUser(n, t, role, expires)
            PROVE  Stays \/ Created(u)
        BY <3>1, <3>2, <3>3, NewUserType DEF Created, Expiry
      <3> QED BY <2>3, <2>1, <3>3 DEF CreateUser
    <2>4. ASSUME NEW v \in UserIds, DeleteUser(r, v) PROVE Stays
      BY <2>4 DEF DeleteUser, DropUsers
    <2>5. ASSUME NEW v \in UserIds, NEW role \in {"admin", "user"}, UpdateUser(r, v, role), v # u
          PROVE  Stays
      BY <2>5 DEF UpdateUser, TypeOK
    <2>6. ASSUME NEW v \in UserIds, NEW expires \in {"never", "later"},
                 RegenerateKey(r, v, expires)
          PROVE  Stays
      <3>1. users[v] \in User BY <2>6 DEF RegenerateKey, Accounts, TypeOK
      <3> QED BY <2>6, <3>1 DEF RegenerateKey, TypeOK, User, Accounts
    <2> QED
      BY <1>3, <2>1, <2>2, <2>3, <2>4, <2>5, <2>6, HandleSteps
      DEF Answer, Logout, CreateTenant, DeleteTenant, dbVars
  <1>4. CASE \/ Crash \/ \E n \in Names : Login(n)
             \/ \E r \in Requests, k \in Keys : Admit(r, k)
             \/ UNCHANGED vars
    BY <1>4 DEF Crash, Login, Admit, dbVars, vars
  <1> QED BY <1>1, <1>2, <1>3, <1>4 DEF Next

-----------------------------------------------------------------------------
(* Roles and tenants.                                                      *)

\* An admin account belongs to the admin tenant, whatever happened before.
THEOREM AdminsStayInAdminTenant == Spec => []AdminsInAdminTenant
  <1>1. Init => AdminsInAdminTenant
    BY DEF Init, AdminsInAdminTenant, Accounts
  <1>2. ASSUME TypeOK, AdminsInAdminTenant, [Next]_vars PROVE AdminsInAdminTenant'
    <2> SUFFICES ASSUME NEW u \in UserIds, users'[u] # None, users'[u].role = "admin"
                 PROVE  users'[u].tenant = AdminTenant
      BY DEF AdminsInAdminTenant, Accounts
    <2>1. ASSUME NEW r \in Requests, NEW role \in {"admin", "user"}, UpdateUser(r, u, role)
          PROVE  users'[u].tenant = AdminTenant
      <3>1. users[u] \in User BY <1>2, <2>1 DEF UpdateUser, Accounts, TypeOK
      <3> QED BY <1>2, <2>1, <3>1 DEF UpdateUser, TypeOK, User
    <2> QED BY <1>2, <2>1, UserSteps DEF Created, AdminsInAdminTenant, Accounts
  <1> QED BY <1>1, <1>2, TypeCorrect, PTL DEF Spec

\* The administrators' tenant is made by the first start and is there from then
\* on, if it is not one that is deleted.
AdminTenantInv ==
    \/ tenants[AdminTenant] = "active"
    \/ tenants[AdminTenant] = "none" /\ server = "down" /\ Accounts = {}

\* Only a running server has requests.
ServedInv == \A r \in Requests : ctx[r] # None => server = "up"

\* Where the process is after a step, and what it still serves.
LEMMA ServedInvariance ==
  ASSUME TypeOK, ServedInv, [Next]_vars
  PROVE  ServedInv'
  <1>1. CASE Start BY <1>1 DEF Start, ServedInv
  <1>2. CASE Crash BY <1>2 DEF Crash, Down, ServedInv
  <1>3. ASSUME NEW r \in Requests, NEW k \in Keys, Admit(r, k) PROVE ServedInv'
    BY <1>3 DEF Admit, ServedInv, TypeOK
  <1>4. ASSUME NEW r \in Requests, Handle(r) PROVE ServedInv'
    <2>1. CASE Finished(r) /\ UNCHANGED server BY <2>1 DEF Finished, ServedInv, TypeOK
    <2>2. CASE Down BY <2>2 DEF Down, ServedInv
    <2> QED BY <1>4, <2>1, <2>2, HandleSteps
            DEF Answer, Logout, CreateTenant, DeleteTenant, CreateUser, DeleteUser,
                UpdateUser, RegenerateKey
  <1>5. CASE Expire \/ (\E n \in Names : Login(n)) \/ UNCHANGED vars
    BY <1>5 DEF Expire, Login, vars, ServedInv
  <1> QED BY <1>1, <1>2, <1>3, <1>4, <1>5 DEF Next

\* A tenant stops being active only by its deletion, which, unless something
\* fails, takes its users with it; and one is made active or left as it was by
\* everything else.
LEMMA TenantSteps ==
  ASSUME TypeOK, [Next]_vars, NEW t \in TenantIds
  PROVE  \/ tenants'[t] = tenants[t]
         \/ tenants'[t] = "active"
         \/ /\ t \in Deletable
            /\ faults' = 0 => \A u \in UserIds : users'[u] # None => users'[u].tenant # t
  <1>1. ASSUME NEW s \in TenantIds, EnsureTenant(s)
        PROVE  tenants'[t] = tenants[t] \/ tenants'[t] = "active"
    BY <1>1 DEF EnsureTenant, TypeOK
  <1>2. CASE Start BY <1>1, <1>2, AccountsAssumption DEF Start
  <1>3. ASSUME NEW r \in Requests, Handle(r)
        PROVE  \/ tenants'[t] = tenants[t]
               \/ tenants'[t] = "active"
               \/ /\ t \in Deletable
                  /\ faults' = 0 => \A u \in UserIds : users'[u] # None => users'[u].tenant # t
    <2>1. ASSUME NEW s \in TenantIds, CreateTenant(r, s)
          PROVE  tenants'[t] = tenants[t] \/ tenants'[t] = "active"
      BY <1>1, <2>1 DEF CreateTenant
    <2>2. ASSUME NEW n \in Names, NEW role \in {"admin", "user"},
                 NEW s \in TargetTenants(n, role), CreateUser(r, n, role, s)
          PROVE  tenants'[t] = tenants[t] \/ tenants'[t] = "active"
      BY <1>1, <2>2, TargetIsTenant DEF CreateUser
    <2>3. ASSUME NEW s \in TenantIds, s \in Deletable, NEW hard \in BOOLEAN,
                 DeleteTenant(r, s, hard), tenants'[t] # tenants[t]
          PROVE  /\ t \in Deletable
                 /\ faults' = 0 => \A u \in UserIds : users'[u] # None => users'[u].tenant # t
      <3>1. t = s BY <2>3 DEF DeleteTenant, TypeOK
      <3>2. ASSUME faults' = 0 PROVE DropUsers(Members(t))
        BY <2>3, <3>1, <3>2, InjectType DEF DeleteTenant
      <3> QED BY <2>3, <3>1, <3>2 DEF DropUsers, Members, Accounts
    <2> QED BY <1>3, <2>1, <2>2, <2>3, HandleSteps
            DEF Answer, Logout, DeleteUser, UpdateUser, RegenerateKey, dbVars
  <1>4. CASE \/ Crash \/ Expire \/ \E n \in Names : Login(n)
             \/ \E r \in Requests, k \in Keys : Admit(r, k)
             \/ UNCHANGED vars
    BY <1>4 DEF Crash, Expire, Login, Admit, dbVars, vars
  <1> QED BY <1>2, <1>3, <1>4 DEF Next

\* Injected events are never forgotten.
LEMMA FaultSteps ==
  ASSUME TypeOK, [Next]_vars, faults' = 0
  PROVE  faults = 0
  <1>1. ASSUME NEW kind, Inject(kind) PROVE FALSE
    BY <1>1, InjectType
  <1>2. ASSUME NEW r \in Requests, Handle(r) PROVE UNCHANGED faults
    BY <1>1, <1>2, HandleSteps
    DEF Answer, Logout, CreateTenant, DeleteTenant, CreateUser, DeleteUser, UpdateUser,
        RegenerateKey, DropSessions
  <1> QED BY <1>1, <1>2 DEF Next, Start, Crash, Expire, Login, Admit, vars

\* Nor is who was demoted.
LEMMA DemotedSteps ==
  ASSUME [Next]_vars
  PROVE  demoted \subseteq demoted'
  <1>1. ASSUME NEW r \in Requests, Handle(r) PROVE demoted \subseteq demoted'
    BY <1>1, HandleSteps
    DEF Answer, Logout, CreateTenant, DeleteTenant, CreateUser, DeleteUser, UpdateUser,
        RegenerateKey
  <1> QED BY <1>1 DEF Next, Start, Crash, Expire, Login, Admit, vars

LEMMA AdminTenantInvariance ==
  ASSUME AdminTenant \notin Deletable, TypeOK, ServedInv, AdminTenantInv, [Next]_vars
  PROVE  AdminTenantInv'
  <1>1. CASE tenants[AdminTenant] = "active"
    BY <1>1, TenantSteps, AccountsAssumption DEF AdminTenantInv
  <1>2. CASE tenants[AdminTenant] = "none" /\ server = "down" /\ Accounts = {}
    <2>1. CASE Start
      BY <1>2, <2>1, AccountsAssumption DEF Start, EnsureTenant, AdminTenantInv, TypeOK
    <2>2. ASSUME NEW n \in Names PROVE ~Login(n) BY <1>2 DEF Login
    <2>3. ASSUME NEW r \in Requests PROVE ~Handle(r)
      <3>1. ctx[r] = None BY <1>2 DEF ServedInv
      <3> QED BY <3>1, HandleSteps
              DEF Answer, Logout, CreateTenant, DeleteTenant, CreateUser, DeleteUser,
                  UpdateUser, RegenerateKey, Admin
    <2>4. CASE Expire
      BY <1>2, <2>4, AccountsAssumption DEF Expire, AdminTenantInv, Accounts
    <2>5. CASE UNCHANGED vars BY <1>2, <2>5 DEF vars, AdminTenantInv, Accounts
    <2> QED BY <1>2, <2>1, <2>2, <2>3, <2>4, <2>5 DEF Next, Crash, Admit
  <1> QED BY <1>1, <1>2 DEF AdminTenantInv

PlacedInv == TypeOK /\ ServedInv /\ AdminTenantInv /\ PlacedUsersReachTenant

LEMMA PlacedInvariance ==
  ASSUME AdminTenant \notin Deletable, PlacedInv, [Next]_vars
  PROVE  PlacedUsersReachTenant'
  <1> USE DEF PlacedInv
  <1> SUFFICES ASSUME faults' = 0, NEW u \in UserIds, users'[u] # None, u \notin demoted'
               PROVE  tenants'[users'[u].tenant] = "active"
    BY DEF PlacedUsersReachTenant, Accounts
  <1>1. faults = 0 BY FaultSteps
  <1>2. TypeOK' BY TypeInvariance
  <1>3. AdminTenantInv' BY AdminTenantInvariance
  <1>4. users'[u].tenant \in TenantIds BY <1>2 DEF TypeOK, User
  <1>5. tenants'[AdminTenant] = "active" BY <1>3 DEF AdminTenantInv, Accounts
  <1>6. ASSUME users[u] # None, u \notin demoted, users'[u].tenant = users[u].tenant
        PROVE  tenants'[users'[u].tenant] = "active"
    <2>1. tenants[users'[u].tenant] = "active"
      BY <1>1, <1>6 DEF PlacedUsersReachTenant, Accounts
    <2> QED BY <1>4, <2>1, TenantSteps
  <1>7. ASSUME NEW r \in Requests, NEW role \in {"admin", "user"}, UpdateUser(r, u, role)
        PROVE  tenants'[users'[u].tenant] = "active"
    <2>1. users[u] \in User BY <1>7 DEF UpdateUser, Accounts, TypeOK
    <2>2. users'[u].tenant = AdminTenant \/ users'[u].tenant = users[u].tenant
      BY <1>7, <2>1 DEF UpdateUser, TypeOK, User
    <2> QED BY <1>5, <1>6, <1>7, <2>1, <2>2 DEF UpdateUser, Accounts
  <1>8. demoted \subseteq demoted' BY DemotedSteps
  <1> QED BY <1>5, <1>6, <1>7, <1>8, UserSteps DEF Created

\* While nothing fails, every user but the demoted has an active tenant, if the
\* administrators' own is not among those that are deleted.
THEOREM PlacedUsersReach ==
  ASSUME AdminTenant \notin Deletable
  PROVE  Spec => []PlacedUsersReachTenant
  <1>1. Init => PlacedInv
    BY AccountsAssumption
    DEF Init, PlacedInv, TypeOK, ServedInv, AdminTenantInv, PlacedUsersReachTenant, Accounts
  <1>2. PlacedInv /\ [Next]_vars => PlacedInv'
    BY TypeInvariance, ServedInvariance, AdminTenantInvariance, PlacedInvariance DEF PlacedInv
  <1>3. PlacedInv => PlacedUsersReachTenant BY DEF PlacedInv
  <1> QED BY <1>1, <1>2, <1>3, PTL DEF Spec

LEMMA DataInvariance ==
  ASSUME TypeOK, ActiveTenantHasData, [Next]_vars
  PROVE  ActiveTenantHasData'
  <1> SUFFICES ASSUME faults' = 0, NEW t \in TenantIds, tenants'[t] = "active"
               PROVE  t \in dirs'
    BY DEF ActiveTenantHasData
  <1>1. tenants[t] = "active" => t \in dirs BY FaultSteps DEF ActiveTenantHasData
  <1>2. ASSUME NEW s \in TenantIds, EnsureTenant(s) PROVE t \in dirs'
    BY <1>1, <1>2 DEF EnsureTenant, TypeOK
  <1>3. CASE UNCHANGED <<tenants, dirs>> BY <1>1, <1>3
  <1>4. ASSUME NEW r \in Requests, Handle(r) PROVE t \in dirs'
    <2>1. ASSUME NEW s \in TenantIds, NEW hard \in BOOLEAN, DeleteTenant(r, s, hard)
          PROVE  t \in dirs'
      <3>1. tenants' = [tenants EXCEPT ![s] = IF @ = "none" THEN @ ELSE "deleted"]
        BY <2>1, InjectType DEF DeleteTenant
      <3>2. t # s BY <3>1 DEF TypeOK
      <3> QED BY <1>1, <2>1, <3>1, <3>2 DEF DeleteTenant, TypeOK
    <2>2. ASSUME NEW n \in Names, NEW role \in {"admin", "user"},
                 NEW s \in TargetTenants(n, role), CreateUser(r, n, role, s)
          PROVE  t \in dirs'
      BY <1>2, <1>3, <2>2, TargetIsTenant DEF CreateUser
    <2> QED BY <1>2, <1>3, <1>4, <2>1, <2>2, HandleSteps
            DEF Answer, Logout, CreateTenant, DeleteUser, UpdateUser, RegenerateKey, dbVars
  <1>5. CASE Start BY <1>2, <1>3, <1>5, AccountsAssumption DEF Start
  <1> QED BY <1>3, <1>4, <1>5 DEF Next, Crash, Expire, Login, Admit, dbVars, vars

\* While nothing fails, an active tenant has its data, also one that was deleted
\* with it and came back.
THEOREM ActiveTenantsHaveData == Spec => []ActiveTenantHasData
  <1>1. Init => ActiveTenantHasData BY DEF Init, ActiveTenantHasData
  <1>2. TypeOK /\ ActiveTenantHasData /\ [Next]_vars => ActiveTenantHasData'
    BY DataInvariance
  <1> QED BY <1>1, <1>2, TypeCorrect, PTL DEF Spec

-----------------------------------------------------------------------------
(* Keys.                                                                   *)

\* Keys are given out in order, and no two accounts or sessions share one.
KeysApart ==
    /\ \A u \in Accounts : users[u].key <= lastKey
    /\ \A k \in Keys : sessions[k] # None => k <= lastKey
    /\ \A u, v \in Accounts : users[u].key = users[v].key => u = v
    /\ \A u \in Accounts : sessions[users[u].key] = None

\* An ended key was given out, and neither a session nor an account has it.
RevokedGone ==
    \A k \in revoked : /\ k <= lastKey
                       /\ sessions[k] = None
                       /\ \A u \in Accounts : users[u].key # k

KeyKept(U) == \A u \in U : users'[u] # None => users[u] # None /\ users'[u].key = users[u].key

NoNewSession(K) == \A k \in K : sessions'[k] # None => sessions[k] # None

\* A step gives out no key, or the next one to one account or as one session.
LEMMA KeySteps ==
  ASSUME TypeOK, [Next]_vars
  PROVE  \/ lastKey' = lastKey /\ KeyKept(UserIds) /\ NoNewSession(Keys)
         \/ /\ lastKey' = lastKey + 1
            /\ \E v \in UserIds : users'[v].key = lastKey' /\ KeyKept(UserIds \ {v})
            /\ NoNewSession(Keys)
         \/ lastKey' = lastKey + 1 /\ KeyKept(UserIds) /\ NoNewSession(Keys \ {lastKey'})
  <1> DEFINE Silent == lastKey' = lastKey /\ KeyKept(UserIds) /\ NoNewSession(Keys)
             ToUser == /\ lastKey' = lastKey + 1
                       /\ \E v \in UserIds : users'[v].key = lastKey' /\ KeyKept(UserIds \ {v})
                       /\ NoNewSession(Keys)
             ToSession == lastKey' = lastKey + 1 /\ KeyKept(UserIds)
                          /\ NoNewSession(Keys \ {lastKey'})
  <1> USE DEF KeyKept, NoNewSession
  <1>1. ASSUME NEW n \in Names, NEW t \in TenantIds, NEW role \in {"admin", "user"},
               NEW expires \in Expiry, NewUser(n, t, role, expires), UNCHANGED sessions
        PROVE  ToUser
    <2>1. lastUser' \in UserIds BY <1>1, NewUserType DEF UserIds
    <2> QED BY <1>1, <2>1, NewUserType
  <1>2. CASE UNCHANGED <<users, sessions, lastKey>> BY <1>2
  <1>3. ASSUME NEW U, DropUsers(U), UNCHANGED lastKey PROVE Silent
    BY <1>3 DEF DropUsers
  <1>4. CASE Start
    BY <1>1, <1>2, <1>4, AccountsAssumption DEF Start, Expiry
  <1>5. CASE Expire
    <2>1. ASSUME NEW u \in Accounts, users' = [users EXCEPT ![u].expires = "past"]
          PROVE  KeyKept(UserIds)
      <3>1. users[u] \in User BY DEF Accounts, TypeOK
      <3> QED BY <2>1, <3>1 DEF Accounts, TypeOK, User
    <2>2. ASSUME NEW k \in Keys, sessions[k] # None,
                 sessions' = [sessions EXCEPT ![k].expires = "past"]
          PROVE  NoNewSession(Keys)
      BY <2>2 DEF TypeOK
    <2>3. UNCHANGED lastKey BY <1>5 DEF Expire
    <2> QED BY <1>5, <2>1, <2>2, <2>3 DEF Expire
  <1>6. ASSUME NEW n \in Names, Login(n) PROVE Silent \/ ToSession
    BY <1>6 DEF Login, TypeOK
  <1>7. ASSUME NEW r \in Requests, Handle(r) PROVE Silent \/ ToUser
    <2>1. CASE Logout(r) BY <2>1 DEF Logout, TypeOK
    <2>2. ASSUME NEW t, NEW hard, DeleteTenant(r, t, hard) PROVE Silent
      BY <1>2, <1>3, <2>2 DEF DeleteTenant
    <2>3. ASSUME NEW n \in Names, NEW role \in {"admin", "user"},
                 NEW t \in TargetTenants(n, role), CreateUser(r, n, role, t)
          PROVE  Silent \/ ToUser
      BY <1>1, <1>2, <2>3, TargetIsTenant DEF CreateUser, Expiry
    <2>4. ASSUME NEW u \in UserIds, DeleteUser(r, u) PROVE Silent
      BY <1>3, <2>4 DEF DeleteUser
    <2>5. ASSUME NEW u \in UserIds, NEW role, UpdateUser(r, u, role) PROVE Silent
      <3>1. users[u] \in User BY <2>5 DEF UpdateUser, Accounts, TypeOK
      <3> QED BY <2>5, <3>1 DEF UpdateUser, TypeOK, User, Accounts
    <2>6. ASSUME NEW u \in UserIds, NEW expires, RegenerateKey(r, u, expires)
          PROVE  Silent \/ ToUser
      <3>1. users[u] \in User BY <2>6 DEF RegenerateKey, Accounts, TypeOK
      <3>2. NoNewSession(Keys) BY <2>6 DEF RegenerateKey, DropSessions, TypeOK
      <3>3. CASE UNCHANGED <<users, lastKey>> BY <3>2, <3>3
      <3>4. CASE /\ users' = [users EXCEPT ![u].key = lastKey + 1,
                                ![u].expires = IF expires = "never" THEN @ ELSE expires]
                 /\ lastKey' = lastKey + 1
        <4>1. users'[u].key = lastKey' BY <3>1, <3>4 DEF TypeOK, User
        <4>2. \A v \in UserIds \ {u} : users'[v] = users[v] BY <3>4 DEF TypeOK
        <4> QED BY <3>2, <3>4, <4>1, <4>2
      <3> QED BY <2>6, <3>3, <3>4 DEF RegenerateKey
    <2> QED BY <1>2, <1>7, <2>1, <2>2, <2>3, <2>4, <2>5, <2>6, HandleSteps
            DEF Answer, CreateTenant, dbVars
  <1> QED BY <1>2, <1>4, <1>5, <1>6, <1>7 DEF Next, Crash, Admit, dbVars, vars

LEMMA KeysApartInvariance ==
  ASSUME TypeOK, KeysApart, [Next]_vars
  PROVE  KeysApart'
  <1>1. TypeOK' BY TypeInvariance
  <1>2. \A u \in Accounts : users[u].key \in Keys BY DEF TypeOK, Accounts, User
  <1>3. \A u \in Accounts' : users'[u].key \in Keys BY <1>1 DEF TypeOK, Accounts, User
  <1>4. lastKey \in Nat /\ Keys \subseteq Nat BY AccountsAssumption DEF TypeOK, Keys
  <1>5. CASE lastKey' = lastKey /\ KeyKept(UserIds) /\ NoNewSession(Keys)
    <2>1. /\ \A u \in Accounts' : u \in Accounts /\ users'[u].key = users[u].key
          /\ \A k \in Keys : sessions'[k] # None => sessions[k] # None
      BY <1>5 DEF KeyKept, NoNewSession, Accounts
    <2> QED BY <1>2, <1>4, <1>5, <2>1 DEF KeysApart
  <1>6. CASE /\ lastKey' = lastKey + 1
             /\ \E v \in UserIds : users'[v].key = lastKey' /\ KeyKept(UserIds \ {v})
             /\ NoNewSession(Keys)
    <2>1. PICK v \in UserIds : users'[v].key = lastKey' /\ KeyKept(UserIds \ {v})
      BY <1>6
    <2>2. /\ \A u \in Accounts' \ {v} : u \in Accounts /\ users'[u].key = users[u].key
          /\ \A k \in Keys : sessions'[k] # None => sessions[k] # None
      BY <1>6, <2>1 DEF KeyKept, NoNewSession, Accounts
    <2>3. \A u \in Accounts' \ {v} : users'[u].key <= lastKey /\ users'[u].key # lastKey'
      BY <1>2, <1>4, <1>6, <2>2 DEF KeysApart
    <2>4. /\ \A u \in Accounts' : users'[u].key <= lastKey'
          /\ \A k \in Keys : sessions'[k] # None => k <= lastKey /\ k <= lastKey'
      <3>1. ASSUME NEW k \in Keys, k <= lastKey PROVE k <= lastKey'
        <4>1. k \in Nat /\ lastKey \in Nat /\ lastKey' = lastKey + 1 BY <1>4, <1>6
        <4> QED BY <3>1, <4>1
      <3>2. ASSUME NEW u \in Accounts', u # v PROVE users'[u].key <= lastKey'
        <4>1. users'[u].key \in Keys /\ users'[u].key <= lastKey BY <1>3, <2>3, <3>2
        <4> QED BY <3>1, <4>1
      <3>3. users'[v].key <= lastKey' BY <1>4, <1>6, <2>1
      <3>4. \A k \in Keys : sessions'[k] # None => k <= lastKey BY <2>2 DEF KeysApart
      <3> QED BY <3>1, <3>2, <3>3, <3>4
    <2>5. \A u, w \in Accounts' : users'[u].key = users'[w].key => u = w
      BY <2>1, <2>2, <2>3 DEF KeysApart
    <2>6. sessions'[lastKey'] = None \/ lastKey' \notin Keys
      BY <1>4, <1>6, <2>4
    <2>7. \A u \in Accounts' : sessions'[users'[u].key] = None
      BY <1>3, <2>1, <2>2, <2>6 DEF KeysApart
    <2> QED BY <2>4, <2>5, <2>7 DEF KeysApart
  <1>7. CASE lastKey' = lastKey + 1 /\ KeyKept(UserIds) /\ NoNewSession(Keys \ {lastKey'})
    <2>1. /\ \A u \in Accounts' : u \in Accounts /\ users'[u].key = users[u].key
          /\ \A k \in Keys : sessions'[k] # None => sessions[k] # None \/ k = lastKey'
      BY <1>7 DEF KeyKept, NoNewSession, Accounts
    <2>2. \A u \in Accounts' : users'[u].key <= lastKey /\ users'[u].key # lastKey'
      BY <1>2, <1>4, <1>7, <2>1 DEF KeysApart
    <2>3. /\ \A u \in Accounts' : users'[u].key <= lastKey'
          /\ \A k \in Keys : sessions'[k] # None => k <= lastKey'
      <3>1. lastKey' <= lastKey' /\ \A k \in Keys : k <= lastKey => k <= lastKey'
        BY <1>4, <1>7
      <3>2. \A k \in Keys : sessions[k] # None => k <= lastKey BY DEF KeysApart
      <3>3. \A k \in Keys : sessions'[k] # None => k <= lastKey' BY <2>1, <3>1, <3>2
      <3> QED BY <1>3, <2>2, <3>1, <3>3
    <2>4. /\ \A u, w \in Accounts' : users'[u].key = users'[w].key => u = w
          /\ \A u \in Accounts' : sessions'[users'[u].key] = None
      BY <1>3, <2>1, <2>2 DEF KeysApart
    <2> QED BY <2>3, <2>4 DEF KeysApart
  <1> QED BY <1>5, <1>6, <1>7, KeySteps

\* A step that ends a key ends it for good: the session is gone, and so is the
\* account's key.
LEMMA RevokedSteps ==
  ASSUME "sessions" \notin Faults, TypeOK, KeysApart, [Next]_vars,
         NEW k \in revoked', k \notin revoked
  PROVE  /\ k <= lastKey
         /\ sessions'[k] = None
         /\ \A u \in UserIds : users'[u] # None => users'[u].key # k
  <1> DEFINE Gone == /\ k <= lastKey
                     /\ sessions'[k] = None
                     /\ \A u \in UserIds : users'[u] # None => users'[u].key # k
  <1>1. ASSUME NEW U \in SUBSET Accounts, DropUsers(U) PROVE Gone
    BY <1>1 DEF DropUsers, KeysApart, SessionKeys, AccountKeys, Accounts, TypeOK, User
  <1>2. ASSUME NEW r \in Requests, Handle(r) PROVE Gone
    <2>1. CASE Logout(r)
      BY <2>1 DEF Logout, KeysApart, Accounts, TypeOK, Context
    <2>2. ASSUME NEW t, NEW hard, DeleteTenant(r, t, hard) PROVE Gone
      BY <1>1, <2>2, MembersAreAccounts DEF DeleteTenant
    <2>3. ASSUME NEW u \in UserIds, DeleteUser(r, u) PROVE Gone
      BY <1>1, <2>3 DEF DeleteUser
    <2>4. ASSUME NEW u \in UserIds, NEW expires, RegenerateKey(r, u, expires) PROVE Gone
      <3>1. users[u] \in User BY <2>4 DEF RegenerateKey, Accounts, TypeOK
      <3> QED BY <2>4, <3>1
              DEF RegenerateKey, DropSessions, Inject, KeysApart, SessionKeys, AccountKeys,
                  Accounts, TypeOK, User
    <2> QED BY <1>2, <2>1, <2>2, <2>3, <2>4, HandleSteps
            DEF Answer, CreateTenant, CreateUser, UpdateUser
  <1> QED BY <1>2 DEF Next, Start, Crash, Expire, Login, Admit, vars

KeyInv == TypeOK /\ KeysApart /\ RevokedGone

LEMMA RevokedInvariance ==
  ASSUME "sessions" \notin Faults, KeyInv, [Next]_vars
  PROVE  RevokedGone'
  <1> USE DEF KeyInv
  <1> SUFFICES ASSUME NEW k \in revoked'
               PROVE  /\ k <= lastKey'
                      /\ sessions'[k] = None
                      /\ \A u \in UserIds : users'[u] # None => users'[u].key # k
    BY DEF RevokedGone, Accounts
  <1>1. k \in Keys BY TypeInvariance DEF TypeOK
  <1>2. lastKey \in Nat /\ Keys \subseteq Nat BY AccountsAssumption DEF TypeOK, Keys
  <1>3. lastKey' = lastKey \/ lastKey' = lastKey + 1 BY KeySteps
  <1>4. CASE k \notin revoked
    <2>1. /\ k <= lastKey /\ sessions'[k] = None
          /\ \A u \in UserIds : users'[u] # None => users'[u].key # k
      BY <1>4, RevokedSteps
    <2> QED BY <1>1, <1>2, <1>3, <2>1
  <1>5. CASE k \in revoked
    <2>1. /\ k <= lastKey /\ sessions[k] = None
          /\ \A u \in UserIds : users[u] # None => users[u].key # k
      BY <1>5 DEF RevokedGone, Accounts
    <2>2. k <= lastKey' /\ (lastKey' = lastKey + 1 => k # lastKey') BY <1>1, <1>2, <1>3, <2>1
    <2> QED BY <1>1, <2>1, <2>2, KeySteps DEF KeyKept, NoNewSession
  <1> QED BY <1>4, <1>5

\* A key that nobody has resolves to nobody.
LEMMA GoneResolvesToNobody ==
  ASSUME RevokedGone, NEW k \in revoked
  PROVE  Resolve(k) = {}
  <1>1. sessions[k] = None /\ \A u \in Accounts : users[u].key # k BY DEF RevokedGone
  <1> QED BY <1>1 DEF Resolve

\* A key ended by a logout, a rotation or a deletion resolves to nobody ever
\* after, as long as the sessions of a user are deleted when that is tried.
THEOREM RevokedKeysStayDead ==
  ASSUME "sessions" \notin Faults
  PROVE  Spec => []RevokedStaysDead
  <1>1. Init => KeyInv
    BY AccountsAssumption DEF Init, KeyInv, TypeOK, KeysApart, RevokedGone, Accounts
  <1>2. KeyInv /\ [Next]_vars => KeyInv'
    BY TypeInvariance, KeysApartInvariance, RevokedInvariance DEF KeyInv
  <1>3. KeyInv => RevokedStaysDead
    BY GoneResolvesToNobody DEF KeyInv, RevokedStaysDead
  <1> QED BY <1>1, <1>2, <1>3, PTL DEF Spec
=============================================================================
