------------------------------ MODULE Accounts ------------------------------
(***************************************************************************)
(* Tenants, users, API keys and login sessions (core/tenant/, core/db/     *)
(* system_db.py, core/api/routes/admin.py and auth.py, the start-up code   *)
(* of core/api/main.py and core/api/middleware/tenant.py).                 *)
(*                                                                         *)
(* A request is authenticated by the middleware, which leaves it a context *)
(* (user, role, tenant, key); its handler runs later, on the event loop,   *)
(* and is not interleaved with other handlers, but others may have run in  *)
(* between.  A handler that commits several transactions may be cut short  *)
(* by a crash, and the outcome of some of them is not looked at.           *)
(***************************************************************************)
EXTENDS Naturals, FiniteSets, Sequences

CONSTANTS
    Names,       \* usernames
    AdminName,   \* the built-in administrator's
    TenantIds,
    AdminTenant,
    UserTenant,  \* user_tenant_id: the tenant u{username} of each name
    AutoNames,   \* the generated names user01, user02, ..., in order
    Requests,    \* requests in progress at a time
    MaxUsers,    \* bound on the number of users ever created
    MaxKeys,     \* bound on the number of keys ever generated
    MaxTenants,  \* the capacity plan's limit
    NewRoles,    \* the roles a PATCH may ask for
    Creatable,   \* the tenants a POST may name
    Deletable,   \* the tenants a DELETE may name
    Faults,      \* the kinds of event the environment may inject
    MaxFaults,   \* bound on the number of injected events
    None

FaultKinds == {"expire",    \* a key reaches its expiry date
               "crash",     \* the process dies, even in the middle of a handler
               "cascade",   \* delete_users_by_tenant returns False
               "status",    \* update_tenant_status returns False
               "sessions",  \* delete_sessions_by_user returns 0 on an error
               "rotate",    \* update_user_api_key returns False
               "login"}     \* create_user_session returns False

ASSUME AccountsAssumption ==
    /\ AdminName \in Names
    /\ AdminTenant \in TenantIds
    /\ UserTenant \in [Names -> TenantIds \ {AdminTenant}]
    /\ AutoNames \in Seq(Names)
    /\ MaxUsers \in Nat /\ MaxKeys \in Nat /\ MaxTenants \in Nat /\ MaxFaults \in Nat
    /\ NewRoles \subseteq {"admin", "user"}
    /\ Creatable \subseteq TenantIds /\ Deletable \subseteq TenantIds
    /\ Faults \subseteq FaultKinds

VARIABLES
    server,    \* the process: "up", "down", or "aborted" by its start-up code
    tenants,   \* tenants rows: "none" (no row), "active" or "deleted"
    dirs,      \* the tenants that have a data directory with databases
    users,     \* users rows by user id
    sessions,  \* user_sessions rows by key
    ctx,       \* the context of each request, from its admission to its end
    lastUser,  \* user ids and keys are random and never repeat: the number of
    lastKey,   \* ids and of keys given out so far
    faults,    \* number of injected events so far
    revoked,   \* history: keys that a logout, a rotation or a deletion ended
    demoted    \* history: users a PATCH moved out of the admin tenant

dbVars == <<tenants, dirs, users, sessions>>
vars == <<server, tenants, dirs, users, sessions, ctx, lastUser, lastKey, faults,
          revoked, demoted>>

UserIds == 1..MaxUsers
Keys    == 1..MaxKeys
Expiry  == {"never", "later", "past"}
User    == [name : Names, tenant : TenantIds, role : {"admin", "user"},
            key : Keys, expires : Expiry]
Session == [user : UserIds, expires : Expiry]
Context == [user : UserIds, role : {"admin", "user"}, key : Keys]

ASSUME NoneAssumption == None \notin TenantIds \cup User \cup Session \cup Context

Accounts   == {u \in UserIds : users[u] # None}
Named(n)   == {u \in Accounts : users[u].name = n}
Members(t) == {u \in Accounts : users[u].tenant = t}
SessionKeys(U) == {k \in Keys : sessions[k] # None /\ sessions[k].user \in U}
AccountKeys(U) == {users[u].key : u \in U}

Inject(kind) == kind \in Faults /\ faults < MaxFaults /\ faults' = faults + 1

Init ==
    /\ server = "down"
    /\ tenants = [t \in TenantIds |-> "none"]
    /\ dirs = {}
    /\ users = [u \in UserIds |-> None]
    /\ sessions = [k \in Keys |-> None]
    /\ ctx = [r \in Requests |-> None]
    /\ lastUser = 0 /\ lastKey = 0 /\ faults = 0
    /\ revoked = {} /\ demoted = {}

-----------------------------------------------------------------------------
(* AuthManager and TenantManager.                                          *)

\* create_user, once the name is known to be free; it needs a new id and key.
NewUser(n, t, role, expires) ==
    /\ lastUser < MaxUsers /\ lastKey < MaxKeys
    /\ users' = [users EXCEPT ![lastUser + 1] =
                   [name |-> n, tenant |-> t, role |-> role,
                    key |-> lastKey + 1, expires |-> expires]]
    /\ lastUser' = lastUser + 1
    /\ lastKey' = lastKey + 1

\* Mutant: a reactivated tenant does not get its directory back.
EnsureTenantRowOnly(t) ==
    /\ tenants' = [tenants EXCEPT ![t] = "active"]
    /\ dirs' = IF tenants[t] = "none" THEN dirs \cup {t} ELSE dirs

\* Mutant: a deleted tenant is taken for an existing one.
EnsureTenantExists(t) ==
    /\ tenants' = IF tenants[t] = "none" THEN [tenants EXCEPT ![t] = "active"] ELSE tenants
    /\ dirs' = IF tenants[t] = "none" THEN dirs \cup {t} ELSE dirs

\* create_tenant, or reactivate_tenant when the row is there but deleted.
EnsureTenant(t) ==
    /\ tenants' = [tenants EXCEPT ![t] = "active"]
    /\ dirs' = IF tenants[t] = "active" THEN dirs ELSE dirs \cup {t}

\* delete_user and delete_users_by_tenant: users and sessions in one commit.
DropUsers(U) ==
    /\ users' = [u \in UserIds |-> IF u \in U THEN None ELSE users[u]]
    /\ sessions' = [k \in Keys |-> IF k \in SessionKeys(U) THEN None ELSE sessions[k]]
    /\ revoked' = revoked \cup SessionKeys(U) \cup AccountKeys(U)

\* The users a key resolves to, with its expiry: a login session first, then
\* the account's own key.
Resolve(k) ==
    {[user |-> u, expires |-> sessions[k].expires] :
        u \in {v \in Accounts : sessions[k] # None /\ sessions[k].user = v}}
    \cup
    {[user |-> u, expires |-> users[u].expires] :
        u \in {v \in Accounts : users[v].key = k /\ SessionKeys({v}) \cap {k} = {}}}

-----------------------------------------------------------------------------
(* The process.                                                            *)

\* lifespan, with OPENLAD_ADMIN_PASSWORD set: the built-in tenant, then the
\* built-in user.  create_user refuses a name that exists in any tenant, and
\* that aborts the start.
Start ==
    /\ server # "up"
    /\ IF tenants[AdminTenant] = "none" THEN EnsureTenant(AdminTenant)
                                        ELSE UNCHANGED <<tenants, dirs>>
    /\ \/ /\ Named(AdminName) \cap Members(AdminTenant) # {}
          /\ server' = "up"
          /\ UNCHANGED <<users, lastUser, lastKey, faults>>
       \/ /\ Named(AdminName) = {}
          /\ NewUser(AdminName, AdminTenant, "admin", "later")
          /\ server' = "up"
          /\ UNCHANGED faults
       \/ /\ Named(AdminName) # {}
          /\ Named(AdminName) \cap Members(AdminTenant) = {}
          /\ server' = "aborted"
          /\ UNCHANGED <<users, lastUser, lastKey, faults>>
       \/ /\ Inject("crash")
          /\ server' = "down"
          /\ UNCHANGED <<users, lastUser, lastKey>>
    /\ UNCHANGED <<sessions, ctx, revoked, demoted>>

Down == server' = "down" /\ ctx' = [r \in Requests |-> None]

Crash ==
    /\ server = "up"
    /\ Inject("crash")
    /\ Down
    /\ UNCHANGED <<dbVars, lastUser, lastKey, revoked, demoted>>

\* Time passes: a key with an expiry date reaches it.
Expire ==
    /\ Inject("expire")
    /\ \/ \E k \in Keys : /\ sessions[k] # None /\ sessions[k].expires = "later"
                          /\ sessions' = [sessions EXCEPT ![k].expires = "past"]
                          /\ UNCHANGED users
       \/ \E u \in Accounts : /\ users[u].expires = "later"
                              /\ users' = [users EXCEPT ![u].expires = "past"]
                              /\ UNCHANGED sessions
    /\ UNCHANGED <<server, tenants, dirs, ctx, lastUser, lastKey, revoked, demoted>>

-----------------------------------------------------------------------------
(* Requests.                                                               *)

\* POST /login with the right password, not authenticated otherwise.  When the
\* session cannot be stored, the client gets the account's key instead.
Login(n) ==
    /\ server = "up"
    /\ \E u \in Named(n) :
         \/ /\ lastKey < MaxKeys
            /\ sessions' = [sessions EXCEPT ![lastKey + 1] =
                              [user |-> u, expires |-> "later"]]
            /\ lastKey' = lastKey + 1
            /\ UNCHANGED faults
         \/ Inject("login") /\ UNCHANGED <<sessions, lastKey>>
    /\ UNCHANGED <<server, tenants, dirs, users, ctx, lastUser, revoked, demoted>>

\* TenantMiddleware.dispatch: an unexpired key, a tenant (the caller's, or the
\* one a header names, which takes the admin role), and it is active.  The
\* handlers below do not ask which tenant it was.
Admit(r, k) ==
    /\ server = "up"
    /\ ctx[r] = None
    /\ \E who \in Resolve(k) :
         LET user == users[who.user]
             open == IF user.role = "admin" THEN TenantIds ELSE {user.tenant}
         IN  /\ who.expires # "past"
             /\ {t \in open : tenants[t] = "active"} # {}
             /\ ctx' = [ctx EXCEPT ![r] = [user |-> who.user, role |-> user.role,
                                           key |-> k]]
    /\ UNCHANGED <<server, dbVars, lastUser, lastKey, faults, revoked, demoted>>

Finished(r) == ctx' = [ctx EXCEPT ![r] = None]

\* A handler that changes nothing here: another route, or a refusal.
Answer(r) ==
    /\ ctx[r] # None
    /\ Finished(r)
    /\ UNCHANGED <<server, dbVars, lastUser, lastKey, faults, revoked, demoted>>

\* POST /logout ends the session whose key the request carries, if it is one.
Logout(r) ==
    /\ ctx[r] # None
    /\ LET k == ctx[r].key
       IN  /\ sessions' = [sessions EXCEPT ![k] = None]
           /\ revoked' = IF sessions[k] = None THEN revoked ELSE revoked \cup {k}
    /\ Finished(r)
    /\ UNCHANGED <<server, tenants, dirs, users, lastUser, lastKey, faults, demoted>>

Admin(r) == ctx[r] # None /\ ctx[r].role = "admin"

\* POST /admin/tenants
CreateTenant(r, t) ==
    /\ Admin(r)
    /\ tenants[t] = "none"
    /\ EnsureTenant(t)
    /\ Finished(r)
    /\ UNCHANGED <<server, users, sessions, lastUser, lastKey, faults, revoked, demoted>>

\* DELETE /admin/tenants/{id}: the data (if hard), the users, the status; three
\* effects, after each of which the process may die.  Neither of the last two
\* stops the handler by failing.
DeleteTenant(r, t, hard) ==
    /\ Admin(r)
    /\ dirs' = IF hard THEN dirs \ {t} ELSE dirs
    /\ \/ /\ DropUsers(Members(t))
          /\ tenants' = [tenants EXCEPT ![t] = IF @ = "none" THEN @ ELSE "deleted"]
          /\ Finished(r)
          /\ UNCHANGED <<server, faults>>
       \/ /\ Inject("cascade")
          /\ tenants' = [tenants EXCEPT ![t] = IF @ = "none" THEN @ ELSE "deleted"]
          /\ Finished(r)
          /\ UNCHANGED <<server, users, sessions, revoked>>
       \/ /\ DropUsers(Members(t))
          /\ \/ Inject("status") /\ Finished(r) /\ UNCHANGED server
             \/ Inject("crash") /\ Down
          /\ UNCHANGED tenants
       \/ /\ Inject("crash") /\ Down
          /\ UNCHANGED <<tenants, users, sessions, revoked>>
    /\ UNCHANGED <<lastUser, lastKey, demoted>>

\* An admin's tenant is fixed; a user's is u{username} or the one asked for.
TargetTenants(n, role) ==
    IF role = "admin" THEN {AdminTenant} ELSE {UserTenant[n]} \cup Creatable

\* POST /admin/users, one name: the tenant is created or reactivated before the
\* name is found to be taken.
CreateUser(r, n, role, t) ==
    /\ Admin(r)
    /\ Cardinality({s \in TenantIds : tenants[s] = "active"}) < MaxTenants
    /\ IF role = "admin" THEN UNCHANGED <<tenants, dirs>> ELSE EnsureTenant(t)
    /\ \/ /\ Named(n) = {}
          /\ \E expires \in {"never", "later"} : NewUser(n, t, role, expires)
          /\ Finished(r) /\ UNCHANGED <<server, faults>>
       \/ /\ Named(n) # {}
          /\ Finished(r) /\ UNCHANGED <<server, faults, users, lastUser, lastKey>>
       \/ /\ Inject("crash") /\ Down
          /\ UNCHANGED <<users, lastUser, lastKey>>
    /\ UNCHANGED <<sessions, revoked, demoted>>

\* The same without a name: the first generated name that no member of the
\* admin tenant has.
CreateAutoUser(r, role) ==
    LET taken(i) == \E u \in Members(AdminTenant) : users[u].name = AutoNames[i]
    IN  \E i \in DOMAIN AutoNames :
          /\ ~taken(i) /\ \A j \in 1..(i - 1) : taken(j)
          /\ \E t \in TargetTenants(AutoNames[i], role) : CreateUser(r, AutoNames[i], role, t)

\* DELETE /admin/users/{id}
DeleteUser(r, u) ==
    /\ Admin(r)
    /\ u \in Accounts \ {ctx[r].user}
    /\ DropUsers({u})
    /\ Finished(r)
    /\ UNCHANGED <<server, tenants, dirs, lastUser, lastKey, faults, demoted>>

\* Mutant: the role changes and the tenant stays.
UpdateUserRoleOnly(r, u, role) ==
    /\ Admin(r)
    /\ u \in Accounts
    /\ users' = [users EXCEPT ![u].role = role]
    /\ Finished(r)
    /\ UNCHANGED <<server, tenants, dirs, sessions, lastUser, lastKey, faults, revoked, demoted>>

\* PATCH /admin/users/{id} with a role: the tenant follows it.
UpdateUser(r, u, role) ==
    /\ Admin(r)
    /\ u \in Accounts
    /\ users' = [users EXCEPT ![u].role = role,
                              ![u].tenant = IF role = "admin" THEN AdminTenant
                                            ELSE IF @ = AdminTenant
                                                 THEN UserTenant[users[u].name]
                                            ELSE @]
    /\ demoted' = IF role = "user" /\ users[u].tenant = AdminTenant
                  THEN demoted \cup {u} ELSE demoted
    /\ Finished(r)
    /\ UNCHANGED <<server, tenants, dirs, sessions, lastUser, lastKey, faults, revoked>>

\* Mutant: rotation replaces the account's key and nothing else.
DropSessionsNot(u) ==
    /\ revoked' = revoked \cup SessionKeys({u}) \cup AccountKeys({u})
    /\ UNCHANGED <<sessions, faults>>

\* delete_sessions_by_user, whose failure is not noticed by its caller.
DropSessions(u) ==
    /\ revoked' = revoked \cup SessionKeys({u}) \cup AccountKeys({u})
    /\ \/ /\ sessions' = [k \in Keys |-> IF k \in SessionKeys({u}) THEN None ELSE sessions[k]]
          /\ UNCHANGED faults
       \/ Inject("sessions") /\ UNCHANGED sessions

\* POST /admin/users/{id}/regenerate-key: the sessions go, then the key.  An
\* update to "never expires" is no update: the old expiry stays.
RegenerateKey(r, u, expires) ==
    /\ Admin(r)
    /\ u \in Accounts
    /\ \/ /\ lastKey < MaxKeys
          /\ DropSessions(u)
          /\ users' = [users EXCEPT ![u].key = lastKey + 1,
                                    ![u].expires = IF expires = "never" THEN @ ELSE expires]
          /\ lastKey' = lastKey + 1
          /\ Finished(r) /\ UNCHANGED server
       \/ /\ \/ Inject("rotate") /\ Finished(r) /\ UNCHANGED server
             \/ Inject("crash") /\ Down
          /\ sessions' = [k \in Keys |-> IF k \in SessionKeys({u}) THEN None ELSE sessions[k]]
          /\ revoked' = revoked \cup SessionKeys({u})
          /\ UNCHANGED <<users, lastKey>>
    /\ UNCHANGED <<tenants, dirs, lastUser, demoted>>

Handle(r) ==
    \/ Answer(r)
    \/ Logout(r)
    \/ \E t \in Creatable : CreateTenant(r, t)
    \/ \E t \in Deletable, hard \in BOOLEAN : DeleteTenant(r, t, hard)
    \/ \E n \in Names, role \in {"admin", "user"} :
         \E t \in TargetTenants(n, role) : CreateUser(r, n, role, t)
    \/ \E role \in {"admin", "user"} : CreateAutoUser(r, role)
    \/ \E u \in UserIds : DeleteUser(r, u)
    \/ \E u \in UserIds, role \in NewRoles : UpdateUser(r, u, role)
    \/ \E u \in UserIds, expires \in {"never", "later"} : RegenerateKey(r, u, expires)

Next == \/ Start
        \/ Crash
        \/ Expire
        \/ \E n \in Names : Login(n)
        \/ \E r \in Requests, k \in Keys : Admit(r, k)
        \/ \E r \in Requests : Handle(r)

Spec == Init /\ [][Next]_vars

-----------------------------------------------------------------------------
(* Properties.                                                             *)

TypeOK ==
    /\ server \in {"up", "down", "aborted"}
    /\ tenants \in [TenantIds -> {"none", "active", "deleted"}]
    /\ dirs \subseteq TenantIds
    /\ users \in [UserIds -> User \cup {None}]
    /\ sessions \in [Keys -> Session \cup {None}]
    /\ ctx \in [Requests -> Context \cup {None}]
    /\ lastUser \in 0..MaxUsers /\ lastKey \in 0..MaxKeys /\ faults \in 0..MaxFaults
    /\ revoked \subseteq Keys /\ demoted \subseteq UserIds

\* "An admin account belongs to the admin tenant", whatever creations,
\* promotions, demotions, tenant deletions and restarts precede.
AdminsInAdminTenant ==
    \A u \in Accounts : users[u].role = "admin" => users[u].tenant = AdminTenant

\* A key ended by a logout, a rotation or a deletion resolves to nobody ever
\* after, also not to a user created later under the same name.
RevokedStaysDead == \A k \in revoked : Resolve(k) = {}

\* While nothing fails, a user's tenant is active, so that its key is worth
\* something, however creations, promotions and deletions overlap: the one
\* exception are users who were demoted.
PlacedUsersReachTenant ==
    faults = 0 => \A u \in Accounts \ demoted : tenants[users[u].tenant] = "active"

\* While nothing fails, an active tenant has its data directory, also after it
\* was deleted with its data and came back.
ActiveTenantHasData ==
    faults = 0 => \A t \in TenantIds : tenants[t] = "active" => t \in dirs

\* auth.py: "A user row whose tenant cannot exist is an account that is created
\* successfully and can then never authenticate".
UserTenantActive == \A u \in Accounts : tenants[users[u].tenant] = "active"

\* tenant_manager.py: users of a deleted tenant "cannot be revived together
\* with a reactivated tenant", whatever fails.
NothingEverToRevive == \A t \in TenantIds : tenants[t] = "deleted" => Members(t) = {}

\* auth.py: a rotation's "new lifetime in days (... <=0=never expires)".
RotationSetsExpiry ==
    [][\A r \in Requests, u \in UserIds :
          (RegenerateKey(r, u, "never") /\ users'[u] # users[u])
              => users'[u].expires = "never"]_vars

\* admin.py, of generated names: "if users user_01, user_02 exist, start from
\* 03", so that the creation does not fail.
GeneratedNameIsFree ==
    [][\A r \in Requests :
          CreateAutoUser(r, "user") => lastUser' = lastUser + 1]_vars

\* admin.py: "Built-in admin tenant (admin) and admin user, auto-initialized
\* on startup".
NeverAborts == server # "aborted"

\* main.py: a service with no usable admin user must not start.
StartedIsAdministrable ==
    [][(server # "up" /\ server' = "up") =>
          \E u \in Accounts' : /\ users'[u].role = "admin"
                               /\ tenants'[users'[u].tenant] = "active"]_vars
=============================================================================
