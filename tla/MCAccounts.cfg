\* Two requests at a time and every operation; a crash anywhere.
\* Ids and keys run out, and a service that cannot start stops.
SPECIFICATION Spec
CONSTANTS
    admin = admin
    bob = bob
    tAdmin = tAdmin
    tUadmin = tUadmin
    tUbob = tUbob
    carol = carol
    tUcarol = tUcarol
    None = None
    Names = {admin, bob}
    AdminName = admin
    TenantIds = {tAdmin, tUadmin, tUbob}
    AdminTenant = tAdmin
    UserTenant <- MCUserTenant
    AutoNames <- MCAutoNames
    r1 = r1
    r2 = r2
    Requests = {r1, r2}
    MaxUsers = 3
    MaxKeys = 3
    MaxTenants = 3
    NewRoles = {"admin", "user"}
    Creatable = {tUbob}
    Deletable = {tUbob}
    Faults = {"crash", "expire", "cascade", "status", "rotate", "login"}
    MaxFaults = 1
SYMMETRY RequestSymmetry
INVARIANTS
    AdminsInAdminTenant
    RevokedStaysDead
    PlacedUsersReachTenant
    ActiveTenantHasData
CHECK_DEADLOCK FALSE
