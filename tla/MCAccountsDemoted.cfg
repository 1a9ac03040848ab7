\* Ids and keys run out, and a service that cannot start stops.
SPECIFICATION Spec
CONSTANTS
    admin = admin
    bob = bob
    tAdmin = tAdmin
    tUadmin = tUadmin
    tUbob = tUbob
    carol = carol
    tUcarol = tUcarol
    None = None
    Names = {admin, bob}
    AdminName = admin
    TenantIds = {tAdmin, tUadmin, tUbob}
    AdminTenant = tAdmin
    UserTenant <- MCUserTenant
    AutoNames <- MCNoNames
    r1 = r1
    Requests = {r1}
    MaxUsers = 3
    MaxKeys = 5
    MaxTenants = 3
    NewRoles = {"admin", "user"}
    Creatable = {tAdmin, tUadmin, tUbob}
    Deletable = {}
    Faults = {}
    MaxFaults = 0
INVARIANTS
    UserTenantActive
CHECK_DEADLOCK FALSE
