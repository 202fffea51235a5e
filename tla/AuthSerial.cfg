\* One request at a time, and one failed save or restart.
SPECIFICATION Spec
CONSTANTS
    Requests = {r1}
    Ids = {u1, u2}
    Names = {admin, bob}
    Admin = admin
    Passwords = {pw0, pw1, pw2}
    Default = pw0
    Sessions = {s1, s2, s3}
    TouchAfter = 1
    Ttl = 2
    MaxTime = 2
    Operations = {"use", "logout", "change", "create", "reset", "role", "delete"}
    Disturbances = {"save", "crash"}
    MaxDisturbances = 1
    None = None
SYMMETRY Symmetry
INVARIANTS
    TypeOK
    AdminKept
    DefaultPasswordUseless
    RevokedStayRevoked
PROPERTIES
    ImplementsStore
