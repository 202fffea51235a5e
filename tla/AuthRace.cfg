\* Two requests at the same time.
SPECIFICATION Spec
CONSTANTS
    Requests = {r1, r2}
    Ids = {u1, u2, u3}
    Names = {admin, bob}
    Admin = admin
    Passwords = {pw0, pw1}
    Default = pw0
    Sessions = {s1, s2}
    TouchAfter = 0
    Ttl = 2
    MaxTime = 0
    Operations = {"use", "change", "create", "reset", "role", "delete"}
    Disturbances = {"read"}
    MaxDisturbances = 1
    None = None
SYMMETRY Symmetry
INVARIANTS
    AdminKept
    DefaultPasswordUseless
