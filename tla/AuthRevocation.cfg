\* A password change while another request prolongs its session.
SPECIFICATION Spec
CONSTANTS
    Requests = {r1, r2}
    Ids = {u1, u2, u3}
    Names = {admin, bob}
    Admin = admin
    Passwords = {pw0, pw1}
    Default = pw0
    Sessions = {s1, s2}
    TouchAfter = 1
    Ttl = 2
    MaxTime = 1
    Operations = {"use", "change"}
    Disturbances = {}
    MaxDisturbances = 0
    None = None
SYMMETRY Symmetry
INVARIANTS
    RevokedStayRevoked
