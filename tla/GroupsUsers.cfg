\* Two requests at a time or one, from the first start of the server.
SPECIFICATION Spec
CONSTANTS
    Groups = {root, g1, g2, g3}
    Root = root
    Users = {admin, u1}
    Admin = admin
    Permissions = {p0, p1, p2}
    Full = p0
    Codes = {c1, c2}
    Devices = {dev}
    Requests = {r1, r2}
    None = None
    Deepest = 3
    MaxEvents = 5
    MaxMishaps = 1
SYMMETRY Symmetry
INVARIANTS TypeOK GroupsKnown PermissionsExact CodesMatchStatus JoinedOnce AdminKept ProjectsBacked
CHECK_DEADLOCK FALSE
