SPECIFICATION Spec
CONSTANTS
    u1 = u1
    u2 = u2
    e1 = e1
    e2 = e2
    Users = {u1, u2}
    Endpoints = {e1, e2}
    Modes = {"basic", "certificate", "kerberos", "ntlm"}
INVARIANTS
    TypeOK
    OwnRequests
SYMMETRY SetupSymmetry
