CONSTANTS
    Users = {u1, u2}
    Subs = {s1, s2}
    NoId = NoId
    NoUser = NoUser
    NoRow = NoRow
SYMMETRY Symmetry
SPECIFICATION Spec
INVARIANT TypeOK
INVARIANT AccessIsReported
PROPERTY TakingOverNeverGrants
