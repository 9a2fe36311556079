SPECIFICATION Spec
CONSTANTS
    User = {root, ann}
    Token = {t1, t2, t3}
    Repo = {r1, r2}
    Request = {q1}
    Anonymous = Anonymous
    AllRepos = AllRepos
    NoRow = NoRow
    Forged = {t3}
    Root = root
    RootToken = t1
    Admin = {root}
    MaxEdits = 4
INVARIANTS
    TypeOK
    AdmittedForCause
    RefusedForCause
CHECK_DEADLOCK FALSE
