CONSTANTS
  r1 = r1  r2 = r2  n1 = n1  n2 = n2  x = x  y = y  f1 = f1  f2 = f2
  p1 = p1
  Repo = {r1, r2}
  Name = {n1, n2}
  Value = {x, y}
  File = {f1, f2}
  Push = {p1}
  NoValue = NoValue  NoRow = NoRow  NoEnv = NoEnv
  Version = {1, 2}
  KeySets <- MCKeySets
  Commit <- MCCommit
  Branch <- MCBranch
  RepoKey <- MCRepoKey
  EnvSecrets <- MCEnvSecrets
  MayFail = TRUE
  MaxEdits = 2
  MaxCrashes = 2
SPECIFICATION Spec
INVARIANTS TypeOK RunsForCause JobsCarryOneMoment RotationKeepsSecrets
CHECK_DEADLOCK FALSE
