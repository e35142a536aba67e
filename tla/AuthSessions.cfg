\* Two sign-ins of one account and two requests at a time, under each of which
\* the process may end.  This stands for a call that fails, too: the request
\* ends and takes nothing back, before the call or after it.
SPECIFICATION Spec
CONSTANTS
  Accounts = {a}
  Callers = {q1, q2}
  AccessLife = 1
  RefreshLife = 4
  SessionLife = 2
  Slack = 2
  MaxSessions = 2
  MaxTime = 2
  Faults = {"crash"}
INVARIANTS IInv SessionEnds TokensServe LoggedOutStaysOut LiveIsListed
SYMMETRY Symmetric
CHECK_DEADLOCK FALSE
