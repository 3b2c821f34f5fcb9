CONSTANTS
  Pids = {"p1", "p2"}
  Watched = {}
  Logged = {}
  Direct = {"pgCmd", "destCmd"}
  Statuses <- OkOnly
SPECIFICATION Spec
INVARIANT EveryResultIsTrue
