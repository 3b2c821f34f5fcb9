CONSTANTS
  Pids = {"p1", "p2"}
  Watched = {"w1"}
  Logged = {"l1"}
  Direct = {"d1"}
  Statuses <- KilledOnly
SPECIFICATION FairSpec
INVARIANTS TypeOK TrackedResultIsTrue NoLostExit
PROPERTIES ImplementsMailboxes ZombiesAreReaped TrackedCallReturns
