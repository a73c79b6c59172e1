SPECIFICATION MCSpec
CONSTANTS Parts = {"threads"}
          NoTask = NoTask
          INITPROC = init
          Tasks = {init, p1, p2, p3}
          Waiters = {init, p1, p2, p3}
          Calls = {"fork", "clone_parent", "exit", "wait4", "initproc_waitpid", "execve", "setsid"}
INVARIANT FamilyTree
INVARIANT NoMissedExit
INVARIANT NoStandstill
PROPERTY ZombiesStayDead
SYMMETRY Symmetry
CHECK_DEADLOCK FALSE
