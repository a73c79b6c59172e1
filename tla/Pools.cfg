SPECIFICATION MCFairSpec
CONSTANTS Parts = {"threads", "cache", "pipe", "poll"}
          NoTask = NoTask
          INITPROC = init
          Tasks = {init, t1, t2}
          Waiters = {init, t1}
          Calls <- ThreadCalls
INVARIANT ThreadsAgree
PROPERTY ExitsAreComplete
PROPERTY CallsReturn
CHECK_DEADLOCK FALSE
