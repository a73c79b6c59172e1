SPECIFICATION FairSpec
CONSTANTS NoTask = NoTask
          NoAddr = NoAddr
          Tasks = {t1, t2}
          Addrs = {a1, a2}
          ClearTid <- OneWord
          Values = {0, 1}
          Expected = {1}
          Durations = {1, 2}
          WakeCounts = {1}
          OpCounts = {65537}
          Requeues <- Distinct
          CowWords = {a2}
          MaxTime = 3
          MaxEntries = 3
          Calls = {"nanosleep", "clock_nanosleep", "sigtimedwait",
                   "futex_wait", "futex_wake", "futex_wake_op", "store", "fork", "exit"}
INVARIANT SleepsInFull
PROPERTY WakesOnlyItsWaiters
PROPERTY BlockedCallsReturn
CHECK_DEADLOCK FALSE
