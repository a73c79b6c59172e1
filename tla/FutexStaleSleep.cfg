SPECIFICATION Spec
CONSTANTS NoTask = NoTask
          NoAddr = NoAddr
          Tasks = {t1, t2}
          Addrs = {a1}
          ClearTid <- NoWords
          Values = {0}
          Expected = {0}
          Durations = {1, 2}
          WakeCounts = {1}
          OpCounts = {}
          Requeues <- Distinct
          CowWords = {}
          MaxTime = 3
          MaxEntries = 3
          Calls = {"nanosleep", "tkill"}
INVARIANT SleepsInFull
CHECK_DEADLOCK FALSE
