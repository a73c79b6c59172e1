SPECIFICATION Spec
CONSTANTS NoTask = NoTask
          NoAddr = NoAddr
          Tasks = {t1, t2, t3}
          Addrs = {a1, a2}
          ClearTid <- NoWords
          Values = {0}
          Expected = {0}
          Durations = {1}
          WakeCounts = {1}
          OpCounts = {}
          Requeues <- Distinct
          CowWords = {}
          MaxTime = 1
          MaxEntries = 3
          Calls = {"futex_wait", "futex_timedwait", "futex_wake", "futex_requeue", "tkill", "exit"}
INVARIANT StatusMatchesQueues
INVARIANT WaitersAreQueued
SYMMETRY Symmetry
CHECK_DEADLOCK FALSE
