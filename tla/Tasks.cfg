SPECIFICATION MCSpec
CONSTANTS Parts = {"ids", "pipe", "areas", "fds", "poll", "signals", "clocks", "images"}
          Handles = {h1, h2, h3, h4}
          Tasks = {t1, t2}
          NoTask = NoTask
          Size = 2
          Bytes = {0, 1}
          Buffers <- Pieces
          MCFiles = {f}
          NoSuchFile = NoSuchFile
          Departures = {}
INVARIANT Ledger
INVARIANT StatusIsExact
INVARIANT MappingsAreExact
INVARIANT RecycledAreClosed
INVARIANT PollsAreExact
INVARIANT SignalsAreExact
INVARIANT TimeIsKept
INVARIANT ImagesAreExact
PROPERTY ImplementsIdPool
PROPERTY ImplementsByteQueue
PROPERTY DescriptorsAreNew
CHECK_DEADLOCK FALSE
