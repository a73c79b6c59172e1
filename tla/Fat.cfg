SPECIFICATION MCSpec
CONSTANTS Parts = {"cache", "fat", "fat_dir"}
          Files = {f, g}
          Zero = Zero Noise = Noise Absent = Absent
          Blocks = {b1, b2, b3} Values = {0, 1} Unused = Unused
          PoolSize = 2 MaxHeld = 2
          DirNames = {a, b, c}
          Departures = {}
PROPERTY ImplementsFileContents
INVARIANT CacheIsCoherent
INVARIANT FatVolumeIsExact
SYMMETRY Symmetric
