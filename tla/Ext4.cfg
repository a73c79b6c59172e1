SPECIFICATION MCSpec
CONSTANTS Parts = {"ext4", "ext4_dir", "tree"}
          Files = {f, g}
          Zero = Zero Noise = Noise Absent = Absent
          Blocks = {b1, b2, b3} Values = {0, 1} Unused = Unused
          PoolSize = 2 MaxHeld = 2
          DirNames = {a, b, c}
          Departures = {}
SYMMETRY Symmetric
INVARIANT TreeIsExact
INVARIANT Ext4VolumeIsExact
CHECK_DEADLOCK FALSE
