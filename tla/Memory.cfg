SPECIFICATION MCSpec
CONSTANTS Parts = {"pages", "tables", "copies"}
          Spaces = {a, b}
          NPages = 2
          HeapPages = 1
          NFrames = 2
          ZramSlots = 2
          SwapPages = 1
          Values = {0, 1}
          Zero = 0
          Reserve = 2
          Buffers <- OnePage
          SharedBuffers = FALSE
          Absent = Absent
INVARIANT MappedIsInMemory
INVARIANT WritableIsPrivate
INVARIANT FramesAreOwned
INVARIANT SlotsAreOwned
INVARIANT TranslationIsExact
PROPERTY ImplementsAddressSpaces
SYMMETRY Symmetric
CHECK_DEADLOCK FALSE
