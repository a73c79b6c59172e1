SPECIFICATION MCSpec
CONSTANTS Parts = {"queue", "vsock", "devices", "control", "transport", "bars", "rings", "disk"}
          Size = 4 Wrap = 8
          Shapes <- MCShapes Features <- MCFeatures
          MaxPosted = 2 MaxInFlight = 2 Reorder = FALSE
INVARIANT RingIsExact
INVARIANT NoLostNotification
INVARIANT DriversAreExact
INVARIANT TransportIsExact
INVARIANT DataIsExact
CHECK_DEADLOCK FALSE
