\* Two wt-rs ends, or one and a foreign one which may stop writing; lost
\* connections and dropped futures; all may stop at the end.
CONSTANTS
  Pairings = {{}, {"client"}, {"server"}}
  ForeignFrames <- MCFrames
  ForeignHeaders <- MCHeaders
  MaxFrames = 2
  Faults = TRUE
  U32 = 2
SPECIFICATION FairSpec
INVARIANTS TypeOK Agreement Justified FailsForCause
PROPERTIES Settled BothEstablish
CHECK_DEADLOCK FALSE
