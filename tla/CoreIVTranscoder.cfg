CONSTANTS
  InBuffers = 3
  OutBuffers = 2
SPECIFICATION Spec
INVARIANTS InductiveInv PipelineReady TunnelsOnce OutputPortStable ReportNotLost
