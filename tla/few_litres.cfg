SPECIFICATION FlowSpec
INVARIANT FewLitresReported
CONSTANTS
  kfValue = 250
  MinDrainLiters = 20
  MaxPulses = 8
