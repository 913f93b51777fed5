SPECIFICATION Spec
CONSTANTS
  Freq <- OneFreq
  Channel = {0, 300}
  Spacing = {0, 12500}
  Power = {0, 22}
  Pdt = {0, 300}
  Factory <- FactoryForm
  Message = {hello}
  Empty = Empty
  MaxEdits = 2
  MaxRequests = 2
  MaxFaults = 1
CHECK_DEADLOCK FALSE
INVARIANT PowerIsSent
