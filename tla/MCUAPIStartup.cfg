CONSTANTS
  d1 = d1
  d2 = d2
  d3 = d3
  Procs <- MCProcs3
SPECIFICATION FairSpec
PROPERTY SomeInstanceServes
