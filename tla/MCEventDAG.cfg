SPECIFICATION Spec
CONSTANTS
  Replicas = {r1, r2, r3}
  Keys = {m1}
  MaxEvents = 5
SYMMETRY Symmetry
INVARIANTS ClocksAreHappensBefore StrandsAreChains LookupsFindThePast
CHECK_DEADLOCK FALSE
