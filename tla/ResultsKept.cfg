SPECIFICATION Spec
CONSTANTS
  Tables = {t1}
  Stranger = Stranger
  Sent <- SentPackets
  Processors = {p1, p2}
  MaxPackets = 3
  MaxFailures = 1
INVARIANTS TypeOK StoredFirst KindsApart SerialAgree
PROPERTIES StatusAdvances
CHECK_DEADLOCK FALSE
SYMMETRY ProcessorSymmetry
