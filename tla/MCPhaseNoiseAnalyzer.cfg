SPECIFICATION Spec
CONSTANTS
  max_sleeps_cnt = 1
  Partial = Partial
  Elsewhere = Elsewhere
  Analyzer = Analyzer
  Session = Session
  Users <- TwoUsers
  Mixed = Mixed
  None = None
  Channels <- TwoChannels
  Rates <- OneRate
  MaxAvg = 2
INVARIANTS
  MeasurementIsCurrent
PROPERTIES
  MeasurementsReturn
