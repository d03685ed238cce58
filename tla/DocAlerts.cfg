CONSTANTS
  k1 = k1
  k2 = k2
  m1 = m1
  m2 = m2
  a1 = a1
  Entry <- HotReadings
  MetricSub = {m1}
  AlertSub = {a1}
  Filter <- OfFirstSensor
  Thresholds <- DefaultOrNegative
  Capacity = 1
  Count = 2
  MaxEntries = 1
  MaxFaults = 0
SPECIFICATION FairSpec
INVARIANT HotMetricsRaiseAlerts
CHECK_DEADLOCK FALSE
