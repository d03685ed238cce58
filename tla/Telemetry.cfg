CONSTANTS
  k1 = k1
  k2 = k2
  m1 = m1
  m2 = m2
  a1 = a1
  Entry <- HotReadings
  MetricSub = {m1, m2}
  AlertSub = {a1}
  Filter <- OfFirstSensor
  Thresholds <- DefaultOrNegative
  Capacity = 1
  Count = 2
  MaxEntries = 2
  MaxFaults = 1
SPECIFICATION FairSpec
INVARIANTS TypeOK AggregatedOnce AckedWereAggregated NoSendOnClosedChannel SubscribersSeeOrder GapsAreOverflow AlertedOnce
PROPERTIES EntriesAreCounted GoneIsRemoved
CHECK_DEADLOCK FALSE
