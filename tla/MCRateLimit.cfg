\* More requests at a time than the bucket and the day have room for.
SPECIFICATION Spec
CONSTANTS
  s1 = s1
  s2 = s2
  s3 = s3
  Slots = {s1, s2, s3}
  RPM = 2
  TPD = 2
  MaxUse = 2
  MaxTime = 3
  MaxDay = 1
  MaxFaults = 1
  MaxRestarts = 1
  None = None
INVARIANTS TypeOK DailyBounded WindowBounded
SYMMETRY MCSymmetry
