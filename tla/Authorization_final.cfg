SPECIFICATION Spec
CONSTANTS
  asset = asset
  passive = passive
  critical = critical
  r1 = r1
  r2 = r2
  N = 1
  Readers <- TwoReaders
  Assets <- OneAsset
  Grants <- OneGrant
  Acceptable <- PassiveOnly
  MaxTime = 2
  MaxValidity = 2
CHECK_DEADLOCK FALSE
PROPERTIES
  FinalIsFinal
