SPECIFICATION ZkSpec
CONSTANTS
  ZkIds = {1, 2}
  ZkBatch = 2
  ZkFaults = 2
  ZkDbErrors = {"full"}
INVARIANT
  ConfirmedIsHeld
