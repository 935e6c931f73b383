CONSTANTS
  MaxDeliveries = 1
  MaxStarts = 1
  Mounts = {"files"}
SPECIFICATION Spec
INVARIANTS NoKeysBesidePayload
