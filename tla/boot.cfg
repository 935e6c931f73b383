CONSTANTS
  MaxDeliveries = 3
  MaxStarts = 3
  Mounts = {"volume", "readonly"}
SPECIFICATION Spec
INVARIANTS PayloadBehindOneIdentity NoKeysBesidePayload SingleUse
PROPERTIES ShredOnlyWhatIsHeld
