\* Friday after the close to the close of the next Tuesday; the announced date
\* moves between that Monday and far away.
SPECIFICATION Spec
CONSTANTS
  RegistryDate = 30
  AnnouncedDates = {7, 30}
  FirstSlot = 28
  LastSlot = 52
  MaxFires = 2
  MaxWait = 2
  MaxDispatches = 2
  MaxAcks = 2
INVARIANTS
  NoLostDay
  OncePerNormalDay
PROPERTIES
  StopNeedsTwoMisses
  StopHolds
