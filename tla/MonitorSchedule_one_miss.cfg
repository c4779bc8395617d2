\* The company publishes the date while one skipped day lies behind.
SPECIFICATION Spec
CONSTANTS
  RegistryDate = 30
  AnnouncedDates = {8, 30}
  FirstSlot = 22
  LastSlot = 46
  MaxFires = 1
  MaxWait = 2
  MaxDispatches = 0
  MaxAcks = 1
PROPERTIES
  OneMissAbsorbed
