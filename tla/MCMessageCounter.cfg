SPECIFICATION Spec
CONSTANTS
  switch = switch
  thermostat = thermostat
  Devices <- MCDevices
  Switches <- MCSwitches
  Width = 8
  Step = 9
INVARIANTS
  OwnCountersStep
  EveryCountIsUsed
