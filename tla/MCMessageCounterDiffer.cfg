SPECIFICATION OneLifeSpec
CONSTANTS
  switch = switch
  thermostat = thermostat
  Devices <- MCDevices
  Switches <- NoSwitches
  Width = 256
  Step = 9
INVARIANTS
  ConsecutiveCountsDiffer
