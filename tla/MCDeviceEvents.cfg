SPECIFICATION Spec
CONSTANTS
  tc1 = tc1
  tc2 = tc2
  ts = ts
  ps = ps
  stranger = stranger
  Thermals <- MCThermals
  Thermostats <- MCThermostats
  Switches <- MCSwitches
  Stranger = stranger
  BySerial <- MCBySerial
  GaugeCount <- MCGaugeCount
  MaxPackets = 3
  Targets <- MCTargets
  Actuals <- MCActuals
  Outside <- MCOutside
  Humidities <- MCHumidities
  Batteries <- MCBatteries
  Valves <- MCValves
  Boosts <- MCBoosts
  Energies <- MCEnergies
  Powers <- MCPowers
  Currents <- MCCurrents
  Voltages <- MCVoltages
  Frequencies <- MCFrequencies
INVARIANTS
  TypeOK
  EventsReachInOrder
  AllAgreeAtRest
  PageIsSnapshot
  ReadingsArrive
CHECK_DEADLOCK FALSE
