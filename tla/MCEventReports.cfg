SPECIFICATION Spec
CONSTANTS
  Targets <- MCTargets
  Actuals <- MCActuals
  Outside <- MCOutside
  Humidities <- MCHumidities
  Batteries <- MCBatteries
  Valves <- MCValves
  Boosts <- MCBoosts
  Energies <- MCEnergies
  Powers <- MCPowers
  Currents <- MCCurrents
  Voltages <- MCVoltages
  Frequencies <- MCFrequencies
INVARIANTS
  TemperatureArrives
