SPECIFICATION SwitchSpec
CONSTANTS
  Operator = {o1, o2}
  MaxKills = 3
PROPERTIES
  EngageNeverLowers
