SPECIFICATION TreesSpec
CONSTANTS
  Paths = {p, q}
  Waves <- MCWaves
PROPERTIES TornDownWhenSafe
CHECK_DEADLOCK FALSE
