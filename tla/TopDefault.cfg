SPECIFICATION Spec
CONSTANTS
  GROUPSMAX = 2
  Tables <- MCTables
  Parent <- MCParent
  Tgid <- MCTgid
  Began <- MCBegan
  Tics <- MCTics
  Mine = {1, 4}
  Named = {2, 4}
  Keys = {"k", "space", "g", "a", "w", "H", "n", "P", "R", "F", "i", "u", "o", "V", "v", "L", "=", "+", "-", "_", "A", "Up", "Down", "PgUp", "PgDn", "Home", "End"}
  MaxKeys = 3
  Lines = {2, 5}
PROPERTIES
  DefaultIsFirst
