CONSTANTS
  Keys = {"password", "level"}
  SecretKeys = {"password"}
  Lookups <- MCLookups
  Commanded = {1}
  None = None
  MaxVersion = 2
  MaxFaults = 3
SPECIFICATION Spec
PROPERTIES
  NothingWorse
  Converges
