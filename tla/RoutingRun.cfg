\* Two rules with related codes, every command, failing stores and crashes.
CONSTANTS
  Codes <- MCCodes
  Begins <- MCBegins
  Networks = {0}
  Addresses = {"address"}
  Null = Null
  MaxRules = 2
SPECIFICATION Spec
INVARIANTS
  TypeOK
  UniqueIds
  RulesReachable
  AddressOfType
  Persisted
