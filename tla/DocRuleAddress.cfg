\* A look-up finds a rule without an address.
CONSTANTS
  Codes <- MCCodes
  Begins <- MCBegins
  Networks = {0}
  Addresses = {"address"}
  Null = Null
  MaxRules = 2
SPECIFICATION Spec
INVARIANT
  LookupFindsAddress
