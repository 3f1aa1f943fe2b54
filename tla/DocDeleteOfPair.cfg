\* A command deletes the rule of another pair.
CONSTANTS
  Codes <- MCCodes
  Begins <- MCBegins
  Networks = {0}
  Addresses = {"address"}
  Null = Null
  MaxRules = 2
SPECIFICATION Spec
PROPERTY
  DeleteIsOfPair
