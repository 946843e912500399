CONSTANTS
  Lower <- MCLower
  MethodNames <- MCMethodNames
  Json <- MCJson
  JsonHuge <- MCJsonHuge
  Targets <- MCTargets
  Fields <- MCFields
  BodyUnits <- MCBodyUnits
  MaxFields = 2
  MaxBody = 5
SPECIFICATION Spec
INVARIANT RoundTrip
CHECK_DEADLOCK FALSE
