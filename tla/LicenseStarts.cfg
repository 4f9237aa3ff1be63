SPECIFICATION Spec
CONSTANTS
  KeyFiles <- MCKeyFiles
  LicenceOf <- MCLicenceOf
  Keys = {"yearly", "perpetual", "community"}
  MaskedKeys = {"yearly"}
  Never = Never
  None = None
  Torn = Torn
  MaxTime = 4
INVARIANTS
  LicenseTypeOK
  LicenceKept
  EndsInTime
  CopiesAgree
  SavedIsLoaded
PROPERTY
  StartEnds
