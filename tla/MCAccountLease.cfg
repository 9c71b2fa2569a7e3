SPECIFICATION Spec
CONSTANTS
  o1 = o1
  o2 = o2
  a1 = a1
  c1 = c1
  None = None
  Owner <- TwoOwners
  Account <- OneAccount
  Company <- OneCompany
  MaxGeneration = 3
PROPERTIES
  ImplementsFencedWrites
  LostOwnershipCancelled
