SPECIFICATION Spec
CONSTANTS
  c1 = c1
  c2 = c2
  c3 = c3
  c4 = c4
  c5 = c5
  Contacts <- MCContacts
  contact_max <- MCContactMax
INVARIANTS
  CountIsExact
PROPERTIES
  KnownStays
  KeepsOrder
