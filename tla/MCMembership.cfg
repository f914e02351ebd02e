CONSTANTS
  u1 = u1
  a1 = a1
  a2 = a2
  a3 = a3
  Users = {u1}
  Charges = {a1, a2, a3}
  Buyer <- OneBuyer
  Calls = {c1, c2}
  NoCharge = NoCharge
  Period = 2
  Grace = 1
  Warning = 1
  MaxTime = 4
SPECIFICATION Spec
SYMMETRY Symmetry
INVARIANTS
  PaidTimeIsCounted
  PaidIsServed
  OffHolds
