\* Two pipelines at once, one fault, and the turn of a month.
CONSTANTS
  o1 = o1
  o2 = o2
  e1 = e1
  p1 = p1
  p2 = p2
  Orgs = {o1, o2}
  PerOrg = 1
  Events = {e1}
  Procs = {p1, p2}
  MaxMonth = 2
  MaxNumber = 2
  MaxScope = 2
  MaxFaults = 1
SPECIFICATION Spec
SYMMETRY Symmetry
INVARIANTS
  TypeOK
  IssuedOnce
  NumbersAreContinuous
  MarkedMonthIsBilled
  DoneIsInvoiced
