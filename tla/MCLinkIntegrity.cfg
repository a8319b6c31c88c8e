SPECIFICATION Spec
CONSTANTS
  costLine = costLine
  customer = customer
  review = review
  t1 = t1
  t2 = t2
  None = None
  Gone = Gone
  MaxId = 1
  MaxGen = 2
  Children = {costLine, customer, review}
  Companions = {review}
  Unconstrained = {customer}
  Threads = {t1, t2}
SYMMETRY Symmetry
INVARIANTS
  TypeOK
  EnforcedLinksHold
  ChildrenStayWithTheirParent
  QuietPagesAreTrue
