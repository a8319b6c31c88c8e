SPECIFICATION Spec
CONSTANTS
  acme = acme
  frame = frame
  plain = plain
  framed = framed
  authority = authority
  operator = operator
  None = None
  Customers = {acme}
  Contracts = {frame}
  Solutions = {plain, framed}
  MaxProject = 2
  CustomerTypes = {authority, operator}
  DefaultTax <- MCDefaultTax
  CustomerForms <- MCCustomerForms
  ContractForms <- MCContractForms
  SolutionForms <- MCSolutionForms
  ProjectFacts <- MCProjectFacts
  Imports <- MCImports
INVARIANTS
  TypeOK
  ReviewsFollowFacts
  ReviewsHaveTheirProject
PROPERTY
  ImportStaysInScope
