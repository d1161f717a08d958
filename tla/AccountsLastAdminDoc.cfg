CONSTANTS
  Person = {p1, p2}
  Email = {e1}
  Pins <- MCPins
  LoginHandler = {l1}
  AdminHandler = {d1, d2}
  None = None
  MaxUsers = 2
SPECIFICATION CrowdSpec
SYMMETRY HandlerSymmetry
INVARIANTS AdminRemains
