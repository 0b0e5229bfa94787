SPECIFICATION Spec
CONSTANTS
  Writer = {w1, w2, w3}
  MaxNumber = 4
INVARIANTS
  TypeOK
  LinksResolve
  UntouchedLogVerifies
CHECK_DEADLOCK FALSE
