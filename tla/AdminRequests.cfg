SPECIFICATION Spec
CONSTANTS
  r1 = r1
  h1 = h1
  h2 = h2
  Requests = {r1}
  Handlers = {h1, h2}
  OldKey = OldKey
  NewKey = NewKey
  None = None
  Window = 1
  Skew = 1
  Ttl = 1
  Retention = 1
  MaxCopies = 2
  MaxTime = 3
SYMMETRY Symmetry
INVARIANTS SignedOnce NonceOutlivesSignature AuditIsExact RotationKeepsSessions
