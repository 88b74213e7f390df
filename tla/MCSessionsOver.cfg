SPECIFICATION Spec
CONSTANTS
  Callers = {c1, c2}
  Nobody = Nobody
  MaxSessions = 4
INVARIANT RevokedFamilyIsOver
