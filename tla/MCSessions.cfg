SPECIFICATION Spec
CONSTANTS
  Callers = {c1, c2}
  Nobody = Nobody
  MaxSessions = 4
INVARIANTS
  AnswersAreTrue
PROPERTIES
  RevocationIsWhole
  ImplementsFamilies
  EveryoneIsAnswered
