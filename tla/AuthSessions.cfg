SPECIFICATION Spec
CONSTANTS
  w1 = w1  w2 = w2  e1 = e1  e2 = e2  n1 = n1  n2 = n2
  Workers <- MCWorkers
  Emails <- MCEmails
  Names <- MCNames
  MaxUsers = 2
  MaxTokens = 1
  None = None
INVARIANTS
  EmailsAreUnique
  EndedStaysEnded
SYMMETRY Symmetry
PROPERTIES
  OverwritesNeedARace
