CONSTANTS
  Requests = {r1, r2}
  Texts = {t1, t2}
  NoText = NoText
  MaxMessages = 3
  MaxIds = 6
SPECIFICATION Spec
INVARIANT OverrunBounded
INVARIANT ReplacedOnce
INVARIANT AnswersItsQuestion
INVARIANT TitleOfFirstMessage
CHECK_DEADLOCK FALSE
SYMMETRY Symmetry
