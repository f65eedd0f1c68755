SPECIFICATION Spec
CONSTANTS
  MaxKeys = 2
  JarSize = 2
  Algorithms = {15, 16}
  Requests <- RequestSet
  Answers <- AnswerSet
  KeyIds = {1, 2}
  MaxAdded = 3
  MaxAsked = 2
  MaxDays = 1
PROPERTIES OldCookiesRefused
CHECK_DEADLOCK FALSE
