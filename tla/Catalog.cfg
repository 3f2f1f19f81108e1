CONSTANTS
  Threads = {t1, t2}
  Functions = {f1}
  Searches = {s1}
  Cases = {upper, lower}
  TTL = 2
  Structures = 1
  MaxFetch = 1
  MaxTime = 5
SPECIFICATION Spec
INVARIANTS TypeOK StalenessBounded AnswersWhatWasAsked
PROPERTY RegressBounded
