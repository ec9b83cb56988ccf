\* Threads keep up with the clock and the bus is up; processes may crash.
SPECIFICATION Spec
CONSTANTS
  w1 = w1
  w2 = w2
  Workers <- MCWorkers
  NumMsgs = 1
  VT = 2
  HB = 1
  Fit <- AllFit
  Housed <- AllFit
  Timely = TRUE
  Faulty = FALSE
  Operated <- MCWorkers
  Mortal <- MCWorkers
INVARIANTS OneRunner
PROPERTIES DeliversTasks DrainReturns
