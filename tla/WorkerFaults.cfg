\* Bus calls fail, threads stall for longer than the visibility timeout,
\* processes crash; one worker may not run task 1, the other has no
\* workspace for task 2.
SPECIFICATION Spec
CONSTANTS
  w1 = w1
  w2 = w2
  Workers <- MCWorkers
  NumMsgs = 2
  VT = 2
  HB = 1
  Fit <- SomeFit
  Housed <- SomeHoused
  Timely = FALSE
  Faulty = TRUE
  Operated <- First
  Mortal <- Second
INVARIANTS TypeOK ReceiptHeld DrainedIsIdle
PROPERTIES DeliversTasks BecomesVisible
