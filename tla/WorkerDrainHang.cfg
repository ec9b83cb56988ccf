\* Punctual threads, but one bus call may fail: HLD, Worker step 7.
SPECIFICATION Spec
CONSTANTS
  w1 = w1
  w2 = w2
  Workers <- MCWorkers
  NumMsgs = 1
  VT = 2
  HB = 1
  Fit <- AllFit
  Housed <- AllFit
  Timely = TRUE
  Faulty = TRUE
  Operated <- MCWorkers
  Mortal <- Nobody
PROPERTY DrainReturns
