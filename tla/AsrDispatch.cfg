CONSTANTS
  t1 = t1
  t2 = t2
  t3 = t3
  w1 = w1
  w2 = w2
  Nobody = Nobody
  Threads <- MCThreads
  Workers <- MCWorkers
  Slices = 3
SPECIFICATION Spec
INVARIANTS DispatchTypeOK Conserved NoLostWakeup BusyHonest IdleSettles
PROPERTIES ImplementsLease WaitersServed SerialMonotone ImplementsServing
