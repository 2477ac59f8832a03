\* Two threads sign a request each, while three seconds of two days pass.
CONSTANTS
  Threads = {t1, t2}
  SecondsPerDay = 2
  MaxTime = 2
SPECIFICATION Spec
INVARIANT CoherentUnlessDisturbed
