SPECIFICATION FairSpec
CONSTANTS
  f1 = f1
  f2 = f2
  f3 = f3
  t1 = t1
  t2 = t2
  Functors <- MCFunctors
  InitFunctors <- MCInitFunctors
  Threads <- MCThreads
  Loop = Loop
INVARIANTS
  TypeOK
  NoLostWakeup
  QuitWakesPoll
PROPERTIES
  MailboxSafety
  PromptlyRun
  QuitStopsLoop
  MailboxProgress
