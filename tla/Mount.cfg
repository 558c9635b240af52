\* Ctrl+C at any time, from before the handlers are registered to after main
\* sleeps; a history variable tells the two apart.
CONSTANTS
  Workers = {w1, w2, w3}
SPECIFICATION Spec
INVARIANT TypeOK
INVARIANT NoFaultUnlessEarly
INVARIANT FailedMountLeavesNothing
INVARIANT ExitZeroIsUnmounted
INVARIANT CallbacksSeeLiveObjects
PROPERTY CtrlCEndsProcess
PROPERTY ImplementsServedDrive
