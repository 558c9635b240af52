\* Ctrl+C at any time: the handler can use an object that is gone.
CONSTANTS
  Workers = {w1, w2}
SPECIFICATION Spec
INVARIANT NoFault
