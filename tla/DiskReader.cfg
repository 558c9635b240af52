\* Two threads share the handle: what still holds of every read.
CONSTANTS
  Threads = {t1, t2}
  Sizes = {4, 8}
  Requests <- SharedRequests
  Word = 16
  DWord = 8
SPECIFICATION SpecH
INVARIANT TypeOK
PROPERTY NoPhantomBytes
PROPERTY RightWhenExclusive
PROPERTY ImplementsBlockDevice
