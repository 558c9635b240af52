\* Two threads share the handle: a read can deliver another read's bytes.
CONSTANTS
  Threads = {t1, t2}
  Sizes = {4, 6}
  Requests <- PlainRequests
  Word = 16
  DWord = 8
SPECIFICATION SpecH
INVARIANT ReadsWhatWasAsked
