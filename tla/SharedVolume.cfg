\* Two threads on one handle, with and without a process that rewrites the image.
CONSTANTS
  Threads = {t1, t2}
  Images <- TheImage
  Rewrites <- Rewritten
  Calls <- SomeCalls
  BlockSize = 2
  Garbage = {}
  Word = 1024
  DWord = 256
SPECIFICATION SpecH
PROPERTIES TrueUnlessTorn RightUnderALock CallsAdvance
