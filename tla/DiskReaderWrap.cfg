\* One thread: a product that wraps passes the bound check of readBytes.
CONSTANTS
  Threads = {t1}
  Sizes = {4}
  Requests <- BlockRequests
  Word = 16
  DWord = 8
SPECIFICATION SpecH
PROPERTY RefusesBeyondDisk
