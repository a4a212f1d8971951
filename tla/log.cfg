\* Two workers log from handlers and from an actor's task while one changes
\* the settings; in a build with one translation unit, so that the handler is
\* also queued in the distributor and polled.
SPECIFICATION LogSpec
CONSTANTS
  Threads = {t1, t2}
  Serializers = {h, a}
  Tasks = {l1, l2, k1}
  NULL = NULL
  Clear = Clear
  MaxProcessTaskCount = 1
  Copy <- OneCopy
  Nested = TRUE
  Destroyers = {}
  Handler = h
  Lines = {l1, l2}
  Level <- Errors
  Configurers = {t1}
  FileAtStart = TRUE
  FileMayFail = TRUE
INVARIANT LoggedOnce
CHECK_DEADLOCK FALSE
