\* Two processes that each log from one thread; a clean, a read and two deaths at
\* any step.
SPECIFICATION Spec
CONSTANTS
  mainproc = mainproc
  httpd = httpd
  t1 = t1
  t2 = t2
  Free = Free
  Procs = {mainproc, httpd}
  Threads = {t1, t2}
  Proc <- Apart
  Requests <- Reads
  MaxQty = 3
  MaxAdds = 4
  MaxCleans = 1
  MaxReads = 1
  MaxCrashes = 2
INVARIANTS HeaderExact CrashKeepsLog ReadsRight
CHECK_DEADLOCK FALSE
