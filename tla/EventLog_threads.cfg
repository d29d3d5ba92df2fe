\* Two threads of one process.
SPECIFICATION Spec
CONSTANTS
  mainproc = mainproc
  httpd = httpd
  t1 = t1
  t2 = t2
  Free = Free
  Procs = {mainproc, httpd}
  Threads = {t1, t2}
  Proc <- Together
  MaxQty = 2
  MaxAdds = 2
  Requests = {}
  MaxCleans = 0
  MaxReads = 0
  MaxCrashes = 0
INVARIANTS LastSnIsLast
CHECK_DEADLOCK FALSE
