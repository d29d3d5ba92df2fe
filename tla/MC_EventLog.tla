---------------------------- MODULE MC_EventLog -----------------------------
(* Instances of EventLog for TLC. *)
EXTENDS EventLog, TLC

CONSTANTS mainproc, httpd, t1, t2

\* One thread that logs in each of two processes, or both in the same one.
Apart == t1 :> mainproc @@ t2 :> httpd
Together == t1 :> mainproc @@ t2 :> mainproc

Request(k, i, n) == [kind |-> k, first |-> i, count |-> n]

\* The oldest record by its index, and whole logs by distance from the end and by
\* serial number, for which a ring of three is read in two parts.
Reads == {Request("asc", 1, 1), Request("desc", 3, 3), Request("sn", 2, 3)}
=============================================================================
