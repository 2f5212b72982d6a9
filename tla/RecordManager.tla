----------------------------- MODULE RecordManager -----------------------------
(***************************************************************************)
(* The database of ended games: InitRecordManager on a file that may be    *)
(* missing or have no table, and the two prepared statements, which SQLite *)
(* leaves with the error of their last step until they are reset.  A call  *)
(* of InsertRecord or GetRankRecords is                                    *)
(*   "done"     its statement ran to the end,                              *)
(*   "failed"   sqlite3_step failed, and the call returned true,           *)
(*   "unbound"  one of its values was not bound, and it returned false,    *)
(*   "refused"  sqlite3_reset returned an error, and so did the call, or   *)
(*              the statement is not one.                                  *)
(* The process may stop at any time.  All calls come from the event loop.  *)
(***************************************************************************)
EXTENDS Naturals, Sequences

CONSTANT MaxCalls   \* bound: the calls of each kind between two starts

VARIABLES
  file,      \* the database file
  proc,      \* where the process is
  fault,     \* since it started, a call failed for a reason outside of this code
  insert,    \* insert_stmt_
  select,    \* select_stmt_
  inserts,   \* what became of the calls of InsertRecord since the start
  ranks      \* and of the calls of GetRankRecords

stmtVars == <<insert, select>>
logVars == <<inserts, ranks>>
vars == <<file, proc, fault, insert, select, inserts, ranks>>

Files == {"absent", "empty", "table"}
Points == {"down", "create", "open", "insert", "select", "up"}
Statements == {"unset", "null", "ready", "failed"}
Outcomes == {"done", "failed", "unbound", "refused"}

TypeOK ==
  /\ file \in Files
  /\ proc \in Points
  /\ fault \in BOOLEAN
  /\ insert \in Statements
  /\ select \in Statements
  /\ inserts \in Seq(Outcomes)
  /\ ranks \in Seq(Outcomes)
  /\ proc # "up" => inserts = <<>> /\ ranks = <<>>
  /\ proc \in {"down", "create", "open", "insert"} => insert = "unset"
  /\ proc = "select" => insert = "ready"
  /\ select \in {"ready", "failed"} => insert \in {"ready", "failed"}

Init ==
  /\ file = "absent"
  /\ proc = "down"
  /\ fault = FALSE
  /\ insert = "unset"
  /\ select = "unset"
  /\ inserts = <<>>
  /\ ranks = <<>>
-----------------------------------------------------------------------------
\* Mutant of Boot: a file without a table gets one.
Boot_LooksInside ==
  /\ proc = "down"
  /\ proc' = IF file = "table" THEN "open" ELSE "create"
  /\ UNCHANGED <<file, fault, stmtVars, logVars>>

\* PrecheckDatabase is content with any file it can open for reading.
Boot ==
  /\ proc = "down"
  /\ \/ file # "absent" /\ proc' = "open" /\ UNCHANGED <<file, fault>>
     \/ file = "absent" /\ proc' = "create" /\ file' = "empty" /\ UNCHANGED fault
     \/ /\ fault' = TRUE
        /\ \/ file # "absent" /\ proc' = "create"   \* fopen failed
           \/ proc' = "open"                        \* sqlite3_open failed, too
        /\ UNCHANGED file
  /\ UNCHANGED <<stmtVars, logVars>>

\* CREATE TABLE; its failure is logged.  There may be a table after all.
CreateTable ==
  /\ proc = "create"
  /\ proc' = "open"
  /\ \/ file' = "table" /\ UNCHANGED fault
     \/ fault' = TRUE /\ UNCHANGED file
  /\ UNCHANGED <<stmtVars, logVars>>

\* The second sqlite3_open, which creates a missing file.  If it fails the
\* statements keep the value they never got, and the server starts all the same.
Open ==
  /\ proc = "open"
  /\ \/ /\ proc' = "insert"
        /\ file' = IF file = "absent" THEN "empty" ELSE file
        /\ UNCHANGED fault
     \/ proc' = "up" /\ fault' = TRUE /\ UNCHANGED file
  /\ UNCHANGED <<stmtVars, logVars>>

\* sqlite3_prepare_v2 of INSERT_RECORD fails if there is no table.
PrepareInsert ==
  /\ proc = "insert"
  /\ \/ file = "table" /\ insert' = "ready" /\ proc' = "select" /\ UNCHANGED fault
     \/ file # "table" /\ insert' = "null" /\ proc' = "up" /\ UNCHANGED fault
     \/ insert' = "null" /\ proc' = "up" /\ fault' = TRUE
  /\ UNCHANGED <<file, select, logVars>>

PrepareSelect ==
  /\ proc = "select"
  /\ proc' = "up"
  /\ \/ select' = "ready" /\ UNCHANGED fault
     \/ select' = "null" /\ fault' = TRUE
  /\ UNCHANGED <<file, insert, logVars>>

\* Mutant of Call: the result of sqlite3_reset is not looked at.
Call_IgnoresReset(st, st2, o) ==
  \/ st \in {"unset", "null"} /\ o = "refused" /\ st2 = st /\ UNCHANGED fault
  \/ st \in {"ready", "failed"} /\ o = "done" /\ st2 = "ready" /\ UNCHANGED fault
  \/ st \in {"ready", "failed"} /\ o = "failed" /\ st2 = "failed" /\ fault' = TRUE

\* sqlite3_reset, the bindings, if none fails, and sqlite3_step on a statement st,
\* which becomes st2, with outcome o.  SQLite refuses to bind and to step a null statement.
\* Nobody knows what happens to one that was never set: it is refused, or the
\* process stops (Crash).  After a failed step sqlite3_reset returns its error
\* again, the call ends there, and only the call after that is as usual.
Call(st, st2, o) ==
  \/ st \in {"unset", "null"} /\ o = "refused" /\ st2 = st /\ UNCHANGED fault
  \/ st = "failed" /\ o = "refused" /\ st2 = "ready" /\ UNCHANGED fault
  \/ st = "ready" /\ o = "done" /\ st2 = "ready" /\ UNCHANGED fault
  \/ st = "ready" /\ o = "failed" /\ st2 = "failed" /\ fault' = TRUE

\* One of the five values is not bound (there is no memory for it, or it is too
\* long): the statement is left as sqlite3_reset made it.
BindFails(st, st2, o) ==
  st = "ready" /\ o = "unbound" /\ st2 = "ready" /\ fault' = TRUE

\* Mutant of InsertRecord: the statement is reset only after a failure, and
\* SQLite refuses to bind one that has run.
InsertRecord_NoReset ==
  /\ proc = "up"
  /\ Len(inserts) < MaxCalls
  /\ \E st2 \in Statements, o \in Outcomes :
       /\ \/ inserts = <<>> /\ (Call(insert, st2, o) \/ BindFails(insert, st2, o))
          \/ inserts # <<>> /\ o = "refused" /\ st2 = insert /\ UNCHANGED fault
       /\ insert' = st2
       /\ inserts' = Append(inserts, o)
  /\ UNCHANGED <<file, proc, select, ranks>>

InsertRecord ==
  /\ proc = "up"
  /\ Len(inserts) < MaxCalls
  /\ \E st2 \in Statements, o \in Outcomes :
       /\ Call(insert, st2, o) \/ BindFails(insert, st2, o)
       /\ insert' = st2
       /\ inserts' = Append(inserts, o)
  /\ UNCHANGED <<file, proc, select, ranks>>

GetRankRecords ==
  /\ proc = "up"
  /\ Len(ranks) < MaxCalls
  /\ \E st2 \in Statements, o \in Outcomes :
       /\ Call(select, st2, o)
       /\ select' = st2
       /\ ranks' = Append(ranks, o)
  /\ UNCHANGED <<file, proc, insert, inserts>>

\* The process ends, anywhere; what is in the file stays.
Crash ==
  /\ proc # "down"
  /\ proc' = "down"
  /\ fault' = FALSE
  /\ insert' = "unset"
  /\ select' = "unset"
  /\ inserts' = <<>>
  /\ ranks' = <<>>
  /\ UNCHANGED file

Next ==
  \/ Boot
  \/ CreateTable
  \/ Open
  \/ PrepareInsert
  \/ PrepareSelect
  \/ InsertRecord
  \/ GetRankRecords
  \/ Crash

Spec == Init /\ [][Next]_vars
-----------------------------------------------------------------------------
\* A call on a prepared statement is refused exactly if the step of the call before
\* it failed: a failing step costs two records, one reported as recorded
\* (InsertRecord returns true) and the next, and never more; a value that is not
\* bound costs its own record only.
RefusedAfterFailure(stmt, log) ==
  stmt \in {"ready", "failed"} =>
    \A i \in 1..Len(log) : log[i] = "refused" <=> i > 1 /\ log[i - 1] = "failed"

FailedStepCostsTwo ==
  RefusedAfterFailure(insert, inserts) /\ RefusedAfterFailure(select, ranks)

\* On a database with its table, and if nothing outside fails, every ended game
\* is recorded and every rank list is complete, on any start of the process.
HealthyServerRecords ==
  proc = "up" /\ file = "table" /\ ~fault =>
    \A log \in {inserts, ranks} : \A i \in 1..Len(log) : log[i] = "done"

\* A server that has come up on a file without a table records nothing...
NoTableNoRecords ==
  proc = "up" /\ file # "table" =>
    \A log \in {inserts, ranks} : \A i \in 1..Len(log) : log[i] = "refused"

\* ...and neither it nor any start after it mends the file, unless a call fails
\* that should not: only fopen failing on the file makes PrecheckDatabase look on.
EmptyFileStays ==
  [][proc # "create" /\ file = "empty" /\ ~fault' =>
       file' = "empty" /\ proc' # "create"]_vars
=============================================================================
