------------------------- MODULE RecordManager_proofs -------------------------
(***************************************************************************)
(* Proofs about RecordManager, for any number of calls.                    *)
(***************************************************************************)
EXTENDS RecordManager, TLAPS

\* What appending an outcome does to a log.
LEMMA AppendOutcome ==
  ASSUME NEW log \in Seq(Outcomes), NEW o \in Outcomes
  PROVE  /\ Append(log, o) \in Seq(Outcomes)
         /\ Append(log, o) # <<>>
         /\ Len(Append(log, o)) = Len(log) + 1
         /\ Append(log, o)[Len(log) + 1] = o
         /\ \A i \in 1..Len(log) : Append(log, o)[i] = log[i]
         /\ Len(log) \in Nat
  OBVIOUS

LEMMA EmptyLog == <<>> \in Seq(Outcomes) /\ Len(<<>>) = 0
  OBVIOUS

\* The types of RecordManager, with what is known of the statements in each
\* stage of InitRecordManager.
THEOREM TypeCorrect == Spec => []TypeOK
<1>1. Init => TypeOK
  BY EmptyLog DEF Init, TypeOK, Files, Points, Statements
<1>2. TypeOK /\ [Next]_vars => TypeOK'
  <2> SUFFICES ASSUME TypeOK, [Next]_vars PROVE TypeOK'
    OBVIOUS
  <2> USE DEF TypeOK, Files, Points, Statements, stmtVars, logVars
  <2>1. CASE Boot
    BY <2>1 DEF Boot
  <2>2. CASE CreateTable
    BY <2>2 DEF CreateTable
  <2>3. CASE Open
    BY <2>3 DEF Open
  <2>4. CASE PrepareInsert
    BY <2>4 DEF PrepareInsert
  <2>5. CASE PrepareSelect
    BY <2>5 DEF PrepareSelect
  <2>6. CASE InsertRecord
    <3>1. PICK st2 \in Statements, o \in Outcomes :
            /\ Call(insert, st2, o) \/ BindFails(insert, st2, o)
            /\ insert' = st2 /\ inserts' = Append(inserts, o)
      BY <2>6 DEF InsertRecord
    <3>2. inserts' \in Seq(Outcomes)
      BY <3>1, AppendOutcome
    <3>3. fault' \in BOOLEAN /\ (insert \in {"ready", "failed"} => insert' \in {"ready", "failed"})
      BY <3>1 DEF Call, BindFails
    <3> QED
      BY <2>6, <3>1, <3>2, <3>3 DEF InsertRecord
  <2>7. CASE GetRankRecords
    <3>1. PICK st2 \in Statements, o \in Outcomes :
            Call(select, st2, o) /\ select' = st2 /\ ranks' = Append(ranks, o)
      BY <2>7 DEF GetRankRecords
    <3>2. ranks' \in Seq(Outcomes)
      BY <3>1, AppendOutcome
    <3>3. fault' \in BOOLEAN /\ (select' \in {"ready", "failed"} => select \in {"ready", "failed"})
      BY <3>1 DEF Call, BindFails
    <3> QED
      BY <2>7, <3>1, <3>2, <3>3 DEF GetRankRecords
  <2>8. CASE Crash
    BY <2>8, EmptyLog DEF Crash
  <2>9. CASE UNCHANGED vars
    BY <2>9 DEF vars
  <2> QED
    BY <2>1, <2>2, <2>3, <2>4, <2>5, <2>6, <2>7, <2>8, <2>9 DEF Next
<1> QED
  BY <1>1, <1>2, PTL DEF Spec
-----------------------------------------------------------------------------
\* A statement that was prepared tells by its state how its last call ended.
Remembers(stmt, log) ==
  /\ stmt = "failed" <=> log # <<>> /\ log[Len(log)] = "failed"
  /\ RefusedAfterFailure(stmt, log)

\* One that was not has refused every call.
Refuses(stmt, log) ==
  stmt \in {"unset", "null"} => \A i \in 1..Len(log) : log[i] = "refused"

LogInv(stmt, log) == Remembers(stmt, log) /\ Refuses(stmt, log)

LogsInv == LogInv(insert, inserts) /\ LogInv(select, ranks)

\* A call keeps what is known of its statement and its log.
LEMMA CallKeepsLog ==
  ASSUME NEW st \in Statements, NEW st2 \in Statements, NEW o \in Outcomes,
         NEW log \in Seq(Outcomes), LogInv(st, log),
         Call(st, st2, o) \/ BindFails(st, st2, o)
  PROVE  LogInv(st2, Append(log, o))
<1> DEFINE log2 == Append(log, o)
           n == Len(log)
<1>1. /\ log2 # <<>> /\ Len(log2) = n + 1 /\ log2[n + 1] = o
      /\ \A i \in 1..n : log2[i] = log[i]
      /\ n \in Nat
  BY AppendOutcome
<1>2. log = <<>> <=> n = 0
  OBVIOUS
<1> HIDE DEF log2, n
<1>3. (o = "refused" /\ st \in {"ready", "failed"} <=> st = "failed")
      /\ (st2 = "failed" <=> o = "failed")
      /\ (st2 \in {"ready", "failed"} <=> st \in {"ready", "failed"})
      /\ (st \in {"unset", "null"} => o = "refused")
  BY DEF Call, BindFails, Statements, Outcomes
<1>4. Remembers(st2, log2)
  <2>1. st2 = "failed" <=> log2 # <<>> /\ log2[Len(log2)] = "failed"
    BY <1>1, <1>3
  <2>2. ASSUME st2 \in {"ready", "failed"}, NEW i \in 1..Len(log2)
        PROVE  log2[i] = "refused" <=> i > 1 /\ log2[i - 1] = "failed"
    <3>1. CASE i \in 1..n
      <4>1. log2[i] = log[i] /\ (i > 1 => log2[i - 1] = log[i - 1])
        BY <3>1, <1>1
      <4>2. log[i] = "refused" <=> i > 1 /\ log[i - 1] = "failed"
        BY <3>1, <2>2, <1>3 DEF LogInv, Remembers, RefusedAfterFailure, n
      <4> QED
        BY <4>1, <4>2
    <3>2. CASE i = n + 1
      <4>1. log2[i] = "refused" <=> st = "failed"
        BY <3>2, <1>1, <1>3, <2>2
      <4>2. st = "failed" <=> n # 0 /\ log[n] = "failed"
        BY <1>2 DEF LogInv, Remembers, n
      <4>3. n # 0 => log2[n] = log[n]
        BY <1>1
      <4> QED
        BY <3>2, <4>1, <4>2, <4>3, <1>1
    <3> QED
      BY <3>1, <3>2, <1>1, <2>2
  <2> QED
    BY <2>1, <2>2 DEF Remembers, RefusedAfterFailure
<1>5. Refuses(st2, log2)
  <2> SUFFICES ASSUME st2 \in {"unset", "null"}, NEW i \in 1..Len(log2)
               PROVE  log2[i] = "refused"
    BY DEF Refuses
  <2>1. st \in {"unset", "null"}
    BY <1>3 DEF Statements
  <2>2. CASE i \in 1..n
    BY <2>1, <2>2, <1>1 DEF LogInv, Refuses, n
  <2>3. CASE i = n + 1
    BY <2>1, <2>3, <1>1, <1>3
  <2> QED
    BY <2>2, <2>3, <1>1
<1> QED
  BY <1>4, <1>5 DEF LogInv, log2
-----------------------------------------------------------------------------
\* The logs tell how each statement stands, in every reachable state.
LEMMA LogsInvariant == Spec => []LogsInv
<1>1. Init => LogsInv
  BY EmptyLog DEF Init, LogsInv, LogInv, Remembers, RefusedAfterFailure, Refuses
<1>2. TypeOK /\ LogsInv /\ [Next]_vars => LogsInv'
  <2> SUFFICES ASSUME TypeOK, LogsInv, [Next]_vars PROVE LogsInv'
    OBVIOUS
  <2> USE DEF LogsInv
  <2>1. CASE Boot \/ CreateTable \/ Open \/ UNCHANGED vars
    <3>1. UNCHANGED <<insert, select, inserts, ranks>>
      BY <2>1 DEF Boot, CreateTable, Open, vars, stmtVars, logVars
    <3> QED
      BY <3>1 DEF LogInv, Remembers, RefusedAfterFailure, Refuses
  <2>2. CASE PrepareInsert
    <3>1. inserts = <<>> /\ UNCHANGED <<inserts, select, ranks>> /\ insert' \in {"ready", "null"}
      BY <2>2 DEF PrepareInsert, TypeOK, logVars
    <3>2. LogInv(insert, inserts)'
      BY <3>1, EmptyLog DEF LogInv, Remembers, RefusedAfterFailure, Refuses
    <3> QED
      BY <3>1, <3>2 DEF LogInv, Remembers, RefusedAfterFailure, Refuses
  <2>3. CASE PrepareSelect
    <3>1. ranks = <<>> /\ UNCHANGED <<inserts, insert, ranks>> /\ select' \in {"ready", "null"}
      BY <2>3 DEF PrepareSelect, TypeOK, logVars
    <3>2. LogInv(select, ranks)'
      BY <3>1, EmptyLog DEF LogInv, Remembers, RefusedAfterFailure, Refuses
    <3> QED
      BY <3>1, <3>2 DEF LogInv, Remembers, RefusedAfterFailure, Refuses
  <2>4. CASE InsertRecord
    <3>1. PICK st2 \in Statements, o \in Outcomes :
            /\ Call(insert, st2, o) \/ BindFails(insert, st2, o)
            /\ insert' = st2 /\ inserts' = Append(inserts, o)
      BY <2>4 DEF InsertRecord
    <3>2. LogInv(st2, Append(inserts, o))
      BY <3>1, CallKeepsLog DEF TypeOK
    <3>3. LogInv(insert, inserts)'
      BY <3>1, <3>2 DEF LogInv, Remembers, RefusedAfterFailure, Refuses
    <3>4. UNCHANGED <<select, ranks>>
      BY <2>4 DEF InsertRecord
    <3> QED
      BY <3>3, <3>4 DEF LogInv, Remembers, RefusedAfterFailure, Refuses
  <2>5. CASE GetRankRecords
    <3>1. PICK st2 \in Statements, o \in Outcomes :
            Call(select, st2, o) /\ select' = st2 /\ ranks' = Append(ranks, o)
      BY <2>5 DEF GetRankRecords
    <3>2. LogInv(st2, Append(ranks, o))
      BY <3>1, CallKeepsLog DEF TypeOK
    <3>3. LogInv(select, ranks)'
      BY <3>1, <3>2 DEF LogInv, Remembers, RefusedAfterFailure, Refuses
    <3>4. UNCHANGED <<insert, inserts>>
      BY <2>5 DEF GetRankRecords
    <3> QED
      BY <3>3, <3>4 DEF LogInv, Remembers, RefusedAfterFailure, Refuses
  <2>6. CASE Crash
    <3>1. insert' = "unset" /\ select' = "unset" /\ inserts' = <<>> /\ ranks' = <<>>
      BY <2>6 DEF Crash
    <3> QED
      BY <3>1, EmptyLog DEF LogInv, Remembers, RefusedAfterFailure, Refuses
  <2> QED
    BY <2>1, <2>2, <2>3, <2>4, <2>5, <2>6 DEF Next
<1> QED
  BY <1>1, <1>2, TypeCorrect, PTL DEF Spec

\* A failing step costs the call that made it and the next one, and no more; a
\* value that is not bound costs its own call only.
THEOREM FailedStepsCostTwo == Spec => []FailedStepCostsTwo
<1>1. LogsInv => FailedStepCostsTwo
  BY DEF LogsInv, LogInv, Remembers, FailedStepCostsTwo
<1> QED
  BY <1>1, LogsInvariant, PTL
-----------------------------------------------------------------------------
\* Without a fault: the statements are there if the table is, no call has
\* failed, and a file without a table has met no prepared statement.
HealthInv ==
  /\ file # "table" => insert \in {"unset", "null"} /\ proc # "select"
  /\ ~fault =>
       /\ proc = "up" /\ file = "table" => insert = "ready" /\ select = "ready"
       /\ proc = "select" => insert = "ready"
       /\ insert # "failed" /\ select # "failed"
       /\ \A log \in {inserts, ranks} : \A i \in 1..Len(log) : log[i] \notin {"failed", "unbound"}
       /\ proc \in {"open", "insert"} => file # "absent" 

LEMMA HealthInvariant == Spec => []HealthInv
<1>1. Init => HealthInv
  BY EmptyLog DEF Init, HealthInv
<1>2. TypeOK /\ HealthInv /\ [Next]_vars => HealthInv'
  <2> SUFFICES ASSUME TypeOK, HealthInv, [Next]_vars PROVE HealthInv'
    OBVIOUS
  <2> USE DEF HealthInv, stmtVars, logVars
  <2>1. CASE Boot
    BY <2>1 DEF Boot, TypeOK, Files
  <2>2. CASE CreateTable
    BY <2>2 DEF CreateTable, TypeOK, Files
  <2>3. CASE Open
    BY <2>3 DEF Open, TypeOK, Files
  <2>4. CASE PrepareInsert
    BY <2>4 DEF PrepareInsert, TypeOK, Files
  <2>5. CASE PrepareSelect
    BY <2>5 DEF PrepareSelect, TypeOK, Files
  <2>6. CASE InsertRecord
    <3>1. PICK st2 \in Statements, o \in Outcomes :
            /\ Call(insert, st2, o) \/ BindFails(insert, st2, o)
            /\ insert' = st2 /\ inserts' = Append(inserts, o)
      BY <2>6 DEF InsertRecord
    <3>2. \A i \in 1..Len(inserts') : inserts'[i] = o \/ (i \in 1..Len(inserts) /\ inserts'[i] = inserts[i])
      BY <3>1, AppendOutcome DEF TypeOK
    <3>3. UNCHANGED <<file, proc, select, ranks>> /\ proc = "up"
      BY <2>6 DEF InsertRecord
    <3> QED
      BY <3>1, <3>2, <3>3 DEF Call, BindFails, TypeOK, Files
  <2>7. CASE GetRankRecords
    <3>1. PICK st2 \in Statements, o \in Outcomes :
            Call(select, st2, o) /\ select' = st2 /\ ranks' = Append(ranks, o)
      BY <2>7 DEF GetRankRecords
    <3>2. \A i \in 1..Len(ranks') : ranks'[i] = o \/ (i \in 1..Len(ranks) /\ ranks'[i] = ranks[i])
      BY <3>1, AppendOutcome DEF TypeOK
    <3>3. UNCHANGED <<file, proc, insert, inserts>> /\ proc = "up"
      BY <2>7 DEF GetRankRecords
    <3> QED
      BY <3>1, <3>2, <3>3 DEF Call, BindFails, TypeOK, Files
  <2>8. CASE Crash
    BY <2>8, EmptyLog DEF Crash, TypeOK, Files
  <2>9. CASE UNCHANGED vars
    BY <2>9 DEF vars
  <2> QED
    BY <2>1, <2>2, <2>3, <2>4, <2>5, <2>6, <2>7, <2>8, <2>9 DEF Next
<1> QED
  BY <1>1, <1>2, TypeCorrect, PTL DEF Spec

\* With the table there and no fault since the start, every record is kept.
THEOREM HealthyServersRecord == Spec => []HealthyServerRecords
<1>1. TypeOK /\ LogsInv /\ HealthInv => HealthyServerRecords
  <2> SUFFICES ASSUME TypeOK, LogsInv, HealthInv, proc = "up", file = "table", ~fault,
                      NEW log \in {inserts, ranks}, NEW i \in 1..Len(log)
               PROVE  log[i] = "done"
    BY DEF HealthyServerRecords
  <2>1. log[i] \in Outcomes /\ log[i] \notin {"failed", "unbound"}
    BY DEF HealthInv, TypeOK
  <2>2. log[i] = "refused" <=> i > 1 /\ log[i - 1] = "failed"
    BY DEF LogsInv, LogInv, Remembers, RefusedAfterFailure, HealthInv
  <2>3. i > 1 => log[i - 1] # "failed"
    <3>1. i > 1 => i - 1 \in 1..Len(log)
      BY DEF TypeOK
    <3> QED
      BY <3>1 DEF HealthInv
  <2> QED
    BY <2>1, <2>2, <2>3 DEF Outcomes
<1> QED
  BY <1>1, TypeCorrect, LogsInvariant, HealthInvariant, PTL

\* On a file without its table nothing is recorded, and no rank list has a row.
THEOREM NoTableNothingRecorded == Spec => []NoTableNoRecords
<1>1. TypeOK /\ LogsInv /\ HealthInv => NoTableNoRecords
  <2> SUFFICES ASSUME TypeOK, LogsInv, HealthInv, proc = "up", file # "table",
                      NEW log \in {inserts, ranks}, NEW i \in 1..Len(log)
               PROVE  log[i] = "refused"
    BY DEF NoTableNoRecords
  <2>1. insert \in {"unset", "null"} /\ select \in {"unset", "null"}
    BY DEF HealthInv, TypeOK, Statements
  <2> QED
    BY <2>1 DEF LogsInv, LogInv, Refuses
<1> QED
  BY <1>1, TypeCorrect, LogsInvariant, HealthInvariant, PTL

\* No start mends a file without a table unless a call fails that should not.
THEOREM EmptyFilesStay == Spec => EmptyFileStays
<1>1. TypeOK /\ [Next]_vars =>
        [proc # "create" /\ file = "empty" /\ ~fault' =>
           file' = "empty" /\ proc' # "create"]_vars
  BY DEF TypeOK, Next, Boot, CreateTable, Open, PrepareInsert, PrepareSelect,
         InsertRecord, GetRankRecords, Crash, vars
<1> QED
  BY <1>1, TypeCorrect, PTL DEF Spec, EmptyFileStays
=============================================================================
