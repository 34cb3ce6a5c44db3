------------------------ MODULE ExperimentStore_proofs ------------------------
(***************************************************************************)
(* What the commands and the readers of one experiment store say of it     *)
(* stays true, for every set of commands and readers and any number of     *)
(* failures.                                                               *)
(*                                                                         *)
(* A row is told by three parties at different moments: the command that   *)
(* stored it, a query, and a projection between two hashes of the file.    *)
(* StoreInv ties each to the transaction that is open: who is about to     *)
(* commit holds the only lock, and no row bears its run id.                *)
(***************************************************************************)
EXTENDS ExperimentStore, TLAPS, FiniteSetTheorems

Stored == {Row(c) : c \in Command}

StoreType ==
    /\ at = [c \in Command |-> at[c]] /\ exit = [c \in Command |-> exit[c]]
    /\ history \in Seq(SUBSET Stored) /\ Len(history) > 0
    /\ reading = [r \in Reader |-> reading[r]]
    /\ \A r \in Reader : /\ reading[r] = [phase |-> reading[r].phase, before |-> reading[r].before,
                                          rows |-> reading[r].rows]
                         /\ reading[r].phase \in {"idle", "hashed", "selected", "done"}

\* The rows are those of the last commit, and the open transaction is of a new run.
StoreInv ==
    /\ rows = history[Len(history)]
    /\ \A a, b \in rows : a.run = b.run => a = b
    /\ \A c \in Command : at[c] = "commit" => lock = {c} /\ \A row \in rows : row.run # c.run
    /\ \A c \in Command : at[c] \in {"look", "createNew", "create", "setVersion", "insert", "commit"}
                              => c.stores

\* Whoever is past the evaluation was not refused, and only evaluated runs are stored.
EvaluatedInv ==
    /\ \A c \in Command : at[c] \notin {"start", "absent", "over"} => Evaluable(c)
    /\ \A row \in rows : \E c \in Command : row = Row(c) /\ Evaluable(c)

\* What was told, by a report, by an exit status or by a query.
ToldInv ==
    /\ told \subseteq rows
    /\ \A r \in report : r.stored => \E row \in rows : row.run = r.run /\ row.result = r.result
    /\ \A c \in Command : c.stores /\ (at[c] = "report" \/ exit[c] \in {0, 1}) => Row(c) \in rows
    /\ \A c \in Command : exit[c] \in {0, 1} => exit[c] = ExitCode(c)

\* The bytes a reader hashed, and the rows it selected since.
ReadingInv ==
    \A r \in Reader :
        /\ ~Phase(r, "idle") => reading[r].before \in 1..Len(history)
        /\ Phase(r, "selected") =>
              \E i \in 1..Len(history) : i >= reading[r].before /\ reading[r].rows = history[i]
        /\ Phase(r, "done") => /\ reading[r].rows = history[reading[r].before]
                               /\ \A row \in reading[r].rows : Verified(row)
        /\ \A row \in reading[r].rows : row \in rows

ProjectInv == StoreType /\ StoreInv /\ EvaluatedInv /\ ToldInv /\ ReadingInv

----------------------------------------------------------------------------
(* The file *)

LEMMA HistoryGrows ==
  ASSUME StoreType, NEW S \in SUBSET Stored, history' = Append(history, S)
  PROVE  /\ history' \in Seq(SUBSET Stored) /\ Len(history') = Len(history) + 1 /\ Len(history) \in Nat
         /\ history'[Len(history')] = S /\ \A i \in 1..Len(history) : history'[i] = history[i]
<1> DEFINE T == SUBSET Stored
<1>1. history \in Seq(T) /\ S \in T
  BY DEF StoreType
<1> HIDE DEF T
<1> QED BY <1>1 DEF T

\* What is in the table after a step, and the bytes of the file.
Unwritten == rows' = rows /\ history' = history
Rewritten == rows' = rows /\ history' = Append(history, rows)
Extended(c) == /\ at[c] = "commit" /\ rows' = rows \cup {Row(c)} /\ history' = Append(history, rows')
               /\ lock' = {} /\ at' = [at EXCEPT ![c] = "report"]

LEMMA RowsStep ==
  ASSUME ProjectInv, [Next]_vars
  PROVE  \/ Unwritten
         \/ Rewritten /\ UNCHANGED <<lock, told, report, exit, reading>>
         \/ \E c \in Command : Extended(c) /\ UNCHANGED <<told, report, exit, reading>>
<1>1. ASSUME NEW c \in Command, Step(c)
      PROVE  \/ Unwritten
             \/ Rewritten /\ UNCHANGED <<lock, told, report, exit, reading>>
             \/ Extended(c) /\ UNCHANGED <<told, report, exit, reading>>
  <2>1. CASE Commit(c)
    <3>1. {row \in rows : row.run # c.run} = rows
      BY <2>1 DEF Commit, ProjectInv, StoreInv
    <3> QED BY <2>1, <3>1 DEF Commit, Committed, Extended, Goto
  <2>2. CASE CreateTable(c) \/ SetVersion(c)
    BY <2>2 DEF CreateTable, SetVersion, Committed, store, Unwritten, Rewritten
  <2>3. CASE Evaluate(c) \/ LookAtVersion(c) \/ Insert(c) \/ Report(c) \/ Fails(c) \/ Kill(c)
    BY <2>3 DEF Evaluate, LookAtVersion, Insert, Report, Fails, Kill, store, Unwritten
  <2> QED BY <1>1, <2>1, <2>2, <2>3 DEF Step
<1>2. CASE (\E r \in Reader : HashBefore(r) \/ Select(r) \/ Refused(r) \/ HashAfter(r)) \/ Query
           \/ PowerLoss \/ UNCHANGED vars
  BY <1>2 DEF HashBefore, Select, Refused, HashAfter, Query, PowerLoss, vars, store, Unwritten
<1> QED BY <1>1, <1>2 DEF Next

\* No row is lost, and the bytes of before are found again.
LEMMA FileKept ==
  ASSUME ProjectInv, [Next]_vars
  PROVE  /\ rows \subseteq rows' /\ rows' = history'[Len(history')]
         /\ history' \in Seq(SUBSET Stored) /\ Len(history) \in Nat /\ Len(history') \in Nat
         /\ Len(history') >= Len(history) /\ Len(history) > 0
         /\ \A i \in 1..Len(history) : history'[i] = history[i]
<1>0. /\ rows = history[Len(history)] /\ history \in Seq(SUBSET Stored) /\ Len(history) \in Nat
      /\ Len(history) > 0 /\ StoreType
  BY DEF ProjectInv, StoreType, StoreInv
<1>1. rows \in SUBSET Stored
  BY DEF ProjectInv, EvaluatedInv, Stored
<1>2. CASE Unwritten
  BY <1>0, <1>2 DEF Unwritten
<1>3. CASE Rewritten
  BY <1>0, <1>1, <1>3, HistoryGrows DEF Rewritten
<1>4. ASSUME NEW c \in Command, Extended(c)
      PROVE  /\ rows \subseteq rows' /\ rows' = history'[Len(history')]
             /\ history' \in Seq(SUBSET Stored) /\ Len(history') \in Nat
             /\ Len(history') >= Len(history)
             /\ \A i \in 1..Len(history) : history'[i] = history[i]
  <2>1. rows \cup {Row(c)} \in SUBSET Stored /\ history' = Append(history, rows \cup {Row(c)})
    BY <1>1, <1>4 DEF Extended, Stored
  <2> QED BY <1>0, <1>4, <2>1, HistoryGrows DEF Extended
<1> QED BY <1>0, <1>2, <1>3, <1>4, RowsStep

----------------------------------------------------------------------------
(* Every step keeps the invariant *)

LEMMA StoreStart == Init => ProjectInv
<1> SUFFICES ASSUME Init PROVE ProjectInv
  OBVIOUS
<1>1. history \in Seq(SUBSET Stored) /\ Len(history) = 1 /\ history[1] = {}
  BY DEF Init
<1>2. StoreType
  BY <1>1 DEF Init, StoreType, Idle
<1>3. StoreInv
  BY <1>1 DEF Init, StoreInv
<1>4. EvaluatedInv /\ ToldInv
  BY DEF Init, EvaluatedInv, ToldInv
<1>5. ReadingInv
  BY DEF Init, ReadingInv, Phase, Idle
<1> QED BY <1>2, <1>3, <1>4, <1>5 DEF ProjectInv

LEMMA StepType ==
  ASSUME ProjectInv, [Next]_vars
  PROVE  StoreType'
<1> USE DEF ProjectInv, StoreType
<1>1. at' = [c \in Command |-> at'[c]] /\ exit' = [c \in Command |-> exit'[c]]
  <2>1. ASSUME NEW c \in Command, Step(c)
        PROVE  at' = [d \in Command |-> at'[d]] /\ exit' = [d \in Command |-> exit'[d]]
    BY <2>1 DEF Step, Evaluate, LookAtVersion, CreateTable, SetVersion, Insert, Commit, Report, Fails,
       Kill, Exits, Goto
  <2>2. CASE (\E r \in Reader : HashBefore(r) \/ Select(r) \/ Refused(r) \/ HashAfter(r)) \/ Query
             \/ PowerLoss \/ UNCHANGED vars
    BY <2>2 DEF HashBefore, Select, Refused, HashAfter, Query, PowerLoss, vars
  <2> QED BY <2>1, <2>2 DEF Next
<1>2. history' \in Seq(SUBSET Stored) /\ Len(history') > 0
  BY FileKept
<1>3. /\ reading' = [q \in Reader |-> reading'[q]]
      /\ \A r \in Reader :
            /\ reading'[r] = [phase |-> reading'[r].phase, before |-> reading'[r].before,
                              rows |-> reading'[r].rows]
            /\ reading'[r].phase \in {"idle", "hashed", "selected", "done"}
  <2>1. CASE reading' = reading
    BY <2>1
  <2>2. ASSUME NEW q \in Reader, HashBefore(q) \/ Select(q) \/ Refused(q) \/ HashAfter(q)
        PROVE  /\ reading' = [z \in Reader |-> reading'[z]]
               /\ \A r \in Reader :
                     /\ reading'[r] = [phase |-> reading'[r].phase, before |-> reading'[r].before,
                                       rows |-> reading'[r].rows]
                     /\ reading'[r].phase \in {"idle", "hashed", "selected", "done"}
    BY <2>2 DEF HashBefore, Select, Refused, HashAfter, Idle
  <2>3. CASE PowerLoss
    BY <2>3 DEF PowerLoss, Idle
  <2> QED BY <2>1, <2>2, <2>3 DEF Next, Step, Evaluate, LookAtVersion, CreateTable, SetVersion, Insert,
          Commit, Report, Fails, Kill, Query, vars
<1> QED BY <1>1, <1>2, <1>3

LEMMA StepStore ==
  ASSUME ProjectInv, [Next]_vars
  PROVE  StoreInv'
<1> USE DEF ProjectInv, StoreInv
<1>1. rows' = history'[Len(history')]
  BY FileKept
<1>2. \A a, b \in rows' : a.run = b.run => a = b
  <2>1. CASE rows' = rows
    BY <2>1
  <2>2. ASSUME NEW c \in Command, Extended(c) PROVE \A a, b \in rows' : a.run = b.run => a = b
    <3>1. \A row \in rows : row.run # c.run
      BY <2>2 DEF Extended
    <3>2. Row(c).run = c.run
      BY DEF Row
    <3> QED BY <2>2, <3>1, <3>2 DEF Extended
  <2> QED BY <2>1, <2>2, RowsStep DEF Unwritten, Rewritten
<1>3. ASSUME NEW d \in Command
      PROVE  /\ at'[d] = "commit" => lock' = {d} /\ \A row \in rows' : row.run # d.run
             /\ at'[d] \in {"look", "createNew", "create", "setVersion", "insert", "commit"} => d.stores
  <2>1. ASSUME NEW c \in Command, Commit(c)
        PROVE  /\ at'[d] # "commit"
               /\ at'[d] \in {"look", "createNew", "create", "setVersion", "insert"} => d.stores
    <3>1. at[c] = "commit" /\ lock = {c} /\ at' = [at EXCEPT ![c] = "report"]
      BY <2>1 DEF Commit, Goto
    <3>2. at[d] = "commit" => d = c
      BY <3>1
    <3>3. at'[d] = IF d = c THEN "report" ELSE at[d]
      BY <3>1 DEF StoreType
    <3> QED BY <3>2, <3>3
  <2>2. ASSUME NEW c \in Command, Evaluate(c) \/ LookAtVersion(c) \/ CreateTable(c) \/ SetVersion(c)
                                  \/ Insert(c)
        PROVE  /\ at'[d] = "commit" => lock' = {d} /\ \A row \in rows' : row.run # d.run
               /\ at'[d] \in {"look", "createNew", "create", "setVersion", "insert", "commit"} => d.stores
    BY <2>2 DEF Evaluate, LookAtVersion, CreateTable, SetVersion, Insert, Exits, Goto, StoreType, store,
       Committed
  <2>3. ASSUME NEW c \in Command, Report(c) \/ Fails(c) \/ Kill(c)
        PROVE  /\ at'[d] = "commit" => lock' = {d} /\ \A row \in rows' : row.run # d.run
               /\ at'[d] \in {"look", "createNew", "create", "setVersion", "insert", "commit"} => d.stores
    <3>1. /\ rows' = rows /\ at'[d] \in {at[d], "over"} /\ (c = d => at'[d] = "over")
          /\ lock' = lock \/ lock' = lock \ {c}
      BY <2>3 DEF Report, Fails, Kill, Exits, Goto, StoreType, store
    <3>2. at'[d] = "commit" => c # d /\ lock = {d} /\ \A row \in rows : row.run # d.run
      BY <3>1
    <3> QED BY <3>1, <3>2
  <2>4. CASE PowerLoss
    BY <2>4 DEF PowerLoss
  <2>5. CASE (\E r \in Reader : HashBefore(r) \/ Select(r) \/ Refused(r) \/ HashAfter(r)) \/ Query
             \/ UNCHANGED vars
    BY <2>5 DEF HashBefore, Select, Refused, HashAfter, Query, vars, store
  <2> QED BY <2>1, <2>2, <2>3, <2>4, <2>5 DEF Next, Step
<1> QED BY <1>1, <1>2, <1>3

LEMMA StepEvaluated ==
  ASSUME ProjectInv, [Next]_vars
  PROVE  EvaluatedInv'
<1> USE DEF ProjectInv, EvaluatedInv
<1>1. ASSUME NEW d \in Command, at'[d] \notin {"start", "absent", "over"} PROVE Evaluable(d)
  <2>1. ASSUME NEW c \in Command, Step(c)
        PROVE  at'[d] = at[d] \/ at'[d] = "over" \/ (at[d] \notin {"start", "absent", "over"})
               \/ (at[d] = "start" /\ Evaluable(d))
    BY <2>1 DEF Step, Evaluate, LookAtVersion, CreateTable, SetVersion, Insert, Commit, Report, Fails,
       Kill, Exits, Goto, StoreType
  <2>2. CASE (\E r \in Reader : HashBefore(r) \/ Select(r) \/ Refused(r) \/ HashAfter(r)) \/ Query
             \/ PowerLoss \/ UNCHANGED vars
    <3>1. at'[d] = at[d] \/ at'[d] = "over"
      BY <2>2 DEF HashBefore, Select, Refused, HashAfter, Query, PowerLoss, vars
    <3> QED BY <1>1, <3>1
  <2> QED BY <1>1, <2>1, <2>2 DEF Next
<1>2. ASSUME NEW row \in rows' PROVE \E c \in Command : row = Row(c) /\ Evaluable(c)
  <2>1. CASE row \in rows
    BY <2>1
  <2>2. ASSUME NEW c \in Command, Extended(c) PROVE \E d \in Command : row = Row(d) /\ Evaluable(d)
    <3>1. Evaluable(c)
      BY <2>2 DEF Extended
    <3>2. row \in rows \/ row = Row(c)
      BY <2>2 DEF Extended
    <3> QED BY <2>1, <3>1, <3>2
  <2> QED BY <2>1, <2>2, RowsStep DEF Unwritten, Rewritten
<1> QED BY <1>1, <1>2

\* A row that was told of stays, so nothing has to be taken back.
LEMMA StepTold ==
  ASSUME ProjectInv, [Next]_vars
  PROVE  ToldInv'
<1> USE DEF ProjectInv, ToldInv
<1>1. rows \subseteq rows'
  BY FileKept
<1>2. told' \subseteq rows'
  <2>1. CASE Query
    BY <2>1 DEF Query, store
  <2>2. CASE told' = told
    BY <1>1, <2>2
  <2> QED BY <2>1, <2>2 DEF Next, Step, Evaluate, LookAtVersion, CreateTable, SetVersion, Insert, Commit,
          Report, Fails, Kill, HashBefore, Select, Refused, HashAfter, PowerLoss, vars
<1>3. ASSUME NEW r \in report', r.stored PROVE \E row \in rows' : row.run = r.run /\ row.result = r.result
  <2>1. CASE r \in report
    BY <1>1, <1>3, <2>1
  <2>2. ASSUME NEW c \in Command, Report(c), r \notin report
        PROVE  \E row \in rows' : row.run = r.run /\ row.result = r.result
    <3>1. r = [run |-> c.run, stored |-> c.stores, result |-> Result(c)]
      BY <1>3, <2>2 DEF Report
    <3>2. c.stores /\ at[c] = "report"
      BY <1>3, <2>2, <3>1 DEF Report
    <3>3. Row(c) \in rows'
      BY <1>1, <3>2
    <3> QED BY <3>1, <3>3 DEF Row
  <2>3. (\E c \in Command : Report(c)) \/ report' \subseteq report
    BY DEF Next, Step, Evaluate, LookAtVersion, CreateTable, SetVersion, Insert, Commit, Fails, Kill,
       HashBefore, Select, Refused, HashAfter, Query, PowerLoss, vars
  <2> QED BY <1>3, <2>1, <2>2, <2>3
<1>4. ASSUME NEW d \in Command
      PROVE  /\ d.stores /\ (at'[d] = "report" \/ exit'[d] \in {0, 1}) => Row(d) \in rows'
             /\ exit'[d] \in {0, 1} => exit'[d] = ExitCode(d)
  <2>1. ASSUME NEW c \in Command, Report(c)
        PROVE  /\ at'[d] = "report" => at[d] = "report"
               /\ exit'[d] = exit[d] \/ (exit'[d] = ExitCode(d) /\ at[d] = "report")
    BY <2>1 DEF Report, Exits, Goto, StoreType
  <2>2. ASSUME NEW c \in Command, Commit(c)
        PROVE  /\ at'[d] = "report" => at[d] = "report" \/ Row(d) \in rows'
               /\ exit'[d] = exit[d]
    BY <2>2 DEF Commit, Committed, Goto, StoreType
  <2>3. ASSUME NEW c \in Command, Evaluate(c)
        PROVE  /\ at'[d] = "report" /\ d.stores => at[d] = "report"
               /\ exit'[d] = exit[d] \/ exit'[d] = 2
    BY <2>3 DEF Evaluate, Exits, Goto, StoreType
  <2>4. ASSUME NEW c \in Command,
               LookAtVersion(c) \/ CreateTable(c) \/ SetVersion(c) \/ Insert(c) \/ Fails(c) \/ Kill(c)
        PROVE  /\ at'[d] = "report" => at[d] = "report"
               /\ exit'[d] = exit[d] \/ exit'[d] = 2
    BY <2>4 DEF LookAtVersion, CreateTable, SetVersion, Insert, Fails, Kill, Exits, Goto, StoreType
  <2>5. CASE (\E r \in Reader : HashBefore(r) \/ Select(r) \/ Refused(r) \/ HashAfter(r)) \/ Query
             \/ PowerLoss \/ UNCHANGED vars
    <3>1. (at'[d] = "report" => at[d] = "report") /\ exit'[d] = exit[d]
      BY <2>5 DEF HashBefore, Select, Refused, HashAfter, Query, PowerLoss, vars
    <3> QED BY <1>1, <3>1
  <2> QED BY <1>1, <2>1, <2>2, <2>3, <2>4, <2>5 DEF Next, Step
<1> QED BY <1>2, <1>3, <1>4

LEMMA StepReading ==
  ASSUME ProjectInv, [Next]_vars
  PROVE  ReadingInv'
<1> SUFFICES ASSUME NEW r \in Reader
             PROVE  /\ ~Phase(r, "idle")' => reading'[r].before \in 1..Len(history')
                    /\ Phase(r, "selected")' =>
                          \E i \in 1..Len(history') : /\ i >= reading'[r].before
                                                      /\ reading'[r].rows = history'[i]
                    /\ Phase(r, "done")' => /\ reading'[r].rows = history'[reading'[r].before]
                                            /\ \A row \in reading'[r].rows : Verified(row)
                    /\ \A row \in reading'[r].rows : row \in rows'
  BY DEF ReadingInv
<1> USE DEF ProjectInv, Phase
<1>1. /\ rows \subseteq rows' /\ Len(history) \in Nat /\ Len(history') \in Nat /\ Len(history) > 0
      /\ Len(history') >= Len(history) /\ \A i \in 1..Len(history) : history'[i] = history[i]
  BY FileKept
<1>2. \A i \in 1..Len(history) : i \in 1..Len(history')
  BY <1>1
<1>3. /\ ~Phase(r, "idle") => reading[r].before \in 1..Len(history)
      /\ Phase(r, "selected") =>
            \E i \in 1..Len(history) : i >= reading[r].before /\ reading[r].rows = history[i]
      /\ Phase(r, "done") => /\ reading[r].rows = history[reading[r].before]
                             /\ \A row \in reading[r].rows : Verified(row)
      /\ \A row \in reading[r].rows : row \in rows
  BY DEF ReadingInv
<1>4. CASE reading'[r] = reading[r]
  <2>1. Phase(r, "selected") =>
           \E i \in 1..Len(history') : i >= reading[r].before /\ reading[r].rows = history'[i]
    BY <1>1, <1>2, <1>3
  <2>2. Phase(r, "done") => reading[r].rows = history'[reading[r].before]
    BY <1>1, <1>3
  <2> QED BY <1>1, <1>2, <1>3, <1>4, <2>1, <2>2
<1>5. CASE reading'[r] = Idle
  BY <1>5 DEF Idle
<1>6. ASSUME history' = history, rows' = rows, HashBefore(r)
      PROVE  /\ reading'[r].phase = "hashed" /\ reading'[r].before = Len(history)
             /\ reading'[r].rows = {}
  BY <1>6 DEF HashBefore, StoreType
<1>7. ASSUME history' = history, rows' = rows, Select(r)
      PROVE  /\ reading'[r].phase = "selected" /\ reading'[r].rows = history'[Len(history')]
             /\ reading'[r].before = reading[r].before /\ reading'[r].before \in 1..Len(history')
             /\ reading'[r].rows = rows
  <2>1. reading'[r] = [[reading[r] EXCEPT !.phase = "selected"] EXCEPT !.rows = rows]
    BY <1>7 DEF Select, StoreType
  <2>2. reading[r].before \in 1..Len(history)
    BY <1>3, <1>7 DEF Select
  <2>3. rows = history[Len(history)]
    BY DEF StoreInv
  <2> QED BY <1>7, <2>1, <2>2, <2>3 DEF StoreType
<1>8. ASSUME history' = history, rows' = rows, HashAfter(r)
      PROVE  \/ reading'[r] = Idle
             \/ /\ reading'[r].phase = "done" /\ reading'[r].rows = reading[r].rows
                /\ reading'[r].before = reading[r].before /\ reading[r].phase = "selected"
                /\ Len(history) = reading[r].before /\ \A row \in reading[r].rows : Verified(row)
  BY <1>8 DEF HashAfter, StoreType
<1>9. CASE history' = history /\ rows' = rows /\ (HashBefore(r) \/ Select(r) \/ HashAfter(r))
  <2>1. CASE HashBefore(r)
    BY <1>1, <1>6, <1>9, <2>1
  <2>2. CASE Select(r)
    BY <1>1, <1>7, <1>9, <2>2
  <2>3. CASE HashAfter(r)
    <3>1. CASE reading'[r] # Idle
      <4>1. PICK i \in 1..Len(history) : i >= reading[r].before /\ reading[r].rows = history[i]
        BY <1>3, <1>8, <1>9, <2>3, <3>1
      <4>2. i = Len(history) /\ reading[r].before \in 1..Len(history)
        BY <1>1, <1>3, <1>8, <1>9, <2>3, <3>1, <4>1
      <4> QED BY <1>3, <1>8, <1>9, <2>3, <3>1, <4>1, <4>2
    <3> QED BY <1>5, <3>1
  <2> QED BY <1>9, <2>1, <2>2, <2>3
<1>10. ASSUME NEW q \in Reader, HashBefore(q) \/ Select(q) \/ Refused(q) \/ HashAfter(q)
       PROVE  /\ history' = history /\ rows' = rows
              /\ q # r => reading'[r] = reading[r]
              /\ q = r /\ Refused(q) => reading'[r] = Idle
  BY <1>10 DEF HashBefore, Select, Refused, HashAfter, store, StoreType
<1>11. CASE PowerLoss
  <2>1. reading'[r] = reading[r] \/ reading'[r] = Idle
    BY <1>11 DEF PowerLoss
  <2> QED BY <1>4, <1>5, <2>1
<1>12. CASE reading' = reading
  BY <1>4, <1>12
<1> QED BY <1>4, <1>5, <1>9, <1>10, <1>11, <1>12 DEF Next, Step, Evaluate, LookAtVersion, CreateTable,
        SetVersion, Insert, Commit, Report, Fails, Kill, Query, vars

\* What was stored, told and projected agrees with the transactions that were committed, whoever
\* fails, is killed or reads in between.
THEOREM StoreInductive == Spec => []ProjectInv
<1>1. ProjectInv /\ [Next]_vars => ProjectInv'
  BY StepType, StepStore, StepEvaluated, StepTold, StepReading DEF ProjectInv
<1> QED BY <1>1, StoreStart, PTL DEF Spec

----------------------------------------------------------------------------
(* What the invariant says of the store *)

\* "Atomically persist one immutable experiment run": the INSERT of a transaction is of a run id
\* that no row bears, and nothing else changes a row.
THEOREM RowsStay == Spec => RunsAreImmutable
<1>1. ProjectInv /\ ProjectInv' /\ [Next]_vars
         => [rows \subseteq rows' /\ \A a, b \in rows' : a.run = b.run => a = b]_vars
  <2> SUFFICES ASSUME ProjectInv, ProjectInv', [Next]_vars
               PROVE  rows \subseteq rows' /\ \A a, b \in rows' : a.run = b.run => a = b
    OBVIOUS
  <2>1. rows \subseteq rows'
    BY FileKept
  <2>2. \A a, b \in rows' : a.run = b.run => a = b
    BY DEF ProjectInv, StoreInv
  <2> QED BY <2>1, <2>2
<1> QED BY <1>1, StoreInductive, PTL DEF Spec, RunsAreImmutable

\* Report writes, and main exits with 0 or 1, only after the commit; a query reads committed rows.
THEOREM TellingIsStoring == Spec => []ToldIsStored
<1>1. ProjectInv => ToldIsStored
  BY DEF ProjectInv, ToldInv, ToldIsStored
<1> QED BY <1>1, StoreInductive, PTL

\* load_sqlite_runs_read_only hashes the file before and after it selects the rows, and refuses
\* all of them for one that does not verify.
THEOREM ProjectionsAreInstants == Spec => []ProjectionIsOneInstant
<1>1. ProjectInv => ProjectionIsOneInstant
  BY DEF ProjectInv, ReadingInv, ProjectionIsOneInstant
<1> QED BY <1>1, StoreInductive, PTL

\* Where the gate passes, the treatment is always right and the baseline is not.
LEMMA PartIsLess ==
  ASSUME NEW n \in Nat, n > 0, NEW k \in Nat, k < n
  PROVE  (100 * k) \div n < 100 /\ (100 * n) \div n = 100
<1>1. (100 * n) \div n = 100
  OBVIOUS
<1>2. (100 * k) \div n < 100
  OBVIOUS
<1> QED BY <1>1, <1>2

LEMMA Beaten ==
  ASSUME NEW S, IsFiniteSet(S), S # {}, NEW B \in SUBSET S, B # {}
  PROVE  Accuracy({}, S) - Accuracy(B, S) > 0
<1>1. /\ Cardinality(S) \in Nat /\ Cardinality(S) > 0
      /\ Cardinality(B) \in Nat /\ Cardinality(B) > 0 /\ Cardinality(B) <= Cardinality(S)
      /\ Cardinality({}) = 0
  BY FS_EmptySet, FS_Subset, FS_CardinalityType
<1> DEFINE n == Cardinality(S)
           k == Cardinality(S) - Cardinality(B)
<1>2. n \in Nat /\ n > 0 /\ k \in Nat /\ k < n /\ n - 0 = n
  BY <1>1
<1>3. Accuracy({}, S) = (100 * n) \div n /\ Accuracy(B, S) = (100 * k) \div n
  BY <1>1, <1>2 DEF Accuracy
<1> HIDE DEF n, k
<1>4. (100 * k) \div n < 100 /\ (100 * n) \div n = 100 /\ (100 * k) \div n \in Int
  BY <1>2, PartIsLess
<1> QED BY <1>3, <1>4

LEMMA PassBeatsBaseline ==
  ASSUME NEW c \in Command, Evaluable(c), Result(c).status = "PASS"
  PROVE  Result(c).treatment - Result(c).baseline > 0
<1>1. IsFiniteSet(c.suite.cases)
  BY SuiteAssumption
<1>2. CASE c.kind = "historical"
  <2> DEFINE baseline == {d \in c.suite.cases : ConfidenceOnly(d) # d.accept}
             gate == {d \in c.suite.cases : ConstraintGate(d) # d.accept}
             traps == Cardinality(Traps(c.suite))
  <2>1. Result(c) = [baseline |-> Accuracy(baseline, c.suite.cases),
                     treatment |-> Accuracy(gate, c.suite.cases), integration |-> "none",
                     status |-> PassIf(/\ Cardinality(baseline) = traps /\ gate = {}
                                       /\ traps = Cardinality(c.suite.cases) - traps
                                       /\ traps = Cardinality(c.suite.mechanisms))]
    BY <1>2 DEF Result, HistoricalResult
  <2>2. /\ Cardinality(baseline) = traps /\ gate = {} /\ traps = Cardinality(c.suite.mechanisms)
    BY <2>1 DEF PassIf
  <2>3. IsFiniteSet(c.suite.mechanisms) /\ c.suite.mechanisms # {}
    BY <1>2, SuiteAssumption DEF Evaluable, ValidHistoricalCases
  <2>4. baseline \in SUBSET c.suite.cases /\ baseline # {} /\ c.suite.cases # {}
    <3>1. Cardinality(c.suite.mechanisms) # 0
      BY <2>3, FS_EmptySet
    <3>2. Cardinality({}) = 0
      BY FS_EmptySet
    <3> QED BY <2>2, <3>1, <3>2
  <2>5. Result(c).treatment = Accuracy({}, c.suite.cases)
        /\ Result(c).baseline = Accuracy(baseline, c.suite.cases)
    BY <2>1, <2>2
  <2> HIDE DEF baseline
  <2> QED BY <1>1, <2>4, <2>5, Beaten
<1>3. CASE c.kind # "historical"
  <2> DEFINE baseline == {d \in c.suite.cases : NaiveAnyDone(d) # d.close}
             guard == {d \in c.suite.cases : ClosureGuard(d, SpecOf(c)) # d.close}
  <2>1. Result(c) = [baseline |-> Accuracy(baseline, c.suite.cases),
                     treatment |-> Accuracy(guard, c.suite.cases), integration |-> PassIf(guard = {}),
                     status |-> PassIf(baseline # {} /\ guard = {})]
    BY <1>3 DEF Result, ClosureResult
  <2>2. baseline # {} /\ guard = {} /\ baseline \in SUBSET c.suite.cases
    BY <2>1 DEF PassIf
  <2>3. c.suite.cases # {}
    BY <2>2
  <2>4. Result(c).treatment = Accuracy({}, c.suite.cases)
        /\ Result(c).baseline = Accuracy(baseline, c.suite.cases)
    BY <2>1, <2>2
  <2> HIDE DEF baseline
  <2> QED BY <1>1, <2>2, <2>3, <2>4, Beaten
<1> QED BY <1>2, <1>3

\* A run that fails the integration fails the gate.
LEMMA OneVerdict ==
  ASSUME NEW c \in Command
  PROVE  /\ Result(c).status \in {"PASS", "FAIL"}
         /\ Terminal(Row(c)) = Result(c).status
<1>1. CASE c.kind = "historical"
  BY <1>1 DEF Result, HistoricalResult, PassIf, Terminal, Row
<1>2. CASE c.kind # "historical"
  BY <1>2 DEF Result, ClosureResult, PassIf, Terminal, Row
<1> QED BY <1>1, <1>2

\* ExitCode of evaluation_lab.py and compute_quality_delta of qa3.py judge one run alike; where they
\* pass it, the treatment beats the baseline.
THEOREM DeltasAgree == Spec => []DeltaAgreesWithExit
<1>1. ProjectInv => DeltaAgreesWithExit
  <2> SUFFICES ASSUME ProjectInv, NEW r \in Reader, Phase(r, "done")
               PROVE  /\ \A c \in Command : /\ c.stores /\ ~c.allows /\ exit[c] \in {0, 1}
                                            /\ Row(c) \in reading[r].rows
                             => (exit[c] = 1) = (AccuracyDelta(Row(c)).status = "FAIL")
                      /\ \A row \in reading[r].rows : \A gain \in AccuracyDelta(row).delta : gain > 0
    BY DEF DeltaAgreesWithExit
  <2>1. ASSUME NEW c \in Command, ~c.allows, exit[c] \in {0, 1}
        PROVE  (exit[c] = 1) = (AccuracyDelta(Row(c)).status = "FAIL")
    <3>1. exit[c] = IF Result(c).status # "PASS" THEN 1 ELSE 0
      BY <2>1 DEF ProjectInv, ToldInv, ExitCode
    <3>2. AccuracyDelta(Row(c)).status = Result(c).status
      BY OneVerdict DEF AccuracyDelta
    <3> QED BY <3>1, <3>2, OneVerdict
  <2>2. ASSUME NEW row \in reading[r].rows, NEW gain \in AccuracyDelta(row).delta PROVE gain > 0
    <3>1. PICK c \in Command : row = Row(c) /\ Evaluable(c)
      BY DEF ProjectInv, ReadingInv, EvaluatedInv
    <3>2. Terminal(Row(c)) = "PASS" /\ gain = Row(c).result.treatment - Row(c).result.baseline
      BY <2>2, <3>1 DEF AccuracyDelta
    <3>3. Row(c).result = Result(c)
      BY DEF Row
    <3> QED BY <3>1, <3>2, <3>3, OneVerdict, PassBeatsBaseline
  <2> QED BY <2>1, <2>2
<1> QED BY <1>1, StoreInductive, PTL

=============================================================================
