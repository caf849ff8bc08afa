-------------------------- MODULE ConsoleSessions --------------------------
(***************************************************************************)
(* Console commands as the processes that run them: ConsoleLock decides who  *)
(* runs, and a running process executes one command of ManualExecution on    *)
(* the default SQLite database.  The driver opens a transaction at the first *)
(* statement that writes, so what a handler selects before that is read       *)
(* piecemeal and may be old when it is used: the order, and the sum of its    *)
(* fills.  From the first write to the commit the process has the one write   *)
(* lock; what it reads there (snapshot, cash) is current.  The ORM then       *)
(* updates the columns whose value differs from the one it had read.          *)
(*                                                                         *)
(* Abstracted: a review is one step (its decision row is unique per           *)
(* recommendation), and snapshots are entered elsewhere.  PostgreSQL, where   *)
(* writers do not exclude each other, is not modelled.                        *)
(***************************************************************************)
EXTENDS ManualExecution, ConsoleLock

VARIABLE job   \* the command each process runs

sessionVars == <<vars, lockVars, job>>

Commands ==
  {[kind |-> "fill", rec |-> x.rec, fill |-> x] : x \in Submission}
    \cup {[kind |-> "cancel", rec |-> r] : r \in Recs}
    \cup {[kind |-> "modify", rec |-> r, qty |-> q] : r \in Recs, q \in Quantities}

Idle == [step |-> "idle"]
Done == [step |-> "done"]

Working(p, step) == pc[p] = "run" /\ job[p].step = step

SessionInit ==
  /\ Init
  /\ LockInit
  /\ job = [p \in Procs |-> Idle]

-----------------------------------------------------------------------------
(* A process starts, ends or is killed; nothing of its command is kept *)

LockStep ==
  /\ \E p \in Procs : \/ Read(p) \/ Enter(p)
                      \/ Leave(p) /\ job[p].step \in {"idle", "done"}
                      \/ Unlink(p) \/ Kill(p)
  /\ job' = [p \in Procs |-> IF pc'[p] = "off" THEN Idle ELSE job[p]]
  /\ UNCHANGED vars

-----------------------------------------------------------------------------
(* The reads *)

\* What is refused before anything is written, judged by the order read.
Admits(c, o) ==
  CASE c.kind = "fill" -> /\ NewFill(c.fill)
                          /\ o.status \notin ClosedStatus
                          /\ c.fill.date >= Earliest[c.rec]
                          /\ c.fill.date \notin ClosedDates
    [] c.kind = "cancel" -> o.status # "FILLED"
    [] c.kind = "modify" -> o.status \notin ClosedStatus /\ c.qty <= o.original

\* Reads the stored order; without one, ensure_order inserts it, and with that
\* the rest of the command runs under the write lock.
ReadOrder(p) ==
  /\ Working(p, "idle")
  /\ \E c \in Commands :
       /\ HasOrder(c.rec) \/ Executable(c.rec)
       /\ Admits(c, OrderFor(c.rec))
       /\ job' = [job EXCEPT ![p] =
            [step |-> IF HasOrder(c.rec) /\ c.kind # "cancel" THEN "sum" ELSE "write",
             cmd |-> c, order |-> order[c.rec], filled |-> 0]]
  /\ UNCHANGED <<vars, lockVars>>

\* _filled_quantity
ReadFilled(p) ==
  /\ Working(p, "sum")
  /\ job' = [job EXCEPT ![p].step = "write", ![p].filled = filled[job[p].cmd.rec]]
  /\ UNCHANGED <<vars, lockVars>>

-----------------------------------------------------------------------------
(* The write transaction *)

\* Updates a column that differs from what was read.
Updated(new, read, stored) == IF new = read THEN stored ELSE new

\* The unique fill_id refuses a fill recorded since it was looked for.
BugUnrecorded(x) == x \notin fills
Unrecorded(x) == NewFill(x)

WriteFill(j) ==
  LET x == j.cmd.fill
      total == j.filled + x.qty
      status == IF total = j.order.approved THEN "FILLED" ELSE "PARTIAL"
  IN  /\ Unrecorded(x)
      /\ total <= j.order.approved
      /\ ApplyTrade(x)
      /\ fills' = fills \cup {x}
      /\ filled' = [filled EXCEPT ![x.rec] = @ + x.qty]
      /\ order' = [order EXCEPT ![x.rec].status =
                     Updated(status, j.order.status, @)]
      /\ UNCHANGED <<today, review, cashEvents>>

WriteCancel(j) ==
  /\ order' = [order EXCEPT ![j.cmd.rec].status =
                 Updated("CANCELLED", j.order.status, @)]
  /\ UNCHANGED <<today, review, ledgerVars, positions, cash>>

WriteModify(j) ==
  LET q == j.cmd.qty
      status == IF q = j.filled THEN "FILLED" ELSE "MODIFIED"
  IN  /\ j.filled <= q
      /\ order' = [order EXCEPT ![j.cmd.rec].status =
                     Updated(status, j.order.status, @),
                   ![j.cmd.rec].approved = Updated(q, j.order.approved, @)]
      /\ UNCHANGED <<today, review, ledgerVars, positions, cash>>

\* Without a stored order the whole command runs here; the insert of the order
\* fails when another process has inserted it since.
WriteNewOrder(c) ==
  /\ ~HasOrder(c.rec)
  /\ \/ c.kind = "fill" /\ RecordFill(c.fill)
     \/ c.kind = "cancel" /\ Cancel(c.rec)
     \/ c.kind = "modify" /\ ModifyQuantity(c.rec, c.qty)

Write(p) ==
  /\ Working(p, "write")
  /\ LET j == job[p]
     IN  IF j.order = NoOrder THEN WriteNewOrder(j.cmd)
         ELSE \/ j.cmd.kind = "fill" /\ WriteFill(j)
              \/ j.cmd.kind = "cancel" /\ WriteCancel(j)
              \/ j.cmd.kind = "modify" /\ WriteModify(j)
  /\ job' = [job EXCEPT ![p] = Done]
  /\ UNCHANGED lockVars

\* The command raises (a limit, a unique key, a database locked too long) and
\* its transaction is rolled back.
Raise(p) ==
  /\ Working(p, "sum") \/ Working(p, "write")
  /\ job' = [job EXCEPT ![p] = Done]
  /\ UNCHANGED <<vars, lockVars>>

Review(p) ==
  /\ Working(p, "idle")
  /\ \E r \in Recs : ReviewFromConsole(r)
  /\ job' = [job EXCEPT ![p] = Done]
  /\ UNCHANGED lockVars

-----------------------------------------------------------------------------
SessionNext ==
  \/ LockStep
  \/ Tick /\ UNCHANGED <<lockVars, job>>
  \/ \E p \in Procs :
       ReadOrder(p) \/ ReadFilled(p) \/ Write(p) \/ Raise(p) \/ Review(p)

SessionSpec == SessionInit /\ [][SessionNext]_sessionVars

-----------------------------------------------------------------------------
\* What ManualExecution takes for granted: as long as no two starts have
\* overlapped, every change of the database is one of its commands, executed
\* at once, whatever is read piecemeal and whatever is killed.
AtomicUnlessOverlapped == [][overlapped \/ FillNext]_vars

\* UniqueKeys and NegativeCashHasASellFee of ManualExecution hold here whatever
\* overlaps: they rest on unique keys and on what is read under the write lock.  FilledWithinApproval does not.

=============================================================================
