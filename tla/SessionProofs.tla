---------------------------- MODULE SessionProofs ----------------------------
(***************************************************************************)
(* Proofs about consoles, for any number of them and whatever is killed.     *)
(* First ConsoleLock by itself: LockInv is inductive.  Then ConsoleSessions,  *)
(* which runs the commands of ManualExecution under that lock: what the       *)
(* database keeps however sessions overlap, and that each change of it is one  *)
(* whole command while they do not.                                          *)
(***************************************************************************)
EXTENDS ConsoleSessions, ManualExecutionProofs

-----------------------------------------------------------------------------
(* The lock *)

\* No console runs at first.
LEMMA InitLockInv == LockInit => LockInv
BY NoPidAssumption DEF LockInit, LockInv, LockTypeOK, Steps, Starting, Holding

\* Every file operation of every console, and every kill, keeps the invariant.
LEMMA NextLockInv == LockInv /\ [LockNext]_lockVars => LockInv'
<1> SUFFICES ASSUME LockInv, [LockNext]_lockVars PROVE LockInv'
  OBVIOUS
<1>1. LockTypeOK'
  <2>1. LockTypeOK
    BY DEF LockInv
  <2>2. ASSUME NEW p \in Procs, Read(p) PROVE LockTypeOK'
    BY <2>1, <2>2 DEF LockTypeOK, Read, Steps, AloneStarting
  <2>3. ASSUME NEW p \in Procs, Enter(p) PROVE LockTypeOK'
    BY <2>1, <2>3
    DEF LockTypeOK, Enter, Refuse, TakeOver, Stage, Replace, Steps
  <2>4. ASSUME NEW p \in Procs, \/ Leave(p) \/ Unlink(p) \/ Kill(p)
                                \/ Reuse(p) \/ Vacate(p)
        PROVE  LockTypeOK'
    BY <2>1, <2>4
    DEF LockTypeOK, Leave, Unlink, Kill, Reuse, Vacate, Steps
  <2>5. CASE UNCHANGED lockVars
    BY <2>1, <2>5 DEF LockTypeOK, lockVars
  <2>6. QED
    BY <2>2, <2>3, <2>4, <2>5 DEF LockNext
<1> USE NoPidAssumption DEF Starting, Holding
<1>2. ASSUME NEW p \in Procs, Read(p) PROVE LockInv'
  <2>1. /\ pc' = [pc EXCEPT ![p] = "check"] /\ seen' = [seen EXCEPT ![p] = file]
        /\ ~overlapped' => ~overlapped /\ AloneStarting(p)
        /\ UNCHANGED <<file, temp>>
    BY <1>2 DEF Read
  <2>2. QED
    BY <1>1, <2>1 DEF LockInv, LockTypeOK, AloneStarting
<1>3. ASSUME NEW p \in Procs, Refuse(p) PROVE LockInv'
  BY <1>1, <1>3 DEF LockInv, LockTypeOK, Refuse
<1>4. ASSUME NEW p \in Procs, TakeOver(p) PROVE LockInv'
  BY <1>1, <1>4
  DEF LockInv, LockTypeOK, TakeOver, OtherAlive, Alive
<1>5. ASSUME NEW p \in Procs, Stage(p) PROVE LockInv'
  BY <1>1, <1>5 DEF LockInv, LockTypeOK, Stage
<1>6. ASSUME NEW p \in Procs, Replace(p) PROVE LockInv'
  BY <1>1, <1>6 DEF LockInv, LockTypeOK, Replace
<1>7. ASSUME NEW p \in Procs, Leave(p) PROVE LockInv'
  BY <1>1, <1>7 DEF LockInv, LockTypeOK, Leave
<1>8. ASSUME NEW p \in Procs, Unlink(p), ExclusiveUnlessOverlapped
      PROVE  LockInv'
  BY <1>1, <1>8
  DEF LockInv, LockTypeOK, Unlink, ExclusiveUnlessOverlapped
<1>9. ASSUME NEW p \in Procs, Kill(p) PROVE LockInv'
  BY <1>1, <1>9 DEF LockInv, LockTypeOK, Kill, Alive
<1>10. ASSUME NEW p \in Procs, Reuse(p) \/ Vacate(p) PROVE LockInv'
  BY <1>1, <1>10 DEF LockInv, Reuse, Vacate
<1>11. CASE UNCHANGED lockVars
  BY <1>1, <1>11 DEF LockInv, lockVars
<1>12. ExclusiveUnlessOverlapped
  BY DEF LockInv, ExclusiveUnlessOverlapped
<1>13. QED
  BY <1>2, <1>3, <1>4, <1>5, <1>6, <1>7, <1>8, <1>9, <1>10, <1>11, <1>12
  DEF LockNext, Enter

\* The lock's invariant holds throughout.
THEOREM LockInvariant == LockSpec => []LockInv
BY InitLockInv, NextLockInv, PTL DEF LockSpec

\* Two consoles never run at once unless their starts overlapped.
THEOREM Exclusive == LockSpec => []ExclusiveUnlessOverlapped
<1>1. LockInv => ExclusiveUnlessOverlapped
  BY DEF LockInv, ExclusiveUnlessOverlapped
<1>2. QED
  BY <1>1, LockInvariant, PTL

-----------------------------------------------------------------------------
(* The invariant of the sessions *)

\* A job under way.
Job == [step : {"sum", "write"}, cmd : Commands, order : Order, filled : Nat]

Under(p) == job[p].step \in {"sum", "write"}

\* A command is carried out by a console that runs, on an order that had a row
\* when it was read, or on an executable recommendation without one.
JobOK(p) ==
  LET r == job[p].cmd.rec
  IN  \/ job[p] \in {Idle, Done}
      \/ /\ job[p] \in Job
         /\ pc[p] = "run"
         /\ IF job[p].order = NoOrder THEN Executable(r) /\ job[p].step = "write"
            ELSE HasOrder(r)

\* What it has read is still so.
Fresh(p) ==
  LET j == job[p]
      r == j.cmd.rec
  IN  /\ j.order = order[r]
      /\ Admits(j.cmd, OrderFor(r))
      /\ (HasOrder(r) /\ j.step = "write" /\ j.cmd.kind # "cancel") => j.filled = filled[r]

\* Holds however sessions overlap.
DataInv ==
  /\ BookOK
  /\ NegativeCashHasASellFee
  /\ OnlyApprovedIsExecuted
  /\ \A r \in Recs : ~HasOrder(r) => order[r] = NoOrder

SessionInv ==
  /\ LockInv
  /\ DataInv
  /\ job \in [Procs -> {Idle, Done} \cup Job]
  /\ \A p \in Procs : JobOK(p)
  /\ ~overlapped => /\ IInv
                    /\ \A p \in Procs : Under(p) => Fresh(p)

\* Orders stay, and so does what may be executed.
OrdersStay ==
  \A r \in Recs : (HasOrder(r) => HasOrder(r)') /\ (Executable(r) => Executable(r)')

LEMMA CommandFacts ==
  ASSUME NEW c \in Commands
  PROVE  /\ c.rec \in Recs
         /\ \/ c.kind = "fill" /\ c.fill \in Submission /\ c.fill.rec = c.rec
            \/ c.kind = "cancel"
            \/ c.kind = "modify" /\ c.qty \in Quantities
<1>1. \A x \in Submission : x.rec \in Recs
  BY DEF Submission
<1>2. QED
  BY <1>1 DEF Commands

LEMMA JobFacts ==
  ASSUME NEW j \in Job
  PROVE  /\ j.step \in {"sum", "write"} /\ j.cmd \in Commands /\ j.order \in Order
         /\ j.filled \in Nat /\ j.cmd.rec \in Recs
         /\ j \notin {Idle, Done}
BY CommandFacts DEF Job, Idle, Done

LEMMA NoOrderType == NoOrder \in Order /\ NoOrder.status = "NONE"
BY DEF NoOrder, Order, OrderStatus

-----------------------------------------------------------------------------
(* What each write does to the data, whatever was read *)

LEMMA StutterData ==
  ASSUME DataInv, UNCHANGED vars
  PROVE  DataInv' /\ OrdersStay
BY DEF DataInv, BookOK, TypeOK, UniqueKeys, NegativeCashHasASellFee,
       OnlyApprovedIsExecuted, OrdersStay, HasOrder, Executable, vars

LEMMA TickData ==
  ASSUME DataInv, Tick
  PROVE  DataInv' /\ OrdersStay
<1>1. today' \in Dates
  BY BoundsAssumption DEF Tick, DataInv, BookOK, TypeOK, Dates
<1>2. UNCHANGED <<review, order, filled, fills, cashEvents, positions, cash>>
  BY DEF Tick, ledgerVars
<1>3. QED
  BY <1>1, <1>2
  DEF DataInv, BookOK, TypeOK, UniqueKeys, NegativeCashHasASellFee,
      OnlyApprovedIsExecuted, OrdersStay, HasOrder, Executable

\* A decision is made once, so an accepted recommendation stays accepted.
LEMMA ReviewData ==
  ASSUME DataInv, NEW r \in Recs, ReviewFromConsole(r)
  PROVE  DataInv' /\ OrdersStay
<1>1. PICK decision \in ReviewStatus \ {"pending"} :
        review[r] = "pending" /\ review' = [review EXCEPT ![r] = decision]
  BY DEF ReviewFromConsole, MayDecide
<1>2. UNCHANGED <<today, order, filled, fills, cashEvents, positions, cash>>
  BY DEF ReviewFromConsole, ledgerVars
<1>3. review \in [Recs -> ReviewStatus]
  BY DEF DataInv, BookOK, TypeOK
<1>4. OrdersStay
  BY <1>1, <1>2, <1>3 DEF OrdersStay, HasOrder, Executable
<1>5. BookOK'
  BY <1>1, <1>2 DEF DataInv, BookOK, TypeOK, UniqueKeys
<1>6. OnlyApprovedIsExecuted'
  <2>1. \A x \in fills : x.rec \in Recs
    BY DEF DataInv, BookOK, TypeOK, Fill
  <2>2. QED
    BY <1>2, <1>4, <2>1 DEF DataInv, OnlyApprovedIsExecuted, OrdersStay, HasOrder
<1>7. QED
  BY <1>2, <1>4, <1>5, <1>6 DEF DataInv, NegativeCashHasASellFee, HasOrder

\* A stored order is rewritten, or a new one inserted for an executable
\* recommendation.
LEMMA OrderData ==
  ASSUME DataInv, NEW r \in Recs, NEW o \in Order, o.status # "NONE",
         Executable(r), order' = [order EXCEPT ![r] = o],
         UNCHANGED <<today, review, ledgerVars, positions, cash>>
  PROVE  DataInv' /\ OrdersStay
<1>1. order \in [Recs -> Order]
  BY DEF DataInv, BookOK, TypeOK
<1>2. order'[r] = o /\ \A s \in Recs : s # r => order'[s] = order[s]
  BY <1>1
<1>3. UNCHANGED <<filled, fills, cashEvents>>
  BY DEF ledgerVars
<1>4. OrdersStay
  BY <1>2 DEF OrdersStay, HasOrder, Executable
<1>5. BookOK'
  BY <1>1, <1>3 DEF DataInv, BookOK, TypeOK, UniqueKeys
<1>6. OnlyApprovedIsExecuted'
  <2>1. \A x \in fills : x.rec \in Recs
    BY DEF DataInv, BookOK, TypeOK, Fill
  <2>2. QED
    BY <1>2, <1>3, <1>4, <2>1
    DEF DataInv, OnlyApprovedIsExecuted, OrdersStay, HasOrder, Executable
<1>7. QED
  BY <1>2, <1>3, <1>4, <1>5, <1>6 DEF DataInv, NegativeCashHasASellFee, HasOrder

\* The same with a fill: what is checked under the write lock is enough.
LEMMA FillData ==
  ASSUME DataInv, NEW x \in Submission, NEW o \in Order, o.status # "NONE",
         Executable(x.rec), order' = [order EXCEPT ![x.rec] = o],
         NewFill(x), ApplyTrade(x), fills' = fills \cup {x},
         filled' = [filled EXCEPT ![x.rec] = filled[x.rec] + x.qty],
         UNCHANGED <<today, review, cashEvents>>
  PROVE  DataInv' /\ OrdersStay
<1> DEFINE r == x.rec
<1>1. order \in [Recs -> Order] /\ r \in Recs
  BY SubmissionIsFill, GrossType DEF DataInv, BookOK, TypeOK
<1>2. order'[r] = o /\ \A s \in Recs : s # r => order'[s] = order[s]
  BY <1>1
<1>3. OrdersStay
  BY <1>1, <1>2 DEF OrdersStay, HasOrder, Executable
<1>4. BookOK' /\ NegativeCashHasASellFee'
  <2>1. order' \in [Recs -> Order]
    BY <1>1
  <2>2. SideOf[x.rec] # "NONE"
    BY DEF Executable
  <2>3. QED
    BY <2>1, <2>2, FillKeepsBook DEF DataInv
<1>5. OnlyApprovedIsExecuted'
  <2>1. \A y \in fills : y.rec \in Recs
    BY DEF DataInv, BookOK, TypeOK, Fill
  <2>2. HasOrder(r)' /\ Executable(r)'
    BY <1>2 DEF HasOrder, Executable
  <2>3. \A s \in Recs : HasOrder(s)' => Executable(s)'
    BY <1>2, <1>3, <2>2 DEF DataInv, OnlyApprovedIsExecuted, OrdersStay, HasOrder
  <2>4. \A y \in fills' : HasOrder(y.rec)'
    BY <1>3, <2>1, <2>2 DEF DataInv, OnlyApprovedIsExecuted, OrdersStay
  <2>5. QED
    BY <2>3, <2>4 DEF OnlyApprovedIsExecuted
<1>6. QED
  BY <1>1, <1>2, <1>3, <1>4, <1>5 DEF DataInv, HasOrder

\* A process that works on a command has a job of the kind SessionInv gives.
LEMMA WorkingFacts ==
  ASSUME SessionInv, NEW p \in Procs, Under(p)
  PROVE  /\ job[p] \in Job
         /\ pc[p] = "run"
         /\ job[p].cmd.rec \in Recs
         /\ Executable(job[p].cmd.rec)
         /\ job[p].order = NoOrder => job[p].step = "write"
         /\ job[p].order # NoOrder => HasOrder(job[p].cmd.rec)
<1>1. job[p] \notin {Idle, Done}
  BY DEF Under, Idle, Done
<1>2. JobOK(p) /\ OnlyApprovedIsExecuted
  BY DEF SessionInv, DataInv
<1>3. job[p] \in Job
  BY <1>1, <1>2 DEF JobOK
<1>4. QED
  BY <1>1, <1>2, <1>3, JobFacts DEF JobOK, OnlyApprovedIsExecuted

LEMMA OrderForType ==
  ASSUME DataInv, NEW r \in Recs
  PROVE  OrderFor(r) \in Order /\ OrderFor(r).status # "NONE"
BY NewOrderType DEF DataInv, BookOK, TypeOK, OrderFor, HasOrder

\* The command that also inserts the order.
LEMMA NewOrderData ==
  ASSUME DataInv, NEW c \in Commands, Executable(c.rec), WriteNewOrder(c)
  PROVE  DataInv' /\ OrdersStay
<1> DEFINE r == c.rec
           d == OrderFor(r)
<1>1. r \in Recs /\ d \in Order /\ d.status # "NONE"
  BY CommandFacts, OrderForType
<1>2. CASE c.kind = "fill" /\ RecordFill(c.fill)
  <2> DEFINE x == c.fill
             o == [d EXCEPT !.status =
                     IF filled[r] + x.qty = d.approved THEN "FILLED" ELSE "PARTIAL"]
  <2>1. x \in Submission /\ x.rec = r
    BY <1>2, CommandFacts
  <2>2. o \in Order /\ o.status # "NONE"
    BY <1>1 DEF Order, OrderStatus
  <2>3. /\ NewFill(x) /\ ApplyTrade(x) /\ fills' = fills \cup {x}
        /\ filled' = [filled EXCEPT ![r] = filled[r] + x.qty]
        /\ order' = [order EXCEPT ![r] = o]
        /\ UNCHANGED <<today, review, cashEvents>>
    BY <1>2, <2>1 DEF RecordFill
  <2> HIDE DEF o, x
  <2>4. QED
    BY <2>1, <2>2, <2>3, FillData
<1>3. CASE c.kind = "cancel" /\ Cancel(r)
  <2> DEFINE o == [d EXCEPT !.status = "CANCELLED"]
  <2>1. o \in Order /\ o.status # "NONE"
    BY <1>1 DEF Order, OrderStatus
  <2>2. /\ order' = [order EXCEPT ![r] = o]
        /\ UNCHANGED <<today, review, ledgerVars, positions, cash>>
    BY <1>3 DEF Cancel
  <2> HIDE DEF o
  <2>3. QED
    BY <1>1, <2>1, <2>2, OrderData
<1>4. CASE c.kind = "modify" /\ ModifyQuantity(r, c.qty)
  <2> DEFINE q == c.qty
             o == [d EXCEPT !.approved = q,
                     !.status = IF q = filled[r] THEN "FILLED" ELSE "MODIFIED"]
  <2>1. q \in Nat
    BY <1>4, CommandFacts, BoundsAssumption
  <2>2. o \in Order /\ o.status # "NONE"
    BY <1>1, <2>1 DEF Order, OrderStatus
  <2>3. /\ order' = [order EXCEPT ![r] = o]
        /\ UNCHANGED <<today, review, ledgerVars, positions, cash>>
    BY <1>4 DEF ModifyQuantity
  <2> HIDE DEF o
  <2>4. QED
    BY <1>1, <2>2, <2>3, OrderData
<1>5. QED
  BY <1>2, <1>3, <1>4 DEF WriteNewOrder

\* The command on an order that was read before.
LEMMA StoredOrderData ==
  ASSUME DataInv, NEW j \in Job, HasOrder(j.cmd.rec), Executable(j.cmd.rec),
         \/ j.cmd.kind = "fill" /\ WriteFill(j)
         \/ j.cmd.kind = "cancel" /\ WriteCancel(j)
         \/ j.cmd.kind = "modify" /\ WriteModify(j)
  PROVE  DataInv' /\ OrdersStay
<1> DEFINE r == j.cmd.rec
           d == order[r]
<1>1. /\ j.cmd \in Commands /\ r \in Recs /\ j.order \in Order /\ j.filled \in Nat
      /\ order \in [Recs -> Order] /\ d \in Order /\ d.status # "NONE"
  BY JobFacts DEF DataInv, BookOK, TypeOK, HasOrder
<1>2. CASE j.cmd.kind = "fill" /\ WriteFill(j)
  <2> DEFINE x == j.cmd.fill
             u == Updated(IF j.filled + x.qty = j.order.approved THEN "FILLED" ELSE "PARTIAL",
                          j.order.status, d.status)
             o == [d EXCEPT !.status = u]
  <2>1. x \in Submission /\ x.rec = r
    BY <1>1, <1>2, CommandFacts
  <2>2. o \in Order /\ o.status # "NONE"
    <3>1. u \in OrderStatus \ {"NONE"}
      BY <1>1 DEF Order, OrderStatus, Updated
    <3> HIDE DEF u
    <3>2. QED
      BY <1>1, <3>1 DEF Order
  <2>3. /\ NewFill(x) /\ ApplyTrade(x) /\ fills' = fills \cup {x}
        /\ filled' = [filled EXCEPT ![r] = filled[r] + x.qty]
        /\ order' = [order EXCEPT ![r] = o]
        /\ UNCHANGED <<today, review, cashEvents>>
    BY <1>1, <1>2, <2>1 DEF WriteFill, Unrecorded
  <2> HIDE DEF o, x
  <2>4. QED
    BY <2>1, <2>2, <2>3, FillData
<1>3. CASE j.cmd.kind = "cancel" /\ WriteCancel(j)
  <2> DEFINE u == Updated("CANCELLED", j.order.status, d.status)
             o == [d EXCEPT !.status = u]
  <2>1. o \in Order /\ o.status # "NONE"
    <3>1. u \in OrderStatus \ {"NONE"}
      BY <1>1 DEF Order, OrderStatus, Updated
    <3> HIDE DEF u
    <3>2. QED
      BY <1>1, <3>1 DEF Order
  <2>2. /\ order' = [order EXCEPT ![r] = o]
        /\ UNCHANGED <<today, review, ledgerVars, positions, cash>>
    BY <1>1, <1>3 DEF WriteCancel
  <2> HIDE DEF o
  <2>3. QED
    BY <1>1, <2>1, <2>2, OrderData
<1>4. CASE j.cmd.kind = "modify" /\ WriteModify(j)
  <2> DEFINE q == j.cmd.qty
             u == Updated(IF q = j.filled THEN "FILLED" ELSE "MODIFIED",
                          j.order.status, d.status)
             a == Updated(q, j.order.approved, d.approved)
             o == [d EXCEPT !.status = u, !.approved = a]
  <2>1. q \in Nat
    BY <1>1, <1>4, CommandFacts, BoundsAssumption
  <2>2. u \in OrderStatus \ {"NONE"} /\ a \in Nat
    BY <1>1, <2>1 DEF Order, OrderStatus, Updated
  <2>3. /\ order' = [order EXCEPT ![r].status = u, ![r].approved = a]
        /\ UNCHANGED <<today, review, ledgerVars, positions, cash>>
    BY <1>1, <1>4 DEF WriteModify
  <2> HIDE DEF u, a
  <2>4. order' = [order EXCEPT ![r] = o]
    BY <1>1, <2>3
  <2>5. o \in Order /\ o.status # "NONE"
    BY <1>1, <2>2 DEF Order
  <2> HIDE DEF o
  <2>6. QED
    BY <1>1, <2>3, <2>4, <2>5, OrderData
<1>5. QED
  BY <1>2, <1>3, <1>4

LEMMA WriteData ==
  ASSUME SessionInv, NEW p \in Procs, Write(p)
  PROVE  DataInv' /\ OrdersStay
<1> DEFINE j == job[p]
<1>1. Under(p) /\ DataInv
  BY DEF Write, Working, Under, SessionInv
<1>2. /\ j \in Job /\ j.cmd \in Commands /\ Executable(j.cmd.rec)
      /\ j.order # NoOrder => HasOrder(j.cmd.rec)
  BY <1>1, WorkingFacts, JobFacts
<1>3. CASE j.order = NoOrder
  BY <1>1, <1>2, <1>3, NewOrderData DEF Write
<1>4. CASE j.order # NoOrder
  <2>1. \/ j.cmd.kind = "fill" /\ WriteFill(j)
        \/ j.cmd.kind = "cancel" /\ WriteCancel(j)
        \/ j.cmd.kind = "modify" /\ WriteModify(j)
    BY <1>4 DEF Write
  <2>2. QED
    BY <1>1, <1>2, <1>4, <2>1, StoredOrderData
<1>5. QED
  BY <1>3, <1>4

-----------------------------------------------------------------------------
(* As long as no two starts have overlapped *)

\* One console runs at most.
LEMMA Alone ==
  ASSUME SessionInv, ~overlapped, NEW p \in Procs, NEW q \in Procs,
         pc[p] = "run", pc[q] = "run"
  PROVE  p = q
BY DEF SessionInv, LockInv, Holding

\* What it writes from what it has read is what the command as a whole does.
LEMMA WriteIsCommand ==
  ASSUME SessionInv, ~overlapped, NEW p \in Procs, Write(p)
  PROVE  FillNext
<1> DEFINE j == job[p]
           c == j.cmd
           r == c.rec
           d == order[r]
<1>1. Under(p)
  BY DEF Write, Working, Under
<1>2. /\ j \in Job /\ c \in Commands /\ Executable(r) /\ r \in Recs
      /\ j.order # NoOrder => HasOrder(r)
  BY <1>1, WorkingFacts, JobFacts
<1>3. j.order = d /\ Admits(c, OrderFor(r))
  BY <1>1 DEF SessionInv, Fresh
<1>4. (HasOrder(r) /\ c.kind # "cancel") => j.filled = filled[r]
  BY <1>1 DEF SessionInv, Fresh, Write, Working
<1>5. order \in [Recs -> Order] /\ filled \in [Recs -> Nat]
  BY DEF SessionInv, DataInv, BookOK, TypeOK
<1>6. /\ c.kind = "fill" => c.fill \in Submission /\ c.fill.rec = r
      /\ c.kind = "modify" => c.qty \in Quantities
      /\ c.kind \in {"fill", "cancel", "modify"}
  BY <1>2, CommandFacts DEF Commands
<1>7. CASE j.order = NoOrder
  BY <1>2, <1>6, <1>7 DEF Write, WriteNewOrder, FillNext, FillStep, OrderStep
<1>8. CASE j.order # NoOrder
  <2>1. HasOrder(r) /\ OrderFor(r) = d
    BY <1>2, <1>8 DEF OrderFor
  <2>2. CASE c.kind = "fill" /\ WriteFill(j)
    <3> DEFINE x == c.fill
               status == IF filled[r] + x.qty = d.approved THEN "FILLED" ELSE "PARTIAL"
    <3>1. /\ NewFill(x) /\ d.status \notin ClosedStatus
          /\ x.date >= Earliest[r] /\ x.date \notin ClosedDates
      BY <1>3, <2>1, <2>2 DEF Admits
    <3>2. /\ filled[r] + x.qty <= d.approved
          /\ ApplyTrade(x)
          /\ fills' = fills \cup {x}
          /\ filled' = [filled EXCEPT ![r] = filled[r] + x.qty]
          /\ order' = [order EXCEPT ![r].status = Updated(status, d.status, d.status)]
          /\ UNCHANGED <<today, review, cashEvents>>
      BY <1>2, <1>3, <1>4, <1>5, <1>6, <2>1, <2>2 DEF WriteFill
    <3>3. Updated(status, d.status, d.status) = status
      BY DEF Updated
    <3>4. order' = [order EXCEPT ![r] = [d EXCEPT !.status = status]]
      BY <1>2, <1>5, <3>2, <3>3
    <3>5. RecordFill(x)
      BY <1>2, <1>6, <2>1, <2>2, <3>1, <3>2, <3>4 DEF RecordFill, Fits
    <3>6. QED
      BY <1>6, <2>2, <3>5 DEF FillNext, FillStep
  <2>3. CASE c.kind = "cancel" /\ WriteCancel(j)
    <3>1. d.status # "FILLED"
      BY <1>3, <2>1, <2>3 DEF Admits
    <3>2. Updated("CANCELLED", d.status, d.status) = "CANCELLED"
      BY DEF Updated
    <3>3. /\ order' = [order EXCEPT ![r].status = Updated("CANCELLED", d.status, d.status)]
          /\ UNCHANGED <<today, review, ledgerVars, positions, cash>>
      BY <1>2, <1>3, <1>5, <2>3 DEF WriteCancel
    <3>4. order' = [order EXCEPT ![r] = [d EXCEPT !.status = "CANCELLED"]]
      BY <1>2, <1>5, <3>2, <3>3
    <3>5. Cancel(r)
      BY <2>1, <3>1, <3>3, <3>4 DEF Cancel
    <3>6. QED
      BY <1>2, <3>5 DEF FillNext, OrderStep
  <2>4. CASE c.kind = "modify" /\ WriteModify(j)
    <3> DEFINE q == c.qty
               status == IF q = filled[r] THEN "FILLED" ELSE "MODIFIED"
    <3>1. d.status \notin ClosedStatus /\ q <= d.original
      BY <1>3, <2>1, <2>4 DEF Admits
    <3>2. /\ Updated(status, d.status, d.status) = status
          /\ Updated(q, d.approved, d.approved) = q
      BY DEF Updated
    <3>3. /\ filled[r] <= q
          /\ order' = [order EXCEPT ![r].status = Updated(status, d.status, d.status),
                                   ![r].approved = Updated(q, d.approved, d.approved)]
          /\ UNCHANGED <<today, review, ledgerVars, positions, cash>>
      BY <1>2, <1>3, <1>4, <1>5, <2>1, <2>4 DEF WriteModify
    <3>4. order' = [order EXCEPT ![r] = [d EXCEPT !.approved = q, !.status = status]]
      BY <1>2, <1>5, <3>2, <3>3 DEF Order
    <3>5. ModifyQuantity(r, q)
      BY <2>1, <3>1, <3>3, <3>4 DEF ModifyQuantity
    <3>6. QED
      BY <1>2, <1>6, <2>4, <3>5 DEF FillNext, OrderStep
  <2>5. QED
    BY <1>8, <2>2, <2>3, <2>4 DEF Write
<1>9. QED
  BY <1>7, <1>8

-----------------------------------------------------------------------------
(* Every step of the sessions keeps the invariant *)

LEMMA InitSessionInv == SessionInit => SessionInv
<1> SUFFICES ASSUME SessionInit PROVE SessionInv
  OBVIOUS
<1>1. LockInv /\ IInv
  BY InitLockInv, InitIInv DEF SessionInit
<1>2. DataInv
  BY <1>1, IInvBook DEF SessionInit, Init, IInv, DataInv
<1>3. /\ job \in [Procs -> {Idle, Done} \cup Job]
      /\ \A p \in Procs : job[p] = Idle
  BY DEF SessionInit
<1>4. \A p \in Procs : JobOK(p) /\ ~Under(p)
  BY <1>3 DEF JobOK, Under, Idle
<1>5. QED
  BY <1>1, <1>2, <1>3, <1>4 DEF SessionInv

\* A file operation changes no data and no job but that of a process that ends;
\* what a process reads and writes it does while it runs.
LEMMA LockStepInv ==
  ASSUME SessionInv, LockStep
  PROVE  SessionInv'
<1>1. PICK p \in Procs : \/ Read(p) \/ Enter(p)
                         \/ Leave(p) /\ job[p].step \in {"idle", "done"}
                         \/ Unlink(p) \/ Kill(p)
  BY DEF LockStep
<1>2. /\ job' = [q \in Procs |-> IF pc'[q] = "off" THEN Idle ELSE job[q]]
      /\ UNCHANGED vars
  BY DEF LockStep
<1>3. LockInv'
  BY <1>1, NextLockInv DEF SessionInv, LockNext
<1>4. DataInv' /\ OrdersStay
  BY <1>2, StutterData DEF SessionInv
<1>5. pc \in [Procs -> Steps]
  BY DEF SessionInv, LockInv, LockTypeOK
<1>6. ~overlapped' => ~overlapped
  BY <1>1 DEF Read, Enter, Refuse, TakeOver, Stage, Replace,
              Leave, Unlink, Kill
<1>7. \A q \in Procs : job[q] \in {Idle, Done} \cup Job
  BY DEF SessionInv
<1>8. job' \in [Procs -> {Idle, Done} \cup Job]
  BY <1>2, <1>7
<1>9. ASSUME NEW q \in Procs, job'[q] # Idle, pc[q] = "run", job[q] \in Job
      PROVE  pc'[q] = "run" /\ job'[q] = job[q]
  <2>1. job'[q] = job[q] /\ pc'[q] # "off"
    BY <1>2, <1>9
  <2>2. job[q].step \notin {"idle", "done"}
    BY <1>9, JobFacts
  <2>3. CASE q # p
    BY <1>1, <1>5, <1>9, <2>1, <2>3
    DEF Read, Enter, Refuse, TakeOver, Stage, Replace,
        Leave, Unlink, Kill
  <2>4. CASE q = p
    BY <1>1, <1>5, <1>9, <2>1, <2>2, <2>4
    DEF Read, Enter, Refuse, TakeOver, Stage, Replace,
        Leave, Unlink, Kill
  <2>5. QED
    BY <2>1, <2>3, <2>4
<1>10. ASSUME NEW q \in Procs PROVE JobOK(q)'
  <2>1. job'[q] \in {Idle, job[q]}
    BY <1>2
  <2>2. CASE job'[q] \in {Idle, Done}
    BY <2>2 DEF JobOK
  <2>3. CASE job'[q] \notin {Idle, Done}
    <3>1. job'[q] = job[q] /\ JobOK(q) /\ job[q] \in Job /\ pc[q] = "run"
      BY <2>1, <2>3 DEF SessionInv, JobOK
    <3>2. pc'[q] = "run"
      BY <1>9, <2>3, <3>1
    <3>3. job[q].cmd.rec \in Recs
      BY <3>1, JobFacts
    <3>4. QED
      BY <1>4, <2>3, <3>1, <3>2, <3>3 DEF JobOK, OrdersStay
  <2>4. QED
    BY <2>2, <2>3
<1>11. ASSUME ~overlapped', NEW q \in Procs, Under(q)' PROVE Fresh(q)'
  <2>1. job'[q] = job[q]
    BY <1>2, <1>11 DEF Under, Idle
  <2>2. Under(q) /\ Fresh(q)
    BY <1>6, <1>11, <2>1 DEF SessionInv, Under
  <2>3. QED
    BY <1>2, <2>1, <2>2 DEF Fresh, Admits, NewFill, OrderFor, HasOrder, NewOrder, vars
<1>12. ~overlapped' => IInv'
  BY <1>2, <1>6, StutterStep DEF SessionInv
<1>13. QED
  BY <1>3, <1>4, <1>8, <1>10, <1>11, <1>12 DEF SessionInv

\* A console step that gives one process a new job keeps the jobs in order.
LEMMA JobStep ==
  ASSUME SessionInv, OrdersStay, UNCHANGED lockVars, NEW p \in Procs,
         NEW n \in {Idle, Done} \cup Job, job' = [job EXCEPT ![p] = n],
         n \in Job => /\ pc[p] = "run"
                     /\ IF n.order = NoOrder
                        THEN Executable(n.cmd.rec)' /\ n.step = "write"
                        ELSE HasOrder(n.cmd.rec)'
  PROVE  /\ LockInv'
         /\ job' \in [Procs -> {Idle, Done} \cup Job]
         /\ \A q \in Procs : JobOK(q)'
<1>1. job \in [Procs -> {Idle, Done} \cup Job]
  BY DEF SessionInv
<1>2. job'[p] = n /\ \A q \in Procs : q # p => job'[q] = job[q]
  BY <1>1
<1>3. pc' = pc
  BY DEF lockVars
<1>4. LockInv'
  BY NextLockInv DEF SessionInv, lockVars
<1>5. JobOK(p)'
  BY <1>2, <1>3 DEF JobOK
<1>6. ASSUME NEW q \in Procs, q # p PROVE JobOK(q)'
  <2>1. JobOK(q) /\ job'[q] = job[q]
    BY <1>2, <1>6 DEF SessionInv
  <2>2. CASE job[q] \in {Idle, Done}
    BY <2>1, <2>2 DEF JobOK
  <2>3. CASE job[q] \notin {Idle, Done}
    <3>1. job[q] \in Job
      BY <2>1, <2>3 DEF JobOK
    <3>2. job[q].cmd.rec \in Recs
      BY <3>1, JobFacts
    <3>3. QED
      BY <1>3, <2>1, <2>3, <3>2 DEF JobOK, OrdersStay
  <2>4. QED
    BY <2>2, <2>3
<1>7. job' \in [Procs -> {Idle, Done} \cup Job]
  BY <1>1
<1>8. QED
  BY <1>4, <1>5, <1>6, <1>7

\* A read gives the process a job that is fresh.
LEMMA ReadStep ==
  ASSUME SessionInv, NEW p \in Procs, NEW n \in Job, job' = [job EXCEPT ![p] = n],
         UNCHANGED <<vars, lockVars>>, pc[p] = "run",
         IF n.order = NoOrder THEN Executable(n.cmd.rec) /\ n.step = "write"
         ELSE HasOrder(n.cmd.rec),
         ~overlapped => Fresh(p)'
  PROVE  SessionInv'
<1>1. UNCHANGED vars /\ UNCHANGED lockVars /\ overlapped' = overlapped
  BY DEF lockVars
<1>2. DataInv' /\ OrdersStay
  BY <1>1, StutterData DEF SessionInv
<1>3. n.cmd.rec \in Recs
  BY JobFacts
<1>4. IF n.order = NoOrder THEN Executable(n.cmd.rec)' /\ n.step = "write"
      ELSE HasOrder(n.cmd.rec)'
  BY <1>2, <1>3 DEF OrdersStay
<1>5. /\ LockInv'
      /\ job' \in [Procs -> {Idle, Done} \cup Job]
      /\ \A q \in Procs : JobOK(q)'
  BY <1>1, <1>2, <1>4, JobStep
<1>6. ~overlapped' => IInv'
  BY <1>1, StutterStep DEF SessionInv
<1>7. ASSUME ~overlapped', NEW q \in Procs, Under(q)' PROVE Fresh(q)'
  <2>1. CASE q = p
    BY <1>1, <1>7, <2>1
  <2>2. CASE q # p
    <3>1. job'[q] = job[q]
      BY <2>2 DEF SessionInv
    <3>2. Under(q) /\ Fresh(q)
      BY <1>1, <1>7, <3>1 DEF SessionInv, Under
    <3>3. QED
      BY <1>1, <3>1, <3>2 DEF Fresh, Admits, NewFill, OrderFor, HasOrder, NewOrder, vars
  <2>3. QED
    BY <2>1, <2>2
<1>8. QED
  BY <1>2, <1>5, <1>6, <1>7 DEF SessionInv

LEMMA ReadOrderInv ==
  ASSUME SessionInv, NEW p \in Procs, ReadOrder(p)
  PROVE  SessionInv'
<1>1. PICK c \in Commands :
        /\ HasOrder(c.rec) \/ Executable(c.rec)
        /\ Admits(c, OrderFor(c.rec))
        /\ job' = [job EXCEPT ![p] =
             [step |-> IF HasOrder(c.rec) /\ c.kind # "cancel" THEN "sum" ELSE "write",
              cmd |-> c, order |-> order[c.rec], filled |-> 0]]
  BY DEF ReadOrder
<1> DEFINE n == [step |-> IF HasOrder(c.rec) /\ c.kind # "cancel" THEN "sum" ELSE "write",
                 cmd |-> c, order |-> order[c.rec], filled |-> 0]
<1>2. UNCHANGED vars /\ UNCHANGED lockVars /\ pc[p] = "run"
  BY DEF ReadOrder, Working
<1>3. c.rec \in Recs /\ order[c.rec] \in Order
  BY CommandFacts DEF SessionInv, DataInv, BookOK, TypeOK
<1>4. n \in Job /\ n.order = order[c.rec] /\ n.cmd = c
      /\ n.step = (IF HasOrder(c.rec) /\ c.kind # "cancel" THEN "sum" ELSE "write")
  BY <1>3 DEF Job
<1>5. HasOrder(c.rec) <=> order[c.rec] # NoOrder
  BY <1>3, NoOrderType DEF SessionInv, DataInv, HasOrder
<1>6. job' = [job EXCEPT ![p] = n] /\ job'[p] = n
  BY <1>1 DEF SessionInv
<1> HIDE DEF n
<1>7. Fresh(p)'
  <2>1. /\ n.order = order'[c.rec]
        /\ Admits(c, OrderFor(c.rec))'
        /\ (HasOrder(c.rec)' /\ c.kind # "cancel") => n.step # "write"
    BY <1>1, <1>2, <1>4
    DEF Admits, NewFill, OrderFor, HasOrder, NewOrder, vars
  <2>2. QED
    BY <1>4, <1>6, <2>1 DEF Fresh
<1>8. QED
  BY <1>1, <1>2, <1>4, <1>5, <1>6, <1>7, ReadStep

LEMMA ReadFilledInv ==
  ASSUME SessionInv, NEW p \in Procs, ReadFilled(p)
  PROVE  SessionInv'
<1>1. /\ job[p].step = "sum" /\ pc[p] = "run" /\ Under(p)
      /\ UNCHANGED vars /\ UNCHANGED lockVars
  BY DEF ReadFilled, Working, Under
<1>2. PICK j \in Job : job[p] = j
  BY <1>1, WorkingFacts
<1> DEFINE r == j.cmd.rec
<1>3. r \in Recs /\ j.order # NoOrder /\ HasOrder(r)
  BY <1>1, <1>2, WorkingFacts
<1>4. PICK f \in Nat : f = filled[r]
  BY <1>3 DEF SessionInv, DataInv, BookOK, TypeOK
<1> DEFINE n == [j EXCEPT !.step = "write", !.filled = f]
<1>5. /\ n \in Job /\ n.order = j.order /\ n.cmd = j.cmd
      /\ n.step = "write" /\ n.filled = f
  BY DEF Job
<1>6. job \in [Procs -> {Idle, Done} \cup Job]
  BY DEF SessionInv
<1>7. job' = [job EXCEPT ![p] = n] /\ job'[p] = n
  BY <1>2, <1>4, <1>6 DEF ReadFilled
<1>8. ASSUME ~overlapped PROVE Fresh(p)'
  <2>1. j.order = order[r] /\ Admits(j.cmd, OrderFor(r))
    BY <1>1, <1>2, <1>8 DEF SessionInv, Fresh
  <2>2. j.order = order'[r] /\ Admits(j.cmd, OrderFor(r))' /\ f = filled'[r]
    BY <1>1, <1>4, <2>1 DEF Admits, NewFill, OrderFor, HasOrder, NewOrder, vars
  <2> HIDE DEF n
  <2>3. QED
    BY <1>5, <1>7, <2>2 DEF Fresh
<1> HIDE DEF n
<1>9. QED
  BY <1>1, <1>3, <1>5, <1>7, <1>8, ReadStep

\* A command ends: with a write, a refusal or a review.
LEMMA EndInv ==
  ASSUME SessionInv, NEW p \in Procs, pc[p] = "run", job' = [job EXCEPT ![p] = Done],
         UNCHANGED lockVars, DataInv', OrdersStay,
         ~overlapped => [FillNext]_vars
  PROVE  SessionInv'
<1>1. Done \notin Job
  BY DEF Done, Job
<1>2. /\ LockInv'
      /\ job' \in [Procs -> {Idle, Done} \cup Job]
      /\ \A q \in Procs : JobOK(q)'
  BY <1>1, JobStep
<1>3. overlapped' = overlapped
  BY DEF lockVars
<1>4. ~overlapped' => IInv'
  BY <1>3, NextIInv DEF SessionInv, Next
<1>5. ASSUME ~overlapped', NEW q \in Procs, Under(q)' PROVE FALSE
  <2>1. q # p
    BY <1>5 DEF SessionInv, Under, Done
  <2>2. job'[q] = job[q]
    BY <2>1 DEF SessionInv
  <2>3. pc[q] = "run"
    BY <1>5, <2>2, WorkingFacts DEF Under
  <2>4. QED
    BY <1>3, <1>5, <2>1, <2>3, Alone
<1>6. QED
  BY <1>2, <1>4, <1>5 DEF SessionInv

\* Time passes, or nothing happens.
LEMMA TickInv ==
  ASSUME SessionInv, Tick \/ UNCHANGED vars, UNCHANGED <<lockVars, job>>
  PROVE  SessionInv'
<1>1. DataInv' /\ OrdersStay
  BY TickData, StutterData DEF SessionInv
<1>2. UNCHANGED lockVars /\ overlapped' = overlapped /\ pc' = pc /\ job' = job
  BY DEF lockVars
<1>3. LockInv'
  BY <1>2, NextLockInv DEF SessionInv, lockVars
<1>4. ASSUME NEW q \in Procs PROVE JobOK(q)'
  <2>1. JobOK(q)
    BY DEF SessionInv
  <2>2. job[q] \in Job => job[q].cmd.rec \in Recs
    BY JobFacts
  <2>3. QED
    BY <1>1, <1>2, <2>1, <2>2 DEF JobOK, OrdersStay
<1>5. ~overlapped' => IInv'
  BY <1>2, TickStep, StutterStep DEF SessionInv
<1>6. ASSUME ~overlapped', NEW q \in Procs, Under(q)' PROVE Fresh(q)'
  <2>1. Fresh(q)
    BY <1>2, <1>6 DEF SessionInv, Under
  <2>2. QED
    BY <1>2, <2>1
    DEF Fresh, Admits, NewFill, OrderFor, HasOrder, NewOrder, Tick, ledgerVars, vars
<1>7. QED
  BY <1>1, <1>2, <1>3, <1>4, <1>5, <1>6 DEF SessionInv

LEMMA NextSessionInv == SessionInv /\ [SessionNext]_sessionVars => SessionInv'
<1> SUFFICES ASSUME SessionInv, [SessionNext]_sessionVars PROVE SessionInv'
  OBVIOUS
<1>1. CASE LockStep
  BY <1>1, LockStepInv
<1>2. CASE Tick /\ UNCHANGED <<lockVars, job>>
  BY <1>2, TickInv
<1>3. ASSUME NEW p \in Procs, Write(p) PROVE SessionInv'
  <2>1. DataInv' /\ OrdersStay /\ (~overlapped => FillNext)
    BY <1>3, WriteData, WriteIsCommand
  <2>2. pc[p] = "run" /\ job' = [job EXCEPT ![p] = Done] /\ UNCHANGED lockVars
    BY <1>3 DEF Write, Working
  <2>3. QED
    BY <2>1, <2>2, EndInv
<1>4. ASSUME NEW p \in Procs, Raise(p) PROVE SessionInv'
  <2>1. /\ pc[p] = "run" /\ job' = [job EXCEPT ![p] = Done]
        /\ UNCHANGED lockVars /\ UNCHANGED vars
    BY <1>4 DEF Raise, Working
  <2>2. DataInv' /\ OrdersStay
    BY <2>1, StutterData DEF SessionInv
  <2>3. QED
    BY <2>1, <2>2, EndInv
<1>5. ASSUME NEW p \in Procs, Review(p) PROVE SessionInv'
  <2>1. PICK r \in Recs : ReviewFromConsole(r)
    BY <1>5 DEF Review
  <2>2. /\ pc[p] = "run" /\ job' = [job EXCEPT ![p] = Done] /\ UNCHANGED lockVars
        /\ FillNext
    BY <1>5, <2>1 DEF Review, Working, FillNext, ReviewStep
  <2>3. DataInv' /\ OrdersStay
    BY <2>1, ReviewData DEF SessionInv
  <2>4. QED
    BY <2>2, <2>3, EndInv
<1>6. CASE UNCHANGED sessionVars
  BY <1>6, TickInv DEF sessionVars
<1>7. QED
  BY <1>1, <1>2, <1>3, <1>4, <1>5, <1>6, ReadOrderInv, ReadFilledInv DEF SessionNext

\* The invariant of the sessions holds in every reachable state.
THEOREM SessionInvariant == SessionSpec => []SessionInv
BY InitSessionInv, NextSessionInv, PTL DEF SessionSpec

-----------------------------------------------------------------------------
(* What follows for the user *)

\* No two consoles run at once, in the sessions too, unless starts overlapped.
THEOREM SessionsAreExclusive == SessionSpec => []ExclusiveUnlessOverlapped
<1>1. SessionInv => ExclusiveUnlessOverlapped
  BY DEF SessionInv, LockInv, ExclusiveUnlessOverlapped
<1>2. QED
  BY <1>1, SessionInvariant, PTL

\* However sessions overlap and are killed, the keys stay unique, ...
THEOREM SessionKeysStayUnique == SessionSpec => []UniqueKeys
<1>1. SessionInv => UniqueKeys
  BY DEF SessionInv, DataInv, BookOK
<1>2. QED
  BY <1>1, SessionInvariant, PTL

\* ... cash is negative only after a sell with a fee above its proceeds, ...
THEOREM SessionsFundBuys == SessionSpec => []NegativeCashHasASellFee
<1>1. SessionInv => NegativeCashHasASellFee
  BY DEF SessionInv, DataInv
<1>2. QED
  BY <1>1, SessionInvariant, PTL

\* ... and what is ordered and filled was accepted and passed the gate.
THEOREM SessionsExecuteApproved == SessionSpec => []OnlyApprovedIsExecuted
<1>1. SessionInv => OnlyApprovedIsExecuted
  BY DEF SessionInv, DataInv
<1>2. QED
  BY <1>1, SessionInvariant, PTL

\* What a step of the sessions may do to the ledger: record one new fill, with
\* its trade, under the write lock.
Records(x) ==
  /\ NewFill(x) /\ ApplyTrade(x) /\ SideOf[x.rec] # "NONE"
  /\ fills' = fills \cup {x} /\ cashEvents' = cashEvents
  /\ filled' = [filled EXCEPT ![x.rec] = filled[x.rec] + x.qty]

LEMMA LedgerStep ==
  ASSUME SessionInv, [SessionNext]_sessionVars
  PROVE  \/ UNCHANGED <<fills, filled, cashEvents, cash, positions>>
         \/ \E x \in Submission : Records(x)
<1> DEFINE Same == UNCHANGED <<fills, filled, cashEvents, cash, positions>>
<1>1. ASSUME NEW p \in Procs, Write(p) PROVE Same \/ \E x \in Submission : Records(x)
  <2> DEFINE j == job[p]
             c == j.cmd
  <2>1. Under(p)
    BY <1>1 DEF Write, Working, Under
  <2>2. /\ c \in Commands /\ Executable(c.rec)
        /\ c.kind = "fill" => c.fill \in Submission /\ c.fill.rec = c.rec
    BY <2>1, WorkingFacts, JobFacts, CommandFacts DEF Commands
  <2>3. CASE c.kind = "fill" /\ (RecordFill(c.fill) \/ WriteFill(j))
    <3>1. Records(c.fill)
      BY <2>2, <2>3 DEF Records, RecordFill, WriteFill, Unrecorded, Executable
    <3>2. QED
      BY <2>2, <2>3, <3>1
  <2>4. CASE Cancel(c.rec) \/ ModifyQuantity(c.rec, c.qty) \/ WriteCancel(j) \/ WriteModify(j)
    BY <2>4 DEF Cancel, ModifyQuantity, WriteCancel, WriteModify, ledgerVars
  <2>5. QED
    BY <1>1, <2>3, <2>4 DEF Write, WriteNewOrder
<1>2. ASSUME NEW p \in Procs, ReadOrder(p) \/ ReadFilled(p) \/ Raise(p) \/ Review(p)
      PROVE  Same
  BY <1>2 DEF ReadOrder, ReadFilled, Raise, Review, ReviewFromConsole, vars, ledgerVars
<1>3. CASE Tick \/ LockStep \/ UNCHANGED sessionVars
  BY <1>3 DEF Tick, LockStep, sessionVars, vars, ledgerVars
<1>4. QED
  BY <1>1, <1>2, <1>3 DEF SessionNext

\* However sessions overlap, the balance is what the ledger adds up to, ...
THEOREM SessionBalanceAddsUp == SessionSpec => []BalanceIsLedger
<1>1. SessionInv /\ FiniteLedger /\ BalanceIsLedger /\ [SessionNext]_sessionVars
      => FiniteLedger' /\ BalanceIsLedger'
  <2> SUFFICES ASSUME SessionInv, FiniteLedger, BalanceIsLedger, [SessionNext]_sessionVars
               PROVE  FiniteLedger' /\ BalanceIsLedger'
    OBVIOUS
  <2>1. CASE UNCHANGED <<fills, filled, cashEvents, cash, positions>>
    BY <2>1 DEF FiniteLedger, BalanceIsLedger, CashEffect, Gross
  <2>2. ASSUME NEW x \in Submission, Records(x)
        PROVE  FiniteLedger' /\ BalanceIsLedger'
    BY <2>2, NewRowBalance DEF SessionInv, DataInv, Records, ApplyTrade
  <2>3. QED
    BY <2>1, <2>2, LedgerStep
<1>2. SessionInit => FiniteLedger /\ BalanceIsLedger
  BY InitBalance DEF SessionInit
<1>3. QED
  BY <1>1, <1>2, SessionInvariant, PTL DEF SessionSpec

\* ... an order's filled quantity is the sum of its rows, ...
THEOREM SessionFilledAddsUp == SessionSpec => []FilledIsSumOfRows
<1>1. SessionInv /\ IsFiniteSet(fills) /\ FilledIsSumOfRows /\ [SessionNext]_sessionVars
      => IsFiniteSet(fills)' /\ FilledIsSumOfRows'
  <2> SUFFICES ASSUME SessionInv, IsFiniteSet(fills), FilledIsSumOfRows,
                      [SessionNext]_sessionVars
               PROVE  IsFiniteSet(fills)' /\ FilledIsSumOfRows'
    OBVIOUS
  <2>1. CASE UNCHANGED <<fills, filled, cashEvents, cash, positions>>
    BY <2>1 DEF FilledIsSumOfRows
  <2>2. ASSUME NEW x \in Submission, Records(x)
        PROVE  IsFiniteSet(fills)' /\ FilledIsSumOfRows'
    BY <2>2, NewRowFilled DEF SessionInv, DataInv, Records
  <2>3. QED
    BY <2>1, <2>2, LedgerStep
<1>2. SessionInit => IsFiniteSet(fills) /\ FilledIsSumOfRows
  BY InitFilled DEF SessionInit
<1>3. QED
  BY <1>1, <1>2, SessionInvariant, PTL DEF SessionSpec

\* ... and a fill moves the holdings by exactly its own trade.
THEOREM SessionFillsMoveTheirTrade == SessionSpec => FillMovesHoldingsByItsTrade
<1> DEFINE Moves ==
      \A x \in fills' \ fills :
       (\E row \in positions' : row.date = x.date) =>
         \A s \in Stocks :
           Held(LatestRows', s) =
             IF s # StockOf[x.rec] THEN Held(LatestRows, s)
             ELSE IF HeldAfter(s, x) = 0 THEN {} ELSE {HeldAfter(s, x)}
<1>1. SessionInv /\ [SessionNext]_sessionVars => [Moves]_vars
  <2> SUFFICES ASSUME SessionInv, [SessionNext]_sessionVars, NEW x \in fills' \ fills,
                      \E row \in positions' : row.date = x.date, NEW s \in Stocks
               PROVE  Held(LatestRows', s) =
                        IF s # StockOf[x.rec] THEN Held(LatestRows, s)
                        ELSE IF HeldAfter(s, x) = 0 THEN {} ELSE {HeldAfter(s, x)}
    OBVIOUS
  <2>1. PICK y \in Submission : Records(y)
    BY LedgerStep
  <2>2. x = y
    BY <2>1 DEF Records
  <2>3. QED
    BY <2>1, <2>2, HoldingsStep DEF Records, SessionInv, DataInv
<1>2. QED
  BY <1>1, SessionInvariant, PTL DEF SessionSpec, FillMovesHoldingsByItsTrade

\* As long as no two starts have overlapped no order is overfilled, and its
\* status is true.
THEOREM SessionsStayWithinApproval ==
  SessionSpec => [](~overlapped => FilledWithinApproval /\ StatusMatchesFills)
<1>1. SessionInv => (~overlapped => FilledWithinApproval /\ StatusMatchesFills)
  BY DEF SessionInv, IInv
<1>2. QED
  BY <1>1, SessionInvariant, PTL

\* Every step of the sessions is, on the data, one whole command.
LEMMA StepIsCommand ==
  ASSUME SessionInv, [SessionNext]_sessionVars, ~overlapped
  PROVE  [FillNext]_vars
<1>1. ASSUME NEW p \in Procs, ReadOrder(p) \/ ReadFilled(p) \/ Raise(p)
      PROVE  UNCHANGED vars
  BY <1>1 DEF ReadOrder, ReadFilled, Raise
<1>2. ASSUME NEW p \in Procs, Write(p) PROVE FillNext
  BY <1>2, WriteIsCommand
<1>3. ASSUME NEW p \in Procs, Review(p) PROVE FillNext
  BY <1>3 DEF Review, FillNext, ReviewStep
<1>4. CASE Tick
  BY <1>4 DEF FillNext
<1>5. CASE LockStep \/ UNCHANGED sessionVars
  BY <1>5 DEF LockStep, sessionVars
<1>6. QED
  BY <1>1, <1>2, <1>3, <1>4, <1>5 DEF SessionNext

\* As long as no two starts have overlapped, every change of the database is one
\* command, executed at once, although it is read piecemeal.
THEOREM SessionsAreAtomic == SessionSpec => AtomicUnlessOverlapped
<1>1. SessionInv /\ [SessionNext]_sessionVars => [overlapped \/ FillNext]_vars
  BY StepIsCommand
<1>2. QED
  BY <1>1, SessionInvariant, PTL DEF SessionSpec, AtomicUnlessOverlapped

\* And so the consoles keep the promise made to the user: each such change is a
\* step of the abstract specification.
THEOREM SessionsKeepPromise ==
  SessionSpec => /\ Promise!AbsInit
                 /\ [][overlapped \/ Promise!AbsNext]_(Promise!absVars)
<1>1. SessionInit => Promise!AbsInit
  BY InitRefines DEF SessionInit
<1>2. SessionInv /\ [SessionNext]_sessionVars
        => [overlapped \/ Promise!AbsNext]_(Promise!absVars)
  <2> SUFFICES ASSUME SessionInv, [SessionNext]_sessionVars, ~overlapped
               PROVE  [Promise!AbsNext]_(Promise!absVars)
    OBVIOUS
  <2>1. IInv /\ [Next]_vars
    BY StepIsCommand DEF SessionInv, Next
  <2>2. QED
    BY <2>1, StepRefines
<1>3. QED
  BY <1>1, <1>2, SessionInvariant, PTL DEF SessionSpec

=============================================================================
