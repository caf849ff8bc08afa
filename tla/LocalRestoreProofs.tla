------------------------- MODULE LocalRestoreProofs -------------------------
(***************************************************************************)
(* Proofs about LocalRestore, for any set of commits and any length of time. *)
(* RestoreInv is inductive: it adds to the safety properties where a start    *)
(* stands, of which the copy it has made is the important part.               *)
(***************************************************************************)
EXTENDS LocalRestore, TLAPS

USE DEF Seconds

LEMMA Initially == Init => RestoreInv
  <1> SUFFICES ASSUME Init PROVE RestoreInv
    OBVIOUS
  <1>1. TypeOK
    <2>1. db \in DbFile
      BY DEF Init, DbFile, Content
    <2>2. pc \in Steps /\ now \in Seconds /\ mine \in Seconds
      BY ClockAssumption DEF Init, Steps, Ended
    <2>3. copies \subseteq [second : Seconds, file : DbFile]
      BY Zenon DEF Init
    <2> QED
      BY <2>1, <2>2, <2>3 DEF Init, TypeOK, Content
  <1>2. NothingLost /\ FailedStartRetains /\ NoWorkOnHalfRestore
    BY DEF Init, NothingLost, FailedStartRetains, NoWorkOnHalfRestore
  <1>3. OwnCopy /\ Untouched /\ RequestThere
    BY DEF Init, OwnCopy, Untouched, RequestThere, Applying
  <1>4. \A c, d \in copies : c.second = d.second => c = d
    BY DEF Init
  <1> QED
    BY <1>1, <1>2, <1>3, <1>4 DEF RestoreInv

-----------------------------------------------------------------------------
(* Types *)

LEMMA TypesKept == TypeOK /\ RequestThere /\ [Next]_vars => TypeOK'
  <1> SUFFICES ASSUME TypeOK, RequestThere, [Next]_vars PROVE TypeOK'
    OBVIOUS
  <1> USE DEF TypeOK, Go, Steps, Ended, Content, DbFile, files, history
  <1>1. CASE UNCHANGED vars
    BY <1>1 DEF vars
  <1>2. CASE Tick
    BY <1>2, ClockAssumption DEF Tick
  <1>3. CASE Begin
    BY <1>3 DEF Begin, Visible
  <1>4. CASE Check
    BY <1>4 DEF Check
  <1>5. CASE Inspect
    BY <1>5 DEF Inspect
  <1>6. CASE Copy
    <2>1. db \in DbFile /\ Torn \in DbFile
      BY DEF Torn
    <2>2. \A file \in DbFile : [second |-> now, file |-> file] \in [second : Seconds, file : DbFile]
      OBVIOUS
    <2>3. copies' \subseteq [second : Seconds, file : DbFile]
      BY <1>6, <2>1, <2>2 DEF Copy, Saved
    <2>4. pc' \in Steps /\ reused' \in BOOLEAN
      BY <1>6 DEF Copy, Saved
    <2> QED
      BY <1>6, <2>3, <2>4 DEF Copy
  <1>7. CASE Extract
    BY <1>7 DEF Extract
  <1>8. CASE Replace
    <2>1. \A content \in request : [commits |-> content, whole |-> TRUE] \in DbFile
      OBVIOUS
    <2>2. db' \in DbFile
      BY <1>8, <2>1 DEF Replace
    <2> QED
      BY <1>8, <2>2 DEF Replace
  <1>9. CASE Unlink
    BY <1>9 DEF Unlink
  <1>10. CASE Undo
    <2>1. Torn \in DbFile
      BY DEF Torn
    <2>2. \A c \in copies : c.file \in DbFile
      OBVIOUS
    <2>3. db' \in DbFile
      BY <1>10, <2>1, <2>2 DEF Undo
    <2> QED
      BY <1>10, <2>3 DEF Undo
  <1>11. CASE Open
    BY <1>11 DEF Open, BackedUp, Visible
  <1>12. CASE Commit
    BY <1>12 DEF Commit
  <1>13. CASE Checkpoint
    BY <1>13 DEF Checkpoint, Visible
  <1>14. CASE Stage
    BY <1>14 DEF Stage, RequestThere
  <1>15. CASE Leave
    BY <1>15 DEF Leave, Visible
  <1>16. CASE Kill
    BY <1>16 DEF Kill
  <1> QED
    BY <1>1, <1>2, <1>3, <1>4, <1>5, <1>6, <1>7, <1>8, <1>9, <1>10, <1>11,
       <1>12, <1>13, <1>14, <1>15, <1>16 DEF Next, Apply

-----------------------------------------------------------------------------
(* No commit is lost *)

\* A commit is kept when the database, its log, an archive or a copy holds it.
Holds(w, d, log, old, saved) ==
  \/ w \in d.commits \/ w \in log
  \/ \E a \in old : w \in a
  \/ \E c \in saved : w \in c.file.commits
LEMMA KeptIn == \A w : w \in Kept <=> Holds(w, db, wal, archives, copies)
  <1> TAKE w
  <1>1. w \in UNION archives <=> \E a \in archives : w \in a
    OBVIOUS
  <1>2. w \in UNION {c.file.commits : c \in copies} <=> \E c \in copies : w \in c.file.commits
    BY Zenon
  <1> QED
    BY <1>1, <1>2, Zenon DEF Kept, Holds

LEMMA KeptInNext == \A w : w \in Kept' <=> Holds(w, db', wal', archives', copies')
  <1> TAKE w
  <1>1. w \in UNION archives' <=> \E a \in archives' : w \in a
    OBVIOUS
  <1>2. w \in UNION {c.file.commits : c \in copies'} <=> \E c \in copies' : w \in c.file.commits
    BY Zenon
  <1> QED
    BY <1>1, <1>2, Zenon DEF Kept, Holds

\* Whatever happens to the database file, what it held is kept elsewhere.
LEMMA NothingLostKept == RestoreInv /\ [Next]_vars => NothingLost'
  <1> SUFFICES ASSUME RestoreInv, [Next]_vars, ~reused'
               PROVE  written' \subseteq Kept'
    BY DEF NothingLost
  <1> USE DEF files, history
  <1>0. TypeOK /\ RequestThere /\ OwnCopy /\ NothingLost
    BY DEF RestoreInv
  <1>a. ~reused
    BY DEF Next, Apply, vars, Tick, Begin, Check, Inspect, Copy, Saved, Extract,
           Replace, Unlink, Undo, Open, Commit, Checkpoint, Stage, Leave, Kill
  <1>b. written \subseteq Kept
    BY <1>0, <1>a DEF NothingLost
  <1>c. SUFFICES ASSUME NEW w \in written',
                        w \in written => Holds(w, db, wal, archives, copies)
                 PROVE  Holds(w, db', wal', archives', copies')
    BY <1>b, KeptIn, KeptInNext
  <1>1. CASE UNCHANGED vars \/ Tick \/ Begin \/ Check \/ Inspect \/ Extract \/ Unlink
               \/ Stage \/ Kill
    BY <1>1, <1>c DEF Holds, vars, Tick, Begin, Check, Inspect, Extract, Unlink, Stage, Kill
  <1>2. CASE Copy
    <2>1. copies \subseteq copies'
      BY <1>2, <1>a DEF Copy, Saved
    <2> QED
      BY <1>2, <2>1, <1>c DEF Holds, Copy
  <1>3. CASE Replace
    <2>1. PICK c \in copies : c.file = db \/ UNCHANGED db
      BY <1>3, <1>0 DEF Replace, OwnCopy, Applying
    <2> QED
      BY <1>3, <2>1, <1>c DEF Holds, Replace
  <1>4. CASE Undo
    <2>1. \/ \E c \in copies : c.file = db
          \/ \E a \in archives : a = db.commits
      BY <1>4, <1>0 DEF Undo, OwnCopy, Applying, RequestThere
    <2> QED
      BY <1>4, <2>1, <1>c DEF Holds, Undo
  <1>5. CASE Open
    <2>1. db.commits \cup wal \subseteq db'.commits \cup wal'
      BY <1>5, <1>0 DEF Open, Visible, TypeOK, DbFile
    <2>2. archives \subseteq archives'
      BY <1>5 DEF Open, BackedUp
    <2> QED
      BY <1>5, <2>1, <2>2, <1>c DEF Holds, Open
  <1>6. CASE Commit
    BY <1>6, <1>c DEF Holds, Commit
  <1>7. CASE Checkpoint \/ Leave
    <2>1. db.whole
      BY <1>7 DEF RestoreInv, Untouched, Checkpoint, Leave
    <2>2. db.commits \cup wal \subseteq db'.commits
      BY <1>7, <2>1, <1>0 DEF Checkpoint, Leave, Visible, TypeOK, DbFile
    <2> QED
      BY <1>7, <2>2, <1>c DEF Holds, Checkpoint, Leave
  <1> QED
    BY <1>1, <1>2, <1>3, <1>4, <1>5, <1>6, <1>7 DEF Next, Apply

-----------------------------------------------------------------------------
(* Where a start stands *)

OneCopyPerName == \A c, d \in copies : c.second = d.second => c = d

LEMMA CopiesKept == RestoreInv /\ [Next]_vars => OneCopyPerName'
  <1> SUFFICES ASSUME RestoreInv, [Next]_vars PROVE OneCopyPerName'
    OBVIOUS
  <1> USE DEF OneCopyPerName
  <1>1. CASE Copy
    BY <1>1 DEF RestoreInv, Copy, Saved
  <1>2. CASE UNCHANGED copies
    BY <1>2 DEF RestoreInv
  <1> QED
    BY <1>1, <1>2 DEF Next, Apply, vars, files, Tick, Begin, Check, Inspect, Extract,
       Replace, Unlink, Undo, Open, Commit, Checkpoint, Stage, Leave, Kill

\* A start that has not touched the database shows what it found; a half restore
\* keeps its request, which is what makes the next start complete it.
LEMMA UntouchedKept == RestoreInv /\ [Next]_vars => (Untouched /\ RequestThere)'
  <1> SUFFICES ASSUME RestoreInv, [Next]_vars PROVE Untouched' /\ RequestThere'
    OBVIOUS
  <1> USE DEF Untouched, RequestThere, Visible, Applying, Go, files, history
  <1>0. Untouched /\ RequestThere /\ TypeOK
    BY DEF RestoreInv
  <1>1. CASE UNCHANGED vars \/ Tick
    BY <1>0, <1>1 DEF vars, Tick
  <1>2. CASE Begin
    BY <1>0, <1>2 DEF Begin, Ended
  <1>3. CASE Check
    BY <1>0, <1>3 DEF Check
  <1>4. CASE Inspect
    BY <1>0, <1>4 DEF Inspect
  <1>5. CASE Copy
    BY <1>0, <1>5 DEF Copy, Ended
  <1>6. CASE Extract
    BY <1>0, <1>6 DEF Extract
  <1>7. CASE Replace
    BY <1>0, <1>7 DEF Replace
  <1>8. CASE Unlink
    BY <1>0, <1>8 DEF Unlink
  <1>9. CASE Undo
    BY <1>0, <1>9 DEF Undo
  <1>10. CASE Open
    BY <1>0, <1>10 DEF Open, BackedUp, TypeOK, DbFile
  <1>11. CASE Commit
    BY <1>0, <1>11 DEF Commit
  <1>12. CASE Checkpoint
    BY <1>0, <1>12 DEF Checkpoint, TypeOK, DbFile
  <1>13. CASE Stage
    BY <1>0, <1>13 DEF Stage
  <1>14. CASE Leave
    BY <1>0, <1>14 DEF Leave
  <1>15. CASE Kill
    BY <1>0, <1>15 DEF Kill
  <1> QED
    BY <1>1, <1>2, <1>3, <1>4, <1>5, <1>6, <1>7, <1>8, <1>9, <1>10, <1>11,
       <1>12, <1>13, <1>14, <1>15 DEF Next, Apply

\* From the copy to the end of the start the copy is the database it found.
LEMMA OwnCopyKept == RestoreInv /\ [Next]_vars => OwnCopy'
  <1> SUFFICES ASSUME RestoreInv, [Next]_vars, pc' \in Applying PROVE OwnCopy'
    BY DEF OwnCopy
  <1> USE DEF OwnCopy, AfterUndo, Applying, Go, files, history
  <1>0. OwnCopy /\ Untouched /\ RequestThere
    BY DEF RestoreInv
  <1>1. CASE UNCHANGED vars \/ Tick
    BY <1>0, <1>1 DEF vars, Tick
  <1>2. CASE Copy
    <2>1. Saved(db) /\ pc' = "extract"
      BY <1>2 DEF Copy, Ended
    <2>2. [second |-> now, file |-> db] \in copies'
      BY <2>1 DEF Saved
    <2>3. Visible = before
      BY <1>0, <1>2 DEF Copy, Untouched
    <2> QED
      BY <1>2, <2>1, <2>2, <2>3 DEF Copy, Visible
  <1>3. CASE Extract
    BY <1>0, <1>3 DEF Extract
  <1>4. CASE Replace
    BY <1>0, <1>4 DEF Replace
  <1>5. CASE Unlink
    BY <1>0, <1>5 DEF Unlink, RequestThere
  <1> QED
    BY <1>1, <1>2, <1>3, <1>4, <1>5 DEF Next, Apply, Begin, Check, Inspect, Undo, Ended,
       Open, Commit, Checkpoint, Stage, Leave, Kill

-----------------------------------------------------------------------------
(* The promises of a start *)

LEMMA FailureRetainsKept == RestoreInv /\ [Next]_vars => FailedStartRetains'
  <1> SUFFICES ASSUME RestoreInv, [Next]_vars, pc' = "failed" PROVE Visible' = before'
    BY DEF FailedStartRetains
  <1> USE DEF Visible, Go, files, history
  <1>0. FailedStartRetains /\ Untouched /\ OwnCopy
    BY DEF RestoreInv
  <1>1. CASE UNCHANGED vars \/ Tick
    BY <1>0, <1>1 DEF vars, Tick, FailedStartRetains
  <1>2. CASE Inspect
    BY <1>0, <1>2 DEF Inspect, Untouched
  <1>3. CASE Copy
    BY <1>0, <1>3 DEF Copy, Untouched
  <1>4. CASE Undo
    <2>1. PICK c \in copies : c.second = mine /\ db' = c.file
      BY <1>4 DEF Undo
    <2>2. PICK d \in copies : d.second = mine /\ AfterUndo(d.file) = before
      BY <1>0, <1>4 DEF Undo, OwnCopy, Applying
    <2>3. c = d
      BY <2>1, <2>2 DEF RestoreInv
    <2> QED
      BY <1>4, <2>1, <2>2, <2>3 DEF Undo, AfterUndo
  <1>5. CASE Open
    BY <1>0, <1>5 DEF Open, Untouched
  <1> QED
    BY <1>1, <1>2, <1>3, <1>4, <1>5 DEF Next, Apply, Begin, Check, Extract, Replace,
       Unlink, Commit, Checkpoint, Stage, Leave, Kill

LEMMA NoHalfWorkKept == RestoreInv /\ [Next]_vars => NoWorkOnHalfRestore'
  <1> SUFFICES ASSUME RestoreInv, [Next]_vars, pc' = "run" PROVE ~half'
    BY DEF NoWorkOnHalfRestore
  <1>1. pc \in {"run", "open"} /\ UNCHANGED half
    BY DEF Next, Apply, vars, files, history, Go, Ended, Tick, Begin, Check, Inspect,
           Copy, Extract, Replace, Unlink, Undo, Open, Commit, Checkpoint, Stage,
           Leave, Kill
  <1> QED
    BY <1>1 DEF RestoreInv, NoWorkOnHalfRestore, RequestThere

\* Every reachable state of a restore satisfies RestoreInv, for any commits and
\* any number of starts, kills and failures of apply_pending_restore.
THEOREM RestoreInvariant == Spec => []RestoreInv
  <1>1. RestoreInv /\ [Next]_vars => RestoreInv'
    <2> SUFFICES ASSUME RestoreInv, [Next]_vars PROVE RestoreInv'
      OBVIOUS
    <2>1. TypeOK'
      BY TypesKept DEF RestoreInv
    <2> QED
      BY <2>1, NothingLostKept, CopiesKept, UntouchedKept, OwnCopyKept,
         FailureRetainsKept, NoHalfWorkKept DEF RestoreInv, OneCopyPerName
  <1> QED
    BY <1>1, Initially, PTL DEF Spec

\* No commit is lost by apply_pending_restore, unless two of its copies fall into
\* the same second.
THEOREM CommitsSurvive == Spec => []NothingLost
  <1>1. RestoreInv => NothingLost
    BY DEF RestoreInv
  <1> QED
    BY <1>1, RestoreInvariant, PTL

\* A start that fails retains the database it found (the error message of
\* apply_pending_restore).
THEOREM FailureRetains == Spec => []FailedStartRetains
  <1>1. RestoreInv => FailedStartRetains
    BY DEF RestoreInv
  <1> QED
    BY <1>1, RestoreInvariant, PTL

\* Nobody works on the result of a restore whose request is still there.
THEOREM NoHalfWork == Spec => []NoWorkOnHalfRestore
  <1>1. RestoreInv => NoWorkOnHalfRestore
    BY DEF RestoreInv
  <1> QED
    BY <1>1, RestoreInvariant, PTL

=============================================================================
