---------------------------- MODULE ConsoleLock ----------------------------
(***************************************************************************)
(* ConsoleInstanceLock, the lock every console command takes: a file that    *)
(* names the owner's process id.  Starting reads it, checks that the id it   *)
(* names is dead, and replaces it through one shared temporary file;         *)
(* leaving deletes it when it still names this process.  Each file operation *)
(* is a step, and processes interleave and may be killed between them.       *)
(*                                                                         *)
(* The id of a process that has ended may be given to another console, or to  *)
(* a program that is none: the lock cannot tell.                             *)
(***************************************************************************)
EXTENDS Integers, FiniteSets

CONSTANTS Procs,    \* process ids of consoles
          Killable, \* those that may be killed at any step
          Reusable, \* those whose id may be given to another program
          NoPid     \* what a missing file names

ASSUME NoPidAssumption == NoPid \notin Procs

VARIABLES
  pc,         \* what each process does next
  seen,       \* the id it read from the lock file
  file,       \* id in console-instance.json
  temp,       \* id in console-instance.tmp, shared by all processes
  foreign,    \* ids that other programs have
  overlapped  \* history: two starts were under way at once

lockVars == <<pc, seen, file, temp, foreign, overlapped>>

Steps == {"off", "check", "stage", "replace", "run", "unlink"}
Starting == {"check", "stage", "replace"}
Holding == {"run", "unlink"}

Alive(p) == pc[p] # "off"
AloneStarting(p) == \A q \in Procs \ {p} : pc[q] \notin Starting

LockInit ==
  /\ pc = [p \in Procs |-> "off"]
  /\ seen = [p \in Procs |-> NoPid]
  /\ file = NoPid
  /\ temp = NoPid
  /\ foreign = {}
  /\ overlapped = FALSE

\* A console starts and reads the lock file.
Read(p) ==
  /\ pc[p] = "off" /\ p \notin foreign
  /\ seen' = [seen EXCEPT ![p] = file]
  /\ pc' = [pc EXCEPT ![p] = "check"]
  /\ overlapped' = (overlapped \/ ~AloneStarting(p))
  /\ UNCHANGED <<file, temp, foreign>>

\* The id read is another, living process: refuse to start.
BugOtherAlive(p) == seen[p] \notin {NoPid, p}   \* process_is_running not asked
OtherAlive(p) == seen[p] \notin {NoPid, p} /\ (Alive(seen[p]) \/ seen[p] \in foreign)

Refuse(p) ==
  /\ pc[p] = "check"
  /\ OtherAlive(p)
  /\ pc' = [pc EXCEPT ![p] = "off"]
  /\ seen' = [seen EXCEPT ![p] = NoPid]
  /\ UNCHANGED <<file, temp, foreign, overlapped>>

BugTakeOver(p) ==              \* whatever the file says
  /\ pc[p] = "check"
  /\ pc' = [pc EXCEPT ![p] = "stage"]
  /\ seen' = [seen EXCEPT ![p] = NoPid]
  /\ UNCHANGED <<file, temp, foreign, overlapped>>
TakeOver(p) ==
  /\ pc[p] = "check"
  /\ ~OtherAlive(p)
  /\ pc' = [pc EXCEPT ![p] = "stage"]
  /\ seen' = [seen EXCEPT ![p] = NoPid]
  /\ UNCHANGED <<file, temp, foreign, overlapped>>

Stage(p) ==
  /\ pc[p] = "stage"
  /\ temp' = p
  /\ pc' = [pc EXCEPT ![p] = "replace"]
  /\ UNCHANGED <<seen, file, foreign, overlapped>>

\* Renaming fails, and with it the start, when another process has already
\* renamed the temporary file.
Replace(p) ==
  /\ pc[p] = "replace"
  /\ IF temp = NoPid
     THEN /\ pc' = [pc EXCEPT ![p] = "off"]
          /\ UNCHANGED <<file, temp>>
     ELSE /\ pc' = [pc EXCEPT ![p] = "run"]
          /\ file' = temp
          /\ temp' = NoPid
  /\ UNCHANGED <<seen, foreign, overlapped>>

\* __exit__: delete the file when it names this process.
Leave(p) ==
  /\ pc[p] = "run"
  /\ pc' = [pc EXCEPT ![p] = IF file = p THEN "unlink" ELSE "off"]
  /\ UNCHANGED <<seen, file, temp, foreign, overlapped>>

Unlink(p) ==
  /\ pc[p] = "unlink"
  /\ file' = NoPid
  /\ pc' = [pc EXCEPT ![p] = "off"]
  /\ UNCHANGED <<seen, temp, foreign, overlapped>>

\* The process is killed: its files stay.
Kill(p) ==
  /\ p \in Killable
  /\ Alive(p)
  /\ pc' = [pc EXCEPT ![p] = "off"]
  /\ seen' = [seen EXCEPT ![p] = NoPid]
  /\ UNCHANGED <<file, temp, foreign, overlapped>>

\* Another program gets the id of a console that has ended, and ends.
Reuse(p) ==
  /\ p \in Reusable \ foreign
  /\ ~Alive(p)
  /\ foreign' = foreign \cup {p}
  /\ UNCHANGED <<pc, seen, file, temp, overlapped>>

Vacate(p) ==
  /\ p \in foreign
  /\ foreign' = foreign \ {p}
  /\ UNCHANGED <<pc, seen, file, temp, overlapped>>

Enter(p) == Refuse(p) \/ TakeOver(p) \/ Stage(p) \/ Replace(p)
LockNext ==
  \E p \in Procs : \/ Read(p) \/ Enter(p) \/ Leave(p) \/ Unlink(p) \/ Kill(p)
                  \/ Reuse(p) \/ Vacate(p)

\* Once started, a process takes its next step towards running; whether it is
\* started, leaves or is killed is up to the user.
LockSpec ==
  /\ LockInit
  /\ [][LockNext]_lockVars
  /\ \A p \in Procs : WF_lockVars(Enter(p))

-----------------------------------------------------------------------------
\* Types of the files and program counters.
LockTypeOK ==
  /\ pc \in [Procs -> Steps]
  /\ seen \in [Procs -> Procs \cup {NoPid}]
  /\ file \in Procs \cup {NoPid}
  /\ temp \in Procs \cup {NoPid}
  /\ foreign \subseteq Procs
  /\ overlapped \in BOOLEAN

\* What keeps the lock exclusive: while no two starts overlap, the file names
\* the console that holds it, and a console that starts beside it has seen that.
LockInv ==
  /\ LockTypeOK
  /\ ~overlapped =>
       /\ \A p, q \in Procs :
            pc[p] \in Starting /\ pc[q] \in Starting => p = q
       /\ \A p \in Procs : pc[p] = "replace" => temp = p
       /\ \A p \in Procs : pc[p] \in Holding =>
            /\ file = p
            /\ \A q \in Procs : pc[q] \in Starting =>
                 pc[q] = "check" /\ seen[q] = p

\* As long as no two starts overlap, at most one console runs, whatever is
\* killed and whatever stale file is left behind.  (Two overlapping starts
\* both find no owner, and both run: ConsoleSessions shows what follows.)
ExclusiveUnlessOverlapped ==
  ~overlapped =>
    \A p, q \in Procs : pc[p] \in Holding /\ pc[q] \in Holding => p = q

\* A killed console locks nobody out: a console that starts while no other
\* lives gets to run, unless another one is started meanwhile, or the id it
\* has read belongs to another program by now; no other program is in its way.
StaleLockIsReplaced ==
  \A p \in Procs \ Killable :
    (pc[p] = "check" /\ \A q \in Procs \ {p} : ~Alive(q))
      ~> (pc[p] = "run" \/ (\E q \in Procs \ {p} : Alive(q)) \/ seen[p] \in foreign)

=============================================================================
