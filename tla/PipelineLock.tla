---------------------------- MODULE PipelineLock ----------------------------
(***************************************************************************)
(* DailyPipelineLock, the file that keeps two runs of the daily pipeline     *)
(* apart.  Entering creates it exclusively; when it exists and is old, or has *)
(* vanished since, it is deleted and created again; leaving deletes it when   *)
(* it still holds this run's token.  Every file operation is a step.          *)
(*                                                                         *)
(* Abstracted: the token of a run is the run itself, the file's age is one    *)
(* Boolean that time may set, and a symbolic link in its place is left out.   *)
(***************************************************************************)
EXTENDS Integers, FiniteSets

CONSTANTS Runs,     \* invocations of the pipeline, each with its own token
          Killable, \* those that may be killed at any step
          NoRun     \* owner of a missing file

ASSUME NoRunAssumption == NoRun \notin Runs

VARIABLES
  at,       \* what each run does next
  lock,     \* the lock file: its creator, whether its token is written, its age
  raced,    \* history: a lock was created while another run was about to delete
  overran   \* history: a live run's lock grew old

plVars == <<at, lock, raced, overran>>

NoLock == [owner |-> NoRun, written |-> FALSE, stale |-> FALSE]
LockFile == [owner : Runs \cup {NoRun}, written : BOOLEAN, stale : BOOLEAN]
Places == {"off", "open", "stat", "unlink", "reopen", "write", "run", "release",
           "done", "refused", "killed"}
Entering == {"open", "stat", "unlink", "reopen"}
Holding == {"write", "run", "release"}

PLInit ==
  /\ at = [p \in Runs |-> "off"]
  /\ lock = NoLock
  /\ raced = FALSE
  /\ overran = FALSE

Go(p, step) == at' = [at EXCEPT ![p] = step]

Start(p) ==
  /\ at[p] = "off"
  /\ Go(p, "open")
  /\ UNCHANGED <<lock, raced, overran>>

\* os.open with O_CREAT and O_EXCL: all or nothing.
BugVacant == TRUE               \* O_EXCL forgotten
Vacant == lock = NoLock
CreateFile(p) ==
  /\ Vacant
  /\ lock' = [owner |-> p, written |-> FALSE, stale |-> FALSE]
  /\ raced' = (raced \/ \E q \in Runs \ {p} : at[q] = "unlink")
  /\ Go(p, "write")
  /\ UNCHANGED overran

\* The first attempt looks at the age of the file it finds, the second gives up.
Open(p) ==
  /\ at[p] = "open"
  /\ \/ CreateFile(p)
     \/ /\ ~Vacant
        /\ Go(p, "stat")
        /\ UNCHANGED <<lock, raced, overran>>
Reopen(p) ==
  /\ at[p] = "reopen"
  /\ \/ CreateFile(p)
     \/ /\ ~Vacant
        /\ Go(p, "refused")
        /\ UNCHANGED <<lock, raced, overran>>

\* _is_stale: old, or gone since it was found.
BugIsStale == TRUE              \* age not looked at
BugIsGone == lock = NoLock      \* an old file counts as taken
IsStale == lock = NoLock \/ lock.stale
Stat(p) ==
  /\ at[p] = "stat"
  /\ Go(p, IF IsStale THEN "unlink" ELSE "refused")
  /\ UNCHANGED <<lock, raced, overran>>

Unlink(p) ==
  /\ at[p] = "unlink"
  /\ lock' = NoLock
  /\ Go(p, "reopen")
  /\ UNCHANGED <<raced, overran>>

\* The token goes into the file this run created, which may be deleted by now;
\* writing renews the file's age.
WriteToken(p) ==
  /\ at[p] = "write"
  /\ lock' = IF lock.owner = p THEN [lock EXCEPT !.written = TRUE, !.stale = FALSE]
             ELSE lock
  /\ Go(p, "run")
  /\ UNCHANGED <<raced, overran>>

\* __exit__ reads the token; a file without one, or with another, is left alone.
Mine(p) == lock.owner = p /\ lock.written
Leave(p) ==
  /\ at[p] = "run"
  /\ Go(p, IF Mine(p) THEN "release" ELSE "done")
  /\ UNCHANGED <<lock, raced, overran>>

Release(p) ==
  /\ at[p] = "release"
  /\ lock' = NoLock
  /\ Go(p, "done")
  /\ UNCHANGED <<raced, overran>>

\* The process is killed: its file stays.
KillRun(p) ==
  /\ p \in Killable
  /\ at[p] \in Entering \cup Holding
  /\ Go(p, "killed")
  /\ UNCHANGED <<lock, raced, overran>>

\* More than stale_after passes.  Nothing bounds how long a run takes, and
\* nothing refreshes the file meanwhile.
Age ==
  /\ lock # NoLock /\ ~lock.stale
  /\ lock' = [lock EXCEPT !.stale = TRUE]
  /\ overran' = (overran \/ at[lock.owner] \in Holding)
  /\ UNCHANGED <<at, raced>>

Enter(p) == Open(p) \/ Stat(p) \/ Unlink(p) \/ Reopen(p) \/ WriteToken(p)
PLNext ==
  \/ Age
  \/ \E p \in Runs : Start(p) \/ Enter(p) \/ Leave(p) \/ Release(p) \/ KillRun(p)

\* Once entered, a run is refused or gets to work; its start and its duration
\* are nobody's promise.
PLSpec ==
  /\ PLInit
  /\ [][PLNext]_plVars
  /\ \A p \in Runs : WF_plVars(Enter(p))

-----------------------------------------------------------------------------
\* Types of the file and the program counters.
PLTypeOK ==
  /\ at \in [Runs -> Places]
  /\ lock \in LockFile
  /\ raced \in BOOLEAN
  /\ overran \in BOOLEAN

Fair == ~raced /\ ~overran

\* What keeps the lock exclusive: the file of a run that holds it is there, and
\* nobody is about to delete it.
PLInv ==
  /\ PLTypeOK
  /\ (lock.owner = NoRun) => (lock = NoLock)
  /\ Fair =>
       \A p \in Runs : at[p] \in Holding =>
         /\ lock.owner = p
         /\ ~lock.stale
         /\ \A q \in Runs : at[q] # "unlink"

\* A local exclusive lock that prevents overlapping runs: true as long as no
\* run works longer than stale_after and no run creates the file between
\* another run's look at it and its deletion.
ExclusiveUnlessRaced ==
  Fair => \A p, q \in Runs : at[p] \in Holding /\ at[q] \in Holding => p = q

\* A lock left behind by a killed run blocks nobody for good: whoever finds it
\* old gets to work, is itself killed, or finds another run there first.
OldLockIsReplaced ==
  \A p \in Runs \ Killable :
    (at[p] = "stat" /\ lock.stale)
      ~> (at[p] = "run" \/ \E q \in Runs \ {p} : at[q] \in Entering \cup Holding)

=============================================================================
