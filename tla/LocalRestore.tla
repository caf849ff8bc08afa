---------------------------- MODULE LocalRestore ----------------------------
(***************************************************************************)
(* Restore of a local backup: a request staged by one console is applied by  *)
(* the next start, before it opens the SQLite database: copy the database     *)
(* aside, unpack the archive, put it in the database's place, remove the       *)
(* request, and on an error put the copy back.  Every file operation is a      *)
(* step, and the process may be killed between any two.                        *)
(*                                                                         *)
(* Abstracted: the content of a database is the set of commits found in it;   *)
(* a write-ahead log that lies beside the database file is replayed by whoever *)
(* opens that file, also when the file has been replaced meanwhile.  Consoles  *)
(* start one after the other; archives are kept; putting the copy back can be  *)
(* cut off by a kill but does not fail by itself, and neither do migrations of  *)
(* a whole database file.                                                     *)
(***************************************************************************)
EXTENDS Integers, FiniteSets

CONSTANTS Commits,    \* bound: commits of the model
          MaxSecond   \* bound: last second of the model's clock

ASSUME ClockAssumption == MaxSecond \in Nat \ {0}

VARIABLES
  pc,        \* what the console does next
  db,        \* the database file: its commits, whether it is a whole file
  wal,       \* commits in the write-ahead log
  request,   \* content of the archive in restore-request.json, or none
  archives,  \* contents of the backup archives
  copies,    \* pre-restore copies, named after the second they are made
  now,       \* the second
  mine,      \* the second that names this start's copy
  written,   \* history: all commits
  before,    \* history: what the database held when this start began
  promise,   \* history: content of the restore this start applied, if any
  half,      \* history: the database is replaced, its request still there
  reused     \* history: a copy has replaced one of the same second

files == <<db, wal, request, archives, copies>>
history == <<written, before, promise, half, reused>>
vars == <<pc, files, now, mine, history>>

Content == SUBSET Commits
DbFile == [commits : Content, whole : BOOLEAN]
Seconds == 1..MaxSecond
Ended == {"off", "failed"}
Steps == Ended \cup {"check", "inspect", "copy", "extract", "replace", "unlink",
                     "undo", "open", "run"}

Visible == IF db.whole THEN db.commits \cup wal ELSE {}
Torn == [commits |-> {}, whole |-> FALSE]

Init ==
  /\ pc = "off"
  /\ db = [commits |-> {}, whole |-> TRUE]
  /\ wal = {}
  /\ request = {} /\ archives = {} /\ copies = {}
  /\ now = 1 /\ mine = 1
  /\ written = {} /\ before = {} /\ promise = {}
  /\ half = FALSE /\ reused = FALSE

Go(step) == pc' = step

Tick ==
  /\ now < MaxSecond
  /\ now' = now + 1
  /\ UNCHANGED <<pc, files, mine, history>>

-----------------------------------------------------------------------------
(* apply_pending_restore *)

Begin ==
  /\ pc \in Ended
  /\ Go("check")
  /\ before' = Visible
  /\ promise' = {}
  /\ UNCHANGED <<files, now, mine, written, half, reused>>

Check ==
  /\ pc = "check"
  /\ Go(IF request = {} THEN "open" ELSE "inspect")
  /\ UNCHANGED <<files, now, mine, history>>

\* A request or an archive that cannot be read stops the start.
BugInspect ==                  \* it starts without the restore
  /\ pc = "inspect"
  /\ Go("copy") \/ Go("open")
  /\ UNCHANGED <<files, now, mine, history>>
Inspect ==
  /\ pc = "inspect"
  /\ Go("copy") \/ Go("failed")
  /\ UNCHANGED <<files, now, mine, history>>

\* shutil.copy2 of the database file alone, whole or cut off.
Saved(file) ==
  /\ copies' = {c \in copies : c.second # now} \cup {[second |-> now, file |-> file]}
  /\ reused' = (reused \/ \E c \in copies : c.second = now)
BugCopy ==                     \* no copy
  /\ pc = "copy"
  /\ Go("extract")
  /\ mine' = now
  /\ UNCHANGED <<files, now, history>>
Copy ==
  /\ pc = "copy"
  /\ mine' = now
  /\ \/ Saved(db) /\ Go("extract")
     \/ Saved(Torn) /\ pc' \in Ended
  /\ UNCHANGED <<db, wal, request, archives, now, written, before, promise, half>>

\* Unpacks the archive beside the database and checks it.
Extract ==
  /\ pc = "extract"
  /\ Go("replace") \/ Go("undo")
  /\ UNCHANGED <<files, now, mine, history>>

Replace ==
  /\ pc = "replace"
  /\ \/ /\ \E content \in request : db' = [commits |-> content, whole |-> TRUE]
        /\ half' = TRUE
        /\ Go("unlink")
     \/ /\ Go("undo")
        /\ UNCHANGED <<db, half>>
  /\ UNCHANGED <<wal, request, archives, copies, now, mine, written, before,
                 promise, reused>>

BugUnlink ==                   \* an error is ignored
  /\ pc = "unlink"
  /\ request' \in {request, {}}
  /\ promise' = request
  /\ half' = (request' # {})
  /\ Go("open")
  /\ UNCHANGED <<db, wal, archives, copies, now, mine, written, before, reused>>
Unlink ==
  /\ pc = "unlink"
  /\ \/ /\ request' = {}
        /\ promise' = request
        /\ half' = FALSE
        /\ Go("open")
     \/ /\ Go("undo")
        /\ UNCHANGED <<request, promise, half>>
  /\ UNCHANGED <<db, wal, archives, copies, now, mine, written, before, reused>>

\* The copy is put back and the start fails, or is killed in the middle of it.
BugUndo ==                     \* the copy is not put back
  /\ pc = "undo"
  /\ Go("failed")
  /\ UNCHANGED <<files, now, mine, history>>
Undo ==
  /\ pc = "undo"
  /\ \/ /\ \E c \in copies : c.second = mine /\ db' = c.file
        /\ half' = FALSE
        /\ Go("failed")
     \/ /\ db' = Torn
        /\ Go("off")
        /\ UNCHANGED half
  /\ UNCHANGED <<wal, request, archives, copies, now, mine, written, before,
                 promise, reused>>

-----------------------------------------------------------------------------
(* The rest of the start, and the console at work *)

\* Migrations open the database, which replays the log, and close it again;
\* the first start of a day makes a backup, if it can.
BackedUp == archives \cup {Visible}
Open ==
  /\ pc = "open"
  /\ \/ /\ db.whole
        /\ db' = [db EXCEPT !.commits = Visible]
        /\ wal' = {}
        /\ archives' \in {archives, BackedUp}
        /\ Go("run")
     \/ /\ ~db.whole
        /\ Go("failed")
        /\ UNCHANGED <<db, wal, archives>>
  /\ UNCHANGED <<request, copies, now, mine, history>>

\* A commit goes to the log, which starts anew once it is copied to the file.
Commit ==
  /\ pc = "run"
  /\ \E c \in Commits \ written :
       /\ \/ wal' = wal \cup {c}
          \/ wal \subseteq db.commits /\ wal' = {c}
       /\ written' = written \cup {c}
  /\ UNCHANGED <<pc, db, request, archives, copies, now, mine, before, promise,
                 half, reused>>

Checkpoint ==
  /\ pc = "run"
  /\ db' = [db EXCEPT !.commits = Visible]
  /\ UNCHANGED <<pc, wal, request, archives, copies, now, mine, history>>

\* stage_restore
Stage ==
  /\ pc = "run"
  /\ \E content \in archives : request' = {content}
  /\ UNCHANGED <<pc, db, wal, archives, copies, now, mine, history>>

\* The last connection closes, which copies the log and deletes it.
Leave ==
  /\ pc = "run"
  /\ db' = [db EXCEPT !.commits = Visible]
  /\ wal' = {}
  /\ Go("off")
  /\ UNCHANGED <<request, archives, copies, now, mine, history>>

Kill ==
  /\ pc \notin Ended
  /\ Go("off")
  /\ UNCHANGED <<files, now, mine, history>>

Apply == Check \/ Inspect \/ Copy \/ Extract \/ Replace \/ Unlink \/ Undo
Next ==
  \/ Tick \/ Begin \/ Apply \/ Open
  \/ Commit \/ Checkpoint \/ Stage \/ Leave \/ Kill

Spec == Init /\ [][Next]_vars

-----------------------------------------------------------------------------
\* Types of the files and of the clock.
TypeOK ==
  /\ pc \in Steps
  /\ db \in DbFile
  /\ wal \in Content
  /\ request \subseteq Content /\ archives \subseteq Content
  /\ copies \subseteq [second : Seconds, file : DbFile]
  /\ now \in Seconds /\ mine \in Seconds
  /\ written \in Content /\ before \in Content /\ promise \subseteq Content
  /\ half \in BOOLEAN /\ reused \in BOOLEAN

Kept ==
  db.commits \cup wal \cup (UNION archives) \cup (UNION {c.file.commits : c \in copies})

\* However restores fail, are cut off and repeated, no commit is lost: it is in
\* the database, in its log, in an archive or in a pre-restore copy.  (Unless a
\* copy replaces one made within the same second.)
NothingLost == ~reused => written \subseteq Kept

\* "restore failed; the pre-restore database was retained": a start that fails
\* leaves the database with the content it found.
FailedStartRetains == pc = "failed" => Visible = before

\* Nobody works on a restore that was cut off: the next start completes it,
\* takes it back or refuses to go on.
NoWorkOnHalfRestore == pc = "run" => ~half

\* Where a start stands: its copy is the database it found, until that is
\* replaced by the archive's content; a half restore has its request.
Applying == {"extract", "replace", "unlink", "undo"}
AfterUndo(file) == IF file.whole THEN file.commits \cup wal ELSE {}
OwnCopy ==
  pc \in Applying =>
    \E c \in copies :
      /\ c.second = mine
      /\ AfterUndo(c.file) = before
      /\ pc \in {"extract", "replace"} => db = c.file
      /\ pc = "undo" => db = c.file \/ db.commits \in request
Untouched ==
  /\ pc \in {"check", "inspect", "copy", "extract", "replace"} => Visible = before
  /\ pc = "open" => db.whole \/ before = {}
  /\ pc = "run" => db.whole
RequestThere ==
  /\ pc \in Applying \cup {"inspect", "copy"} \/ half => request # {}
  /\ pc = "unlink" => db.whole /\ db.commits \in request
  /\ pc = "open" => ~half
  /\ request \subseteq archives

\* The conjunction the proofs use: every step preserves it.
RestoreInv ==
  /\ TypeOK /\ NothingLost /\ FailedStartRetains /\ NoWorkOnHalfRestore
  /\ OwnCopy /\ Untouched /\ RequestThere
  /\ \A c, d \in copies : c.second = d.second => c = d

\* "restores on next start" (test_backup_excludes_secrets_and_restores_on_next_
\* start): a start that has applied a restore finds the content of the archive.
RestoresOnNextStart == pc = "open" => \A content \in promise : Visible = content

=============================================================================
