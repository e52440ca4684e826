------------------------------- MODULE FileLock -------------------------------
(***************************************************************************)
(* The lock of an edited file (lib/lock.c) and the editor's use of it      *)
(* (src/editor/edit.c, editcmd.c): several mc processes, each with several *)
(* editor windows, on shared files.                                        *)
(*                                                                         *)
(* The lock of a file is a symbolic link beside it that names its owner.   *)
(* Every look at the link and every change of it is a system call of its   *)
(* own, so the calls of different processes interleave, and a process can  *)
(* die between any two of them.  A process is one thread: while one of its *)
(* windows locks, saves or asks, its other windows wait.                   *)
(***************************************************************************)
EXTENDS Integers, FiniteSets

CONSTANTS
  Proc,      \* processes, each of which can run, end and run again
  Window,    \* editor windows, of whatever process opens them
  Host, Pid, \* where a process runs, and its number there
  File,
  None,      \* no process, window or file
  NoLink,    \* there is nothing at the name of the lock
  NotALink,  \* there is something that is not a symbolic link
  NoPid,     \* a symbolic link whose text ends in no process number
  Links      \* what may be there at first

ASSUME ProcessAssumption == DOMAIN Host = Proc /\ Pid \in [Proc -> Nat \ {0}]
ASSUME NoneAssumption == None \notin Proc \cup Window \cup File
ASSUME LinkAssumption == /\ {NoLink, NotALink, NoPid} \cap Proc = {}
                         /\ NoLink # NotALink /\ NoLink # NoPid /\ NotALink # NoPid
                         /\ Links \subseteq [File -> {NoLink, NotALink, NoPid}]

VARIABLES
  running,    \* processes
  link,       \* what is at the name of each file's lock
  win,        \* the windows
  call,       \* what each process is in the middle of
  broken,     \* history: files whose lock went otherwise than by its owner's unlock
  sudo_saved  \* history: files whose lock outlived a save through sudo

vars == <<running, link, win, call, broken, sudo_saved>>

Target == Proc \cup {NoLink, NotALink, NoPid}

(* WEdit: locked, modified and delete_file ("new"); declined records that  *)
(* the lock asked for by the last modification was not obtained.           *)
WindowState == [owner : Proc \cup {None}, file : File \cup {None}, modified : BOOLEAN,
                locked : BOOLEAN, new : BOOLEAN, declined : BOOLEAN]

(* The C stack of a process: where it is, for which window, which file is  *)
(* being locked or written, what the answer is for, and the locals         *)
(* lockinfo, save_lock and res.                                            *)
Locking == {"lstat", "readlink", "kill", "query", "unlink", "symlink"}
Saving == {"write", "sudo", "name"}
Unlocking == {"unlock_lstat", "unlock_readlink", "unlock_unlink"}
Result == {"none", "done", "error", "denied", "abort"}
CallState == [at : {"idle"} \cup Locking \cup Saving \cup Unlocking, win : Window \cup {None},
              file : File \cup {None},
              for : {"modify", "undo", "save", "save_as", "close"}, lockinfo : Target \ {NotALink},
              save_lock : BOOLEAN, res : Result]

TypeOK ==
  /\ running \subseteq Proc
  /\ link \in [File -> Target]
  /\ win \in [Window -> WindowState]
  /\ call \in [Proc -> CallState]
  /\ broken \subseteq File /\ sudo_saved \subseteq File

Closed == [owner |-> None, file |-> None, modified |-> FALSE, locked |-> FALSE, new |-> FALSE,
           declined |-> FALSE]
Idle == [at |-> "idle", win |-> None, file |-> None, for |-> "modify", lockinfo |-> NoLink,
         save_lock |-> FALSE, res |-> "none"]

Init ==
  /\ running = {}
  /\ link \in Links
  /\ win = [w \in Window |-> Closed]
  /\ call = [p \in Proc |-> Idle]
  /\ broken = {} /\ sudo_saved = {}

At(p, place) == p \in running /\ call[p].at = place
Goes(p, c) == call' = [call EXCEPT ![p] = c]
Begins(w, c) == Goes(win[w].owner, [c EXCEPT !.win = w])
Ready(w) == At(win[w].owner, "idle")

-----------------------------------------------------------------------------
(* lock_file and unlock_file, one system call at a time.                   *)

(* kill (pid, 0) finds a process: only the number is looked at, and only   *)
(* on the host of the caller.                                              *)
Alive(p, q) == \E r \in running : Host[r] = Host[p] /\ Pid[r] = Pid[q]

(* lock_file returns: to edit_modification, or to a save.                  *)
LockReturns(p, ok) ==
  LET c == call[p]
      w == c.win
  IN IF c.for = "modify"
     THEN /\ win' = [win EXCEPT ![w].locked = ok, ![w].modified = TRUE, ![w].declined = ~ok]
          /\ Goes(p, Idle)
     ELSE /\ Goes(p, [c EXCEPT !.at = "write", !.save_lock = ok])
          /\ UNCHANGED win

LockLstat(p) ==
  /\ At(p, "lstat")
  /\ Goes(p, [call[p] EXCEPT !.at = IF link[call[p].file] = NoLink THEN "symlink" ELSE "readlink"])
  /\ UNCHANGED <<running, link, win, broken, sudo_saved>>

(* Mutant of LockReadlink: does not look whether readlink failed.          *)
LockReadlinkUnchecked(p) ==
  /\ At(p, "readlink")
  /\ Goes(p, [call[p] EXCEPT !.at = "kill", !.lockinfo = link[call[p].file]])
  /\ UNCHANGED <<running, link, win, broken, sudo_saved>>

LockReadlink(p) ==
  /\ At(p, "readlink")
  /\ LET l == link[call[p].file]
     IN IF l \in {NoLink, NotALink}
        THEN LockReturns(p, FALSE)
        ELSE Goes(p, [call[p] EXCEPT !.at = "kill", !.lockinfo = l]) /\ UNCHANGED win
  /\ UNCHANGED <<running, link, broken, sudo_saved>>

LockKill(p) ==
  /\ At(p, "kill")
  /\ LET l == call[p].lockinfo
     IN Goes(p, [call[p] EXCEPT !.at = IF l = NoPid \/ Alive(p, l) THEN "query" ELSE "unlink",
                                !.lockinfo = NoLink])
  /\ UNCHANGED <<running, link, win, broken, sudo_saved>>

(* The user is asked: grab the lock, or ignore it.                         *)
LockGrab(p) ==
  /\ At(p, "query")
  /\ Goes(p, [call[p] EXCEPT !.at = "unlink"])
  /\ UNCHANGED <<running, link, win, broken, sudo_saved>>

LockIgnore(p) ==
  /\ At(p, "query")
  /\ LockReturns(p, FALSE)
  /\ UNCHANGED <<running, link, broken, sudo_saved>>

LockUnlink(p) ==
  /\ At(p, "unlink")
  /\ LET f == call[p].file
     IN /\ link' = [link EXCEPT ![f] = NoLink]
        /\ broken' = IF link[f] = NoLink THEN broken ELSE broken \cup {f}
  /\ Goes(p, [call[p] EXCEPT !.at = "symlink"])
  /\ sudo_saved' = sudo_saved \ {call[p].file}
  /\ UNCHANGED <<running, win>>

(* Mutant of LockSymlink: replaces a link that has appeared in between.    *)
LockSymlinkOver(p) ==
  /\ At(p, "symlink")
  /\ link' = [link EXCEPT ![call[p].file] = p]
  /\ LockReturns(p, TRUE)
  /\ UNCHANGED <<running, broken, sudo_saved>>

(* symlink creates the link if there is none; it can fail all the same (no *)
(* permission, no space).                                                  *)
LockSymlink(p) ==
  /\ At(p, "symlink")
  /\ LET f == call[p].file
     IN \/ /\ link[f] = NoLink
           /\ link' = [link EXCEPT ![f] = p]
           /\ LockReturns(p, TRUE)
        \/ /\ LockReturns(p, FALSE)
           /\ UNCHANGED link
  /\ UNCHANGED <<running, broken, sudo_saved>>

(* The file being unlocked: the one a save locked for itself goes first.   *)
Unlocked(c) == IF c.save_lock THEN c.file ELSE win[c.win].file

(* edit_save_cmd and edit_save_as_cmd once the locks are settled.          *)
SaveEnds(p, c) ==
  \/ /\ c.res = "done"
     /\ win' = [win EXCEPT ![c.win] = [@ EXCEPT !.file = c.file, !.modified = FALSE, !.new = FALSE,
                                                !.locked = FALSE, !.declined = FALSE]]
     /\ Goes(p, Idle)
  \/ /\ c.res = "denied"
     /\ Goes(p, [c EXCEPT !.at = "sudo", !.res = "none"])
     /\ UNCHANGED win
  \/ /\ c.res = "error" /\ c.for = "save"
     /\ Goes(p, [c EXCEPT !.at = "name", !.for = "save_as", !.res = "none"])
     /\ UNCHANGED win
  \/ /\ c.res = "abort" \/ (c.res = "error" /\ c.for = "save_as")
     /\ Goes(p, Idle)
     /\ UNCHANGED win

(* Mutant of MustUnlock: keeps the save lock when the save has failed.     *)
MustUnlockDone(c) == c.res = "done" /\ (c.save_lock \/ win[c.win].locked)

(* The save lock is dropped whatever came of the save, the modify lock     *)
(* when it was done.                                                       *)
MustUnlock(c) == c.save_lock \/ (c.res = "done" /\ win[c.win].locked)

SaveGoesOn(p, c) ==
  IF MustUnlock(c)
  THEN Goes(p, [c EXCEPT !.at = "unlock_lstat"]) /\ UNCHANGED win
  ELSE SaveEnds(p, c)

(* Mutant of UnlockReturns: forgets the window's own lock when the lock of *)
(* another file it could not be saved as is dropped.                       *)
UnlockReturnsOwn(p) ==
  LET c == call[p]
      w == c.win
  IN CASE c.for = "undo" -> /\ win' = [win EXCEPT ![w].locked = FALSE]
                            /\ Goes(p, Idle)
       [] c.for = "close" -> /\ win' = [win EXCEPT ![w] = Closed]
                             /\ Goes(p, Idle)
       [] c.save_lock /\ c.res # "done" -> /\ win' = [win EXCEPT ![w].locked = FALSE]
                                           /\ Goes(p, Idle)
       [] OTHER -> IF c.save_lock
                   THEN SaveGoesOn(p, [c EXCEPT !.save_lock = FALSE])
                   ELSE SaveEnds(p, c)

(* unlock_file returns.                                                    *)
UnlockReturns(p) ==
  LET c == call[p]
      w == c.win
  IN CASE c.for = "undo" -> /\ win' = [win EXCEPT ![w].locked = FALSE]
                            /\ Goes(p, Idle)
       [] c.for = "close" -> /\ win' = [win EXCEPT ![w] = Closed]
                             /\ Goes(p, Idle)
       [] OTHER -> IF c.save_lock
                   THEN SaveGoesOn(p, [c EXCEPT !.save_lock = FALSE])
                   ELSE SaveEnds(p, c)

UnlockLstat(p) ==
  /\ At(p, "unlock_lstat")
  /\ IF link[Unlocked(call[p])] = NoLink
     THEN UnlockReturns(p)
     ELSE Goes(p, [call[p] EXCEPT !.at = "unlock_readlink"]) /\ UNCHANGED win
  /\ UNCHANGED <<running, link, broken, sudo_saved>>

(* The link is ours if it names our number, or cannot be read.             *)
Ours(p, l) == l \in {NoLink, NotALink} \/ (l \in Proc /\ Pid[l] = Pid[p])

UnlockReadlink(p) ==
  /\ At(p, "unlock_readlink")
  /\ IF Ours(p, link[Unlocked(call[p])])
     THEN Goes(p, [call[p] EXCEPT !.at = "unlock_unlink"]) /\ UNCHANGED win
     ELSE UnlockReturns(p)
  /\ UNCHANGED <<running, link, broken, sudo_saved>>

UnlockUnlink(p) ==
  /\ At(p, "unlock_unlink")
  /\ LET f == Unlocked(call[p])
     IN /\ link' = [link EXCEPT ![f] = NoLink]
        /\ broken' = IF link[f] \in {p, NoLink} THEN broken ELSE broken \cup {f}
        /\ sudo_saved' = sudo_saved \ {f}
  /\ UnlockReturns(p)
  /\ UNCHANGED running

-----------------------------------------------------------------------------
(* The editor.                                                             *)

(* A file that is not there yet is created, and deleted again if it is     *)
(* never saved.                                                            *)
Open(p, w, f, new) ==
  /\ At(p, "idle")
  /\ win[w] = Closed
  /\ win' = [win EXCEPT ![w] = [Closed EXCEPT !.owner = p, !.file = f, !.new = new]]
  /\ UNCHANGED <<running, link, call, broken, sudo_saved>>

(* edit_modification, of an unmodified buffer.                             *)
Modify(w) ==
  /\ Ready(w)
  /\ ~win[w].modified
  /\ IF win[w].new
     THEN win' = [win EXCEPT ![w].modified = TRUE] /\ UNCHANGED call
     ELSE /\ Begins(w, [Idle EXCEPT !.at = "lstat", !.for = "modify", !.file = win[w].file])
          /\ UNCHANGED win
  /\ UNCHANGED <<running, link, broken, sudo_saved>>

(* edit_check_and_clear_modified: undo or redo is back at what was saved,  *)
(* or still there when it has only moved the cursor.                       *)
Undo(w) ==
  /\ Ready(w)
  /\ win[w].modified \/ win[w].locked
  /\ win' = [win EXCEPT ![w].modified = FALSE, ![w].declined = FALSE]
  /\ IF win[w].locked
     THEN Begins(w, [Idle EXCEPT !.at = "unlock_lstat", !.for = "undo", !.file = win[w].file])
     ELSE UNCHANGED call
  /\ UNCHANGED <<running, link, broken, sudo_saved>>

(* Whether a save into the window's own file takes the lock for its time.  *)
LocksToSave(w) == ~win[w].locked /\ ~win[w].new

(* edit_save_cmd.                                                          *)
Save(w) ==
  /\ Ready(w)
  /\ Begins(w, [Idle EXCEPT !.at = IF LocksToSave(w) THEN "lstat" ELSE "write", !.for = "save",
                            !.file = win[w].file])
  /\ UNCHANGED <<running, link, win, broken, sudo_saved>>

(* edit_save_file, with its questions to the user.                         *)
SaveWrites(p, res) ==
  /\ At(p, "write")
  /\ res = "denied" => call[p].for = "save"
  /\ SaveGoesOn(p, [call[p] EXCEPT !.res = res])
  /\ UNCHANGED <<running, link, broken, sudo_saved>>

(* edit_try_sudo_save_cmd and edit_save_handle_sudo_result.                *)
SudoSaves(p) ==
  /\ At(p, "sudo")
  /\ LET w == call[p].win
     IN /\ win' = [win EXCEPT ![w].modified = FALSE, ![w].new = FALSE, ![w].declined = FALSE]
        /\ sudo_saved' = IF win[w].locked THEN sudo_saved \cup {win[w].file} ELSE sudo_saved
  /\ Goes(p, Idle)
  /\ UNCHANGED <<running, link, broken>>

(* The password dialog or the name dialog is cancelled.                    *)
SaveCancel(p) ==
  /\ At(p, "sudo") \/ At(p, "name")
  /\ Goes(p, Idle)
  /\ UNCHANGED <<running, link, win, broken, sudo_saved>>

(* edit_save_as_cmd.                                                       *)
SaveAs(w) ==
  /\ Ready(w)
  /\ Begins(w, [Idle EXCEPT !.at = "name", !.for = "save_as"])
  /\ UNCHANGED <<running, link, win, broken, sudo_saved>>

SaveAsName(p, f) ==
  /\ At(p, "name")
  /\ LET w == call[p].win
     IN Goes(p, [call[p] EXCEPT !.file = f,
                                !.at = IF f # win[w].file \/ LocksToSave(w) THEN "lstat" ELSE "write"])
  /\ UNCHANGED <<running, link, win, broken, sudo_saved>>

(* edit_close_cmd, edit_clean.                                             *)
Close(w) ==
  /\ Ready(w)
  /\ IF win[w].locked
     THEN /\ Begins(w, [Idle EXCEPT !.at = "unlock_lstat", !.for = "close", !.file = win[w].file])
          /\ UNCHANGED win
     ELSE /\ win' = [win EXCEPT ![w] = Closed]
          /\ UNCHANGED call
  /\ UNCHANGED <<running, link, broken, sudo_saved>>

-----------------------------------------------------------------------------
(* Processes.  A number is given again once its process has ended.         *)

Start(p) ==
  /\ p \notin running
  /\ ~Alive(p, p)
  /\ running' = running \cup {p}
  /\ UNCHANGED <<link, win, call, broken, sudo_saved>>

Quit(p) ==
  /\ At(p, "idle")
  /\ \A w \in Window : win[w].owner # p
  /\ running' = running \ {p}
  /\ UNCHANGED <<link, win, call, broken, sudo_saved>>

Crash(p) ==
  /\ p \in running
  /\ running' = running \ {p}
  /\ win' = [w \in Window |-> IF win[w].owner = p THEN Closed ELSE win[w]]
  /\ call' = [call EXCEPT ![p] = Idle]
  /\ broken' = broken \cup {f \in File : link[f] = p}
  /\ UNCHANGED <<link, sudo_saved>>

Lock(p) ==
  \/ LockLstat(p) \/ LockReadlink(p) \/ LockKill(p) \/ LockGrab(p) \/ LockIgnore(p)
  \/ LockUnlink(p) \/ LockSymlink(p)

Unlock(p) == UnlockLstat(p) \/ UnlockReadlink(p) \/ UnlockUnlink(p)

Saves(p) ==
  \/ \E res \in Result \ {"none"} : SaveWrites(p, res)
  \/ \E f \in File : SaveAsName(p, f)
  \/ SudoSaves(p) \/ SaveCancel(p)

Edits(w) ==
  \/ \E p \in Proc, f \in File, new \in BOOLEAN : Open(p, w, f, new)
  \/ Modify(w) \/ Undo(w) \/ Save(w) \/ SaveAs(w) \/ Close(w)

Next ==
  \/ \E p \in Proc : Lock(p) \/ Unlock(p) \/ Saves(p) \/ Start(p) \/ Quit(p) \/ Crash(p)
  \/ \E w \in Window : Edits(w)

Spec == Init /\ [][Next]_vars

-----------------------------------------------------------------------------
(* Properties.                                                             *)

Holds(w, f) == win[w].locked /\ win[w].file = f
SaveHolds(p, f) == call[p].save_lock /\ call[p].file = f

(* "We hold lock on current file" (editwidget.h): until somebody breaks    *)
(* the lock of a file, a window that believes it holds it does, and it is  *)
(* the only one, of all processes and of its own, saves included.          *)
Exclusive ==
  \A f \in File \ broken :
    /\ \A w \in Window : Holds(w, f) => link[f] = win[w].owner
    /\ \A p \in Proc : SaveHolds(p, f) => link[f] = p
    /\ \A v, w \in Window : Holds(v, f) /\ Holds(w, f) => v = w
    /\ \A p \in Proc, w \in Window : ~(SaveHolds(p, f) /\ Holds(w, f))

(* No lock is left behind: a link that names a process is held by one of   *)
(* its windows or by a save in progress, whatever failed, was cancelled or *)
(* renamed, unless it was broken or the file was saved through sudo.       *)
NoneLeft(f) ==
  link[f] \in Proc => \/ \E w \in Window : win[w].owner = link[f] /\ Holds(w, f)
                      \/ SaveHolds(link[f], f)
NothingLeftBehind == \A f \in File \ (broken \cup sudo_saved) : NoneLeft(f)

(* "Maintain modify (not save) lock on failure" (editcmd.c): a modified    *)
(* buffer keeps the lock it got when it was modified, whatever saves fail, *)
(* until it is saved, undone or closed.                                    *)
ModifyLockKept ==
  \A w \in Window : LET s == win[w]
                    IN s.modified /\ ~s.new => s.locked \/ s.declined
=============================================================================
