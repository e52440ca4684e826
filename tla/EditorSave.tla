------------------------------ MODULE EditorSave ------------------------------
(***************************************************************************)
(* Saving a file in the editor (src/editor/editcmd.c, edit.c): the three   *)
(* save modes, the check whether the file has changed in the meantime,     *)
(* Save As with its reload, saving through sudo, closing a window, and     *)
(* files that the editor creates and deletes again.                        *)
(*                                                                         *)
(* Several sessions (windows of different mc processes) work on the same   *)
(* files.  Each system call and each question is a step, so that other     *)
(* sessions, and a crash, come between any two.  The lock is left out:     *)
(* these are sessions whose users ignored it, or whose file systems have   *)
(* none.                                                                   *)
(*                                                                         *)
(* Contents are told apart only as far as "empty", "partial" (truncated,   *)
(* being written, or not written as a whole) and "saved" (what was saved   *)
(* last, or there at first).                                               *)
(* The times of files are in seconds, and several writes may fall into one.*)
(***************************************************************************)
EXTENDS Integers

CONSTANTS
  Session,   \* editor windows
  File,
  Mode,      \* save modes in use: "quick", "safe", "backup"
  NoFile,
  MaxTime    \* bound: seconds

ASSUME ModeAssumption == Mode \subseteq {"quick", "safe", "backup"} /\ Mode # {}
ASSUME NoFileAssumption == NoFile \notin File
ASSUME BoundAssumption == MaxTime \in Nat \ {0, 1}

VARIABLES
  disk,   \* the files
  bak,    \* files whose backup is what was saved last
  now,    \* the clock
  win,    \* session -> its WEdit
  call,   \* session -> what it is in the middle of
  kept,   \* history: files of which something is saved
  seen,   \* history: file -> sessions that have loaded or written what is there
  marks   \* history: <<file, what has happened to it>>

historyVars == <<kept, seen, marks>>
vars == <<disk, bak, now, win, call, historyVars>>

Time == 0 .. MaxTime

Node == [is : {"absent", "empty", "partial", "saved"}, mtime : Time]
Absent == [is |-> "absent", mtime |-> 0]

(* WEdit: filename_vpath, modified, stat1.st_mtime, delete_file ("new"),   *)
(* lb ("asis" if line breaks are kept).                                    *)
Window == [open : BOOLEAN, file : File \cup {NoFile}, modified : BOOLEAN, stat1 : Time,
           new : BOOLEAN, asis : BOOLEAN]
Closed == [open |-> FALSE, file |-> NoFile, modified |-> FALSE, stat1 |-> 0, new |-> FALSE,
           asis |-> TRUE]
NoName == [Closed EXCEPT !.open = TRUE]

(* The C stack of a session.  file: what is being loaded or saved; mode:   *)
(* this_save_mode, or "sudo"; sb: the time that mc_stat found, while it is *)
(* needed; temp: that of the temporary file with the buffer; short: that   *)
(* file does not hold the whole buffer; agreed: the user has agreed to     *)
(* overwrite; made: the reload has created the file; as: in                *)
(* edit_save_as_cmd; closing: called by edit_ok_to_quit.                   *)
Place == {"idle", "load", "reload", "reread", "name", "overwrite", "stat", "links",
          "changed", "create", "write", "restat", "backup", "rename", "sudo", "quit", "closing"}
Call == [at : Place, file : File \cup {NoFile}, mode : {"quick", "safe", "backup", "sudo"},
         sb : Time, temp : Time, short : BOOLEAN, agreed : BOOLEAN, made : BOOLEAN, as : BOOLEAN,
         closing : BOOLEAN]
Idle == [at |-> "idle", file |-> NoFile, mode |-> "quick", sb |-> 0, temp |-> 0, short |-> FALSE,
         agreed |-> FALSE, made |-> FALSE, as |-> FALSE, closing |-> FALSE]

Mark == {"lost", "raced", "hasty", "untimed", "removed", "short"}

TypeOK ==
  /\ disk \in [File -> Node] /\ bak \subseteq File
  /\ now \in Time
  /\ win \in [Session -> Window]
  /\ call \in [Session -> Call]
  /\ kept \subseteq File /\ seen \in [File -> SUBSET Session]
  /\ marks \subseteq File \X Mark
  /\ \A s \in Session : call[s].at = "idle" => call[s] = Idle

Present(n) == n.mtime # 0

(* Files have been there for a while, or are not there.                    *)
Init ==
  /\ disk \in [File -> {Absent, [is |-> "saved", mtime |-> 1]}]
  /\ bak = {}
  /\ now = 2
  /\ win = [s \in Session |-> Closed]
  /\ call = [s \in Session |-> Idle]
  /\ kept = {f \in File : Present(disk[f])}
  /\ seen = [f \in File |-> {}]
  /\ marks = {}

At(s, place) == call[s].at = place
Goes(s, c) == call' = [call EXCEPT ![s] = c]
To(s, place) == Goes(s, [call[s] EXCEPT !.at = place])

-----------------------------------------------------------------------------
(* The disk, and the history of what happens to it.                        *)

(* The sessions that have looked at f, and are not done with it.           *)
Using(f) ==
  {s \in Session :
     /\ call[s].file = f
     /\ call[s].at \notin {"idle", "quit", "closing", "name", "overwrite"}
     /\ At(s, "stat") => call[s].as}

(* s changes f under its name: it races whoever else loads or saves it.    *)
Raced(s, f) == IF Using(f) \ {s} = {} THEN {} ELSE {<<f, "raced">>}

(* What is at f now goes away in favour of what s has in its buffer.       *)
Lost(s, f) ==
  IF call[s].agreed \/ s \in seen[f] \/ disk[f].is \in {"absent", "empty"}
  THEN {} ELSE {<<f, "lost">>}

(* What s puts at f has the time of what another session knows of f.       *)
Hasty(s, f, time) ==
  IF \E t \in Session \ {s} : win[t].file = f /\ win[t].stat1 = time
  THEN {<<f, "hasty">>} ELSE {}

(* s takes a time for the file in its window that what is there happens to *)
(* have, though s has not seen it: that of its temporary file, which after *)
(* a failed Save As is not even that file's.                               *)
Mistakes(s, f, time) ==
  IF f # NoFile /\ Present(disk[f]) /\ disk[f].mtime = time /\ s \notin seen[f]
  THEN {<<f, "hasty">>} ELSE {}

(* Save As with other line breaks loads the file again.                    *)
Rereads(s) == call[s].as /\ ~win[s].asis

(* The window goes on with the stat1 it had: none, if it had no name.      *)
Untimed(s, f) == IF win[s].stat1 = 0 /\ ~Rereads(s) THEN {<<f, "untimed">>} ELSE {}

Marks(m) == marks' = marks \cup m

(* s makes f what n says; keeping: whether anything is saved of it then.   *)
Puts(s, f, n, keeping) ==
  /\ disk' = [disk EXCEPT ![f] = n]
  /\ seen' = [seen EXCEPT ![f] = {s}]
  /\ kept' = IF keeping THEN kept \cup {f} ELSE kept \ {f}

-----------------------------------------------------------------------------
(* Opening: check_file_access, then edit_load_file.                        *)

(* The file is opened, or created if it is not there, and its time taken.  *)
CheckAccess(s, f) ==
  IF Present(disk[f])
  THEN UNCHANGED <<disk, historyVars>>
  ELSE /\ Puts(s, f, [is |-> "empty", mtime |-> now], FALSE)
       /\ Marks(Raced(s, f))

Accessed(f) == IF Present(disk[f]) THEN disk[f].mtime ELSE now

Open(s, f) ==
  /\ ~win[s].open
  /\ CheckAccess(s, f)
  /\ Goes(s, [Idle EXCEPT !.at = "load", !.file = f])
  /\ win' = [win EXCEPT ![s] = [NoName EXCEPT !.file = f, !.stat1 = Accessed(f),
                                              !.new = ~Present(disk[f])]]
  /\ UNCHANGED <<bak, now>>

OpenNew(s) ==
  /\ ~win[s].open
  /\ win' = [win EXCEPT ![s] = NoName]
  /\ UNCHANGED <<disk, bak, now, call, historyVars>>

Load(s) ==
  LET f == call[s].file
  IN /\ At(s, "load")
     /\ Present(disk[f])
     /\ seen' = [seen EXCEPT ![f] = @ \cup {s}]
     /\ Goes(s, Idle)
     /\ UNCHANGED <<disk, bak, now, win, kept, marks>>

(* The window's file is deleted if it is marked new, and the window        *)
(* forgotten by the history.                                               *)
Cleaned(s, f) ==
  IF win[s].new
  THEN /\ disk' = [disk EXCEPT ![f] = Absent]
       /\ kept' = IF disk[f].is = "saved" THEN kept \ {f} ELSE kept
       /\ Marks(Raced(s, f) \cup IF disk[f].is = "saved" THEN {<<f, "removed">>} ELSE {})
  ELSE UNCHANGED <<disk, kept, marks>>

Forgotten(s) == seen' = [f \in File |-> seen[f] \ {s}]

LoadFails(s) ==
  /\ At(s, "load")
  /\ Cleaned(s, call[s].file)
  /\ Forgotten(s)
  /\ win' = [win EXCEPT ![s] = Closed]
  /\ Goes(s, Idle)
  /\ UNCHANGED <<bak, now>>

Edit(s) ==
  /\ win[s].open /\ At(s, "idle")
  /\ win' = [win EXCEPT ![s].modified = TRUE]
  /\ UNCHANGED <<disk, bak, now, call, historyVars>>

-----------------------------------------------------------------------------
(* The return of edit_save_file, through its callers.                      *)

(* Mutant of SaveReturns: what the user has agreed to is not forgotten.    *)
SaveReturnsStale(s, fine) == To(s, IF call[s].closing /\ fine THEN "closing" ELSE "idle")

(* edit_save_cmd or edit_save_as_cmd is over, and says whether it is fine  *)
(* to close the window.                                                    *)
SaveReturns(s, fine) ==
  Goes(s, IF call[s].closing /\ fine THEN [Idle EXCEPT !.at = "closing"] ELSE Idle)

Reloads(s) ==
  Goes(s, [Idle EXCEPT !.at = "reload", !.file = call[s].file, !.closing = call[s].closing])

(* It was written: w is the window, with the new stat1 if it was taken.    *)
Done(s, w) ==
  LET v == [w EXCEPT !.file = call[s].file]
  IN IF Rereads(s)
     THEN /\ win' = [win EXCEPT ![s] = v]
          /\ Reloads(s)
     ELSE /\ win' = [win EXCEPT ![s] = [v EXCEPT !.modified = FALSE, !.new = FALSE]]
          /\ SaveReturns(s, TRUE)

(* The user has cancelled it: edit_save_cmd returns TRUE all the same.     *)
Aborted(s) == SaveReturns(s, ~call[s].as)

(* It failed: "save as" is tried, or sudo where permission was denied.     *)
Failed(s, denied) ==
  LET trySudo == call[s].mode = "sudo" \/ (denied /\ ~call[s].as)
  IN CASE trySudo -> Goes(s, [call[s] EXCEPT !.at = "sudo", !.temp = 0, !.short = FALSE])
       [] ~trySudo /\ call[s].as -> SaveReturns(s, FALSE)
       [] OTHER -> Goes(s, [Idle EXCEPT !.at = "name", !.as = TRUE, !.closing = call[s].closing])

-----------------------------------------------------------------------------
(* edit_save_file.                                                         *)

(* Without a name, it is Save As.                                          *)
Save(s) ==
  /\ win[s].open /\ At(s, "idle")
  /\ Goes(s, IF win[s].file = NoFile
             THEN [Idle EXCEPT !.at = "name", !.as = TRUE]
             ELSE [Idle EXCEPT !.at = "stat", !.file = win[s].file])
  /\ UNCHANGED <<disk, bak, now, win, historyVars>>

(* Mutant of Compared: only a file that this window has made is compared.  *)
ComparedOld(w, sb) == IF w.new /\ w.stat1 \notin {0, sb} THEN "changed" ELSE "create"

(* "Prevent overwriting changes from other editor sessions."               *)
Compared(w, sb) == IF w.stat1 \notin {0, sb} THEN "changed" ELSE "create"

(* this_save_mode is m, but a file that is not there is written directly.  *)
(* asks: it has more than one hard link, and detaching was not asked for   *)
(* in this window before.                                                  *)
StatFile(s, m, asks) ==
  LET n == disk[call[s].file]
      c == [call[s] EXCEPT !.mode = IF Present(n) THEN m ELSE "quick"]
  IN /\ At(s, "stat")
     /\ asks => c.mode = "quick" /\ Present(n)
     /\ Goes(s, CASE asks -> [c EXCEPT !.at = "links", !.sb = n.mtime]
                  [] ~asks /\ Present(n) -> [c EXCEPT !.at = Compared(win[s], n.mtime)]
                  [] OTHER -> [c EXCEPT !.at = "create"])
     /\ UNCHANGED <<disk, bak, now, win, historyVars>>

(* "File has hard-links. Detach before saving?"                            *)
AnswerLinks(s, detach) ==
  /\ At(s, "links")
  /\ Goes(s, [call[s] EXCEPT !.mode = IF detach THEN "safe" ELSE "quick",
                             !.sb = 0, !.at = Compared(win[s], call[s].sb)])
  /\ UNCHANGED <<disk, bak, now, win, historyVars>>

(* "The file has been modified in the meantime. Save anyway?"              *)
AnswerChanged(s) ==
  /\ At(s, "changed")
  /\ Goes(s, [call[s] EXCEPT !.at = "create", !.agreed = TRUE])
  /\ UNCHANGED <<disk, bak, now, win, historyVars>>

AnswerCancel(s) ==
  /\ At(s, "links") \/ At(s, "changed")
  /\ Aborted(s)
  /\ UNCHANGED <<disk, bak, now, win, historyVars>>

Direct(s) == call[s].mode \in {"quick", "sudo"}

(* The file itself is truncated, or a temporary file made beside it.       *)
Create(s) ==
  LET f == call[s].file
  IN /\ At(s, "create")
     /\ IF Direct(s)
        THEN /\ Puts(s, f, [is |-> "partial", mtime |-> now], FALSE)
             /\ Marks(Raced(s, f) \cup Lost(s, f) \cup Hasty(s, f, now))
             /\ To(s, "write")
        ELSE /\ Goes(s, [call[s] EXCEPT !.at = "write", !.temp = now])
             /\ UNCHANGED <<disk, historyVars>>
     /\ UNCHANGED <<bak, now, win>>

CreateFails(s, denied) ==
  /\ At(s, "create")
  /\ Failed(s, denied)
  /\ UNCHANGED <<disk, bak, now, win, historyVars>>

(* Errors of write and close are seen, and then the time of what was       *)
(* written is taken, only when the buffer is written as it is; sudo's exit *)
(* status is looked at too.  filter: a program writes the file.            *)
Checked(s, filter) == (win[s].asis /\ ~filter) \/ call[s].mode = "sudo"

(* What follows when the data is written: w is the window then, c the call.*)
GoesOn(s, w, c) ==
  IF Direct(s)
  THEN Done(s, w)
  ELSE /\ Goes(s, [c EXCEPT !.at = IF c.mode = "backup" THEN "backup" ELSE "rename"])
       /\ win' = [win EXCEPT ![s] = w]

(* The data is written, as a whole or not: the results of fclose and of    *)
(* the filter's pclose are ignored, so a disk that turns out to be full    *)
(* when the stream is flushed, or a filter that fails, is a save like any  *)
(* other.  What two writers of one file leave under its name is not        *)
(* followed: they are marked as having raced.                              *)
Write(s, filter, whole) ==
  LET f == call[s].file
      n == [is |-> IF whole THEN "saved" ELSE "partial", mtime |-> now]
      c == IF Direct(s) THEN [call[s] EXCEPT !.temp = 0]
           ELSE [call[s] EXCEPT !.temp = now, !.short = ~whole]
  IN /\ At(s, "write")
     /\ filter => call[s].mode # "sudo"
     /\ whole \/ ~Checked(s, filter)
     /\ IF Direct(s)
        THEN /\ Puts(s, f, n, whole)
             /\ bak' = bak \ {f}
             /\ Marks(Raced(s, f) \cup Hasty(s, f, now)
                        \cup IF Checked(s, filter) THEN {} ELSE Untimed(s, f))
        ELSE UNCHANGED <<disk, bak, historyVars>>
     /\ IF Checked(s, filter)
        THEN Goes(s, [c EXCEPT !.at = "restat"]) /\ UNCHANGED win
        ELSE GoesOn(s, win[s], c)
     /\ UNCHANGED now

(* An error that the code sees: of write or close where it is Checked, a   *)
(* stream that takes no more, a filter or file that cannot be opened.      *)
WriteFails(s) ==
  /\ At(s, "write")
  /\ Failed(s, FALSE)
  /\ UNCHANGED <<disk, bak, now, win, historyVars>>

(* "Update the file information, especially the mtime."                    *)
Restat(s) ==
  LET time == IF Direct(s) THEN disk[call[s].file].mtime ELSE call[s].temp
  IN /\ At(s, "restat")
     /\ CASE time # 0 -> GoesOn(s, [win[s] EXCEPT !.stat1 = time], call[s])
          [] time = 0 /\ call[s].mode = "sudo" -> GoesOn(s, win[s], call[s])
          [] OTHER -> Failed(s, FALSE) /\ UNCHANGED win
     /\ Marks(Mistakes(s, win'[s].file, time))
     /\ UNCHANGED <<disk, bak, now, kept, seen>>

(* Mutant of Backup: removes the file, without making the backup of it.    *)
BackupRemoves(s) ==
  LET f == call[s].file
  IN /\ At(s, "backup")
     /\ Present(disk[f])
     /\ Puts(s, f, Absent, f \in kept)
     /\ bak' = bak \ {f}
     /\ Marks(Raced(s, f) \cup Lost(s, f))
     /\ To(s, "rename")
     /\ UNCHANGED <<now, win>>

(* The last whole copy of f goes: there is no backup, or none any more.    *)
Short(f, gone) == IF gone THEN {<<f, "short">>} ELSE {}

(* The file is renamed to its backup, even one that is not whole.          *)
Backup(s) ==
  LET f == call[s].file
  IN /\ At(s, "backup")
     /\ Present(disk[f])
     /\ bak' = IF disk[f].is = "saved" THEN bak \cup {f} ELSE bak \ {f}
     /\ Puts(s, f, Absent, f \in kept)
     /\ Marks(Raced(s, f) \cup Lost(s, f) \cup Short(f, disk[f].is = "partial"))
     /\ To(s, "rename")
     /\ UNCHANGED <<now, win>>

(* The temporary file takes its place, even one that is not whole.         *)
Rename(s) ==
  LET f == call[s].file
      short == call[s].short
  IN /\ At(s, "rename")
     /\ Puts(s, f, [is |-> IF short THEN "partial" ELSE "saved", mtime |-> call[s].temp],
             ~short \/ f \in kept)
     /\ bak' = IF short THEN bak ELSE bak \ {f}
     /\ Marks(Raced(s, f) \cup Lost(s, f) \cup Hasty(s, f, call[s].temp) \cup Untimed(s, f)
                \cup Short(f, short /\ f \notin bak))
     /\ Done(s, win[s])
     /\ UNCHANGED now

RenameFails(s, denied) ==
  /\ At(s, "backup") \/ At(s, "rename")
  /\ Failed(s, denied)
  /\ UNCHANGED <<disk, bak, now, win, historyVars>>

-----------------------------------------------------------------------------
(* Saving through sudo, and under a name.                                  *)

(* tee truncates the file and writes it again.                             *)
SudoSaves(s) ==
  /\ At(s, "sudo")
  /\ Goes(s, [call[s] EXCEPT !.at = "create", !.mode = "sudo"])
  /\ UNCHANGED <<disk, bak, now, win, historyVars>>

(* The password or the name is not given, or a file not overwritten.       *)
SaveCancel(s) ==
  /\ At(s, "sudo") \/ At(s, "name") \/ At(s, "overwrite")
  /\ SaveReturns(s, FALSE)
  /\ UNCHANGED <<disk, bak, now, win, historyVars>>

SaveAs(s) ==
  /\ win[s].open /\ At(s, "idle")
  /\ Goes(s, [Idle EXCEPT !.at = "name", !.as = TRUE])
  /\ UNCHANGED <<disk, bak, now, win, historyVars>>

(* The name, and whether line breaks are changed.                          *)
Name(s, f, asis) ==
  /\ At(s, "name")
  /\ win' = [win EXCEPT ![s].asis = asis]
  /\ Goes(s, [call[s] EXCEPT !.file = f,
                             !.at = IF f # win[s].file /\ Present(disk[f])
                                    THEN "overwrite" ELSE "stat"])
  /\ UNCHANGED <<disk, bak, now, historyVars>>

(* "A file already exists with this name"                                  *)
AnswerOverwrite(s) ==
  /\ At(s, "overwrite")
  /\ Goes(s, [call[s] EXCEPT !.at = "stat", !.agreed = TRUE])
  /\ UNCHANGED <<disk, bak, now, win, historyVars>>

(* edit_reload loads the file into a new WEdit,                            *)
Reload(s) ==
  LET f == call[s].file
  IN /\ At(s, "reload")
     /\ CheckAccess(s, f)
     /\ Goes(s, [call[s] EXCEPT !.at = "reread", !.sb = Accessed(f), !.made = ~Present(disk[f])])
     /\ UNCHANGED <<bak, now, win>>

(* which replaces the old one.  That one is cleaned first, and deletes the *)
(* file if it is marked new; the caller clears the marks of the new one.   *)
Reread(s) ==
  LET f == call[s].file
  IN /\ At(s, "reread")
     /\ Present(disk[f])
     /\ Cleaned(s, f)
     /\ seen' = [seen EXCEPT ![f] = @ \cup {s}]
     /\ win' = [win EXCEPT ![s] = [NoName EXCEPT !.file = f, !.stat1 = call[s].sb]]
     /\ SaveReturns(s, TRUE)
     /\ UNCHANGED <<bak, now>>

(* Or it could not be loaded, and the window goes on as it is.             *)
RereadFails(s) ==
  LET f == call[s].file
  IN /\ At(s, "reread")
     /\ IF call[s].made
        THEN /\ Puts(s, f, Absent, FALSE)
             /\ Marks(Raced(s, f) \cup Untimed(s, f))
        ELSE /\ Marks(Untimed(s, f))
             /\ UNCHANGED <<disk, kept, seen>>
     /\ win' = [win EXCEPT ![s].modified = FALSE, ![s].new = FALSE]
     /\ SaveReturns(s, TRUE)
     /\ UNCHANGED <<bak, now>>

-----------------------------------------------------------------------------
(* Closing: edit_ok_to_quit, edit_close_cmd, edit_clean.                   *)

Close(s) ==
  /\ win[s].open /\ At(s, "idle")
  /\ To(s, IF win[s].modified THEN "quit" ELSE "closing")
  /\ UNCHANGED <<disk, bak, now, win, historyVars>>

(* "File was modified. Save before close?"                                 *)
AnswerQuit(s) ==
  /\ At(s, "quit")
  /\ \/ Goes(s, IF win[s].file = NoFile
                THEN [Idle EXCEPT !.at = "name", !.as = TRUE, !.closing = TRUE]
                ELSE [Idle EXCEPT !.at = "stat", !.file = win[s].file, !.closing = TRUE])
     \/ Goes(s, [Idle EXCEPT !.at = "closing"])
     \/ Goes(s, Idle)
  /\ UNCHANGED <<disk, bak, now, win, historyVars>>

Destroy(s) ==
  /\ At(s, "closing")
  /\ Cleaned(s, win[s].file)
  /\ Forgotten(s)
  /\ win' = [win EXCEPT ![s] = Closed]
  /\ Goes(s, Idle)
  /\ UNCHANGED <<bak, now>>

Crash(s) ==
  /\ win[s].open
  /\ win' = [win EXCEPT ![s] = Closed]
  /\ Goes(s, Idle)
  /\ Forgotten(s)
  /\ UNCHANGED <<disk, bak, now, kept, marks>>

Tick ==
  /\ now < MaxTime
  /\ now' = now + 1
  /\ UNCHANGED <<disk, bak, win, call, historyVars>>

SaveFile(s) ==
  \/ \E m \in Mode, asks \in BOOLEAN : StatFile(s, m, asks)
  \/ \E detach \in BOOLEAN : AnswerLinks(s, detach)
  \/ AnswerChanged(s) \/ AnswerCancel(s)
  \/ \E filter, whole \in BOOLEAN : Write(s, filter, whole)
  \/ Create(s) \/ WriteFails(s) \/ Restat(s) \/ Backup(s) \/ Rename(s)
  \/ \E denied \in BOOLEAN : CreateFails(s, denied) \/ RenameFails(s, denied)

SaveCommands(s) ==
  \/ Save(s) \/ SudoSaves(s) \/ SaveCancel(s)
  \/ SaveAs(s) \/ AnswerOverwrite(s) \/ Reload(s) \/ Reread(s) \/ RereadFails(s)
  \/ \E f \in File, asis \in BOOLEAN : Name(s, f, asis)

Next ==
  \/ \E s \in Session :
       \/ OpenNew(s)
       \/ \E f \in File : Open(s, f)
       \/ Load(s) \/ LoadFails(s) \/ Edit(s)
       \/ SaveFile(s) \/ SaveCommands(s)
       \/ Close(s) \/ AnswerQuit(s) \/ Destroy(s) \/ Crash(s)
  \/ Tick

Spec == Init /\ [][Next]_vars

-----------------------------------------------------------------------------
(* Properties.                                                             *)

(* "Prevent overwriting changes from other editor sessions" (editcmd.c):   *)
(* what a save replaces without asking, its session has loaded or written, *)
(* unless another session changed the file during the save, or the file    *)
(* has got the very time that the session has for it, or the session has   *)
(* none: its comparison of times cannot see these.                         *)
NoSilentOverwrite ==
  \A f \in File :
    <<f, "lost">> \in marks => \E m \in {"raced", "hasty", "untimed"} : <<f, m>> \in marks

(* Safe saves and backups (editcmd.c): what was last saved of a file is    *)
(* there as a whole, under its name or the backup's, at every moment and   *)
(* after any failure or crash, until another save writes to the file       *)
(* itself, the editor makes the file anew, or two sessions work on it at   *)
(* once; or until a write that failed unnoticed ("short") has replaced a   *)
(* file that has no backup, or a file that such a write left has replaced  *)
(* the backup.                                                             *)
KeepsACopy ==
  \A f \in kept :
    \/ disk[f].is = "saved" \/ f \in bak
    \/ <<f, "raced">> \in marks \/ <<f, "short">> \in marks

(* "New file, delete it if it's not modified or saved" (edit.c): the       *)
(* editor does not delete what was saved.                                  *)
SavedStays == \A f \in File : <<f, "removed">> \notin marks
=============================================================================
