# Verification of mcdev in TLA+

mcdev is a fork of GNU Midnight Commander: a text-mode file manager with an editor, a viewer,
an embedded terminal, and extension runtimes (Lua) that subscribe to events, open screens and
feed the viewer. This directory holds models of its stateful parts, what TLC checks of them,
and theorems that TLAPS proves about them.

All paths are relative to the repository.

## 1. The system

mc is one thread, so almost none of its concurrency is between threads. What makes it hard is:

- **Re-entrancy.** The event bus calls extensions, which call the bus back before they return.
- **Nested loops.** A message, a question or a dialog runs the whole event loop inside the
  function that opened it: streams go on, the terminal is resized, other windows come forward,
  and the function then continues with what it read before.
- **Child processes**, watched through select channels and reaped by callbacks.
- **Other mc processes**, which share the disk and nothing else, and can die at any moment.

### Inventory

The first column is the component in `PROJECT.json`; S is the state it keeps, O its operations,
H what is hard, P what would make it correct.

| component | state, operations, hard behaviours, properties |
|---|---|
| **Runtime event bus** `lib/runtime-events.c` | S: subscriber lists, reference counts, error counts, depth counters, queue, handle tables. O: subscribe, unsubscribe, unsubscribe_all, publish, deinit, register and resolve of handles. H: callbacks that change the list being walked, nested dispatch, queue and drain. P: ownership, order, no re-entry, nothing lost. **Modelled** (without handles). |
| **Viewer source and stream** `src/viewer/source.c`, `growbuf.c`, `datasource.c`, `src/runtime-viewer-source.c` | S: controller, specification, temporary files, pipe and channel, flags, generation. O: attach, options (prepare, commit, rollback), F8, resize, load, close. H: failures in the middle, modals under which the stream ends or the size changes. P: events in order and exactly once, files owned, pending state settled. **Modelled.** |
| **File locks** `lib/lock.c`, `src/editor/edit.c`, `editcmd.c` | S: a symbolic link per file; `locked`, `modified`, `delete_file` per window. O: lock, unlock, modify, undo, save, save as, close. H: several processes interleave by system call, crash, reuse numbers. P: exclusion, release, no lock taken unasked. **Modelled.** |
| **Editor saving** `src/editor/editcmd.c`, `edit.c` | S: the file, its backup and temporary file; `stat1`, `modified`, `delete_file`, line breaks per window. O: open, save in three modes, save as with reload, sudo, close. H: questions in the middle of a save, sessions that change the file meanwhile, failures and crashes between the renames, clocks of one second. P: nothing overwritten unasked, one good copy at any time, no edit dropped unasked. **Modelled.** |
| Extension runtimes `lib/extension-runtime.c` | S: plugins, contexts, instances, the interruption timer. O: load, start, stop, shutdown. H: shutdown while a callback is on the stack. P: no call into a stopped plugin. *Planned.* |
| Runtime host services `src/runtime-host.c`, `runtime-screen.c`, `runtime-panel-provider.c` | S: screens, tasks, providers. H: a task ends after its screen was closed. P: one end per task, none for a dead screen. *Planned (tasks).* |
| Lua runtime `src/lua/mc-lua.c` | S: registry references. Mostly conversions. Its `live_ref`/`pending_ref` pair is in ViewerSource. |
| Viewer windows, filters, terminal emulation | Layout, movement, line filters, an escape-sequence parser: long sequential code over bytes. |
| Editor `src/editor/` (the rest) | S: gap buffer, undo ring, windows. O: edit, undo, redo, blocks, scripts. H: undo and redo rings that grow, wrap and overflow; a branch after undo. P: undo restores, redo returns, unmodified means saved. **Modelled** (undo and redo). |
| Editor plugins, panels, diff viewer, menus, tree | Sequential user interface code; they are the publishers of RuntimeEvents. |
| File operations `src/filemanager/file.c` | S: copy and move contexts, link cache, erase list. H: errors and answers at every call, a move that is a copy followed by a deletion, targets that appear meanwhile, answers kept from file to file. P: a source is erased only when its copy is whole, nothing is overwritten unasked. **Modelled** (copy and move of files). |
| Embedded terminal `src/mcterm/` | S: PTY child, prompt detection, cwd synchronisation. H: prompt output racing panel commands. *Planned.* |
| Background jobs `src/background.c` | S: list of children, pipes with a request protocol. O: start, request, answer, end of pipe; stop, resume, kill. H: both ends waiting, nested dialogs with requests of several jobs, stale select sets. P: answers reach who asked, no job forgotten, every job ends. **Modelled** (requests without string results). |
| VFS core `lib/vfs/` | S: open handles, directory cache, time stamps. O: open, close, enter, leave, sweep, exit. H: a sweep that changes the list it walks, archives inside archives. P: never freed while open, current or a parent; use counts exact. **Modelled** (`gc.c` with extfs and sfs archives). |
| Dialogs and the switcher `lib/widget/dialog*.c` | S: stack of running dialogs, list of suspended ones. H: switching inside a nested dialog. *Planned (DialogSwitch).* |
| VFS back ends, panel plugins, terminal library | External protocols and terminal I/O. The SFTP plugin's worker thread is a candidate. |
| Search, strings, configuration, skins, hooks, start-up, build files | No state machine of their own; pure functions have the repository's unit tests. |

How they meet: the main loop, the panels, the editor and the viewer *publish* to the bus; the
bus *calls* subscriptions of the extension runtimes; an extension may *open a viewer* with a
source it makes, and the viewer *calls it back* for options, for a rebuild and with process
states; the editor *locks* files against other mc processes; at the end `main` publishes
shutdown, stops the runtimes, whose contexts unsubscribe, and frees the bus last.

## 2. Modules

| module | what it is |
|---|---|
| `EventBus` | What the bus promises its publishers, with neither lists nor queue nor stack. |
| `RuntimeEvents` | The bus as coded, shown to implement `EventBus`. |
| `MCRuntimeEvents` | Constants and symmetry for TLC. |
| `SequenceLemmas` | InsertAt, RemoveAt, Front, Append and ranges; the least natural number with a property. |
| `RuntimeEvents_proofs` | Theorems about the bus: references, re-entry, counters; order, service, queue, and that it implements `EventBus`. |
| `ViewerSource`, `MCViewerSource` | A viewer fed by an extension. |
| `FileLock`, `MCFileLock` | Locks of edited files between processes. |
| `EditorSave`, `MCEditorSave` | Saving, reloading and closing files that other sessions change. |
| `BackgroundJobs`, `MCBackgroundJobs` | Forked file operations that talk to mc over pipes. |
| `VfsStamps`, `MCVfsStamps` | Time stamps that keep archives alive, and the sweep that frees them. |
| `EditorUndo`, `MCEditorUndo` | The undo and redo rings of the editor and the modified flag. |
| `FileMove`, `MCFileMove` | Copying and moving files with errors, questions and links. |
| `FileLock_proofs` | Exclusion of locks, their release, their survival over failed saves. |
| `ViewerSource_proofs` | Events in order, files owned, nothing pending or left behind. |
| `EditorSave_proofs` | A save overwrites nothing it does not know, and keeps a copy. |
| `BackgroundJobs_proofs` | Answers reach the question they belong to; no job is forgotten. |
| `FileMove_proofs` | A move loses nothing and replaces nothing unasked. |
| `VfsStamps_proofs` | The list of stamps survives its sweep; nothing in use is freed; use counts are exact. |

The parts share little state, and meet in calls that a model here leaves open: a bus callback
may do "anything", which includes opening viewers and editors. FileLock and EditorSave are two
views of the same functions of the editor: one keeps the lock and leaves out the contents, the
other the reverse, for sessions whose users ignored the lock or whose file system has none.
So the modules are not composed. Composition (runtimes with the bus, two viewers with the hook list) is planned.

In every module an operator named `...Early`, `...Unchecked`, `...Over` and so on, with a
comment that begins "Mutant of", is a plausible bug of the definition after it. It takes part in
no behaviour; the properties are tried against it.

### 2.1 RuntimeEvents

The C call stack is the variable `stack`: one frame per active `mc_runtime_event_dispatch`, with
the snapshot, the copied subscriber list, the loop index (`pos`), whether the callback at that
index is running, and whether the drain loop or the publisher called it. While the innermost
frame's callback runs, or the stack is empty, *code* has control (`CodeRuns`) and may do any bus
operation; otherwise the bus has (`DispatchRuns`). So callbacks nest to any depth the bounds
allow, and every operation is tried at every point where C code could call it.

| code | action |
|---|---|
| `mc_runtime_events_subscribe`, `_unsubscribe` | actions of these names |
| `mc_runtime_events_unsubscribe_all` | `UnsubscribeAllBegin`, `UnsubscribeAllStep` per subscription, `UnsubscribeAllEnd` |
| publish and `dispatch_or_queue` | `mc_runtime_event_publish`: queue (`Enqueue`) or `BeginDispatch` |
| the loop of `mc_runtime_event_dispatch` | `Call`, then `ReturnPass`, `ReturnConsume` or `ReturnError` |
| its tail | `EndDispatch`: counters, release of the copied list, perhaps the drain |
| `mc_runtime_event_drain_queue` | `DrainNext`, `DrainEnd` |
| `mc_runtime_events_deinit` | action of this name, from the main loop only, as `main` does |

`audit` is a history variable (who was listed when a dispatch began, who was called), written
and never read by the actions. Event payloads are reduced to the kind, the panel of a selection
event, an identity and the consumed flag of an editor key.

### 2.2 ViewerSource

One viewer, either a window (`mode = "dialog"`) or the quick view of a panel. `flow` is the stack
of modals opened from inside source code: the extension's options dialog and the error
messages of options, of F8 and of a rebuild. Each modal is a point where the stream
(`StreamData`, `StreamEnd`, `StreamRedraw`) and resizes (`Resize*`) run before the function goes
on, with what it knew before. One function is thus several actions: `mcview_source_options` is
`OptionsOpen`, then `OptionsCancel`, `OptionsUnprepared`, `OptionsUnopened` or `OptionsDone`,
and `OptionsFailed` when its message is closed. `Install` is the swap that all of them share
(`mcview_reset_for_source_swap`, `mcview_install_source`). `files` holds the controller's two
temporary files and those on the disk; `log` is what extensions are told.

Content also changes through `Attach` (`runtime_viewer_controller_open`), `Load` (the quick view
moves to another file), `Destroy` and `Suspend` (the dialog loop ends; the window loses its
controller and, when it is destroyed, its stream).

### 2.3 FileLock

The link beside a file is `link[f]`: nothing, something that is no symbolic link, a link without
a number, or a process. Each system call of `lock_file` and `unlock_file` is an action
(`LockLstat`, `LockReadlink`, `LockKill`, `LockUnlink`, `LockSymlink`; `UnlockLstat`,
`UnlockReadlink`, `UnlockUnlink`), as are the user's answers (`LockGrab`, `LockIgnore`), so
processes interleave between any two. `call[p]` is where process p is in these calls, for which
window, and what for; the editor's functions begin a call and go on when it returns:
`Modify` (`edit_modification`), `Undo` (`edit_check_and_clear_modified`), `Save`, `SaveWrites`
and `SaveEnds` (`edit_save_cmd`), `SaveAs`, `SaveAsName` (`edit_save_as_cmd`), `SudoSaves`,
`Close`. `Alive` compares numbers on the caller's own host, as `kill(pid, 0)` does. `Crash` drops
a process at any point; its number may be taken by another (`Host`, `Pid` are constants, so two
members of `Proc` may share them and then never run together).

History: `broken` holds the files whose lock went, or may go, otherwise than by its owner's
unlock (grabbed, found stale, owner crashed); `sudo_saved` those whose lock outlived a save
through sudo; `declined` in a window says that the lock of its last modification was refused.

### 2.4 EditorSave

`disk` is what is under the names, with modification times; `win[s]` is the `WEdit` of a session,
`call[s]` its C stack: where it is between two system calls or at which question. The path of
`edit_save_file` is `StatFile` (mode, `mc_stat`, comparison of times), `AnswerLinks`,
`AnswerChanged` or `AnswerCancel`, `Create` (truncate, or make the temporary file), `Write`,
`Restat` (where errors are looked at, `Checked`), `Backup`, `Rename`, and a failing twin of each.
Its result goes back through `Done`, `Aborted` and `Failed`, which are the ends of `edit_save_cmd` and `edit_save_as_cmd`: success,
cancel, and failure that leads to sudo (`SudoSaves`) or to Save As (`Name`, `AnswerOverwrite`,
then `Reload` and `Reread` when line breaks change). `Close` and `AnswerQuit` are
`edit_ok_to_quit`, `Destroy` is the end of the window. Contents are "empty", "partial" or
"saved". The buffer cannot change during a save, so of a temporary file only its time is kept, and
whether it is whole: `edit_save_file` does not look at the results of `fclose` and `pclose`
(`editcmd.c:479`, 526), so a disk that is full at the flush, or a filter that dies at the end,
is a success that leaves a part. `Write` may therefore end with a whole file or a part of one; what
the code does notice is `WriteFails`.

History: `kept` (files of which something is saved), `seen` (sessions that know what is there
now), and `marks`: a file was overwritten unasked (`lost`), changed by one session during another's load
or save (`raced`), given the time that a session has for it though it knows other contents
(`hasty`: the file was changed within that second, or a failed Save As left the window with the time
of a temporary file, `Mistakes`), reloaded in vain by a window that has no time for it (`untimed`), deleted after being saved
(`removed`), replaced by a part of the buffer that counted as the whole, with no backup left (`short`).

### 2.5 BackgroundJobs

A job is a forked mc. `stack` is the stack of event loops of mc, the innermost last: a
request opens a dialog, whose loop serves further requests on top of it. Each loop keeps
the set that its own `select` returned (`Loop.ready`), which `check_selects` walks without asking
again: after an inner loop it may name a pipe that has nothing left, and `ReadHead` then waits in
`read`. A request goes through the pipe piece by piece (`Ask`, `AskRest`; `ReadHead`,
`ReadQuestion`, `ReadGoodbye`, `ReadFails`), so a job can die or be stopped in its middle. `up` and
`down` are the two pipes. mc's ends are never closed and younger jobs inherit them: `Held` says
who still holds the other end of a pipe. The end of a pipe is `Bury`, `Misbehaves` or
`NobodyToBury`, by what `waitpid` finds for the pid that mc's copy of the context holds, which is
wrong after a question (`pid`). `Stop`, `Resume` and `Kill` are `task_cb` of the Jobs dialog.

### 2.6 VfsStamps

`vfs` holds all that the functions of `gc.c`, `extfs.c` and `sfs.c` change: the archives read
(`loaded`), the use counts (`fd_usage`), the archives whose local copy is out of the archive they
lie in (`copied`), the copies that nobody gives back (`kept`), the list of stamps with their ages
(`stamps`), and the place of the sweep in it (`at`, 0 when `vfs_expire` is not locked). `held` is the
archive that an `extfs_open` has found and not yet counted as used. A function of
the code is an operator from one such record to the next. `Load` is the recursion of
`extfs_get_path` over the archives of a path, written as a recursive function on archives.

| code | action |
|---|---|
| `panel_do_cd_int`, `mc_chdir` | `Cd`, `CdFails` (the helper of an archive fails) |
| the other panel, a view that is no listing, a listing again | `Focus`, `Info`, `List` |
| `stat`, `open` and `close` in an archive | `Look`, `Open`, `Close` |
| `extfs_open` whose helper has a message to show | `CopyoutWarns`, then `CopyoutFails`, `OpenEnds`, `ReadEnds`, or `Dangles` |
| `vfs_timeout_handler` | `Timeout`, which begins a sweep |
| the loop of `vfs_expire`, and its end | `SweepStamp` for each node, `SweepEnd` for each NULL and the lock |
| the end of `do_nc`, `main`, `vfs_gc_done`, `extfs_done` | `Quit`, `Expire`, `GcDone`, `Shut` |

An operation of the user is one step but for one place: `extfs_open` finds the archive
(`extfs.c:1056`), has its helper copy the file out (1089), and only then removes the stamp and counts
the file (1117, 1118). When the helper fails or has written to stderr, `extfs_cmd` shows a message
(994, 1004, 1009), whose event loop calls `vfs_timeout_handler` (`lib/tty/key.c:2249`). So
`CopyoutWarns` ends where the message appears, sweeps come under it, and the open goes on or fails
when it is closed. A file is opened there for a viewer or an editor (`OpenEnds`), or because it is
itself an archive that is to be read (`ReadEnds`; the command that wanted to read it is then the next
step, as the archive is there). `vfs_timeout_handler` may free the archive that is `held`, for it
still has its old stamp; `extfs_open` then goes on with freed memory (`Dangles`), and the model
follows it no further: the phase is "undefined".

The other messages of the layer need no step of their own. They are shown while nothing is held that
is not counted: those of reading an archive (`extfs.c:751`) when its local copy has been
taken, those of `sfs_vfmake` likewise, and those inside a sweep while `vfs_expire` is locked
(`gc.c:246`). The turn of a stamp is one step; between two turns the list is as freeing the last
archive has left it, with nodes appended, removed before and after the place of the sweep, and the
id NULL where the code has written NULL.

### 2.7 EditorUndo

`undo` and `redo` are the two rings with their pointer, bottom and size, read only between
them, so what lies outside is blanked. `Put` and `CheckBottom` are `edit_push_undo_action` with its
growth, compression of repeated moves and characters, and the jump of the bottom to the next key;
`Popped` is `edit_pop_undo_action`, `Undo` and `Redo` the commands, which push what they undo on the
other ring. Keys type, delete and move the cursor; `Click` and `Script` are the ways into the
buffer that push a key press of their own. `modified`, the generation and the count of changes are
those of `edit_check_and_clear_modified`. The text is one line of two characters.

History: `seen` (the text before each key still in the ring), `saved` (the text in the file), `aside`
(a click or a script edit came while a redo was pending, or an undo filled the redo ring, which
then dropped changes).

### 2.8 FileMove

`f` is the C stack of one file, its field `at` the place in `move_file_file` and
`copy_file_file`; `ctx` what `file_op_context_t` carries to the next file: `ignore_all`,
`do_append`, `do_reget` and the answer that the overwrite question keeps (`replace_result`). `src`
and `dst` are the two directories: a target is nothing, a file or a link, with the pieces of a source it has
so far, behind older contents or not.

| code | action |
|---|---|
| loops of `panel_operate` and `copy_dir_dir` | `Next_File`, `Copied`, `LastFile` |
| `do_move_dir_dir`, `erase_dir_after_copy` | `MoveDir`, `Erase`, `EraseFails`, `Erased` |
| `move_file_file` | `Move`, `Ask`, `Rename`, `RenameFails`, `RemoveSource`, `RemoveFails` |
| `copy_file_file`, before the contents | `Copy`, `Query`, `OpenSource`, `OpenTarget`, `TargetExists` |
| `check_hardlinks`, `make_symlink` | `NoLinks`, `LinkMet`, `LinkMade`, `LinkFails`, `SymlinkMade`, `SymlinkFails` |
| its loop and its end | `Clone`, `Read`, `Write`, `WriteIgnored`, `Buttons`, `Close`, `DeleteShort`, `Preserve`, `Leave` |

`...Fails` is the error of a call with every answer to it: Ignore, Ignore all, Abort; Retry makes
the same call again and changes nothing. Skip and Abort in the progress dialog are looked at where
the code calls `file_progress_check_buttons` (`Pressed`). `Appears` is another program.

History: `agreed` (targets the user gave up), `theirs` (targets that are not this operation's),
`miscounted` (files for which the code goes on as if the copy were good; section 6 lists where).

## 3. What TLC checks

`PROJECT.json` lists the runs; each property is also tried against a mutant of the code's
definitions, which must violate it.

| run | instance | what it shows |
|---|---|---|
| `subscriptions` | 3 subscriptions, 2 contexts, 2 priorities, 2 kinds of events, 2 publications, error limit 2 | `TypeOK`; `Ownership` (references counted exactly, user data destroyed once); `CalledInOrder`; `EveryoneServed` (changes to the list make a dispatch skip nobody); `GoneForGood` (a cancelled subscription is never entered again) |
| `queue` | 3 kinds, 2 panels, 2 subscriptions, 5 publications, fair | `NeverReentered`, `NothingStuck`, `QueueDiscipline`; the bus implements `EventBus`, safety (`ImplementsEventBus`) and liveness (`DeliversEverything`) |
| `viewer_sources` | both modes, all policies and kinds, 3 specifications, 3 processes, 2 controllers, 2 nested modals, 2 sizes | `EventOrder`, `TempsOwned`, `Settled`, `ReopenableUnlessViewport`, `NothingLeftBehind`, `TypeOK` |
| `lock_editors` | 2 processes, 2 windows, 2 files, one of which may have something foreign beside it | `Exclusive`, `NothingLeftBehind`, `ModifyLockKept`, `TypeOK`, and no deadlock |
| `save_copies` | 2 sessions (the second opens, saves and closes, without sudo, backups and questions answered with yes, and its temporary files are whole), 1 file, all modes, 3 seconds | `NoSilentOverwrite` (the comparison of times does what its comment says, but for races and equal times), `KeepsACopy` (failures and crashes between the renames, writes that fail unseen while a backup is left), `TypeOK`, and no deadlock |
| `jobs` | 2 jobs, one request each besides the goodbye, every death, stop and kill, mc that quits; fair | `AnswersMatch` (an answer reaches the question it belongs to, however the dialogs were nested), `NotForgotten`, `EveryJobEnds` (unless somebody stops jobs for good), `TypeOK` |
| `stamps` | archives nested three deep with a compressed file in the outermost, 2 panels, 2 ages, 2 kept copies, timeouts between operations and under the message of a helper | `StampsRefer` (the list survives its sweep), `Backed` (no timeout takes the file away an inner archive works on, or frees under an open file), `UsageCounts`, `StampKept`, `TypeOK` |
| `undo` | 2 characters, a first ring of 8 and a limit of 8 or 16, with and without grouping, 3 keys, a script that fills the small ring; saves count as keys | `UndoRestores`, `RedoReturns`, `RingSound` (what is between bottom and pointer can be read back), `ClearMeansSaved`, `TypeOK` |
| `move` | 2 files that are one inode, or a file with a link elsewhere and a symbolic link; 2 pieces; targets that are missing, dead links or beginnings; every error but that of linking | `NothingLost` (what is gone from the source is whole in the target), `AsksFirst` (nobody's file is changed before the user agreed), `TypeOK` |
| `save_reload`, `undo_click`, `move_reget` | the smallest instance that shows it | a promise the code does not keep (section 5) |

**Why these bounds.** *subscriptions*: three subscriptions are the least for a list in
which one is removed before, at and after the loop's index; two publications give a nested
dispatch of another kind, two contexts an unsubscribe_all that leaves something, limit 2 a
disabling in the outer frame after an error in the inner one. *queue*: five publications give a
dispatch, a nested one, and three waiting events, of which two can be of one panel with a
third in between; two subscriptions suffice because the queue does not look at them.
*viewer_sources*: three specifications are a first source, its replacement and a rebuild under
the replacement's failure message, which is also the second nested modal; the second controller
is the one a stale event could reach. *lock_editors*: two windows may belong to one process or
to two; the save of one window into the file of another needs two files. A third process matters
only once a lock is broken, which `Exclusive` leaves aside. *save_copies*: what the first session may lose
or overwrite does not depend on who else changed the file, so the second needs no more than
plain saves (where it would have to agree to overwrite, it can close the file, open it again and
save); a window without a name takes the part of a second file in Save As; the first second is that of the files at the start, and two more let a save, another session's save and
an answer to its question fall into different ones. Its state constraint `Apart` stops at
states whose marks other than `removed` already excuse the file from `NoSilentOverwrite`, or from
`KeepsACopy` (`short`); they are checked, but not followed. *jobs*: the second job inherits the ends of the first and can ask on top of its
question, which is all that one job does to another; one request before the goodbye gives a
question in flight when the job ends, dies or is stopped. *stamps*: an archive in an archive in an archive
is the least where freeing one reopens a parent that has a parent; the second panel may hold
the parent current, and two ages tell "stamped in this sweep" from "before"; the compressed file lies in an archive, so
that freeing it leaves a copy behind, and a second such copy is left before no further timeout comes. *undo*: rings of 8
and 16 are filled by three keys and a script, so that the pointer wraps, the bottom is pushed on
and a single call loses everything; three keys are one before a save, the save and a branch. *move*: two files are what one answer or one cached
link can do to the next file; two pieces tell a beginning from a whole, and a piece lost in the
middle from one lost at the end. Targets that are whole files of somebody else come from `Appears` before
the operation looks; failing links only add to `LinkFails`, which a taken name brings about as well.

**Bounds that exist only in the model**: `MaxTokens`, `MaxPublish` (RuntimeEvents), `MaxSpecs`,
`MaxGenerations`, `MaxControllers`, `MaxModals` (ViewerSource), `MaxTime` (EditorSave), `MaxCalls`
(BackgroundJobs), `Old`, `MaxKept` (VfsStamps: ages beyond the timeout are alike; copies never given back), `MaxKeys`, `MaxText`
(EditorUndo), `Pieces` (FileMove: the length of a file). They guard counters that the code
leaves unbounded.

**Deadlock.** It is checked for FileLock and EditorSave. RuntimeEvents stops after deinit, as the program does,
ViewerSource when its window is gone or its counters are used up, EditorUndo when its keys are, BackgroundJobs when mc has quit
and its jobs have ended, VfsStamps after the exit or where the code reads freed memory, FileMove when the operation is done, so their configurations turn the check off.

**Fairness.** `queue` and `jobs` need it. In `jobs`, mc's own steps, the end of an exiting
process and the work of each job are weakly fair: they are processes that the system schedules. So
is the closing of dialogs, since a question without an answer waits for ever. That nobody stops a job
for good is a hypothesis of `EveryJobEnds`. In `queue`: `FairSpec` is strong fairness of *returning* from a callback
and weak fairness of the bus's own steps. The bus code never blocks. A callback that never
returns hangs mc; it may do bus operations before it returns, during which returning is not
enabled, hence strong. Nothing obliges anybody to publish. The other modules are checked
for safety only: a user need not answer a question, and a child need not end.

**Symmetry** is used for contexts and panels in `subscriptions`, and for processes, windows and
files in the lock runs, where process numbers differ and only their difference is looked at. It
is not used with liveness.

## 4. What is proved

TLAPS proves these for every value of the constants that satisfies the named assumptions of the
modules, so for any number of subscriptions, events, nested callbacks, processes, windows and
files.

| theorem | statement |
|---|---|
| `RuntimeEvents_proofs` `TypeCorrect`, `OwnershipHolds`, `NeverReenteredHolds`, `DepthCountersHolds`, `NothingStuckHolds` | the invariants of these names |
| `FileLock_proofs` `TypeCorrect`, `LockExclusive`, `NothingIsLeft`, `LockIsKept` | `TypeOK`, `Exclusive`, `NothingLeftBehind`, `ModifyLockKept` |
| `RuntimeEvents_proofs` `CalledInOrderHolds`, `QueueDisciplineHolds` | the invariants of these names |
| `RuntimeEvents_proofs` `EveryoneServedHolds`, `GoneForGoodHolds` | the action properties of these names |
| `RuntimeEvents_proofs` `BusImplemented` | `ImplementsEventBus`: each step of the bus is one of `EventBus`, or a stutter |
| `ViewerSource_proofs` `TypeCorrect`, `EventOrderHolds`, `TempsOwnedHolds`, `SettledHolds`, `ReopenableHolds`, `NothingLeftBehindHolds` | all invariants of `viewer_sources` |
| `EditorSave_proofs` `TypeCorrect`, `NoSilentOverwriteHolds`, `KeepsACopyHolds` | all invariants of `save_copies` |
| `BackgroundJobs_proofs` `TypeCorrect`, `AnswersMatchHolds`, `NotForgottenHolds` | `TypeOK`, `AnswersMatch`, `NotForgotten` |
| `FileMove_proofs` `TypeCorrect`, `MoveLosesNothing`, `ReplacesNothingUnasked` | `TypeOK`, `NothingLost`, `AsksFirst` |
| `VfsStamps_proofs` `TypeCorrect`, `StampsReferHolds`, `BackedHolds`, `UsageCountsHolds`, `StampKeptHolds` | all properties of `stamps` |

**The bus.** `IInv` is `TypeOK`, `ListInv`, `FrameInv`, `DepthInv`, `Ownership` and
`NothingStuck`. Ownership alone is not inductive. That `RemoveAt` takes exactly one reference
away needs lists without repetition (`ListInv`). That releasing a finished dispatch takes one
from each of its entries needs to know that the frame is the innermost, and that all others
wait for their callbacks (`FrameInv`). That nested dispatches are of different kinds, hence
that no callback is re-entered, follows from each depth counter being 0 or 1 (`DepthInv`)
together with the fact that a frame's list is of the frame's own kind. The proof has one lemma
per operation and lemmas for what they share: `DeactivateLemma`, `PushLemma`,
`EndDispatchLemma`; `SequenceLemmas` supplies what InsertAt and RemoveAt do.
Assumptions: `EventAssumption` (the two special kinds differ), `PanelAssumption`,
`ContextAssumption`, `PriorityAssumption`, `ErrorsAssumption`, `BoundsAssumption`.

**What the bus delivers.** `OrderInv` adds to the bus's `IInv` that every list is in calling order
(`ListOrder`), and `ServiceInv`, which ties each frame to its audit record: the copied list is in
order although the list it was copied from has changed since, the calls made are of entries that
the loop has reached, and every entry it has reached that is still active was called unless the event
was consumed. At the end of the loop every entry is reached, which is `EveryoneServed`.
`GoneForGood` needs that a token is never given out again. `QueueInv` says that waiting events have
different identities in the order of the queue's rules, so that coalescing and draining take exactly
one element from the set of waiting events, the refinement mapping's `waiting`. The proof of
`BusImplemented` then shows, action by action, which step of `EventBus` it is. The liveness of
`EventBus` is left to TLC.

**A viewer's source.** `IInv` is `TypeOK`, `LogInv`, `FlowInv`, `TempInv` and
`NothingLeftBehind`. `FlowInv` is the key: only messages of rebuilds lie above another modal, and
whoever left a draft or a pending parameter waits in its message at the bottom, to drop it when
that is closed; so a function that goes on after a modal finds what it left, however often the
window was resized meanwhile. `TempInv` says that files are numbered upwards, so that a draft is never the
current file and removing one never removes the other. `LogInv` says that a process which is not
reaped is the last one reported, hence not reported to have ended. No proof uses the bound on
nested modals.

**Saving.** Neither `NoSilentOverwrite` nor `KeepsACopy` is inductive, since whether the next step
breaks them depends on where every session is in its save. For every file that is not excused
(`Dirty`), `SessionInv` says what a session may conclude: from the time in its window, that it has
loaded or written what is there if that has this time (`KnownOf`); from the questions passed
(`SafeOf`), that from the creation of the temporary file to the rename there is nothing at the
target it does not know, unless the user agreed. A step of one session
changes one file at most, and marks it where another session is at work on it or knows it by the
time it gets; `OthersKept` concludes that what the others know stays true. `CopyInv` strengthens
`KeepsACopy`: when only the backup is left, nothing is under the name, so that the next rename to
the backup cannot replace it by something worse. A temporary file that is not whole (`short`) is
followed to its rename: with a backup beside it something saved remains, and without one the file is
excused by name, since the code loses what was saved. TLC follows only states that satisfy `Apart`; the
theorems need no such restriction. Assumptions: `ModeAssumption`, `NoFileAssumption`,
`BoundAssumption`. The proof found what the run with one file could not show: a Save As that fails
at its rename leaves the window with the time of a temporary file beside *another* file, so the
later comparison may miss a change of its own file; `Mistakes` records it.

**Exclusion of locks.** `IInv` is `TypeOK`, `Control` and `Exclusive`. `Control` says what a
process knows at each place of its calls (`GoodCall`): a process that is about to remove a
link in `unlock_file` does so for a window that is locked, or for the lock of its own save, so
that what it removes is its own. The lemmas come in two layers: `StepControl`, `StepTakes`,
`StepReleases` and `StepShrinks` say what a step that changes one call and one window keeps,
and one lemma per group of actions shows that each action is such a step.
Assumptions: hosts and numbers are functions on the processes, and the marks for "no link" and
"not a link" are not processes. It is *not* assumed that numbers are unique: processes that
share a number never run together, which `Start` takes from the operating system.

**Release of locks.** `RInv` adds `Settled`: a window that has a lock is modified or is giving
the lock up, and no window that should have a lock is without one. This is what makes
`NothingLeftBehind` inductive: when a save ends, the lock it drops is the last hold on the link.

**Background jobs.** `IInv` is `TypeOK`, `StackInv` and `JobInv`. `AnswersMatch` is not inductive,
since it says nothing of an answer that a dialog still has to give. `Stage` says where the request
of a living job is: nowhere, in the pipe, half of it read by the innermost loop, in exactly one dialog
of the stack with the number of the call, or answered. Below the innermost loop there are only
dialogs (`StackInv`), so a request is never half read by two loops, whatever the stale select sets
name. `Kept` says that a living job is watched and listed until it is killed or its goodbye is
answered; the end of a pipe unregisters only the job whose pipe it is, although the child it waits for may be
another's (`EndOfPipe`). `Quiet` relates the stacks before and after a step for the jobs
it does not concern. Of jobs that have ended nothing is claimed but types: their dialogs may stay.
Assumptions: `NoJobAssumption`, `CallsAssumption`.

**A move loses nothing.** `IInv` is `Base` (types, and what is known of the lists and of the
target at each place), `CopyInv`, `GoodInv` and `AskInv`. `NothingLost` is not inductive: a source
goes because its copy is good, the copy may be a hard link to the target of another name, and that
name's own source may still be there, or be on the erase list. `Good` says on what a name may rely
so that no later step takes it away (`SafeKept`): a whole target that nothing will write again
(`Past`), or a source that nothing will remove (`Remains`). `CopyInv` carries the pieces written
so far through the loop, so that a copy that ends well is whole. `KeepsNext` shows once for every
step that it takes nothing away, `ReliesNext` that what is newly removed, listed or reported as
copied is good. For `AsksFirst`, `YieldInv` says where the user has agreed, and `GoneInv` that a
target which was deleted is not looked at again. Assumptions: `SourceAssumption` (a symbolic link
shares its inode with no other name), `TargetAssumption`, `PiecesAssumption`.

**Archives and their stamps.** The list is swept while freeing an archive opens the outer one, which
removes, adds and refreshes stamps, so nothing that is true of it between operations is inductive.
The lemmas are therefore about the record in the middle of an operation: `Books` says what the use
counts are worth while the copy of one archive is out, `Sound` what the list is while one archive is
being freed at its stamp, `Restamped` what a function of `gc.c` may change. Upon these, each function
has a lemma about what it leads to (`RmstampIs`, `CreateIs`, `LoadPost`, `UngetPost`, `SweptPost`),
and each action one that composes them. While mc runs, the invariant is that every archive read holds
its copy in the outer one (`Held`), so that the outer one is in use and no timeout takes it, and that what is
stamped is not in use (`Idle`), unless a panel had shown no listing when it was stamped (`Info` stamps the
directory of the panel it replaces without asking). So a timeout never reads an outer
archive again, and what `extfs_open` holds while its helper's message is shown is there or is known
to be gone (`Holdable`), whatever was swept meanwhile: when it is there, counting it as used is as
good later as at once (`OpenedCalm`, `ReadCalm`). At exit the sweep frees by force, and the outer archive, opened to take a copy back, may
lose a stamp that is still ahead. `Leaves` says that it is then the directory of a panel, or that a panel
showed no listing: all else that is stamped holds no other archive. `Behind` says that the sweep
at exit leaves only NULL behind it, so that it ends with an empty list. What `Load` does is proved by descent over the
depth of archives: the recursion is over data, but over a finite nesting whose rank the
assumption gives, and the existence of its solution is proved by hand (`LoadsExist`).
Assumptions: `KindAssumption`, `ParentAssumption`, `NestingAssumption` (no archive lies in itself),
`PanelAssumption`, `BoundAssumption`.

**Only model-checked.** The liveness properties `DeliversEverything` and `EveryJobEnds`, since
liveness under fairness is out of the prover's reach; and all of EditorUndo, which is written with
recursive operators: what a group of undos does takes an induction over the contents of two rings.

## 5. Where the code and its documents disagree

Each is shown by a run that must find a counterexample; `PROJECT.json` quotes the lines.

- `save_reload`: Save As with other line breaks of a file that the editor has just created
  writes it, reloads it, and deletes it, because `delete_file` is cleared after the reload.
- `undo_click`: a click or a script edit after undo leaves the redo in place; redo then puts text
  where it does not belong, and the editor shows it as saved.
- `move_reget`: after a Reget, a file that is not in the target at all is read from the offset of
  the one before; its beginning is missing, it counts as fully copied, and a move removes its source.

Others, seen in the models and left without a run:

- Of two processes that meet a stale lock, the slower removes the new lock of the faster without
  asking, since the check and the removal are two system calls (`lib/lock.c:237`, 257); and a number
  used again makes a stale lock look alive, or like one's own. `Exclusive` leaves broken locks aside.
- A question of a job overwrites mc's record of it with the job's own copy, whose pid is 0; if the
  job then dies and its status cannot be waited for yet, mc signals its own process group, itself
  included (`src/background.c:234`, 259; action `Misbehaves`).
- An `editor.key` published inside another is queued, so consuming it stops nothing, although
  `doc/LUA_PLUGINS.md:181` says it does.
- Closing a viewer window whose process runs detaches the controller first; the extension hears
  `started` and never one of `finished`, `failed`, `cancelled` (`doc/LUA_PLUGINS.md:353`).
- After options of a source built for the viewport, commit removes the temporary file just
  opened, and F8 cannot come back to it (`doc/LUA_PLUGINS.md:359`).
- `edit_save_file` looks at what `edit_write_stream` returns but not at `fclose` and `pclose`
  (`src/editor/editcmd.c:479`, 526). With safe saves, which are to leave the file alone until the
  new one is written, a disk full at the flush has a part of the buffer renamed over the file, as
  a success; without a backup no whole copy is left (`KeepsACopy` excuses that with `short`).
- A message of an archive's helper can stay open until a timeout frees the archive that `extfs_open`
  has found; the open goes on with it (`lib/vfs/gc.c:246` knows of messages inside VFS calls and
  locks the sweep against itself only; `src/vfs/extfs/extfs.c:1089`, 1117; action `Dangles`).
- A save through sudo keeps the lock of a buffer that is no longer modified; the next edit asks
  about the process's own lock, and Ignore leaves it behind (`editwidget.h:128`); `NothingLeftBehind`
  of FileLock speaks of other files.
- Cancel at the question about a changed file, or about hard links, counts as success for the
  caller; asked for before closing, the window is closed and its edits are gone
  (`editcmd.c:644`).
- A job stopped in the middle of a request leaves mc blocked in `read`, from where nobody can
  resume it (`doc/man/mc.1.in:1617`).
- A compressed file unpacked out of an archive keeps that archive in use until mc ends, since
  `sfs_vfmake` never gives its local copy back (`lib/vfs/README:125`); `UsageCounts` counts it in `kept`.

## 6. Behaviour that is modelled but not judged

No document of the repository promises otherwise, so no run calls these wrong:

- A resize under the failure message of options rebuilds a viewport source with the parameters
  that the rollback then drops. `Settled` therefore speaks of other sources only.
- A resize under F8's failure message rebuilds with the flag already flipped, and the flag is
  then put back over a generated source.
- Options do not record the size a viewport source was made for, and no size is recorded while
  the raw file is shown; back at the recorded size nothing is rebuilt.
- An event whose kind is not in dispatch goes out at once, ahead of waiting events of other
  kinds. `EventBus` allows it.
- `streaming` of a viewer is never reset; a growing file (those of `/proc`) shown next in the same quick
  view is not read.
- What another session writes after `mc_stat` of a save, in particular while the question
  about hard links is open, is overwritten unasked, as is a change in the same second as the
  one known. In the safe modes a rename that fails leaves the window with the time of its
  temporary file, so that it asks without need or, by coincidence, does not ask; after a failed Save
  As that is the time of a file beside another one. After a Save As of
  a buffer without a name whose reload fails, no time is known, and nothing is asked
  (`NoSilentOverwrite` names these exceptions).
- A window deletes the empty file it has made when it is closed unsaved, even if another session
  has saved into it since.
- Callbacks that publish from every drained event keep the drain loop, and so the main loop
  waiting, for ever. The model's `MaxPublish` hides it; the code has no limit.
- A job that is alive when mc dies gets the answer "number of arguments" to every question, and only
  once the younger jobs that hold mc's ends have ended. mc that answers a dead job dies of SIGPIPE.
  Kill in the Jobs dialog reads the pid from the record it has just freed. Jobs that end with a
  goodbye are never waited for. When the fork fails the operation goes on in the foreground.
- While a panel shows no listing (an info panel, a tree), every archive counts as used, so one
  that is left then gets no stamp and stays until mc ends; so does one that was only looked at.
- The local copy of a compressed file does not protect it from its parent's timeout (FIXME in
  `sfs.c`); `Backed` speaks of archives whose parents are archives.
- At exit new stamps are no longer made, so temporary files of archives freed late remain when
  mc removes its temporary directory.
- Undo goes back by key, redo goes forward by action. The redo ring takes up to two entries for each
  change that is undone; when it is full it drops the oldest, redo ends early with the ring empty, and what is
  typed then is no branch: its count of changes can meet that of the saved text, and the modified flag is
  cleared over another text (`ClearMeansSaved` excuses that with `aside`). Loading a file through the slow path leaves
  entries on the redo ring.

- In a copy or move (`NothingLost` excuses the first five with `miscounted`): Ignore at a write error leaves
  that piece out, and the file counts as whole; a close error of the target goes unseen under Ignore all; the
  offset of a Reget, or an answer Reget kept for all files, is used for a target that is no beginning of its
  source; a target that appears before it is opened is no error, and where attributes are not
  supported the status is still that of success; attributes that are not supported, or whose error is
  ignored, turn the status of an earlier error into success. In a move the source is removed each time.
- The rename of a move replaces what has appeared since the look at the target. A symbolic link
  that leads nowhere is replaced by a copied symbolic link unasked.
- The list of hard links takes a name before its copy succeeds: the next name of the file is linked to
  whatever is under the first, a short copy or somebody else's file.
- After Ignore all, a failing open leaves `do_append` to the next file, and a failing read is tried again
  until Skip or Abort. A directory whose last file was skipped keeps all its sources.

## 7. What is left out

- **RuntimeEvents**: handle tables, validation and copying of snapshots (data), `lib/event`,
  which only hands events to the bus's one callback.
- **ViewerSource**: reading and caching of bytes; sources that are command output, strings or
  raw pipes; filters; F8 in a resumed window; a failed attach (it changes nothing). Callbacks
  into the extension are atomic: one that opens another source in the same viewer during
  options is not modelled. One viewer only: `delete_hook` removes idle hooks by function, so two
  viewers disturb each other, which is planned.
- **FileLock**: buffers without a name and files that are not local (never locked), the same
  calls in the hex viewer and the structure view, failures of unlink, the files' contents.
  Saves that fail after the lock is taken are all there.
- **EditorSave**: the lock; the confirmation and newline questions, which only cancel before
  anything happens; write filters beyond what they make of the result, owners, permissions and flags; files that are not local;
  `skip_detach_prompt` (whether the question is asked is left open); the shutdown of mc, which
  closes windows whatever the save returns; what two writers of one file leave in it.
- **BackgroundJobs**: requests with string results and more than four arguments; mc's other
  children and channels; rows of the Jobs dialog that point to freed records.
- **VfsStamps**: what mc does after it has used an archive that was freed; classes built on `direntry.c` (remote file systems) and tar; the contents of
  archives; the loop in which `extfs_done` frees what is left, of which only the effect is kept.
- **EditorUndo**: the lock (FileLock), failing saves (EditorSave), selections, columns, several
  lines, the positions of the display and of markers, the undo history dialog.
- **FileMove**: failing `stat` calls and closes of the source, owner and mode, preallocation, special files, nested
  and existing directories, stable and followed symbolic links, the check for one and the same
  file, deletion on its own, totals; in the background its questions go through BackgroundJobs.
- The components marked *not modelled* above, each with its reason in `PROJECT.json`.

## 8. Plan

The parts above came first because everything an extension does goes through the bus, and
because locks, sources, saves, jobs and rings are where an order nobody wrote a test for loses
data. What could follow, in this order:

1. The rings of **EditorUndo** in a module of their own, without recursion, and proofs about
   those; the join of EditorSave with FileLock, where a lock that is respected rules races
   out.
2. **DialogSwitch** (`lib/widget/dialog-switch.c`): suspended and running dialogs.
3. **ViewerStreams**: two viewers, the idle hook list and `stream_redraw_queued`.
4. **RuntimeHandles**, **RuntimePlugins**: handles with generations; life of contexts and
   plugins, composed with `RuntimeEvents` (stopping a plugin inside its own callback).
5. The terminal's prompt protocol, screen tasks.

## 9. Running it

    tlc -config FileLock_editors.cfg MCFileLock
    tlapm FileLock_proofs.tla

Every run ends in about two minutes or less on two cores (`move` in a minute and a half, `undo` in one,
most within half a minute).
`tlapm` needs a few minutes for each module of proofs.
