------------------------------ MODULE VfsStamps ------------------------------
(***************************************************************************)
(* The garbage collection of virtual file systems: lib/vfs/gc.c with its   *)
(* callers extfs.c, sfs.c, interface.c (mc_chdir), the panels and the exit *)
(* of mc.  An archive is read when a path in it is used.  An archive in an *)
(* archive works on a local copy, a temporary file of the outer one.  A    *)
(* stamp says that nobody uses an archive any more; a sweep frees archives *)
(* whose stamp has grown old, and freeing opens the outer archive, which   *)
(* removes and adds stamps of the list being swept.                        *)
(*                                                                         *)
(* The state of the VFS layer is one record, passed through the functions  *)
(* of the code.  An operation of the user is one step, unless a helper has *)
(* something to say when it copies a file out of an archive: the message   *)
(* waits for a key, timeouts come under it, and what follows is a step of  *)
(* its own.  The turn of a stamp in a sweep is a step, and until the sweep *)
(* has ended nothing else happens.                                         *)
(***************************************************************************)
EXTENDS Integers, Sequences, FiniteSets, SequencesExt

CONSTANTS
  Extfs,    \* archives read by helpers, with directories and open files
  Sfs,      \* single files unpacked by a command: no directories
  Parent,   \* the archive an archive lies in, or Local
  Local,    \* the local file system, and the NULL identity
  Gone,     \* a stamp whose data is NULL
  Panel,    \* the two panels, in the order of the screen
  Old,      \* bound: the age at which a stamp has expired
  MaxKept   \* bound: copies never given back, before a timeout

Archive == Extfs \cup Sfs
Dir == Extfs \cup {Local}

Place == Archive \cup {Local}

ASSUME KindAssumption ==
  /\ IsFiniteSet(Archive) /\ Extfs \cap Sfs = {}
  /\ {Local, Gone} \cap Archive = {} /\ Local # Gone
ASSUME ParentAssumption == Parent \in [Archive -> Place]

(* A path is finite: no archive lies in itself.                            *)
ASSUME NestingAssumption ==
  \E depth \in [Place -> 0 .. Cardinality(Archive)] :
    \A a \in Archive : depth[Parent[a]] < depth[a]
ASSUME PanelAssumption == Panel \in Seq(STRING) /\ Len(Panel) = 2 /\ Panel[1] # Panel[2]
ASSUME BoundAssumption == Old \in Nat \ {0} /\ MaxKept \in Nat \ {0}

VARIABLES
  vfs,      \* archives, their use counts, local copies, stamps
  cwd,      \* current_path
  dir,      \* the directory of a panel, or the one saved for it
  view,     \* panels[].type
  current,  \* current_panel
  files,    \* archives with a file that a viewer or an editor has open
  held,     \* the archive of an extfs_open whose helper's message is shown, Gone once it
            \* is freed under the message; or Local
  phase     \* "running", then the exit: "quit", "expiring", "shutting", "shut"; or
            \* "undefined", when extfs_open has gone on with an archive that is freed

vars == <<vfs, cwd, dir, view, current, files, held, phase>>

Panels == Range(Panel)
Other(p) == CHOOSE q \in Panels : q # p
Views == {"view_listing", "view_info"}

(* What vfs_stamp_create asks about; the event is there until the end of   *)
(* do_nc.                                                                  *)
Env == [cwd |-> cwd, dir |-> dir, view |-> view, current |-> current,
        present |-> phase = "running"]

Stamp == [id : Archive \cup {Gone}, age : 0 .. Old]
Ids(v) == [k \in DOMAIN v.stamps |-> v.stamps[k].id]

(* copied: archives whose local copy is a file the outer archive has now.  *)
(* kept: copies of files in an archive which nobody will give back.        *)
(* at: the stamp whose turn it is in a sweep; 0 when vfs_expire is not     *)
(* locked.                                                                 *)
Vfs == [loaded : SUBSET Archive, fd_usage : [Archive -> Nat], copied : SUBSET Archive,
        kept : [Archive -> Nat], stamps : Seq(Stamp), at : Nat]

TypeOK ==
  /\ vfs \in Vfs
  /\ vfs.at <= Len(vfs.stamps) + 1
  /\ cwd \in Dir
  /\ dir \in [Panels -> Dir]
  /\ view \in [Panels -> Views]
  /\ current \in Panels
  /\ files \subseteq Archive
  /\ held \in Dir \cup {Gone}
  /\ phase \in {"running", "quit", "expiring", "shutting", "shut", "undefined"}

Init ==
  /\ vfs = [loaded |-> {}, fd_usage |-> [a \in Archive |-> 0], copied |-> {},
            kept |-> [a \in Archive |-> 0], stamps |-> <<>>, at |-> 0]
  /\ cwd = Local
  /\ dir = [p \in Panels |-> Local]
  /\ view = [p \in Panels |-> "view_listing"]
  /\ current = Panel[1]
  /\ files = {}
  /\ held = Local
  /\ phase = "running"

-----------------------------------------------------------------------------
(* gc.c.                                                                   *)

(* g_slist_find_custom with vfs_stamp_compare: NULL data equals anything.  *)
Hits(v, a) == {k \in DOMAIN v.stamps : v.stamps[k].id \in {a, Gone}}
Found(v, a) == IF Hits(v, a) = {} THEN 0 ELSE Min(Hits(v, a))
Refreshed(v, a, k) ==
  IF k = 0 \/ v.stamps[k].id # a THEN v ELSE [v EXCEPT !.stamps[k].age = 0]

vfs_stamp(v, a) == Refreshed(v, a, Found(v, a))

(* at is the position of the sweep, which a removal before it shifts.      *)
Without(v, k) ==
  IF k = 0 THEN v
  ELSE [v EXCEPT !.stamps = RemoveAt(@, k), !.at = IF k < @ THEN @ - 1 ELSE @]

(* Mutant of vfs_rmstamp: the first stamp goes.                            *)
vfs_rmstampFirst(v, a) == Without(v, IF Found(v, a) = 0 THEN 0 ELSE 1)

vfs_rmstamp(v, a) == Without(v, Found(v, a))

(* Mutant of vfs_addstamp: it does not look for a stamp first.             *)
vfs_addstampTwice(v, a) ==
  IF a \in v.loaded
  THEN [v EXCEPT !.stamps = Append(@, [id |-> a, age |-> 0])] ELSE v

Added(v, a, k) ==
  IF k # 0 /\ v.stamps[k].id = a THEN Refreshed(v, a, k)
  ELSE [v EXCEPT !.stamps = Append(@, [id |-> a, age |-> 0])]

vfs_addstamp(v, a) == IF a \in v.loaded THEN Added(v, a, Found(v, a)) ELSE v

(* vfs_getid, which also refreshes the stamp (extfs_get_path).             *)
Id(v, d) == IF d \in v.loaded THEN d ELSE Local
Asked(v, d) == IF d \in v.loaded \cap Extfs THEN vfs_stamp(v, d) ELSE v

(* check_panel_timestamp: a panel without a listing uses everything.       *)
Compares(v, a, env, p) == env.view[p] = "view_listing" /\ a \in Extfs /\ env.dir[p] \in Extfs
UsedBy(v, a, env, p) == env.view[p] # "view_listing" \/ env.dir[p] = a
AskPanel(v, a, env, p) == IF Compares(v, a, env, p) THEN Asked(v, env.dir[p]) ELSE v
AskOther(v, a, env) ==
  IF UsedBy(v, a, env, env.current) THEN v ELSE AskPanel(v, a, env, Other(env.current))
AskPanels(v, a, env) == AskOther(AskPanel(v, a, env, env.current), a, env)

nothingisopen(v, a) == a \in Sfs \/ v.fd_usage[a] <= 0

StampUnused(v, a, env) ==
  IF (\A p \in Panels : ~UsedBy(v, a, env, p)) /\ nothingisopen(v, a)
  THEN vfs_addstamp(v, a) ELSE v

StampUnlessCurrent(v, a, env) ==
  IF a \in {Local, env.cwd} THEN v ELSE StampUnused(AskPanels(v, a, env), a, env)

vfs_stamp_create(v, a, env) ==
  IF ~env.present THEN v ELSE StampUnlessCurrent(vfs_rmstamp(v, Id(v, env.cwd)), a, env)

-----------------------------------------------------------------------------
(* extfs.c and sfs.c.                                                      *)

(* extfs_open, once the file is copied out: no stamp while a file is open. *)
(* In Open and Copied below it follows at once, because the file has been  *)
(* copied before, or without a message.                                    *)
Opened(v, a) == [vfs_rmstamp(v, a) EXCEPT !.fd_usage[a] = @ + 1]

(* extfs_close.                                                            *)
Closed(v, a, env) ==
  LET less == [v EXCEPT !.fd_usage[a] = @ - 1] IN
  IF less.fd_usage[a] = 0 THEN vfs_stamp_create(less, a, env) ELSE less

(* getlocalcopy of the file in which archive n lies, of an archive read.   *)
Copied(v, n, env) ==
  LET p == Parent[n] IN
  IF p \notin Extfs THEN v
  ELSE Closed([Opened(v, p) EXCEPT !.fd_usage[p] = @ + 1, !.copied = @ \cup {n}], p, env)

(* extfs_get_path and sfs_redirect: find the archive or read it.           *)
ReadArchive(v, a, env) ==
  LET read == [v EXCEPT !.loaded = @ \cup {a}, !.fd_usage[a] = 0] IN
  IF a \in Extfs THEN read ELSE vfs_stamp_create(read, a, env)

(* The archives of a path are found or read from the outermost on.         *)
Load(v, a, env) ==
  LET load[b \in Place] ==
        IF b = Local THEN v
        ELSE IF b \in v.loaded THEN vfs_stamp(v, b)
        ELSE ReadArchive(Copied(load[Parent[b]], b, env), b, env)
  IN load[a]

GetCopy(v, n, env) == Copied(Load(v, Parent[n], env), n, env)

(* Mutant of Returned: the name of the copy is not compared.               *)
ReturnedBlind(v, n) == [v EXCEPT !.fd_usage[Parent[n]] = @ - 1, !.copied = @ \ {n}]

(* extfs_ungetlocalcopy: the outer archive may have been freed and be read *)
(* again here, with another copy.                                          *)
Returned(v, n) ==
  IF n \in v.copied THEN [v EXCEPT !.fd_usage[Parent[n]] = @ - 1, !.copied = @ \ {n}] ELSE v

UngetCopy(v, n, env) ==
  LET p == Parent[n] IN
  IF p \notin Extfs THEN v ELSE Closed(Returned(Opened(Load(v, p, env), p), n), p, env)

(* Mutant of LoadFails: extfs keeps the copy as well.                      *)
LoadFailsKeeps(v, a, env) == GetCopy(v, a, env)

(* The helper of extfs fails: the copy is given back.                      *)
LoadFails(v, a, env) == UngetCopy(GetCopy(v, a, env), a, env)

(* vfs_s_free with extfs_free_archive.                                     *)
FreeExtfs(v, a, env) ==
  UngetCopy([v EXCEPT !.loaded = @ \ {a}, !.fd_usage[a] = 0, !.kept[a] = 0,
                      !.copied = {n \in @ : Parent[n] # a}], a, env)

(* sfs_free: nobody gives the local copy back which sfs_vfmake took.       *)
FreeSfs(v, a) ==
  LET freed == [v EXCEPT !.loaded = @ \ {a}] IN
  IF a \notin v.copied THEN freed
  ELSE [freed EXCEPT !.copied = @ \ {a}, !.kept[Parent[a]] = @ + 1]

Free(v, a, env) == IF a \in Extfs THEN FreeExtfs(v, a, env) ELSE FreeSfs(v, a)

-----------------------------------------------------------------------------
(* vfs_expire.                                                             *)

vfs_expire(v, now) == [v EXCEPT !.at = 1, !.stamps = IF now THEN Reverse(@) ELSE @]

(* Mutant of Frees: an archive in use is not spared.                       *)
FreesUsed(v, s, now) == now \/ s.age = Old

Frees(v, s, now) == now \/ (s.age = Old /\ nothingisopen(v, s.id))

Dropped(v) == [v EXCEPT !.stamps[v.at].id = Gone]

(* The stamp whose turn it is.                                             *)
Swept(v, now, env) ==
  LET s == v.stamps[v.at] IN
  IF Frees(v, s, now) THEN Dropped(Free(v, s.id, env))
  ELSE IF s.age = Old THEN [v EXCEPT !.stamps[v.at].age = 0]
  ELSE v

SweptOn(v) == [v EXCEPT !.at = @ + 1]

(* g_slist_remove_all, then the lock is released.                          *)
Cleared(v) ==
  IF Found(v, Gone) # 0 THEN Without(v, Found(v, Gone)) ELSE [v EXCEPT !.at = 0]

-----------------------------------------------------------------------------
(* The user.                                                               *)

(* Leaving directory d; env is what holds when the stamp is created.       *)
Release(v, d, env) == vfs_stamp_create(Asked(v, d), Id(v, d), env)

(* mc_chdir: current_path is the new directory when the old one is stamped.*)
mc_chdir(v, d, env) == Release(Load(v, d, env), env.cwd, [env EXCEPT !.cwd = d])

(* An event loop waits for a key: that of mc, or that of a message.        *)
Loop == phase = "running" /\ vfs.at = 0
Running == Loop /\ held = Local

(* panel_do_cd_int in the current panel.                                   *)
Cd(d) ==
  LET env == [Env EXCEPT !.cwd = d, !.dir[current] = d] IN
  /\ Running /\ d # dir[current]
  /\ vfs' = Load(Release(mc_chdir(vfs, d, Env), dir[current], env), d, env)
  /\ cwd' = d
  /\ dir' = [dir EXCEPT ![current] = d]
  /\ UNCHANGED <<view, current, files, held, phase>>

CdFails(d) ==
  /\ Running /\ d \notin vfs.loaded \cup {Local}
  /\ vfs' = LoadFails(vfs, d, Env)
  /\ UNCHANGED <<cwd, dir, view, current, files, held, phase>>

(* MSG_FOCUS of the other panel.                                           *)
Focus ==
  LET p == Other(current) IN
  /\ Running /\ view[p] = "view_listing"
  /\ vfs' = mc_chdir(vfs, dir[p], [Env EXCEPT !.current = p])
  /\ cwd' = dir[p]
  /\ current' = p
  /\ UNCHANGED <<dir, view, files, held, phase>>

(* create_panel for another view: the panel saves its directory, loses the *)
(* focus and is destroyed, which stamps its archive without asking.        *)
Info(p) ==
  LET q == Other(p)
      env == [Env EXCEPT !.view[p] = "view_info", !.current = q]
      left == IF p = current THEN mc_chdir(vfs, dir[q], env) ELSE vfs IN
  /\ Running /\ \A r \in Panels : view[r] = "view_listing"
  /\ vfs' = vfs_addstamp(left, dir[p])
  /\ cwd' = IF p = current THEN dir[q] ELSE cwd
  /\ view' = env.view
  /\ current' = q
  /\ UNCHANGED <<dir, files, held, phase>>

(* create_panel for a listing: panel_sized_with_dir_new goes to the saved  *)
(* directory and back while the type is still the old one.                 *)
List(p) ==
  LET there == mc_chdir(vfs, dir[p], Env) IN
  /\ Running /\ view[p] = "view_info"
  /\ vfs' = mc_chdir(there, cwd, [Env EXCEPT !.cwd = dir[p]])
  /\ view' = [view EXCEPT ![p] = "view_listing"]
  /\ UNCHANGED <<cwd, dir, current, files, held, phase>>

(* stat() of a path in the archive.                                        *)
Look(a) ==
  /\ Running
  /\ vfs' = Load(vfs, a, Env)
  /\ UNCHANGED <<cwd, dir, view, current, files, held, phase>>

(* mc_open and mc_close of a viewer or an editor.                          *)
Open(a) ==
  LET read == Load(vfs, a, Env) IN
  /\ Running /\ a \notin files
  /\ vfs' = IF a \in Extfs THEN Opened(read, a) ELSE read
  /\ files' = files \cup {a}
  /\ UNCHANGED <<cwd, dir, view, current, held, phase>>

Close(a) ==
  /\ Running /\ a \in files
  /\ vfs' = IF a \in Extfs THEN Closed(vfs, a, Env) ELSE vfs
  /\ files' = files \ {a}
  /\ UNCHANGED <<cwd, dir, view, current, held, phase>>

(* The same, but the helper that copies the file out has written something *)
(* to stderr, or failed: extfs_cmd shows a message, while extfs_open holds *)
(* the archive, which is not counted as used yet.                          *)
CopyoutWarns(a) ==
  /\ Running
  /\ vfs' = Load(vfs, a, Env)
  /\ held' = a
  /\ UNCHANGED <<cwd, dir, view, current, files, phase>>

Message == Loop /\ held # Local

(* It has failed: extfs_open returns without looking at the archive again. *)
CopyoutFails ==
  /\ Message
  /\ held' = Local
  /\ UNCHANGED <<vfs, cwd, dir, view, current, files, phase>>

(* It has worked, and the file is opened that a viewer or an editor wants, *)
OpenEnds ==
  /\ Message /\ held \in Extfs \ files
  /\ vfs' = Opened(vfs, held)
  /\ files' = files \cup {held}
  /\ held' = Local
  /\ UNCHANGED <<cwd, dir, view, current, phase>>

(* or that archive n is, which is read: whoever wanted that finds it now.  *)
ReadEnds(n) ==
  /\ Message /\ Parent[n] = held /\ n \notin vfs.loaded
  /\ vfs' = ReadArchive(Copied(vfs, n, Env), n, Env)
  /\ held' = Local
  /\ UNCHANGED <<cwd, dir, view, current, files, phase>>

(* Or a timeout has freed the archive: its entry gets the name of the copy *)
(* and its count goes up, in memory that is free.  What follows from that  *)
(* is not modelled.                                                        *)
Dangles ==
  /\ Message /\ held = Gone
  /\ phase' = "undefined"
  /\ UNCHANGED <<vfs, cwd, dir, view, current, files, held>>

Older(s) == [s EXCEPT !.age = IF @ < Old THEN @ + 1 ELSE Old]

Tick ==
  /\ Loop /\ \E s \in Range(vfs.stamps) : s.age < Old
  /\ vfs' = [vfs EXCEPT !.stamps = [k \in DOMAIN @ |-> Older(@[k])]]
  /\ UNCHANGED <<cwd, dir, view, current, files, held, phase>>

(* vfs_timeout_handler, from tty_get_event.                                *)
Timeout ==
  /\ Loop /\ vfs.stamps # <<>> /\ \A a \in Archive : vfs.kept[a] < MaxKept
  /\ vfs' = vfs_expire(vfs, FALSE)
  /\ UNCHANGED <<cwd, dir, view, current, files, held, phase>>

(* The vfs_expire of the exit frees whatever is stamped.                   *)
Now == phase # "running"

SweepStamp ==
  /\ vfs.at \in DOMAIN vfs.stamps
  /\ vfs' = SweptOn(Swept(vfs, Now, Env))
  /\ LET s == vfs.stamps[vfs.at]
     IN held' = IF s.id = held /\ Frees(vfs, s, Now) THEN Gone ELSE held
  /\ UNCHANGED <<cwd, dir, view, current, files, phase>>

SweepEnd ==
  /\ vfs.at > Len(vfs.stamps)
  /\ vfs' = Cleared(vfs)
  /\ UNCHANGED <<cwd, dir, view, current, files, held, phase>>

(* do_nc after its loop, the event is destroyed: done_mc stamps the        *)
(* current directory, the panels that are listings their own.              *)
Quit ==
  LET done == vfs_addstamp(vfs, cwd)
      Destroy(v, p) == IF view[p] = "view_listing" THEN vfs_addstamp(v, dir[p]) ELSE v
  IN
  /\ Running /\ files = {}
  /\ vfs' = Destroy(Destroy(done, Panel[1]), Panel[2])
  /\ phase' = "quit"
  /\ UNCHANGED <<cwd, dir, view, current, files, held>>

(* main sweeps everything stamped before it removes the directory of       *)
(* temporary files.                                                        *)
Expire ==
  /\ phase = "quit"
  /\ vfs' = vfs_expire(vfs, TRUE)
  /\ phase' = "expiring"
  /\ UNCHANGED <<cwd, dir, view, current, files, held>>

(* vfs_shut after rmdir: what is stamped by now, then every extfs archive. *)
GcDone ==
  /\ phase = "expiring" /\ vfs.at = 0
  /\ vfs' = vfs_expire(vfs, TRUE)
  /\ phase' = "shutting"
  /\ UNCHANGED <<cwd, dir, view, current, files, held>>

Shut ==
  /\ phase = "shutting" /\ vfs.at = 0
  /\ vfs' = [vfs EXCEPT !.loaded = @ \cap Sfs, !.copied = {},
                        !.fd_usage = [a \in Archive |-> 0], !.kept = [a \in Archive |-> 0]]
  /\ phase' = "shut"
  /\ UNCHANGED <<cwd, dir, view, current, files, held>>

Next ==
  \/ \E d \in Dir : Cd(d)
  \/ \E d \in Extfs : CdFails(d)
  \/ Focus
  \/ \E p \in Panels : Info(p) \/ List(p)
  \/ \E a \in Archive : Look(a) \/ Open(a) \/ Close(a)
  \/ \E a \in Extfs : CopyoutWarns(a)
  \/ CopyoutFails \/ OpenEnds \/ Dangles
  \/ \E n \in Archive : ReadEnds(n)
  \/ Tick \/ Timeout \/ SweepStamp \/ SweepEnd
  \/ Quit \/ Expire \/ GcDone \/ Shut

Spec == Init /\ [][Next]_vars

-----------------------------------------------------------------------------
(* Properties.                                                             *)

(* Every stamp is of an archive that is still there, and no archive has    *)
(* two: the sweep would ask or free an archive already freed.  It leaves   *)
(* NULL only behind it.                                                    *)
Stamped(v) == Range(Ids(v)) \ {Gone}
StampsRefer ==
  /\ Stamped(vfs) \subseteq vfs.loaded
  /\ \A j, k \in DOMAIN vfs.stamps : Ids(vfs)[j] = Ids(vfs)[k] => j = k \/ Ids(vfs)[j] = Gone
  /\ \A k \in DOMAIN vfs.stamps : Ids(vfs)[k] = Gone => k < vfs.at

(* While mc runs no timeout frees an archive under a file that is open, or *)
(* takes the local copy away from which an archive inside was read.  The   *)
(* archive of a file that is still being copied out may go (Dangles).      *)
Backed ==
  phase = "running" =>
    /\ files \cap Extfs \subseteq vfs.loaded
    /\ \A n \in vfs.loaded : Parent[n] \in Extfs => n \in vfs.copied /\ Parent[n] \in vfs.loaded

(* The use count of an archive is the number of its open files and of the  *)
(* local copies taken of archives in it, and an archive not read has none; *)
(* also when timeouts come between finding an archive and counting its use.*)
UsageCounts ==
  \A a \in Extfs :
    /\ vfs.fd_usage[a] = Cardinality(files \cap {a}) + vfs.kept[a]
                           + Cardinality({n \in vfs.copied : Parent[n] = a})
    /\ a \notin vfs.loaded => vfs.fd_usage[a] = 0

(* A stamp is lost only with its archive or because somebody uses it: while*)
(* a panel shows no listing, every archive counts as used.                 *)
Used(a) ==
  \/ \E p \in Panels : view[p] = "view_listing" => dir[p] = a
  \/ a = cwd \/ a \in files \/ \E n \in vfs.loaded : Parent[n] = a
StampKept ==
  [][\A a \in Stamped(vfs) \ Stamped(vfs)' : a \notin vfs'.loaded \/ Used(a)']_vars
=============================================================================
