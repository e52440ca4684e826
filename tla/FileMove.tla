------------------------------ MODULE FileMove ------------------------------
(***************************************************************************)
(* Copying and moving files (src/filemanager/file.c): panel_operate over   *)
(* marked files, or over the files of one directory, with every question   *)
(* and every error of a copy.  A move is a rename, or where that fails a   *)
(* copy after which the source is removed: at once for marked files, at    *)
(* the end for a directory.                                                *)
(*                                                                         *)
(* f is the C stack of one file: the place in move_file_file or            *)
(* copy_file_file and their locals; ctx what file_op_context_t carries     *)
(* from file to file.  The contents of a target are the pieces that it     *)
(* has got of a source, behind older contents or not.                      *)
(***************************************************************************)
EXTENDS Naturals, Sequences, FiniteSets

CONSTANTS
  Name,     \* the files to copy, by the names of both sides
  Inode,    \* the contents of the sources
  Foreign,  \* the contents of any other file
  Source,   \* what the sources may be: inode, outside, links
  Target,   \* what may lie under a target's name at the start
  Fault,    \* the system calls that may fail
  Pieces    \* bound: pieces of a source

ASSUME ForeignAssumption == Foreign \notin Inode
ASSUME PiecesAssumption == Pieces \in Nat \ {0, 1}
ASSUME TargetAssumption == Target \subseteq {"none", "file", "link", "beginning"}
ASSUME SourceAssumption ==
  \A s \in Source : /\ s.inode \in [Name -> Inode] /\ s.outside \in BOOLEAN
                    /\ s.links \subseteq Name
                    /\ \A m, n \in Name : m \in s.links /\ s.inode[m] = s.inode[n] => m = n

VARIABLES
  how,         \* copying or moving files, moving a directory, in one file system or not
  source,      \* the inode of each name, hard links outside, which are symbolic links
  src,         \* names still in the source
  dst,         \* what is under each name in the target
  todo,        \* names not yet looked at
  erase_list,  \* names copied, to be erased at the end
  linklist,    \* the name under which a hard link was met first
  ctx, f,
  agreed,      \* history: names whose target the user gave up
  theirs,      \* history: names whose target this operation has not made
  miscounted   \* history: names that may count as copied although they are not

fixed == <<how, source>>
disks == <<src, dst>>
lists == <<todo, erase_list, linklist>>
history == <<agreed, theirs, miscounted>>
vars == <<fixed, disks, lists, ctx, f, history>>

How == [op : {"copy", "move", "move_dir"}, same_fs : BOOLEAN]
Status == {"cont", "retry", "skip", "ignore", "ignore_all", "abort"}
Content == [is : {"none", "file", "link"}, of : Inode \cup {Foreign}, prior : BOOLEAN,
            parts : SUBSET (1 .. Pieces)]
Context == [ignore_all : BOOLEAN, do_append : BOOLEAN, do_reget : 0 .. 1,
            replace_result : {"yes", "reget", "all", "none", "some"}]
Place == {"next", "move", "ask", "rename", "copy", "query", "links", "symlink", "open_source",
          "open_target", "clone", "read", "write", "buttons", "close", "preserve", "leave",
          "copied", "remove", "erase", "done"}
Frame == [at : Place, name : Name, asks : BOOLEAN, status : Status, dst_exists : BOOLEAN,
          dst_status : {"none", "query", "keep", "delete", "full"}, appending : BOOLEAN,
          pos : 0 .. Pieces]

TypeOK ==
  /\ how \in How /\ source \in Source
  /\ src \subseteq Name /\ todo \subseteq Name /\ linklist \subseteq Name
  /\ dst \in [Name -> Content]
  /\ erase_list \in Seq(Name)
  /\ ctx \in Context /\ f \in Frame
  /\ agreed \subseteq Name /\ theirs \subseteq Name
  /\ miscounted \subseteq Name

-----------------------------------------------------------------------------
(* Targets.                                                                *)

Nothing == [is |-> "none", of |-> Foreign, prior |-> FALSE, parts |-> {}]
Other == [is |-> "file", of |-> Foreign, prior |-> TRUE, parts |-> {}]
OtherLink == [Other EXCEPT !.is = "link"]
Beginning(n) == [is |-> "file", of |-> source.inode[n], prior |-> FALSE, parts |-> {1}]

(* What a target may be at the start: nothing, a file, a symbolic link that*)
(* leads nowhere, or the beginning of the source, left by an earlier copy. *)
AtStart(n, kind) ==
  CASE kind = "none" -> Nothing
    [] kind = "file" -> Other
    [] kind = "link" -> OtherLink
    [] kind = "beginning" -> Beginning(n)

All == 1 .. Pieces
FileOf(n) == [is |-> "file", of |-> source.inode[n], prior |-> FALSE, parts |-> All]
LinkOf(n) == [FileOf(n) EXCEPT !.is = "link"]
Empty(n) == [FileOf(n) EXCEPT !.parts = {}]
CopyOf(n) == IF n \in source.links THEN LinkOf(n) ELSE FileOf(n)

(* What O_APPEND writes to: a beginning goes on where the reading starts.  *)
AppendedTo(n) ==
  IF dst[n].of = source.inode[n] /\ dst[n].parts = 1 .. ctx.do_reget
  THEN dst[n]
  ELSE [Empty(n) EXCEPT !.prior = TRUE]

(* The target of n has all of the source n, in order.                      *)
Whole(n) == dst[n].is # "none" /\ dst[n].of = source.inode[n] /\ dst[n].parts = All

SameFile(n) == {m \in Name : source.inode[m] = source.inode[n]}

Init ==
  /\ how \in How /\ source \in Source
  /\ src = Name
  /\ \E kind \in [Name -> Target] : dst = [n \in Name |-> AtStart(n, kind[n])]
  /\ todo = Name /\ erase_list = <<>> /\ linklist = {}
  /\ ctx = [ignore_all |-> FALSE, do_append |-> FALSE, do_reget |-> 0, replace_result |-> "yes"]
  /\ \E n \in Name : f = [at |-> "next", name |-> n, asks |-> TRUE, status |-> "cont",
                          dst_exists |-> FALSE, dst_status |-> "none", appending |-> FALSE,
                          pos |-> 0]
  /\ agreed = {} /\ theirs = {n \in Name : dst[n].is # "none"} /\ miscounted = {}

-----------------------------------------------------------------------------
(* file_error, file_progress_check_buttons and the ways on.                *)

At(place) == f.at = place
Goes(place) == f' = [f EXCEPT !.at = place]
With(place, status) == f' = [f EXCEPT !.at = place, !.status = status]

Miscounted == miscounted' = miscounted \cup {f.name}

(* An error: with ignore_all nobody is asked.  Retry makes the same call   *)
(* again, a step that changes nothing; any other answer becomes the status,*)
(* and the function goes on at place.  ErrorOfOpen: an answer also gives   *)
(* up appending.                                                           *)
Answered(answer, append) ==
  ctx' = [ctx EXCEPT !.ignore_all = answer = "ignore_all", !.do_append = append]
ErrorAt(place, append) ==
  IF ctx.ignore_all
  THEN With(place, "ignore_all") /\ UNCHANGED ctx
  ELSE \E answer \in {"ignore", "ignore_all", "abort"} :
         With(place, answer) /\ Answered(answer, append)
Error(place) == ErrorAt(place, ctx.do_append)
ErrorOfOpen(place) == ErrorAt(place, FALSE)

Pressed == {"cont", "skip", "abort"}

(* One of the marked files is finished; the next one follows unless        *)
(* aborted.                                                                *)
Finished(status) ==
  f' = [f EXCEPT !.at = IF status = "abort" THEN "done" ELSE "next", !.status = status,
                 !.asks = TRUE, !.dst_exists = FALSE, !.dst_status = "none",
                 !.appending = FALSE, !.pos = 0]

-----------------------------------------------------------------------------
(* The loops of panel_operate and copy_dir_dir.                            *)

Next_File ==
  /\ At("next")
  /\ \E n \in todo :
       /\ todo' = todo \ {n}
       /\ f' = [f EXCEPT !.at = IF how.op = "move" THEN "move" ELSE "copy",
                         !.name = n]
  /\ UNCHANGED <<fixed, disks, erase_list, linklist, ctx, history>>

(* do_move_dir_dir: nothing under the target's name, and rename works.     *)
MoveDir ==
  /\ At("next") /\ todo = Name /\ how.op = "move_dir" /\ how.same_fs
  /\ \A n \in Name : dst[n] = Nothing
  /\ src' = {} /\ dst' = [n \in Name |-> CopyOf(n)]
  /\ Goes("done")
  /\ UNCHANGED <<fixed, lists, ctx, history>>

(* The last file is done.  A moved directory goes on to erase unless the   *)
(* status of its last file, or a button, says otherwise.                   *)
LastFile ==
  /\ At("next") /\ todo = {}
  /\ IF how.op = "move_dir" /\ f.status = "cont"
     THEN \E b \in Pressed : With(IF b = "cont" THEN "erase" ELSE "done", b)
     ELSE Goes("done")
  /\ UNCHANGED <<fixed, disks, lists, ctx, history>>

(* erase_dir_after_copy with erase_file.                                   *)
Erase ==
  /\ At("erase") /\ erase_list # <<>> /\ f.status # "abort"
  /\ \/ src' = src /\ With("erase", "abort")
     \/ src' = src \ {Head(erase_list)} /\ \E b \in Pressed : With("erase", b)
  /\ erase_list' = Tail(erase_list)
  /\ UNCHANGED <<fixed, dst, todo, linklist, ctx, history>>

EraseFails ==
  /\ At("erase") /\ erase_list # <<>> /\ f.status # "abort" /\ "unlink" \in Fault
  /\ Error("erase")
  /\ erase_list' = Tail(erase_list)
  /\ UNCHANGED <<fixed, disks, todo, linklist, history>>

Erased ==
  /\ At("erase") /\ (erase_list = <<>> \/ f.status = "abort")
  /\ Goes("done")
  /\ UNCHANGED <<fixed, disks, lists, ctx, history>>

-----------------------------------------------------------------------------
(* move_file_file.                                                         *)

(* Up to the question about a target that is there, be it a dead link.     *)
Move ==
  /\ At("move")
  /\ \/ Finished("abort")
     \/ Goes(IF dst[f.name].is = "none" THEN "rename" ELSE "ask")
  /\ UNCHANGED <<fixed, disks, lists, ctx, history>>

Rename ==
  /\ At("rename") /\ ~ctx.do_append /\ how.same_fs
  /\ src' = src \ {f.name}
  /\ dst' = [dst EXCEPT ![f.name] = CopyOf(f.name)]
  /\ \E b \in Pressed : Finished(b)
  /\ UNCHANGED <<fixed, lists, ctx, history>>

(* copy_file_file is called without asking again.                          *)
RenameFails ==
  /\ At("rename") /\ (ctx.do_append \/ ~how.same_fs)
  /\ f' = [f EXCEPT !.at = "copy", !.asks = FALSE]
  /\ UNCHANGED <<fixed, disks, lists, ctx, history>>

(* try_remove_file.  What cannot be removed and is ignored for all counts  *)
(* as removed.                                                             *)
RemoveSource ==
  /\ At("remove")
  /\ src' = src \ {f.name}
  /\ \E b \in Pressed : Finished(b)
  /\ UNCHANGED <<fixed, dst, lists, ctx, history>>

RemoveFails ==
  /\ At("remove") /\ "unlink" \in Fault
  /\ IF ctx.ignore_all
     THEN (\E b \in Pressed : Finished(b)) /\ UNCHANGED ctx
     ELSE \E answer \in {"ignore", "ignore_all", "abort"} :
            Finished(answer) /\ Answered(answer, ctx.do_append)
  /\ UNCHANGED <<fixed, disks, lists, history>>

(* Mutant of Copied: a directory notes whatever it has looked at.          *)
CopiedAny ==
  /\ At("copied") /\ Finished(f.status)
  /\ erase_list' = IF how.op = "move_dir" THEN Append(erase_list, f.name) ELSE erase_list
  /\ UNCHANGED <<fixed, disks, todo, linklist, ctx, history>>

(* copy_file_file is back in its caller: copying, the file is finished; a  *)
(* directory notes what is to be erased; moving, the source is removed if  *)
(* the copy succeeded, else the file is finished with a button.            *)
Copied ==
  /\ At("copied")
  /\ IF how.op = "move" /\ f.status # "abort"
     THEN \E b \in Pressed : IF f.status = "cont" /\ b = "cont"
                             THEN With("remove", b) ELSE Finished(b)
     ELSE Finished(f.status)
  /\ erase_list' = IF how.op = "move_dir" /\ f.status = "cont"
                   THEN Append(erase_list, f.name) ELSE erase_list
  /\ UNCHANGED <<fixed, disks, todo, linklist, ctx, history>>

-----------------------------------------------------------------------------
(* copy_file_file.                                                         *)

(* Up to check_same_file: a target that stat finds exists, a dead link does*)
(* not.  The status is what reading the attributes leaves: cont where there*)
(* are none.                                                               *)
Copy ==
  LET exists == dst[f.name].is = "file" IN
  /\ At("copy")
  /\ \/ With("copied", "abort") /\ UNCHANGED ctx
     \/ \E status \in {"retry", "cont"} :
          /\ f' = [f EXCEPT !.at = IF exists /\ f.asks THEN "query" ELSE "links",
                            !.status = status, !.dst_exists = exists]
          /\ ctx' = IF exists /\ f.asks THEN [ctx EXCEPT !.do_reget = 0] ELSE ctx
  /\ UNCHANGED <<fixed, disks, lists, history>>

(* file_progress_real_query_replace: an answer for one file, or one kept   *)
(* for all later ones; "some" are the comparisons of size and time.        *)
Kept == {"reget", "all", "none", "some"}
Choice == IF ctx.replace_result \in Kept
          THEN {ctx.replace_result}
          ELSE {"yes", "no", "append", "reget", "all", "none", "some", "abort"}
Verdict(choice) ==
  CASE choice \in {"yes", "append", "reget", "all"} -> {"cont"}
    [] choice \in {"no", "none"} -> {"skip"}
    [] choice = "some" -> {"cont", "skip"}
    [] choice = "abort" -> {"abort"}

query_replace(choice, verdict) ==
  /\ ctx' = [ctx EXCEPT !.replace_result = IF choice \in Kept THEN choice ELSE @,
                        !.do_append = @ \/ choice \in {"append", "reget"},
                        !.do_reget = IF choice = "reget" THEN 1 ELSE @]
  /\ agreed' = IF verdict = "cont" THEN agreed \cup {f.name} ELSE agreed

Query ==
  /\ At("query")
  /\ \E choice \in Choice : \E verdict \in Verdict(choice) :
       /\ query_replace(choice, verdict)
       /\ With(IF verdict = "cont" THEN "links" ELSE "copied", verdict)
  /\ UNCHANGED <<fixed, disks, lists, theirs, miscounted>>

(* Not to replace is, to move_file_file, a file that is finished.          *)
Ask ==
  /\ At("ask")
  /\ \E choice \in Choice : \E verdict \in Verdict(choice) :
       /\ query_replace(choice, verdict)
       /\ CASE verdict = "cont" -> With("rename", verdict)
            [] verdict = "skip" -> \E b \in Pressed : Finished(b)
            [] verdict = "abort" -> Finished(verdict)
  /\ UNCHANGED <<fixed, disks, lists, theirs, miscounted>>

-----------------------------------------------------------------------------
(* check_hardlinks and make_symlink.                                       *)

(* st_nlink > 1: names of the inode still in the source, or elsewhere.     *)
HasLinks(n) ==
  \/ source.outside /\ n \notin source.links
  \/ SameFile(n) \cap src # {n}
Met(n) == SameFile(n) \cap linklist
AfterLinks == IF f.name \in source.links THEN "symlink" ELSE "open_source"

NoLinks ==
  /\ At("links") /\ (ctx.do_append \/ ~HasLinks(f.name))
  /\ Goes(IF ctx.do_append THEN "open_source" ELSE AfterLinks)
  /\ UNCHANGED <<fixed, disks, lists, ctx, history>>

LinkMet ==
  /\ At("links") /\ ~ctx.do_append /\ HasLinks(f.name) /\ Met(f.name) = {}
  /\ linklist' = linklist \cup {f.name}
  /\ Goes(AfterLinks)
  /\ UNCHANGED <<fixed, disks, todo, erase_list, ctx, history>>

(* A hard link to the target of the name met first.                        *)
LinkMade ==
  /\ At("links") /\ ~ctx.do_append /\ HasLinks(f.name)
  /\ dst[f.name].is = "none"
  /\ \E m \in Met(f.name) \cap src :
       /\ dst[m].is = "file"
       /\ dst' = [dst EXCEPT ![f.name] = dst[m]]
  /\ With("copied", "cont")
  /\ UNCHANGED <<fixed, src, lists, ctx, history>>

(* The first name is gone from the source, its target from the disk, or    *)
(* the new name is taken: the file is copied after all, unless aborted.    *)
LinkFails ==
  /\ At("links") /\ ~ctx.do_append /\ HasLinks(f.name) /\ Met(f.name) # {}
  /\ \/ Met(f.name) \cap src = {} \/ dst[f.name].is # "none" \/ "link" \in Fault
     \/ \E m \in Met(f.name) : dst[m].is # "file"
  /\ IF ctx.ignore_all
     THEN Goes(AfterLinks) /\ UNCHANGED ctx
     ELSE \/ With("copied", "abort") /\ UNCHANGED ctx
          \/ \E answer \in {"ignore", "ignore_all"} :
               Goes(AfterLinks) /\ Answered(answer, ctx.do_append)
  /\ UNCHANGED <<fixed, disks, lists, history>>

(* A symbolic link under the target's name is deleted silently.            *)
SymlinkMade ==
  /\ At("symlink") /\ dst[f.name].is # "file"
  /\ dst' = [dst EXCEPT ![f.name] = LinkOf(f.name)]
  /\ With("copied", "cont")
  /\ UNCHANGED <<fixed, src, lists, ctx, history>>

SymlinkFails ==
  /\ At("symlink") /\ (dst[f.name].is = "file" \/ "link" \in Fault)
  /\ Error("copied")
  /\ \/ dst' = dst
     \/ dst[f.name].is = "link" /\ dst' = [dst EXCEPT ![f.name] = Nothing]
  /\ UNCHANGED <<fixed, src, lists, history>>

-----------------------------------------------------------------------------
(* The contents: open, clone or read and write, close.                     *)

(* lseek to where an earlier download ended.                               *)
OpenSource ==
  /\ At("open_source")
  /\ f' = [f EXCEPT !.at = "open_target", !.pos = ctx.do_reget]
  /\ UNCHANGED <<fixed, disks, lists, ctx, history>>

OpenSourceFails ==
  /\ At("open_source") /\ "open" \in Fault
  /\ ErrorOfOpen("close")
  /\ UNCHANGED <<fixed, disks, lists, history>>

(* Mutant of MayOpen: without O_EXCL.                                      *)
MayOpenAnything == TRUE

(* O_EXCL: what stat did not find must not be there.                       *)
MayOpen == f.dst_exists \/ dst[f.name].is = "none"
Opened == IF f.dst_exists /\ ctx.do_append THEN AppendedTo(f.name) ELSE Empty(f.name)

OpenTarget ==
  /\ At("open_target") /\ MayOpen
  /\ dst' = [dst EXCEPT ![f.name] = Opened]
  /\ f' = [f EXCEPT !.at = "clone", !.dst_status = "query", !.appending = ctx.do_append]
  /\ ctx' = [ctx EXCEPT !.do_append = FALSE]
  /\ IF ctx.do_reget # 0 /\ Opened.parts = {} THEN Miscounted ELSE UNCHANGED miscounted
  /\ UNCHANGED <<fixed, src, lists, agreed, theirs>>

OpenTargetFails ==
  /\ At("open_target") /\ "open" \in Fault
  /\ ErrorOfOpen("close")
  /\ UNCHANGED <<fixed, disks, lists, history>>

(* EEXIST is no error to be shown: the status stays what it was.           *)
TargetExists ==
  /\ At("open_target") /\ ~f.dst_exists /\ dst[f.name].is # "none"
  /\ Goes("close")
  /\ IF f.status = "cont" THEN Miscounted ELSE UNCHANGED miscounted
  /\ UNCHANGED <<fixed, disks, lists, ctx, agreed, theirs>>

Gets(parts) == dst' = [dst EXCEPT ![f.name].parts = parts]

(* vfs_clone_file, or the first look at the buttons.                       *)
Clone ==
  /\ At("clone")
  /\ \/ /\ ~f.appending /\ how.same_fs
        /\ Gets(All)
        /\ f' = [f EXCEPT !.at = "close", !.dst_status = "full", !.status = "cont"]
     \/ /\ \E b \in Pressed : With(IF b = "cont" THEN "read" ELSE "close", b)
        /\ UNCHANGED dst
  /\ UNCHANGED <<fixed, src, lists, ctx, history>>

(* Mutant of Read: one piece more than there is.                           *)
ReadBeyond ==
  /\ At("read")
  /\ f' = IF f.pos <= Pieces THEN [f EXCEPT !.at = "write"]
          ELSE [f EXCEPT !.at = "close", !.dst_status = "full"]
  /\ UNCHANGED <<fixed, disks, lists, ctx, history>>

Read ==
  /\ At("read")
  /\ f' = IF f.pos < Pieces THEN [f EXCEPT !.at = "write"]
          ELSE [f EXCEPT !.at = "close", !.dst_status = "full"]
  /\ UNCHANGED <<fixed, disks, lists, ctx, history>>

(* With ignore_all the reading goes on.                                    *)
ReadFails ==
  /\ At("read") /\ "read" \in Fault
  /\ IF ctx.ignore_all THEN Goes("buttons") /\ UNCHANGED ctx ELSE Error("close")
  /\ UNCHANGED <<fixed, disks, lists, history>>

Write ==
  /\ At("write")
  /\ Gets(dst[f.name].parts \cup {f.pos + 1})
  /\ f' = [f EXCEPT !.at = "buttons", !.pos = @ + 1]
  /\ UNCHANGED <<fixed, src, lists, ctx, history>>

WriteFails ==
  /\ At("write") /\ "write" \in Fault
  /\ Error("close")
  /\ UNCHANGED <<fixed, disks, lists, history>>

(* Ignore, unless the disk is full, leaves the piece out and goes on.      *)
WriteIgnored ==
  /\ At("write") /\ "write" \in Fault /\ ~ctx.ignore_all
  /\ f' = [f EXCEPT !.at = "buttons", !.pos = @ + 1]
  /\ Miscounted
  /\ UNCHANGED <<fixed, disks, lists, ctx, agreed, theirs>>

Buttons ==
  /\ At("buttons")
  /\ \E b \in Pressed :
       \/ With("read", b)
       \/ b # "cont" /\ \E end \in {"delete", "keep"} :
            f' = [f EXCEPT !.at = "close", !.status = b, !.dst_status = end]
  /\ UNCHANGED <<fixed, disks, lists, ctx, history>>

Close ==
  /\ At("close") /\ Goes("preserve")
  /\ UNCHANGED <<fixed, disks, lists, ctx, history>>

(* What was written last may be lost.  With ignore_all that goes unnoticed.*)
CloseFails ==
  /\ At("close") /\ f.dst_status # "none" /\ "close" \in Fault
  /\ Gets(dst[f.name].parts \ {Pieces})
  /\ IF ctx.ignore_all
     THEN Goes("preserve") /\ Miscounted /\ UNCHANGED ctx
     ELSE Error("preserve") /\ UNCHANGED miscounted
  /\ UNCHANGED <<fixed, src, lists, agreed, theirs>>

(* A file that is not complete is kept or deleted.                         *)
DeleteShort ==
  /\ At("preserve") /\ f.dst_status \in {"query", "delete"}
  /\ dst' = [dst EXCEPT ![f.name] = Nothing]
  /\ Goes("leave")
  /\ UNCHANGED <<fixed, src, lists, ctx, history>>

(* Of a complete one the owner, mode and attributes are set.  When that    *)
(* fails and is ignored, or attributes are not supported, the status is    *)
(* cont whatever it was.                                                   *)
Preserve ==
  /\ At("preserve") /\ f.dst_status # "delete"
  /\ Goes("leave")
  /\ UNCHANGED <<fixed, disks, lists, ctx, history>>

PreserveFails ==
  /\ At("preserve") /\ f.dst_status = "full" /\ ~f.appending /\ "attributes" \in Fault
  /\ \/ With("copied", "abort") /\ UNCHANGED <<ctx, miscounted>>
     \/ /\ With("leave", "cont")
        /\ \E all \in BOOLEAN : ctx' = [ctx EXCEPT !.ignore_all = @ \/ all]
        /\ IF f.status # "cont" THEN Miscounted ELSE UNCHANGED miscounted
  /\ UNCHANGED <<fixed, disks, lists, agreed, theirs>>

Leave ==
  /\ At("leave")
  /\ IF f.status = "cont" THEN \E b \in Pressed : With("copied", b) ELSE Goes("copied")
  /\ UNCHANGED <<fixed, disks, lists, ctx, history>>

-----------------------------------------------------------------------------
(* Another program makes a file under a target's name.  What appears       *)
(* between move_file_file's look and the rename, or the copy that is not   *)
(* to ask again, is lost unseen.                                           *)
Appears(n) ==
  /\ dst[n].is = "none" /\ "appears" \in Fault
  /\ dst' = [dst EXCEPT ![n] = Other]
  /\ theirs' = IF f.name = n /\ (At("rename") \/ (At("copy") /\ ~f.asks))
               THEN theirs ELSE theirs \cup {n}
  /\ UNCHANGED <<fixed, src, lists, ctx, f, agreed, miscounted>>

Next ==
  \/ Next_File \/ MoveDir \/ LastFile \/ Erase \/ EraseFails \/ Erased
  \/ Move \/ Ask \/ Rename \/ RenameFails \/ RemoveSource \/ RemoveFails \/ Copied
  \/ Copy \/ Query \/ NoLinks \/ LinkMet \/ LinkMade \/ LinkFails
  \/ SymlinkMade \/ SymlinkFails
  \/ OpenSource \/ OpenSourceFails \/ OpenTarget \/ OpenTargetFails \/ TargetExists
  \/ Clone \/ Read \/ ReadFails \/ Write \/ WriteFails \/ WriteIgnored \/ Buttons
  \/ Close \/ CloseFails \/ DeleteShort \/ Preserve \/ PreserveFails \/ Leave
  \/ \E n \in Name : Appears(n)

Spec == Init /\ [][Next]_vars

-----------------------------------------------------------------------------
(* Properties.                                                             *)

(* What is no longer in the source is whole in the target, under one of    *)
(* the names of the same file: a move loses nothing, whatever fails and    *)
(* whatever the user answers.  Excepted are the names where the code goes  *)
(* on as if the copy were good: a write error that is ignored, a close     *)
(* error under "ignore all", a Reget whose target is no beginning of the   *)
(* source, a target that appeared while attributes are not supported, and  *)
(* an error whose status the ignored attributes overwrite.                 *)
NothingLost ==
  \A n \in Name \ src : \E m \in SameFile(n) : m \in src \/ Whole(m) \/ m \in miscounted

(* A file that was under a target's name is changed, replaced or deleted   *)
(* only after the user was asked and agreed: not by a rename, by opening,  *)
(* by the removal of a short copy.  A symbolic link that leads nowhere is  *)
(* no file; copying a symbolic link replaces it unasked.                   *)
AsksFirst ==
  [][\A n \in theirs : dst[n].is # "none" /\ dst'[n] # dst[n] =>
       n \in agreed' \/ (dst[n].is = "link" /\ n \in source.links)]_vars

(* DEST_FULL, "Created, fully copied".                                     *)
FullyCopied == f.dst_status = "full" => Whole(f.name)
=============================================================================
