--------------------------- MODULE FileMove_proofs ---------------------------
(***************************************************************************)
(* Proofs about FileMove, for any files and any names of one file, any     *)
(* number of pieces, and any set of calls that may fail: types, that a     *)
(* move loses nothing, and that nobody's file is replaced unasked.         *)
(*                                                                         *)
(* NothingLost is not inductive.  A source may be removed because its copy *)
(* is good, and a hard link counts as a good copy because the target of    *)
(* another name is one, or will be: Good says on what a name may rely so   *)
(* that no later step takes it away.                                       *)
(***************************************************************************)
EXTENDS FileMove, TLAPS

Final == {"leave", "copied", "remove", "next", "erase", "done"}
Between == {"next", "erase", "done"}
Looking == {"move", "ask", "rename", "copy", "query", "links"}
Opening == {"symlink", "open_source", "open_target"}
Writing == {"clone", "read", "write", "buttons"}
Ending == {"close", "preserve"}
Listed == {erase_list[i] : i \in DOMAIN erase_list}

-----------------------------------------------------------------------------
(* What is known of the lists and of the file that is being copied.        *)

TodoInv ==
  /\ f.at \notin Between => f.name \notin todo
  /\ linklist \cap todo = {}
  /\ f.at \in Looking => f.name \notin linklist

ThereInv ==
  /\ f.at \in Looking \cup Opening \cup {"next"} => f.dst_status = "none"
  /\ f.at \in {"query", "links"} \cup Opening /\ f.dst_exists => dst[f.name].is = "file"
  /\ f.at \in Writing \/ (f.at \in Ending /\ f.dst_status # "none") => dst[f.name].is # "none"
  /\ At("write") => f.pos < Pieces

Base == TypeOK /\ TodoInv /\ ThereInv

(* The target of m will not be changed any more; m will not be looked at.  *)
Past(m) == At("done") \/ (m \notin todo /\ (m = f.name => f.at \in Final))
Left(m) == At("done") \/ (m \notin todo /\ (m = f.name => f.at \in Between))

(* What stands for the file m: an excuse, a whole target that will not be  *)
(* changed, or a source that will not be removed.                          *)
Remains(m) == m \in src /\ Left(m) /\ m \notin Listed
Safe(m) == m \in miscounted \/ (Past(m) /\ Whole(m)) \/ Remains(m)
Good(n) == \E m \in SameFile(n) : Safe(m)

(* The target of the file that is being copied holds its first k pieces.   *)
Has(k) == f.name \in miscounted
          \/ (dst[f.name].of = source.inode[f.name] /\ dst[f.name].parts = 1 .. k)

CopyInv ==
  /\ At("open_target") => f.pos = ctx.do_reget
  /\ f.at \in Writing => Has(f.pos)
  /\ f.at \in Ending /\ f.status = "cont" =>
       f.name \in miscounted \/ (f.dst_status = "full" /\ Whole(f.name))

GoodInv ==
  /\ \A n \in Name \ src : Good(n)
  /\ \A n \in Listed : Good(n)
  /\ f.at \in {"leave", "copied"} /\ f.status = "cont" => Good(f.name)
  /\ At("remove") => Good(f.name)

(* Somebody's file under the name of f may be changed.                     *)
Yielded == f.name \in theirs => f.name \in agreed

(* A target of somebody's that is gone is not to be looked at again.       *)
GoneInv ==
  \A n \in theirs : dst[n].is = "none" => n \notin todo /\ (n = f.name => f.at \in Final)

YieldInv ==
  /\ f.at \in {"next", "move", "ask"} => f.asks
  /\ At("rename") \/ (At("copy") /\ ~f.asks) => Yielded
  /\ f.at \in {"links"} \cup Opening /\ f.dst_exists => Yielded
  /\ At("symlink") => f.name \in source.links
  /\ f.at \in Writing \/ (f.at \in Ending /\ f.dst_status # "none") => Yielded

AskInv == GoneInv /\ YieldInv

-----------------------------------------------------------------------------
(* What a step does to the frame and to the target of the file.            *)

Becomes(place, status, dst_status, pos) ==
  /\ f'.at = place /\ f'.name = f.name /\ f'.status = status /\ f'.dst_status = dst_status
  /\ f'.pos = pos /\ f'.asks = f.asks /\ f'.dst_exists = f.dst_exists

Moved(place, status) == Becomes(place, status, f.dst_status, f.pos)

GivenUp(status) ==
  /\ f'.at = (IF status = "abort" THEN "done" ELSE "next")
  /\ f'.name = f.name /\ f'.status = status /\ f'.dst_status = "none" /\ f'.asks = TRUE

Failed(place) == \E answer \in {"ignore", "ignore_all", "abort"} : Moved(place, answer)

Elsewhere == dst' \in [Name -> Content] /\ \A n \in Name : n # f.name => dst'[n] = dst[n]

(* A step of the loops and of the functions goes on to a place.            *)
LEMMA Moves ==
  ASSUME TypeOK
  PROVE  /\ \A place : Goes(place) => Moved(place, f.status)
         /\ \A place, status : With(place, status) => Moved(place, status)
         /\ \A status : Finished(status) => GivenUp(status)
         /\ \A place : Error(place) \/ ErrorOfOpen(place) => Failed(place)
<1> USE DEF TypeOK, Frame
<1>1. \A place : Goes(place) => Moved(place, f.status)
  BY DEF Goes, Moved, Becomes
<1>2. \A place, status : With(place, status) => Moved(place, status)
  BY DEF With, Moved, Becomes
<1>3. \A status : Finished(status) => GivenUp(status)
  BY DEF Finished, GivenUp
<1>4. \A place, append : ErrorAt(place, append) => Failed(place)
  BY <1>2 DEF ErrorAt, Failed
<1>5. QED
  BY <1>1, <1>2, <1>3, <1>4 DEF Error, ErrorOfOpen

(* The steps that set more of the frame than its place and its status.     *)
LEMMA Sets ==
  ASSUME TypeOK
  PROVE  /\ RenameFails => /\ f'.at = "copy" /\ f'.asks = FALSE /\ f'.name = f.name
                           /\ f'.dst_status = f.dst_status
         /\ OpenSource => Becomes("open_target", f.status, f.dst_status, ctx.do_reget)
         /\ OpenTarget => Becomes("clone", f.status, "query", f.pos)
         /\ Clone => \/ Gets(All) /\ Becomes("close", "cont", "full", f.pos)
                     \/ /\ UNCHANGED dst
                        /\ \E b \in Pressed : Moved(IF b = "cont" THEN "read" ELSE "close", b)
         /\ Read => IF f.pos < Pieces THEN Moved("write", f.status)
                    ELSE Becomes("close", f.status, "full", f.pos)
         /\ Write \/ WriteIgnored => Becomes("buttons", f.status, f.dst_status, f.pos + 1)
         /\ Buttons => \E b \in Pressed :
              \/ Moved("read", b)
              \/ b # "cont" /\ \E end \in {"delete", "keep"} : Becomes("close", b, end, f.pos)
<1> USE Moves DEF TypeOK, Frame
<1>1. RenameFails => /\ f'.at = "copy" /\ f'.asks = FALSE /\ f'.name = f.name
                     /\ f'.dst_status = f.dst_status
  BY DEF RenameFails
<1>2. OpenSource => Becomes("open_target", f.status, f.dst_status, ctx.do_reget)
  BY DEF OpenSource, Becomes
<1>3. OpenTarget => Becomes("clone", f.status, "query", f.pos)
  BY DEF OpenTarget, Becomes
<1>4. Clone => \/ Gets(All) /\ Becomes("close", "cont", "full", f.pos)
               \/ /\ UNCHANGED dst
                  /\ \E b \in Pressed : Moved(IF b = "cont" THEN "read" ELSE "close", b)
  BY DEF Clone, Becomes
<1>5. Read => IF f.pos < Pieces THEN Moved("write", f.status)
              ELSE Becomes("close", f.status, "full", f.pos)
  BY DEF Read, Becomes, Moved
<1>6. Write \/ WriteIgnored => Becomes("buttons", f.status, f.dst_status, f.pos + 1)
  BY DEF Write, WriteIgnored, Becomes
<1>7. Buttons => \E b \in Pressed :
        \/ Moved("read", b)
        \/ b # "cont" /\ \E end \in {"delete", "keep"} : Becomes("close", b, end, f.pos)
  BY DEF Buttons, Becomes
<1>8. QED
  BY <1>1, <1>2, <1>3, <1>4, <1>5, <1>6, <1>7

(* Where f is.                                                             *)
LEMMA Here ==
  ASSUME TypeOK
  PROVE  /\ f.name \in Name /\ f.status \in Status /\ f.pos \in 0 .. Pieces
         /\ f \in Frame /\ dst[f.name] \in Content /\ dst[f.name].parts \subseteq 1 .. Pieces
         /\ ctx.do_append \in BOOLEAN /\ ctx.ignore_all \in BOOLEAN /\ ctx.do_reget \in 0 .. 1
         /\ source \in Source
BY DEF TypeOK, Frame, Context, Content

(* What a target gets is of the type.                                      *)
LEMMA Contents ==
  ASSUME TypeOK, NEW n \in Name
  PROVE  /\ Nothing \in Content /\ Other \in Content
         /\ FileOf(n) \in Content /\ LinkOf(n) \in Content /\ Empty(n) \in Content
         /\ CopyOf(n) \in Content /\ AppendedTo(n) \in Content
<1>1. source.inode[n] \in Inode /\ dst[n] \in Content /\ 1 \in 1 .. Pieces
  BY SourceAssumption, PiecesAssumption DEF TypeOK
<1>2. Nothing \in Content /\ Other \in Content
  BY DEF Nothing, Other, Content
<1>3. FileOf(n) \in Content
  BY <1>1 DEF FileOf, Content, All
<1>4. LinkOf(n) \in Content /\ Empty(n) \in Content
  BY <1>1 DEF FileOf, Content, All, LinkOf, Empty
<1>5. AppendedTo(n) \in Content
  BY <1>1, <1>4 DEF AppendedTo, Content
<1>6. QED
  BY <1>2, <1>3, <1>4, <1>5 DEF CopyOf

(* Only the target of the file at hand is written.                         *)
LEMMA Targets ==
  ASSUME TypeOK
  PROVE  /\ \A c \in Content : dst' = [dst EXCEPT ![f.name] = c] =>
              Elsewhere /\ dst'[f.name] = c
         /\ \A parts \in SUBSET (1 .. Pieces) : Gets(parts) =>
              /\ Elsewhere /\ dst'[f.name].parts = parts
              /\ dst'[f.name].is = dst[f.name].is /\ dst'[f.name].of = dst[f.name].of
<1>1. f.name \in Name /\ dst \in [Name -> Content]
  BY DEF TypeOK, Frame
<1>2. ASSUME NEW c \in Content, dst' = [dst EXCEPT ![f.name] = c]
      PROVE  Elsewhere /\ dst'[f.name] = c
  BY <1>1, <1>2 DEF Elsewhere
<1>3. ASSUME NEW parts \in SUBSET (1 .. Pieces), Gets(parts)
      PROVE  /\ Elsewhere /\ dst'[f.name].parts = parts
             /\ dst'[f.name].is = dst[f.name].is /\ dst'[f.name].of = dst[f.name].of
  <2> DEFINE c == [dst[f.name] EXCEPT !.parts = parts]
  <2>1. c \in Content /\ c.parts = parts /\ c.is = dst[f.name].is /\ c.of = dst[f.name].of
    BY <1>1 DEF Content
  <2>2. dst' = [dst EXCEPT ![f.name] = c]
    BY <1>3 DEF Gets
  <2> HIDE DEF c
  <2>3. QED
    BY <1>2, <2>1, <2>2
<1>4. QED
  BY <1>2, <1>3

(* The ways on lead to frames.                                             *)
LEMMA Frames ==
  ASSUME TypeOK
  PROVE  /\ \A place \in Place : Goes(place) => f' \in Frame
         /\ \A place \in Place, status \in Status : With(place, status) => f' \in Frame
         /\ \A status \in Status : Finished(status) => f' \in Frame
         /\ \A place \in Place : Error(place) \/ ErrorOfOpen(place) => f' \in Frame
<1> f \in Frame /\ 0 \in 0 .. Pieces
  BY PiecesAssumption DEF TypeOK
<1>1. \A place \in Place : Goes(place) => f' \in Frame
  BY DEF Goes, Frame
<1>2. \A place \in Place, status \in Status : With(place, status) => f' \in Frame
  BY DEF With, Frame
<1>3. ASSUME NEW status \in Status, Finished(status) PROVE f' \in Frame
  BY <1>3 DEF Finished, Frame, Place
<1>4. \A place \in Place : \A append : ErrorAt(place, append) => f' \in Frame
  BY <1>2 DEF ErrorAt, Status
<1>5. QED
  BY <1>1, <1>2, <1>3, <1>4 DEF Error, ErrorOfOpen

(* Every step leaves a frame.                                              *)
LEMMA FrameNext ==
  ASSUME TypeOK, At("write") => f.pos < Pieces, Next
  PROVE  f' \in Frame
<1> USE Frames, Here, PiecesAssumption DEF Status
<1>1. CASE Next_File
  <2>1. todo \subseteq Name
    BY DEF TypeOK
  <2>2. QED
    BY <1>1, <2>1 DEF Next_File, Frame, Place
<1>2. CASE MoveDir
  BY <1>2 DEF MoveDir, Place
<1>3. CASE LastFile
  BY <1>3 DEF LastFile, Pressed, Place
<1>4. CASE Erase
  BY <1>4 DEF Erase, Pressed, Place
<1>5. CASE EraseFails
  BY <1>5 DEF EraseFails, Place
<1>6. CASE Erased
  BY <1>6 DEF Erased, Place
<1>7. CASE Move
  BY <1>7 DEF Move, Place
<1>8. CASE Ask
  BY <1>8 DEF Ask, Choice, Verdict, Pressed, Kept, Place
<1>9. CASE Rename
  BY <1>9 DEF Rename, Pressed, Place
<1>10. CASE RenameFails
  BY <1>10 DEF RenameFails, Frame, Place
<1>11. CASE RemoveSource
  BY <1>11 DEF RemoveSource, Pressed, Place
<1>12. CASE RemoveFails
  BY <1>12 DEF RemoveFails, Pressed, Place
<1>13. CASE Copied
  BY <1>13 DEF Copied, Pressed, Place
<1>14. CASE Copy
  BY <1>14 DEF Copy, Frame, Place
<1>15. CASE Query
  BY <1>15 DEF Query, Choice, Verdict, Kept, Place
<1>16. CASE NoLinks
  BY <1>16 DEF NoLinks, AfterLinks, Place
<1>17. CASE LinkMet
  BY <1>17 DEF LinkMet, AfterLinks, Place
<1>18. CASE LinkMade
  BY <1>18 DEF LinkMade, Place
<1>19. CASE LinkFails
  BY <1>19 DEF LinkFails, AfterLinks, Place
<1>20. CASE SymlinkMade
  BY <1>20 DEF SymlinkMade, Place
<1>21. CASE SymlinkFails
  BY <1>21 DEF SymlinkFails, Place
<1>22. CASE OpenSource
  <2>1. ctx.do_reget \in 0 .. Pieces
    OBVIOUS
  <2>2. QED
    BY <1>22, <2>1 DEF OpenSource, Frame, Place
<1>23. CASE OpenSourceFails
  BY <1>23 DEF OpenSourceFails, Place
<1>24. CASE OpenTarget
  BY <1>24 DEF OpenTarget, Frame, Place
<1>25. CASE OpenTargetFails
  BY <1>25 DEF OpenTargetFails, Place
<1>26. CASE TargetExists
  BY <1>26 DEF TargetExists, Place
<1>27. CASE Clone
  BY <1>27 DEF Clone, Pressed, Frame, With, Place
<1>28. CASE Read
  BY <1>28 DEF Read, Frame, Place
<1>29. CASE ReadFails
  BY <1>29 DEF ReadFails, Place
<1>30. CASE Write
  <2>1. f.pos + 1 \in 0 .. Pieces
    BY <1>30 DEF Write, At
  <2>2. QED
    BY <1>30, <2>1 DEF Write, Frame, Place
<1>31. CASE WriteFails
  BY <1>31 DEF WriteFails, Place
<1>32. CASE WriteIgnored
  <2>1. f.pos + 1 \in 0 .. Pieces
    BY <1>32 DEF WriteIgnored, At
  <2>2. QED
    BY <1>32, <2>1 DEF WriteIgnored, Frame, Place
<1>33. CASE Buttons
  BY <1>33 DEF Buttons, Pressed, Frame, Place
<1>34. CASE Close
  BY <1>34 DEF Close, Place
<1>35. CASE CloseFails
  BY <1>35 DEF CloseFails, Place
<1>36. CASE DeleteShort
  BY <1>36 DEF DeleteShort, Place
<1>37. CASE Preserve
  BY <1>37 DEF Preserve, Place
<1>38. CASE PreserveFails
  BY <1>38 DEF PreserveFails, Place
<1>39. CASE Leave
  BY <1>39 DEF Leave, Pressed, Place
<1>40. CASE \E n \in Name : Appears(n)
  BY <1>40 DEF Appears
<1> QED
  BY <1>1, <1>2, <1>3, <1>4, <1>5, <1>6, <1>7, <1>8, <1>9, <1>10, <1>11, <1>12, <1>13, <1>14,
     <1>15, <1>16, <1>17, <1>18, <1>19, <1>20, <1>21, <1>22, <1>23, <1>24, <1>25, <1>26,
     <1>27, <1>28, <1>29, <1>30, <1>31, <1>32, <1>33, <1>34, <1>35, <1>36, <1>37, <1>38,
     <1>39, <1>40 DEF Next

(* So do the options of the operation.                                     *)
LEMMA Contexts ==
  ASSUME TypeOK
  PROVE  /\ \A answer : \A append \in BOOLEAN : Answered(answer, append) => ctx' \in Context
         /\ \A place : Error(place) \/ ErrorOfOpen(place) => ctx' \in Context
         /\ \A choice \in Choice : \A verdict : query_replace(choice, verdict) =>
              ctx' \in Context /\ agreed' \in SUBSET Name
         /\ Copy \/ OpenTarget \/ PreserveFails => ctx' \in Context
<1>1. ctx \in Context /\ f.name \in Name
  BY DEF TypeOK, Frame
<1>2. ASSUME NEW answer, NEW append \in BOOLEAN, Answered(answer, append)
      PROVE  ctx' \in Context
  BY <1>1, <1>2 DEF Answered, Context
<1>3. \A place : \A append \in BOOLEAN : ErrorAt(place, append) => ctx' \in Context
  BY <1>1, <1>2 DEF ErrorAt
<1>4. \A place : Error(place) \/ ErrorOfOpen(place) => ctx' \in Context
  BY <1>3, Here DEF Error, ErrorOfOpen
<1>5. ASSUME NEW choice \in Choice, NEW verdict, query_replace(choice, verdict)
      PROVE  ctx' \in Context /\ agreed' \in SUBSET Name
  <2>1. (ctx.do_append \/ choice \in {"append", "reget"}) \in BOOLEAN
    OBVIOUS
  <2>2. (IF choice \in Kept THEN choice ELSE ctx.replace_result) \in {"yes"} \cup Kept
    BY <1>1 DEF Context, Kept
  <2>3. (IF choice = "reget" THEN 1 ELSE ctx.do_reget) \in 0 .. 1
    BY Here
  <2>4. ctx' \in Context
    BY <1>1, <1>5, <2>1, <2>2, <2>3 DEF query_replace, Context, Kept
  <2>5. agreed' \in SUBSET Name
    BY <1>1, <1>5 DEF query_replace, TypeOK
  <2>6. QED
    BY <2>4, <2>5
<1>6. Copy => ctx' \in Context
  BY <1>1 DEF Copy, Context
<1>7. OpenTarget => ctx' \in Context
  BY <1>1 DEF OpenTarget, Context
<1>8. PreserveFails => ctx' \in Context
  BY <1>1 DEF PreserveFails, Context
<1>9. QED
  BY <1>2, <1>4, <1>5, <1>6, <1>7, <1>8

(* What is opened is a target of the type.                                 *)
LEMMA Openings ==
  ASSUME TypeOK
  PROVE  Opened \in Content
BY Contents, Here DEF Opened

(* Every step keeps the types.                                             *)
LEMMA TypeNext ==
  ASSUME TypeOK, At("write") => f.pos < Pieces, Next
  PROVE  TypeOK'
<1> USE FrameNext, Contexts, Targets, Contents, Here
<1> USE DEF TypeOK, fixed, disks, lists, history, Elsewhere
<1>1. CASE Next_File
  BY <1>1 DEF Next_File
<1>2. CASE MoveDir
  BY <1>2 DEF MoveDir
<1>3. CASE LastFile
  BY <1>3 DEF LastFile
<1>4. CASE Erase
  BY <1>4 DEF Erase
<1>5. CASE EraseFails
  BY <1>5 DEF EraseFails
<1>6. CASE Erased
  BY <1>6 DEF Erased
<1>7. CASE Move
  BY <1>7 DEF Move
<1>8. CASE Ask
  BY <1>8 DEF Ask
<1>9. CASE Rename
  BY <1>9 DEF Rename
<1>10. CASE RenameFails
  BY <1>10 DEF RenameFails
<1>11. CASE RemoveSource
  BY <1>11 DEF RemoveSource
<1>12. CASE RemoveFails
  BY <1>12 DEF RemoveFails
<1>13. CASE Copied
  BY <1>13 DEF Copied
<1>14. CASE Copy
  BY <1>14 DEF Copy
<1>15. CASE Query
  BY <1>15 DEF Query
<1>16. CASE NoLinks
  BY <1>16 DEF NoLinks
<1>17. CASE LinkMet
  BY <1>17 DEF LinkMet
<1>18. CASE LinkMade
  BY <1>18 DEF LinkMade
<1>19. CASE LinkFails
  BY <1>19 DEF LinkFails
<1>20. CASE SymlinkMade
  BY <1>20 DEF SymlinkMade
<1>21. CASE SymlinkFails
  BY <1>21 DEF SymlinkFails
<1>22. CASE OpenSource
  BY <1>22 DEF OpenSource
<1>23. CASE OpenSourceFails
  BY <1>23 DEF OpenSourceFails
<1>24. CASE OpenTarget
  BY <1>24, Openings DEF OpenTarget, Miscounted
<1>25. CASE OpenTargetFails
  BY <1>25 DEF OpenTargetFails
<1>26. CASE TargetExists
  BY <1>26 DEF TargetExists, Miscounted
<1>27. CASE Clone
  BY <1>27 DEF Clone, All
<1>28. CASE Read
  BY <1>28 DEF Read
<1>29. CASE ReadFails
  BY <1>29 DEF ReadFails
<1>30. CASE Write
  <2>1. dst[f.name].parts \cup {f.pos + 1} \in SUBSET (1 .. Pieces)
    BY <1>30, PiecesAssumption DEF Write, At
  <2>2. QED
    BY <1>30, <2>1 DEF Write
<1>31. CASE WriteFails
  BY <1>31 DEF WriteFails
<1>32. CASE WriteIgnored
  BY <1>32 DEF WriteIgnored, Miscounted
<1>33. CASE Buttons
  BY <1>33 DEF Buttons
<1>34. CASE Close
  BY <1>34 DEF Close
<1>35. CASE CloseFails
  BY <1>35 DEF CloseFails, Miscounted
<1>36. CASE DeleteShort
  BY <1>36 DEF DeleteShort
<1>37. CASE Preserve
  BY <1>37 DEF Preserve
<1>38. CASE PreserveFails
  BY <1>38 DEF PreserveFails, Miscounted
<1>39. CASE Leave
  BY <1>39 DEF Leave
<1>40. CASE \E n \in Name : Appears(n)
  BY <1>40 DEF Appears
<1> QED
  BY <1>1, <1>2, <1>3, <1>4, <1>5, <1>6, <1>7, <1>8, <1>9, <1>10, <1>11, <1>12, <1>13, <1>14,
     <1>15, <1>16, <1>17, <1>18, <1>19, <1>20, <1>21, <1>22, <1>23, <1>24, <1>25, <1>26,
     <1>27, <1>28, <1>29, <1>30, <1>31, <1>32, <1>33, <1>34, <1>35, <1>36, <1>37, <1>38,
     <1>39, <1>40 DEF Next

(* What is opened is a file.                                               *)
LEMMA OpenedIs ==
  ASSUME TypeOK, ThereInv, At("open_target")
  PROVE  Opened.is = "file"
BY DEF ThereInv, At, Opening, Opened, AppendedTo, Empty, FileOf

-----------------------------------------------------------------------------
(* The lists and the place of f.                                           *)

(* Every step keeps what is known of the lists and of the file at hand.    *)
LEMMA PlaceNext ==
  ASSUME Base, Next
  PROVE  TodoInv' /\ ThereInv'
<1> TypeOK
  BY DEF Base
<1> USE Moves, Sets, Here, Targets
<1> USE DEF Base, TodoInv, ThereInv, At, Looking, Opening, Writing, Ending, Between,
            Becomes, Moved, GivenUp, Failed, Elsewhere, disks, lists
<1>1. CASE Next_File
  BY <1>1 DEF Next_File, TypeOK, Frame
<1>2. CASE MoveDir
  BY <1>2 DEF MoveDir
<1>3. CASE LastFile
  BY <1>3 DEF LastFile, Pressed
<1>4. CASE Erase
  BY <1>4 DEF Erase, Pressed
<1>5. CASE EraseFails
  BY <1>5 DEF EraseFails
<1>6. CASE Erased
  BY <1>6 DEF Erased
<1>7. CASE Move
  <2>1. \/ GivenUp("abort")
        \/ \E place \in {"rename", "ask"} : Moved(place, f.status)
    BY <1>7 DEF Move
  <2>2. QED
    BY <1>7, <2>1 DEF Move
<1>8. CASE Ask
  <2>1. PICK verdict \in {"cont", "skip", "abort"} :
          CASE verdict = "cont" -> With("rename", verdict)
            [] verdict = "skip" -> \E b \in Pressed : Finished(b)
            [] verdict = "abort" -> Finished(verdict)
    BY <1>8 DEF Ask, Verdict, Choice, Kept
  <2>2. Moved("rename", "cont") \/ \E b : GivenUp(b)
    <3>1. CASE verdict = "cont"
      BY <2>1, <3>1
    <3>2. CASE verdict = "skip"
      BY <2>1, <3>2
    <3>3. CASE verdict = "abort"
      BY <2>1, <3>3
    <3>4. QED
      BY <3>1, <3>2, <3>3
  <2>3. QED
    BY <1>8, <2>2 DEF Ask
<1>9. CASE Rename
  BY <1>9 DEF Rename
<1>10. CASE RenameFails
  BY <1>10 DEF RenameFails
<1>11. CASE RemoveSource
  BY <1>11 DEF RemoveSource
<1>12. CASE RemoveFails
  BY <1>12 DEF RemoveFails
<1>13. CASE Copied
  <2>1. Moved("remove", "cont") \/ \E b : GivenUp(b)
    <3>1. CASE how.op = "move" /\ f.status # "abort"
      <4>1. PICK b \in Pressed : IF f.status = "cont" /\ b = "cont"
                                THEN With("remove", b) ELSE Finished(b)
        BY <1>13, <3>1 DEF Copied
      <4>2. CASE f.status = "cont" /\ b = "cont"
        BY <4>1, <4>2
      <4>3. CASE ~(f.status = "cont" /\ b = "cont")
        BY <4>1, <4>3
      <4>4. QED
        BY <4>2, <4>3
    <3>2. CASE ~(how.op = "move" /\ f.status # "abort")
      BY <1>13, <3>2 DEF Copied
    <3>3. QED
      BY <3>1, <3>2
  <2>2. QED
    BY <1>13, <2>1 DEF Copied
<1>14. CASE Copy
  <2>1. CASE With("copied", "abort")
    BY <1>14, <2>1 DEF Copy
  <2>2. ASSUME NEW status,
               f' = [f EXCEPT !.at = IF dst[f.name].is = "file" /\ f.asks THEN "query" ELSE "links",
                              !.status = status, !.dst_exists = (dst[f.name].is = "file")]
        PROVE  TodoInv' /\ ThereInv'
    <3>1. /\ f'.name = f.name /\ f'.dst_exists = (dst[f.name].is = "file")
          /\ f'.dst_status = f.dst_status /\ f'.at \in {"query", "links"}
      BY <2>2 DEF Frame
    <3>2. QED
      BY <1>14, <3>1 DEF Copy
  <2>3. QED
    BY <1>14, <2>1, <2>2 DEF Copy
<1>15. CASE Query
  BY <1>15 DEF Query, Verdict, Choice, Kept
<1>16. CASE NoLinks
  BY <1>16 DEF NoLinks, AfterLinks
<1>17. CASE LinkMet
  BY <1>17 DEF LinkMet, AfterLinks
<1>18. CASE LinkMade
  BY <1>18 DEF LinkMade
<1>19. CASE LinkFails
  BY <1>19 DEF LinkFails, AfterLinks
<1>20. CASE SymlinkMade
  BY <1>20 DEF SymlinkMade
<1>21. CASE SymlinkFails
  BY <1>21 DEF SymlinkFails
<1>22. CASE OpenSource
  BY <1>22 DEF OpenSource
<1>23. CASE OpenSourceFails
  BY <1>23 DEF OpenSourceFails
<1>24. CASE OpenTarget
  <2>1. dst'[f.name].is = "file"
    BY <1>24, Openings, OpenedIs DEF OpenTarget
  <2>2. QED
    BY <1>24, <2>1 DEF OpenTarget
<1>25. CASE OpenTargetFails
  BY <1>25 DEF OpenTargetFails
<1>26. CASE TargetExists
  BY <1>26 DEF TargetExists
<1>27. CASE Clone
  <2>1. At("clone") /\ todo' = todo /\ linklist' = linklist
    BY <1>27 DEF Clone
  <2>2. CASE Gets(All) /\ Becomes("close", "cont", "full", f.pos)
    BY <2>1, <2>2 DEF All
  <2>3. CASE UNCHANGED dst /\ \E b \in Pressed : Moved(IF b = "cont" THEN "read" ELSE "close", b)
    BY <2>1, <2>3
  <2>4. QED
    BY <1>27, <2>2, <2>3
<1>28. CASE Read
  BY <1>28 DEF Read
<1>29. CASE ReadFails
  BY <1>29 DEF ReadFails
<1>30. CASE Write
  <2>1. dst[f.name].parts \cup {f.pos + 1} \in SUBSET (1 .. Pieces)
    BY <1>30, PiecesAssumption DEF Write
  <2>2. QED
    BY <1>30, <2>1 DEF Write
<1>31. CASE WriteFails
  BY <1>31 DEF WriteFails
<1>32. CASE WriteIgnored
  BY <1>32 DEF WriteIgnored
<1>33. CASE Buttons
  BY <1>33 DEF Buttons, Pressed
<1>34. CASE Close
  BY <1>34 DEF Close
<1>35. CASE CloseFails
  BY <1>35 DEF CloseFails
<1>36. CASE DeleteShort
  BY <1>36 DEF DeleteShort
<1>37. CASE Preserve
  BY <1>37 DEF Preserve
<1>38. CASE PreserveFails
  BY <1>38 DEF PreserveFails
<1>39. CASE Leave
  BY <1>39 DEF Leave, Pressed
<1>40. CASE \E n \in Name : Appears(n)
  BY <1>40 DEF Appears, TypeOK, Other
<1> QED
  BY <1>1, <1>2, <1>3, <1>4, <1>5, <1>6, <1>7, <1>8, <1>9, <1>10, <1>11, <1>12, <1>13, <1>14,
     <1>15, <1>16, <1>17, <1>18, <1>19, <1>20, <1>21, <1>22, <1>23, <1>24, <1>25, <1>26,
     <1>27, <1>28, <1>29, <1>30, <1>31, <1>32, <1>33, <1>34, <1>35, <1>36, <1>37, <1>38,
     <1>39, <1>40 DEF Next

(* How much of a copy there is.                                            *)
LEMMA CopyNext ==
  ASSUME Base, CopyInv, Next
  PROVE  CopyInv'
<1> TypeOK
  BY DEF Base
<1> USE Moves, Sets, Here, Targets
<1> USE DEF CopyInv, At, Writing, Ending, Becomes, Moved, GivenUp, Failed, Has, Whole, fixed,
        disks, history
<1>1. CASE Next_File
  BY <1>1 DEF Next_File, TypeOK, Frame
<1>2. CASE MoveDir
  BY <1>2 DEF MoveDir
<1>3. CASE LastFile
  BY <1>3 DEF LastFile, Pressed
<1>4. CASE Erase
  BY <1>4 DEF Erase, Pressed
<1>5. CASE EraseFails
  BY <1>5 DEF EraseFails
<1>6. CASE Erased
  BY <1>6 DEF Erased
<1>7. CASE Move
  <2>1. \/ GivenUp("abort")
        \/ \E place \in {"rename", "ask"} : Moved(place, f.status)
    BY <1>7 DEF Move
  <2>2. QED
    BY <1>7, <2>1 DEF Move
<1>8. CASE Ask
  <2>1. PICK verdict \in {"cont", "skip", "abort"} :
          CASE verdict = "cont" -> With("rename", verdict)
            [] verdict = "skip" -> \E b \in Pressed : Finished(b)
            [] verdict = "abort" -> Finished(verdict)
    BY <1>8 DEF Ask, Verdict, Choice, Kept
  <2>2. Moved("rename", "cont") \/ \E b : GivenUp(b)
    <3>1. CASE verdict = "cont"
      BY <2>1, <3>1
    <3>2. CASE verdict = "skip"
      BY <2>1, <3>2
    <3>3. CASE verdict = "abort"
      BY <2>1, <3>3
    <3>4. QED
      BY <3>1, <3>2, <3>3
  <2>3. QED
    BY <1>8, <2>2 DEF Ask
<1>9. CASE Rename
  BY <1>9 DEF Rename
<1>10. CASE RenameFails
  BY <1>10 DEF RenameFails
<1>11. CASE RemoveSource
  BY <1>11 DEF RemoveSource
<1>12. CASE RemoveFails
  BY <1>12 DEF RemoveFails
<1>13. CASE Copied
  <2>1. Moved("remove", "cont") \/ \E b : GivenUp(b)
    <3>1. CASE how.op = "move" /\ f.status # "abort"
      <4>1. PICK b \in Pressed : IF f.status = "cont" /\ b = "cont"
                                THEN With("remove", b) ELSE Finished(b)
        BY <1>13, <3>1 DEF Copied
      <4>2. CASE f.status = "cont" /\ b = "cont"
        BY <4>1, <4>2
      <4>3. CASE ~(f.status = "cont" /\ b = "cont")
        BY <4>1, <4>3
      <4>4. QED
        BY <4>2, <4>3
    <3>2. CASE ~(how.op = "move" /\ f.status # "abort")
      BY <1>13, <3>2 DEF Copied
    <3>3. QED
      BY <3>1, <3>2
  <2>2. QED
    BY <1>13, <2>1 DEF Copied
<1>14. CASE Copy
  <2>1. CASE With("copied", "abort")
    BY <1>14, <2>1 DEF Copy
  <2>2. ASSUME NEW status,
               f' = [f EXCEPT !.at = IF dst[f.name].is = "file" /\ f.asks THEN "query" ELSE "links",
                              !.status = status, !.dst_exists = (dst[f.name].is = "file")]
        PROVE  CopyInv'
    <3>1. /\ f'.name = f.name /\ f'.dst_exists = (dst[f.name].is = "file")
          /\ f'.dst_status = f.dst_status /\ f'.at \in {"query", "links"}
      BY <2>2 DEF Frame
    <3>2. QED
      BY <1>14, <3>1 DEF Copy
  <2>3. QED
    BY <1>14, <2>1, <2>2 DEF Copy
<1>15. CASE Query
  BY <1>15 DEF Query, Verdict, Choice, Kept
<1>16. CASE NoLinks
  BY <1>16 DEF NoLinks, AfterLinks
<1>17. CASE LinkMet
  BY <1>17 DEF LinkMet, AfterLinks
<1>18. CASE LinkMade
  BY <1>18 DEF LinkMade
<1>19. CASE LinkFails
  BY <1>19 DEF LinkFails, AfterLinks
<1>20. CASE SymlinkMade
  BY <1>20 DEF SymlinkMade
<1>21. CASE SymlinkFails
  BY <1>21 DEF SymlinkFails
<1>22. CASE OpenSource
  BY <1>22 DEF OpenSource
<1>23. CASE OpenSourceFails
  BY <1>23 DEF OpenSourceFails
<1>24. CASE OpenTarget
  <2>1. At("open_target") /\ dst'[f.name] = Opened /\ Becomes("clone", f.status, "query", f.pos)
    BY <1>24, Openings DEF OpenTarget
  <2>2. Opened.of = source.inode[f.name]
    BY DEF Opened, AppendedTo, Empty, FileOf
  <2>3. Opened.parts = 1 .. ctx.do_reget \/ Opened.parts = {}
    BY DEF Opened, AppendedTo, Empty, FileOf
  <2>4. ctx.do_reget = 0 => {} = 1 .. ctx.do_reget
    OBVIOUS
  <2>5. Opened.parts = 1 .. ctx.do_reget \/ f.name \in miscounted'
    BY <1>24, <2>3, <2>4 DEF OpenTarget, Miscounted
  <2>6. QED
    BY <1>24, <2>1, <2>2, <2>5 DEF OpenTarget, Miscounted
<1>25. CASE OpenTargetFails
  BY <1>25 DEF OpenTargetFails
<1>26. CASE TargetExists
  BY <1>26 DEF TargetExists, Miscounted
<1>27. CASE Clone
  <2>1. At("clone") /\ miscounted' = miscounted /\ source' = source
    BY <1>27 DEF Clone
  <2>2. CASE Gets(All) /\ Becomes("close", "cont", "full", f.pos)
    BY <2>1, <2>2 DEF All, Base, ThereInv
  <2>3. CASE UNCHANGED dst /\ \E b \in Pressed : Moved(IF b = "cont" THEN "read" ELSE "close", b)
    BY <2>1, <2>3
  <2>4. QED
    BY <1>27, <2>2, <2>3
<1>28. CASE Read
  <2>1. f.pos >= Pieces => f.pos = Pieces
    BY PiecesAssumption
  <2>2. At("read") /\ dst' = dst /\ miscounted' = miscounted /\ source' = source
    BY <1>28 DEF Read
  <2>3. CASE Moved("write", f.status)
    BY <2>2, <2>3
  <2>4. CASE f.pos = Pieces /\ Becomes("close", f.status, "full", f.pos)
    BY <2>2, <2>4 DEF Base, ThereInv, All
  <2>5. QED
    BY <1>28, <2>1, <2>3, <2>4, PiecesAssumption
<1>29. CASE ReadFails
  BY <1>29 DEF ReadFails
<1>30. CASE Write
  <2>1. dst[f.name].parts \cup {f.pos + 1} \in SUBSET (1 .. Pieces)
    BY <1>30, PiecesAssumption DEF Write, Base, ThereInv
  <2>2. (1 .. f.pos) \cup {f.pos + 1} = 1 .. (f.pos + 1)
    OBVIOUS
  <2>3. /\ Becomes("buttons", f.status, f.dst_status, f.pos + 1) /\ At("write")
        /\ dst'[f.name].parts = dst[f.name].parts \cup {f.pos + 1}
        /\ dst'[f.name].of = dst[f.name].of
        /\ source' = source /\ miscounted' = miscounted
    BY <1>30, <2>1 DEF Write
  <2>4. Has(f.pos)'
    BY <2>2, <2>3
  <2>5. QED
    BY <2>3, <2>4
<1>31. CASE WriteFails
  BY <1>31 DEF WriteFails
<1>32. CASE WriteIgnored
  BY <1>32 DEF WriteIgnored, Miscounted
<1>33. CASE Buttons
  BY <1>33 DEF Buttons, Pressed
<1>34. CASE Close
  BY <1>34 DEF Close
<1>35. CASE CloseFails
  BY <1>35 DEF CloseFails, Miscounted
<1>36. CASE DeleteShort
  BY <1>36 DEF DeleteShort
<1>37. CASE Preserve
  BY <1>37 DEF Preserve
<1>38. CASE PreserveFails
  BY <1>38 DEF PreserveFails, Miscounted
<1>39. CASE Leave
  BY <1>39 DEF Leave, Pressed
<1>40. CASE \E n \in Name : Appears(n)
  BY <1>40 DEF Appears, Base, ThereInv
<1> QED
  BY <1>1, <1>2, <1>3, <1>4, <1>5, <1>6, <1>7, <1>8, <1>9, <1>10, <1>11, <1>12, <1>13, <1>14,
     <1>15, <1>16, <1>17, <1>18, <1>19, <1>20, <1>21, <1>22, <1>23, <1>24, <1>25, <1>26,
     <1>27, <1>28, <1>29, <1>30, <1>31, <1>32, <1>33, <1>34, <1>35, <1>36, <1>37, <1>38,
     <1>39, <1>40 DEF Next

-----------------------------------------------------------------------------
(* Nothing is lost.                                                        *)

(* A step that takes away nothing on which a name relies.                  *)
Keeps ==
  /\ source' = source /\ todo' = todo /\ f'.name = f.name
  /\ miscounted \subseteq miscounted'
  /\ f.at \in Final => f'.at \in Final
  /\ f.at \in Between => f'.at \in Between
  /\ At("done") => f'.at = "done"
  /\ \A n \in Name : n # f.name \/ f.at \in Final => dst'[n] = dst[n] \/ dst[n].is = "none"
  /\ \A n \in src : n \notin src' => n \in Listed \/ (n = f.name /\ f.at \notin Between)
  /\ \A n \in Listed' : n \in Listed \/ (n = f.name /\ f.at \notin Between)

(* Such a step keeps what stands for a file.                               *)
LEMMA SafeKept ==
  ASSUME TypeOK, Keeps, NEW m \in Name, Safe(m)
  PROVE  Safe(m)'
<1>1. Past(m) => Past(m)' /\ (m # f.name \/ f.at \in Final)
  BY DEF Past, Keeps, At, Final
<1>2. Past(m) /\ Whole(m) => Past(m)' /\ Whole(m)'
  BY <1>1 DEF Keeps, Whole
<1>3. Left(m) => Left(m)' /\ (m # f.name \/ f.at \in Between)
  BY DEF Left, Keeps, At, Between
<1>4. Remains(m) => Remains(m)'
  BY <1>3 DEF Remains, Keeps
<1>5. QED
  BY <1>2, <1>4 DEF Safe, Keeps

(* So a name that may be relied on stays so.                               *)
LEMMA GoodKept ==
  ASSUME TypeOK, Keeps, NEW n \in Name, Good(n)
  PROVE  Good(n)'
<1>1. PICK m \in SameFile(n) : Safe(m)
  BY DEF Good
<1>2. m \in Name /\ m \in SameFile(n)'
  BY <1>1 DEF SameFile, Keeps
<1>3. QED
  BY <1>1, <1>2, SafeKept DEF Good

(* What is newly relied on is good.                                        *)
Relies ==
  \/ f.name \in src /\ f.name \notin src' /\ f.name \notin Listed
  \/ f.name \in Listed' /\ f.name \notin Listed
  \/ f'.at \in {"leave", "copied"} /\ f'.status = "cont"
  \/ f'.at = "remove"

(* Then it is enough that what is newly relied on is good.                 *)
LEMMA GoodStep ==
  ASSUME TypeOK, GoodInv, Keeps, Relies => Good(f.name)'
  PROVE  GoodInv'
<1>1. Listed \subseteq Name /\ f.name \in Name /\ Listed' \subseteq Listed \cup {f.name}
  BY DEF TypeOK, Frame, Listed, Keeps
<1>2. ASSUME NEW n \in Listed' PROVE Good(n)'
  <2>1. CASE n \in Listed
    BY <1>1, <2>1, GoodKept DEF GoodInv
  <2>2. CASE n \notin Listed
    <3>1. n = f.name
      BY <1>1, <2>2
    <3>2. QED
      BY <2>2, <3>1 DEF Relies, Keeps
  <2>3. QED
    BY <2>1, <2>2
<1>3. ASSUME NEW n \in Name, n \notin src' PROVE Good(n)'
  <2>1. CASE n \notin src \/ n \in Listed
    BY <1>3, <2>1, GoodKept DEF GoodInv
  <2>2. CASE n \in src /\ n \notin Listed
    BY <1>3, <2>2 DEF Keeps, Relies
  <2>3. QED
    BY <2>1, <2>2
<1>4. QED
  BY <1>2, <1>3 DEF GoodInv, Keeps, Relies, At

(* A name whose own copy is good.                                          *)
LEMMA Own ==
  ASSUME TypeOK, f.name \notin todo, todo' = todo, f'.name = f.name, f'.at \in Final,
         Whole(f.name)' \/ f.name \in miscounted'
  PROVE  Good(f.name)'
<1>1. f.name \in SameFile(f.name)'
  BY Here DEF SameFile
<1>2. Safe(f.name)'
  BY DEF Safe, Past
<1>3. QED
  BY <1>1, <1>2 DEF Good

(* The erase list.                                                         *)
LEMMA Lists ==
  ASSUME TypeOK
  PROVE  /\ erase_list' = erase_list => Listed' = Listed
         /\ erase_list # <<>> /\ erase_list' = Tail(erase_list) =>
              Listed' \subseteq Listed /\ Head(erase_list) \in Listed
         /\ erase_list' = Append(erase_list, f.name) => Listed' = Listed \cup {f.name}
<1>1. erase_list \in Seq(Name)
  BY DEF TypeOK
<1>2. erase_list' = erase_list => Listed' = Listed
  BY DEF Listed
<1>3. ASSUME erase_list # <<>>, erase_list' = Tail(erase_list)
      PROVE  Listed' \subseteq Listed /\ Head(erase_list) \in Listed
  BY <1>1, <1>3 DEF Listed
<1>4. ASSUME erase_list' = Append(erase_list, f.name)
      PROVE  Listed' = Listed \cup {f.name}
  BY <1>1, <1>4 DEF Listed
<1>5. QED
  BY <1>2, <1>3, <1>4

(* Every step but those that begin a file, or move the directory, is one.  *)
LEMMA KeepsNext ==
  ASSUME Base, Next, ~Next_File, ~MoveDir
  PROVE  Keeps
<1> TypeOK
  BY DEF Base
<1> USE Moves, Sets, Here, Targets, Contents, Lists
<1> USE DEF Keeps, At, Final, Between, Becomes, Moved, GivenUp, Failed, Elsewhere,
            fixed, disks, lists, history
<1>1. CASE LastFile
  BY <1>1 DEF LastFile, Pressed
<1>2. CASE Erase
  BY <1>2 DEF Erase, Pressed
<1>3. CASE EraseFails
  BY <1>3 DEF EraseFails
<1>4. CASE Erased
  BY <1>4 DEF Erased
<1>5. CASE Move
  <2>1. \/ GivenUp("abort")
        \/ \E place \in {"rename", "ask"} : Moved(place, f.status)
    BY <1>5 DEF Move
  <2>2. QED
    BY <1>5, <2>1 DEF Move
<1>6. CASE Ask
  <2>1. PICK verdict \in {"cont", "skip", "abort"} :
          CASE verdict = "cont" -> With("rename", verdict)
            [] verdict = "skip" -> \E b \in Pressed : Finished(b)
            [] verdict = "abort" -> Finished(verdict)
    BY <1>6 DEF Ask, Verdict, Choice, Kept
  <2>2. Moved("rename", "cont") \/ \E b : GivenUp(b)
    <3>1. CASE verdict = "cont"
      BY <2>1, <3>1
    <3>2. CASE verdict = "skip"
      BY <2>1, <3>2
    <3>3. CASE verdict = "abort"
      BY <2>1, <3>3
    <3>4. QED
      BY <3>1, <3>2, <3>3
  <2>3. QED
    BY <1>6, <2>2 DEF Ask
<1>7. CASE Rename
  BY <1>7 DEF Rename
<1>8. CASE RenameFails
  BY <1>8 DEF RenameFails
<1>9. CASE RemoveSource
  BY <1>9 DEF RemoveSource
<1>10. CASE RemoveFails
  BY <1>10 DEF RemoveFails
<1>11. CASE Copied
  <2>1. Moved("remove", "cont") \/ \E b : GivenUp(b)
    <3>1. CASE how.op = "move" /\ f.status # "abort"
      <4>1. PICK b \in Pressed : IF f.status = "cont" /\ b = "cont"
                                THEN With("remove", b) ELSE Finished(b)
        BY <1>11, <3>1 DEF Copied
      <4>2. CASE f.status = "cont" /\ b = "cont"
        BY <4>1, <4>2
      <4>3. CASE ~(f.status = "cont" /\ b = "cont")
        BY <4>1, <4>3
      <4>4. QED
        BY <4>2, <4>3
    <3>2. CASE ~(how.op = "move" /\ f.status # "abort")
      BY <1>11, <3>2 DEF Copied
    <3>3. QED
      BY <3>1, <3>2
  <2>2. QED
    BY <1>11, <2>1 DEF Copied
<1>12. CASE Copy
  <2>1. CASE With("copied", "abort")
    BY <1>12, <2>1 DEF Copy
  <2>2. ASSUME NEW status,
               f' = [f EXCEPT !.at = IF dst[f.name].is = "file" /\ f.asks THEN "query" ELSE "links",
                              !.status = status, !.dst_exists = (dst[f.name].is = "file")]
        PROVE  Keeps
    <3>1. /\ f'.name = f.name /\ f'.dst_exists = (dst[f.name].is = "file")
          /\ f'.dst_status = f.dst_status /\ f'.at \in {"query", "links"}
      BY <2>2 DEF Frame
    <3>2. QED
      BY <1>12, <3>1 DEF Copy
  <2>3. QED
    BY <1>12, <2>1, <2>2 DEF Copy
<1>13. CASE Query
  BY <1>13 DEF Query, Verdict, Choice, Kept
<1>14. CASE NoLinks
  BY <1>14 DEF NoLinks, AfterLinks
<1>15. CASE LinkMet
  BY <1>15 DEF LinkMet, AfterLinks
<1>16. CASE LinkMade
  BY <1>16 DEF LinkMade
<1>17. CASE LinkFails
  BY <1>17 DEF LinkFails, AfterLinks
<1>18. CASE SymlinkMade
  BY <1>18 DEF SymlinkMade
<1>19. CASE SymlinkFails
  BY <1>19 DEF SymlinkFails
<1>20. CASE OpenSource
  BY <1>20 DEF OpenSource
<1>21. CASE OpenSourceFails
  BY <1>21 DEF OpenSourceFails
<1>22. CASE OpenTarget
  BY <1>22 DEF OpenTarget, Miscounted
<1>23. CASE OpenTargetFails
  BY <1>23 DEF OpenTargetFails
<1>24. CASE TargetExists
  BY <1>24 DEF TargetExists, Miscounted
<1>25. CASE Clone
  <2>1. CASE Gets(All) /\ Becomes("close", "cont", "full", f.pos)
    BY <1>25, <2>1 DEF Clone, All
  <2>2. CASE UNCHANGED dst /\ \E b \in Pressed : Moved(IF b = "cont" THEN "read" ELSE "close", b)
    BY <1>25, <2>2 DEF Clone
  <2>3. QED
    BY <1>25, <2>1, <2>2
<1>26. CASE Read
  BY <1>26 DEF Read
<1>27. CASE ReadFails
  BY <1>27 DEF ReadFails
<1>28. CASE Write
  <2>1. dst[f.name].parts \cup {f.pos + 1} \in SUBSET (1 .. Pieces)
    BY <1>28, PiecesAssumption DEF Write, Base, ThereInv
  <2>2. QED
    BY <1>28, <2>1 DEF Write
<1>29. CASE WriteFails
  BY <1>29 DEF WriteFails
<1>30. CASE WriteIgnored
  BY <1>30 DEF WriteIgnored, Miscounted
<1>31. CASE Buttons
  BY <1>31 DEF Buttons, Pressed
<1>32. CASE Close
  BY <1>32 DEF Close
<1>33. CASE CloseFails
  BY <1>33 DEF CloseFails, Miscounted
<1>34. CASE DeleteShort
  BY <1>34 DEF DeleteShort
<1>35. CASE Preserve
  BY <1>35 DEF Preserve
<1>36. CASE PreserveFails
  BY <1>36 DEF PreserveFails, Miscounted
<1>37. CASE Leave
  BY <1>37 DEF Leave, Pressed
<1>38. CASE \E n \in Name : Appears(n)
  BY <1>38 DEF Appears, TypeOK
<1> QED
  BY <1>1, <1>2, <1>3, <1>4, <1>5, <1>6, <1>7, <1>8, <1>9, <1>10, <1>11, <1>12, <1>13, <1>14,
     <1>15, <1>16, <1>17, <1>18, <1>19, <1>20, <1>21, <1>22, <1>23, <1>24, <1>25, <1>26,
     <1>27, <1>28, <1>29, <1>30, <1>31, <1>32, <1>33, <1>34, <1>35, <1>36, <1>37, <1>38 DEF
     Next

(* What is removed, listed or returned as copied is good.                  *)
LEMMA ReliesNext ==
  ASSUME Base, CopyInv, GoodInv, Next, ~Next_File, ~MoveDir, Relies
  PROVE  Good(f.name)'
<1> TypeOK /\ Keeps
  BY KeepsNext DEF Base
<1>a. f.name \in Name /\ f'.name = f.name /\ (Good(f.name) => Good(f.name)')
  BY Here, GoodKept DEF Keeps
<1>b. f.at \notin Between => f.name \notin todo
  BY DEF Base, TodoInv
<1> USE Moves, Sets, Here, Targets, Contents, Lists
<1> USE DEF Relies, At, Becomes, Moved, GivenUp, Failed, disks, lists, history
<1>1. CASE LastFile
  BY <1>1 DEF LastFile, Pressed
<1>2. CASE Erase
  BY <1>2, <1>a DEF Erase, Pressed
<1>3. CASE EraseFails
  BY <1>3 DEF EraseFails
<1>4. CASE Erased
  BY <1>4 DEF Erased
<1>5. CASE Move
  <2>1. \/ GivenUp("abort")
        \/ \E place \in {"rename", "ask"} : Moved(place, f.status)
    BY <1>5 DEF Move
  <2>2. QED
    BY <1>5, <2>1 DEF Move
<1>6. CASE Ask
  <2>1. PICK verdict \in {"cont", "skip", "abort"} :
          CASE verdict = "cont" -> With("rename", verdict)
            [] verdict = "skip" -> \E b \in Pressed : Finished(b)
            [] verdict = "abort" -> Finished(verdict)
    BY <1>6 DEF Ask, Verdict, Choice, Kept
  <2>2. Moved("rename", "cont") \/ \E b : GivenUp(b)
    <3>1. CASE verdict = "cont"
      BY <2>1, <3>1
    <3>2. CASE verdict = "skip"
      BY <2>1, <3>2
    <3>3. CASE verdict = "abort"
      BY <2>1, <3>3
    <3>4. QED
      BY <3>1, <3>2, <3>3
  <2>3. QED
    BY <1>6, <2>2 DEF Ask
<1>7. CASE Rename
  <2>1. dst'[f.name] = CopyOf(f.name) /\ f'.at \in Final /\ source' = source /\ todo' = todo
    BY <1>7 DEF Rename, Final, fixed
  <2>2. Whole(f.name)'
    BY <1>a, <2>1 DEF Whole, CopyOf, LinkOf, FileOf
  <2>3. QED
    BY <1>7, <1>a, <1>b, <2>1, <2>2, Own DEF Rename, Between
<1>8. CASE RenameFails
  BY <1>8 DEF RenameFails
<1>9. CASE RemoveSource
  BY <1>9, <1>a DEF RemoveSource, GoodInv
<1>10. CASE RemoveFails
  BY <1>10 DEF RemoveFails
<1>11. CASE Copied
  <2>1. \/ f.status = "cont" /\ Moved("remove", "cont")
        \/ \E b : GivenUp(b)
    <3>1. CASE how.op = "move" /\ f.status # "abort"
      <4>1. PICK b \in Pressed : IF f.status = "cont" /\ b = "cont"
                                THEN With("remove", b) ELSE Finished(b)
        BY <1>11, <3>1 DEF Copied
      <4>2. CASE f.status = "cont" /\ b = "cont"
        BY <4>1, <4>2
      <4>3. CASE ~(f.status = "cont" /\ b = "cont")
        BY <4>1, <4>3
      <4>4. QED
        BY <4>2, <4>3
    <3>2. CASE ~(how.op = "move" /\ f.status # "abort")
      BY <1>11, <3>2 DEF Copied
    <3>3. QED
      BY <3>1, <3>2
  <2>2. f.name \in Listed' => f.status = "cont" \/ f.name \in Listed
    BY <1>11 DEF Copied
  <2>3. src' = src /\ At("copied")
    BY <1>11 DEF Copied
  <2>4. f.status = "cont"
    BY <2>1, <2>2, <2>3
  <2>5. QED
    BY <1>a, <2>3, <2>4 DEF GoodInv
<1>12. CASE Copy
  <2>1. CASE With("copied", "abort")
    BY <1>12, <2>1 DEF Copy
  <2>2. CASE f'.at \in {"query", "links"}
    BY <1>12, <2>2 DEF Copy
  <2>3. QED
    BY <1>12, <2>1, <2>2 DEF Copy, Frame
<1>13. CASE Query
  <2>1. \E place, status : Moved(place, status) /\ place \in {"links", "copied"}
                           /\ (place = "copied" => status # "cont")
    BY <1>13 DEF Query
  <2>2. QED
    BY <1>13, <2>1 DEF Query
<1>14. CASE NoLinks
  BY <1>14 DEF NoLinks, AfterLinks
<1>15. CASE LinkMet
  BY <1>15 DEF LinkMet, AfterLinks
<1>16. CASE LinkMade
  <2>1. PICK m \in Met(f.name) \cap src : dst' = [dst EXCEPT ![f.name] = dst[m]]
    BY <1>16 DEF LinkMade
  <2>2. m \in Name /\ m # f.name /\ m \notin todo /\ m \in src /\ SameFile(m) = SameFile(f.name)
    BY <1>16, <2>1 DEF LinkMade, Met, SameFile, Base, TodoInv, Looking
  <2>3. Good(f.name)
    <3>1. CASE m \in Listed
      BY <2>2, <3>1 DEF GoodInv, Good
    <3>2. CASE m \notin Listed
      <4>1. Safe(m) /\ m \in SameFile(f.name)
        BY <1>16, <2>1, <2>2, <3>2 DEF Safe, Remains, Left, Met
      <4>2. QED
        BY <4>1 DEF Good
    <3>3. QED
      BY <3>1, <3>2
  <2>4. QED
    BY <1>a, <2>3
<1>17. CASE LinkFails
  BY <1>17 DEF LinkFails, AfterLinks
<1>18. CASE SymlinkMade
  <2>1. dst'[f.name] = LinkOf(f.name) /\ f'.at \in Final /\ source' = source /\ todo' = todo
    BY <1>18 DEF SymlinkMade, Final, fixed
  <2>2. Whole(f.name)'
    BY <1>a, <2>1 DEF Whole, LinkOf, FileOf
  <2>3. QED
    BY <1>18, <1>a, <1>b, <2>1, <2>2, Own DEF SymlinkMade, Between
<1>19. CASE SymlinkFails
  BY <1>19 DEF SymlinkFails
<1>20. CASE OpenSource
  BY <1>20 DEF OpenSource
<1>21. CASE OpenSourceFails
  BY <1>21 DEF OpenSourceFails
<1>22. CASE OpenTarget
  BY <1>22 DEF OpenTarget
<1>23. CASE OpenTargetFails
  BY <1>23 DEF OpenTargetFails
<1>24. CASE TargetExists
  BY <1>24 DEF TargetExists
<1>25. CASE Clone
  BY <1>25 DEF Clone, Pressed
<1>26. CASE Read
  BY <1>26 DEF Read
<1>27. CASE ReadFails
  BY <1>27 DEF ReadFails
<1>28. CASE Write
  BY <1>28 DEF Write
<1>29. CASE WriteFails
  BY <1>29 DEF WriteFails
<1>30. CASE WriteIgnored
  BY <1>30 DEF WriteIgnored
<1>31. CASE Buttons
  BY <1>31 DEF Buttons, Pressed
<1>32. CASE Close
  BY <1>32 DEF Close
<1>33. CASE CloseFails
  BY <1>33 DEF CloseFails
<1>34. CASE DeleteShort
  <2>1. f'.at \in Final /\ todo' = todo /\ miscounted' = miscounted
    BY <1>34 DEF DeleteShort, Final
  <2>2. f.name \in miscounted
    BY <1>34 DEF DeleteShort, CopyInv, Ending
  <2>3. QED
    BY <1>34, <1>a, <1>b, <2>1, <2>2, Own DEF DeleteShort, Between
<1>35. CASE Preserve
  <2>1. /\ f'.at \in Final /\ todo' = todo /\ miscounted' = miscounted
        /\ dst' = dst /\ source' = source
    BY <1>35 DEF Preserve, Final, fixed
  <2>2. f.name \in miscounted \/ Whole(f.name)
    BY <1>35 DEF Preserve, CopyInv, Ending
  <2>3. Whole(f.name) => Whole(f.name)'
    BY <1>a, <2>1 DEF Whole
  <2>4. QED
    BY <1>35, <1>a, <1>b, <2>1, <2>2, <2>3, Own DEF Preserve, Between
<1>36. CASE PreserveFails
  <2>1. todo' = todo /\ dst' = dst /\ source' = source /\ At("preserve") /\ src' = src
        /\ Listed' = Listed
    BY <1>36 DEF PreserveFails, fixed
  <2>2. CASE With("copied", "abort")
    BY <2>1, <2>2
  <2>3. CASE With("leave", "cont") /\ IF f.status # "cont" THEN Miscounted ELSE UNCHANGED miscounted
    <3>1. f'.at \in Final
      BY <2>3 DEF Final
    <3>2. f.name \in miscounted' \/ Whole(f.name)
      BY <2>1, <2>3 DEF CopyInv, Ending, Miscounted
    <3>3. Whole(f.name) => Whole(f.name)'
      BY <1>a, <2>1 DEF Whole
    <3>4. QED
      BY <1>a, <1>b, <2>1, <3>1, <3>2, <3>3, Own DEF Between
  <2>4. QED
    BY <1>36, <2>2, <2>3 DEF PreserveFails
<1>37. CASE Leave
  BY <1>37, <1>a DEF Leave, Pressed, GoodInv
<1>38. CASE \E n \in Name : Appears(n)
  BY <1>38, <1>a DEF Appears, GoodInv
<1> QED
  BY <1>1, <1>2, <1>3, <1>4, <1>5, <1>6, <1>7, <1>8, <1>9, <1>10, <1>11, <1>12, <1>13, <1>14,
     <1>15, <1>16, <1>17, <1>18, <1>19, <1>20, <1>21, <1>22, <1>23, <1>24, <1>25, <1>26,
     <1>27, <1>28, <1>29, <1>30, <1>31, <1>32, <1>33, <1>34, <1>35, <1>36, <1>37, <1>38 DEF
     Next

(* A file is begun.                                                        *)
LEMMA GoodBegun ==
  ASSUME Base, GoodInv, Next_File
  PROVE  GoodInv'
<1>1. PICK new \in todo :
        todo' = todo \ {new} /\ f'.name = new /\ f'.at \in {"move", "copy"}
  BY DEF Next_File, Base, TypeOK, Frame
<1>2. /\ At("next") /\ src' = src /\ dst' = dst /\ source' = source /\ erase_list' = erase_list
      /\ miscounted' = miscounted
  BY DEF Next_File, fixed, disks, history
<1>3. Listed' = Listed
  BY <1>2 DEF Listed
<1>4. ASSUME NEW m, Safe(m) PROVE Safe(m)'
  <2>1. m \notin todo => Past(m)' /\ Left(m)'
    BY <1>1 DEF Past, Left
  <2>2. Past(m) => m \notin todo
    BY <1>2 DEF Past, At
  <2>3. Left(m) => m \notin todo
    BY <1>2 DEF Left, At
  <2>4. Whole(m) => Whole(m)'
    BY <1>2 DEF Whole
  <2>5. Remains(m) => Remains(m)'
    BY <1>2, <1>3, <2>1, <2>3 DEF Remains
  <2>6. QED
    BY <1>2, <1>4, <2>1, <2>2, <2>4, <2>5 DEF Safe
<1>5. ASSUME NEW n, Good(n) PROVE Good(n)'
  <2>1. PICK m \in SameFile(n) : Safe(m)
    BY <1>5 DEF Good
  <2>2. m \in SameFile(n)'
    BY <1>2, <2>1 DEF SameFile
  <2>3. QED
    BY <1>4, <2>1, <2>2 DEF Good
<1>6. QED
  BY <1>1, <1>2, <1>3, <1>5 DEF GoodInv, At

(* The directory is renamed.                                               *)
LEMMA GoodMoved ==
  ASSUME Base, MoveDir
  PROVE  GoodInv'
<1>1. f'.at = "done" /\ source' = source /\ erase_list' = erase_list
  BY Moves DEF MoveDir, Base, Moved, Becomes, fixed, lists
<1>2. ASSUME NEW n \in Name PROVE Good(n)'
  <2>1. Whole(n)'
    BY <1>1 DEF MoveDir, Whole, CopyOf, LinkOf, FileOf
  <2>2. Past(n)'
    BY <1>1 DEF Past, At
  <2>3. n \in SameFile(n)'
    BY DEF SameFile
  <2>4. QED
    BY <2>1, <2>2, <2>3 DEF Good, Safe
<1>3. Listed' \subseteq Name
  BY <1>1 DEF Listed, Base, TypeOK
<1>4. QED
  BY <1>1, <1>2, <1>3 DEF GoodInv, At

(* Every step leaves each removed or listed name good.                     *)
LEMMA GoodNext ==
  ASSUME Base, CopyInv, GoodInv, Next
  PROVE  GoodInv'
<1>1. CASE Next_File
  BY <1>1, GoodBegun
<1>2. CASE MoveDir
  BY <1>2, GoodMoved
<1>3. CASE ~Next_File /\ ~MoveDir
  BY <1>3, KeepsNext, ReliesNext, GoodStep DEF Base
<1>4. QED
  BY <1>1, <1>2, <1>3

-----------------------------------------------------------------------------
(* Nobody's file is replaced unasked.                                      *)

(* The steps that change a target.                                         *)
Writes ==
  \/ MoveDir \/ Rename \/ LinkMade \/ SymlinkMade \/ SymlinkFails \/ OpenTarget \/ Clone
  \/ Write \/ CloseFails \/ DeleteShort \/ \E n \in Name : Appears(n)

(* No other step does.                                                     *)
LEMMA OnlyWrites ==
  ASSUME Next, dst' # dst
  PROVE  Writes
BY DEF Next, Writes, disks, Next_File, LastFile, Erase, EraseFails, Erased, Move, Ask,
   RenameFails, RemoveSource, RemoveFails, Copied, Copy, Query, NoLinks, LinkMet, LinkFails,
   OpenSource, OpenSourceFails, OpenTargetFails, TargetExists, Read, ReadFails, WriteFails,
   WriteIgnored, Buttons, Close, Preserve, PreserveFails, Leave

(* A target that is gone stays behind.                                     *)
LEMMA GoneNext ==
  ASSUME Base, GoneInv, Next
  PROVE  GoneInv'
<1> TypeOK
  BY DEF Base
<1>1. CASE Next_File
  <2>1. /\ f'.name \in todo /\ f'.name \notin todo' /\ todo' \subseteq todo
        /\ dst' = dst /\ theirs' = theirs
    BY <1>1 DEF Next_File, TypeOK, Frame, disks, history
  <2>2. QED
    BY <2>1 DEF GoneInv
<1>2. CASE MoveDir
  <2>1. \A n \in Name : dst'[n].is # "none"
    BY <1>2 DEF MoveDir, CopyOf, LinkOf, FileOf
  <2>2. theirs' \subseteq Name
    BY TypeNext DEF TypeOK, Base, ThereInv
  <2>3. QED
    BY <2>1, <2>2 DEF GoneInv
<1>3. CASE \E n \in Name : Appears(n)
  BY <1>3 DEF Appears, TypeOK, Other, GoneInv, lists
<1>4. CASE ~Next_File /\ ~MoveDir /\ ~\E n \in Name : Appears(n)
  <2>1. Keeps
    BY <1>4, KeepsNext
  <2>2. theirs' = theirs /\ theirs \subseteq Name
    BY <1>4 DEF Next, history, Miscounted, TypeOK, Next_File, MoveDir, LastFile, Erase,
       EraseFails, Erased, Move, Ask, Rename, RenameFails, RemoveSource, RemoveFails, Copied,
       Copy, Query, NoLinks, LinkMet, LinkMade, LinkFails, SymlinkMade, SymlinkFails,
       OpenSource, OpenSourceFails, OpenTarget, OpenTargetFails, TargetExists, Clone, Read,
       ReadFails, Write, WriteFails, WriteIgnored, Buttons, Close, CloseFails, DeleteShort,
       Preserve, PreserveFails, Leave
  <2>3. dst[f.name].is # "none" /\ dst'[f.name].is = "none" => f'.at \in Final
    <3> USE Moves, Here, Contents, Targets, Openings
    <3>1. CASE dst' = dst
      BY <3>1
    <3>2. CASE Rename \/ SymlinkMade \/ LinkMade
      BY <3>2 DEF Rename, SymlinkMade, LinkMade, CopyOf, LinkOf, FileOf
    <3>3. CASE SymlinkFails \/ DeleteShort
      BY <3>3 DEF SymlinkFails, DeleteShort, Failed, Moved, Becomes, Final
    <3>4. CASE OpenTarget
      BY <3>4, OpenedIs DEF OpenTarget, Base
    <3>5. CASE Clone \/ CloseFails
      BY <3>5 DEF Clone, CloseFails, All
    <3>6. CASE Write
      BY <3>6 DEF Write, Gets, TypeOK, Content
    <3>7. QED
      BY <1>4, <3>1, <3>2, <3>3, <3>4, <3>5, <3>6, OnlyWrites DEF Writes
  <2>4. QED
    BY <2>1, <2>2, <2>3, Here DEF GoneInv, Keeps, Final, Between, Base, TodoInv
<1>5. QED
  BY <1>1, <1>2, <1>3, <1>4

(* A file at which somebody's target may be changed has been agreed to.    *)
LEMMA YieldNext ==
  ASSUME Base, AskInv, Next
  PROVE  YieldInv'
<1> TypeOK
  BY DEF Base
<1> USE Moves, Sets, Here, Targets, Contents
<1> YieldInv
  BY DEF AskInv
<1> USE DEF YieldInv, Yielded, At, Opening, Writing, Ending, Becomes, Moved, GivenUp, Failed,
            fixed, disks, lists, history
<1>1. CASE Next_File
  BY <1>1 DEF Next_File, TypeOK, Frame
<1>2. CASE MoveDir
  BY <1>2 DEF MoveDir
<1>3. CASE LastFile
  BY <1>3 DEF LastFile, Pressed
<1>4. CASE Erase
  BY <1>4 DEF Erase, Pressed
<1>5. CASE EraseFails
  BY <1>5 DEF EraseFails
<1>6. CASE Erased
  BY <1>6 DEF Erased
<1>7. CASE Move
  <2>1. \/ GivenUp("abort")
        \/ dst[f.name].is = "none" /\ Moved("rename", f.status)
        \/ Moved("ask", f.status)
    BY <1>7 DEF Move
  <2>2. dst[f.name].is = "none" => f.name \notin theirs
    BY <1>7 DEF Move, AskInv, GoneInv, Final
  <2>3. QED
    BY <1>7, <2>1, <2>2 DEF Move
<1>8. CASE Ask
  <2>0. PICK choice \in Choice : \E verdict \in Verdict(choice) :
          /\ query_replace(choice, verdict)
          /\ CASE verdict = "cont" -> With("rename", verdict)
               [] verdict = "skip" -> \E b \in Pressed : Finished(b)
               [] verdict = "abort" -> Finished(verdict)
    BY <1>8 DEF Ask
  <2>1. PICK verdict \in Verdict(choice) :
          /\ query_replace(choice, verdict)
          /\ CASE verdict = "cont" -> With("rename", verdict)
               [] verdict = "skip" -> \E b \in Pressed : Finished(b)
               [] verdict = "abort" -> Finished(verdict)
    BY <2>0
  <2>2. verdict \in {"cont", "skip", "abort"}
    BY DEF Verdict, Choice, Kept
  <2>3. (f.name \in agreed' /\ Moved("rename", "cont")) \/ \E b : GivenUp(b)
    <3>1. CASE verdict = "cont"
      BY <2>1, <3>1 DEF query_replace
    <3>2. CASE verdict = "skip"
      <4>1. PICK b \in Pressed : Finished(b)
        BY <2>1, <3>2
      <4>2. GivenUp(b)
        BY <4>1
      <4>3. QED
        BY <4>2
    <3>3. CASE verdict = "abort"
      BY <2>1, <3>3
    <3>4. QED
      BY <2>2, <3>1, <3>2, <3>3
  <2>4. QED
    BY <1>8, <2>3 DEF Ask
<1>9. CASE Rename
  BY <1>9 DEF Rename
<1>10. CASE RenameFails
  BY <1>10 DEF RenameFails
<1>11. CASE RemoveSource
  BY <1>11 DEF RemoveSource
<1>12. CASE RemoveFails
  BY <1>12 DEF RemoveFails
<1>13. CASE Copied
  <2>1. Moved("remove", "cont") \/ \E b : GivenUp(b)
    <3>1. CASE how.op = "move" /\ f.status # "abort"
      <4>1. PICK b \in Pressed : IF f.status = "cont" /\ b = "cont"
                                THEN With("remove", b) ELSE Finished(b)
        BY <1>13, <3>1 DEF Copied
      <4>2. CASE f.status = "cont" /\ b = "cont"
        BY <4>1, <4>2
      <4>3. CASE ~(f.status = "cont" /\ b = "cont")
        BY <4>1, <4>3
      <4>4. QED
        BY <4>2, <4>3
    <3>2. CASE ~(how.op = "move" /\ f.status # "abort")
      BY <1>13, <3>2 DEF Copied
    <3>3. QED
      BY <3>1, <3>2
  <2>2. QED
    BY <1>13, <2>1 DEF Copied
<1>14. CASE Copy
  <2>1. CASE With("copied", "abort")
    BY <1>14, <2>1 DEF Copy
  <2>2. ASSUME NEW status,
               f' = [f EXCEPT !.at = IF dst[f.name].is = "file" /\ f.asks THEN "query" ELSE "links",
                              !.status = status, !.dst_exists = (dst[f.name].is = "file")]
        PROVE  YieldInv'
    <3>1. /\ f'.name = f.name /\ f'.dst_exists = (dst[f.name].is = "file")
          /\ f'.at = (IF dst[f.name].is = "file" /\ f.asks THEN "query" ELSE "links")
      BY <2>2 DEF Frame
    <3>2. f'.at = "links" /\ f'.dst_exists => Yielded
      BY <1>14, <3>1 DEF Copy
    <3>3. QED
      BY <1>14, <3>1, <3>2 DEF Copy
  <2>3. QED
    BY <1>14, <2>1, <2>2 DEF Copy
<1>15. CASE Query
  <2>1. \/ f.name \in agreed' /\ Moved("links", "cont")
        \/ \E verdict : Moved("copied", verdict)
    BY <1>15 DEF Query, query_replace
  <2>2. QED
    BY <1>15, <2>1 DEF Query
<1>16. CASE NoLinks
  BY <1>16 DEF NoLinks, AfterLinks
<1>17. CASE LinkMet
  BY <1>17 DEF LinkMet, AfterLinks
<1>18. CASE LinkMade
  BY <1>18 DEF LinkMade
<1>19. CASE LinkFails
  BY <1>19 DEF LinkFails, AfterLinks
<1>20. CASE SymlinkMade
  BY <1>20 DEF SymlinkMade
<1>21. CASE SymlinkFails
  BY <1>21 DEF SymlinkFails
<1>22. CASE OpenSource
  BY <1>22 DEF OpenSource
<1>23. CASE OpenSourceFails
  BY <1>23 DEF OpenSourceFails, Base, ThereInv
<1>24. CASE OpenTarget
  <2>1. f.name \in theirs => f.name \in agreed
    BY <1>24 DEF OpenTarget, MayOpen, AskInv, GoneInv, Final
  <2>2. QED
    BY <1>24, <2>1 DEF OpenTarget
<1>25. CASE OpenTargetFails
  BY <1>25 DEF OpenTargetFails, Base, ThereInv
<1>26. CASE TargetExists
  BY <1>26 DEF TargetExists, Base, ThereInv, Miscounted
<1>27. CASE Clone
  <2>1. CASE Gets(All) /\ Becomes("close", "cont", "full", f.pos)
    BY <1>27, <2>1 DEF Clone, All
  <2>2. CASE UNCHANGED dst /\ \E b \in Pressed : Moved(IF b = "cont" THEN "read" ELSE "close", b)
    BY <1>27, <2>2 DEF Clone
  <2>3. QED
    BY <1>27, <2>1, <2>2
<1>28. CASE Read
  BY <1>28 DEF Read
<1>29. CASE ReadFails
  BY <1>29 DEF ReadFails
<1>30. CASE Write
  <2>1. dst[f.name].parts \cup {f.pos + 1} \in SUBSET (1 .. Pieces)
    BY <1>30, PiecesAssumption DEF Write, Base, ThereInv
  <2>2. QED
    BY <1>30, <2>1 DEF Write
<1>31. CASE WriteFails
  BY <1>31 DEF WriteFails
<1>32. CASE WriteIgnored
  BY <1>32 DEF WriteIgnored, Miscounted
<1>33. CASE Buttons
  BY <1>33 DEF Buttons, Pressed
<1>34. CASE Close
  BY <1>34 DEF Close
<1>35. CASE CloseFails
  BY <1>35 DEF CloseFails, Miscounted
<1>36. CASE DeleteShort
  BY <1>36 DEF DeleteShort
<1>37. CASE Preserve
  BY <1>37 DEF Preserve
<1>38. CASE PreserveFails
  BY <1>38 DEF PreserveFails, Miscounted
<1>39. CASE Leave
  BY <1>39 DEF Leave, Pressed
<1>40. CASE \E n \in Name : Appears(n)
  BY <1>40 DEF Appears, Base, ThereInv, Looking
<1> QED
  BY <1>1, <1>2, <1>3, <1>4, <1>5, <1>6, <1>7, <1>8, <1>9, <1>10, <1>11, <1>12, <1>13, <1>14,
     <1>15, <1>16, <1>17, <1>18, <1>19, <1>20, <1>21, <1>22, <1>23, <1>24, <1>25, <1>26,
     <1>27, <1>28, <1>29, <1>30, <1>31, <1>32, <1>33, <1>34, <1>35, <1>36, <1>37, <1>38,
     <1>39, <1>40 DEF Next

(* Somebody's file is changed where the user has agreed, or where a dead   *)
(* link stands in the way of a symbolic link.                              *)
LEMMA Asked ==
  ASSUME Base, AskInv, Next, NEW n \in theirs, dst[n].is # "none", dst'[n] # dst[n]
  PROVE  n \in agreed' \/ (dst[n].is = "link" /\ n \in source.links)
<1> TypeOK /\ n \in Name /\ dst[n] \in Content
  BY DEF Base, TypeOK
<1> USE Moves, Here, Contents, Targets, Openings
<1>1. ~MoveDir
  BY DEF MoveDir, Nothing
<1>2. ~\E m \in Name : Appears(m)
  BY DEF Appears, TypeOK
<1>3. CASE Rename
  BY <1>3 DEF Rename, Elsewhere, AskInv, YieldInv, Yielded, At, history
<1>4. CASE LinkMade
  <2>1. n # f.name /\ dst' = [dst EXCEPT ![f.name] = dst'[f.name]]
    BY <1>4 DEF LinkMade, TypeOK
  <2>2. QED
    BY <2>1 DEF TypeOK
<1>5. CASE SymlinkMade \/ SymlinkFails
  <2>1. At("symlink") /\ (n = f.name => dst[n].is = "link")
    BY <1>5 DEF SymlinkMade, SymlinkFails, Content
  <2>2. n = f.name
    BY <1>5 DEF SymlinkMade, SymlinkFails, Elsewhere
  <2>3. QED
    BY <2>1, <2>2 DEF AskInv, YieldInv
<1>6. CASE OpenTarget
  BY <1>6 DEF OpenTarget, MayOpen, Elsewhere, AskInv, YieldInv, Yielded, At, Opening
<1>7. CASE Clone \/ Write \/ CloseFails \/ DeleteShort
  <2>1. n = f.name /\ agreed' = agreed
    BY <1>7 DEF Clone, Write, CloseFails, DeleteShort, Gets, TypeOK, history, Miscounted
  <2>2. Yielded
    BY <1>7 DEF Clone, Write, CloseFails, DeleteShort, At, AskInv, YieldInv, Writing, Ending
  <2>3. QED
    BY <2>1, <2>2 DEF Yielded
<1>8. QED
  BY <1>1, <1>2, <1>3, <1>4, <1>5, <1>6, <1>7, OnlyWrites DEF Writes

-----------------------------------------------------------------------------
(* The inductive invariant and the theorems.                               *)

IInv == Base /\ CopyInv /\ GoodInv /\ AskInv

(* The invariant holds at the start.                                       *)
LEMMA Start ==
  ASSUME Init
  PROVE  IInv
<1>1. PICK kind \in [Name -> Target] : dst = [n \in Name |-> AtStart(n, kind[n])]
  BY DEF Init
<1>2. ASSUME NEW n \in Name PROVE AtStart(n, kind[n]) \in Content
  <2>1. kind[n] \in {"none", "file", "link", "beginning"} /\ source.inode[n] \in Inode
    BY TargetAssumption, SourceAssumption DEF Init
  <2>2. 1 \in 1 .. Pieces
    BY PiecesAssumption
  <2>3. QED
    BY <2>1, <2>2 DEF AtStart, Nothing, Other, OtherLink, Beginning, Content
<1>3. dst \in [Name -> Content]
  BY <1>1, <1>2
<1>4. ctx \in Context /\ f \in Frame /\ At("next") /\ f.asks /\ f.dst_status = "none"
  BY PiecesAssumption DEF Init, Context, Frame, Place, Status, At
<1>5. TypeOK
  BY <1>3, <1>4 DEF Init, TypeOK
<1>6. Base
  BY <1>4, <1>5 DEF Init, Base, TodoInv, ThereInv, At, Looking, Opening, Writing, Ending,
     Between
<1>7. CopyInv
  BY <1>4 DEF CopyInv, At, Writing, Ending
<1>8. GoodInv
  BY <1>4 DEF Init, GoodInv, At, Listed
<1>9. AskInv
  BY <1>4 DEF Init, AskInv, GoneInv, YieldInv, At, Opening, Writing, Ending
<1>10. QED
  BY <1>6, <1>7, <1>8, <1>9 DEF IInv

(* It does not depend on anything but the variables.                       *)
LEMMA Stutters ==
  ASSUME IInv, UNCHANGED vars
  PROVE  IInv'
<1> USE DEF IInv, vars, fixed, disks, lists, history
<1>1. Base'
  BY DEF Base, TypeOK, TodoInv, ThereInv, At
<1>2. CopyInv'
  BY DEF CopyInv, At, Has, Whole
<1>3. GoodInv' /\ AskInv'
  BY DEF GoodInv, Good, Safe, Past, Left, Remains, Whole, SameFile, Listed, At,
         AskInv, GoneInv, YieldInv, Yielded
<1>4. QED
  BY <1>1, <1>2, <1>3

(* Every step keeps it.                                                    *)
LEMMA Inductive ==
  ASSUME IInv, [Next]_vars
  PROVE  IInv'
<1>1. CASE UNCHANGED vars
  BY <1>1, Stutters
<1>2. CASE Next
  <2>1. Base'
    BY <1>2, TypeNext, PlaceNext DEF IInv, Base, ThereInv
  <2>2. QED
    BY <1>2, <2>1, CopyNext, GoodNext, GoneNext, YieldNext DEF IInv, AskInv
<1>3. QED
  BY <1>1, <1>2

(* In every state of an operation a name is relied on only where its     *)
(* contents are safe, and nobody's file may be changed unasked.            *)
THEOREM InductiveInvariant == Spec => []IInv
<1>1. IInv /\ [Next]_vars => IInv'
  BY Inductive
<1>2. QED
  BY <1>1, Start, PTL DEF Spec

(* Whatever fails and whatever is answered, the C locals of a copy and the *)
(* lists of the operation keep their types: no piece is beyond the end of  *)
(* the file, no name is on a list that is not one of the files.            *)
THEOREM TypeCorrect == Spec => []TypeOK
<1>1. IInv => TypeOK
  BY DEF IInv, Base
<1>2. QED
  BY <1>1, InductiveInvariant, PTL

(* move_file_file, copy_file_file with its hard links and the erasing at   *)
(* the end of a moved directory: no source is removed whose contents are   *)
(* not whole in the target, but for the names where the code miscounts.    *)
THEOREM MoveLosesNothing == Spec => []NothingLost
<1>1. IInv => NothingLost
  BY DEF IInv, GoodInv, NothingLost, Good, Safe, Remains
<1>2. QED
  BY <1>1, InductiveInvariant, PTL

(* query_replace, O_EXCL and dst_status: what was under a target's name,   *)
(* or has appeared there, is changed only after the user agreed.           *)
THEOREM ReplacesNothingUnasked == Spec => AsksFirst
<1>1. IInv /\ [Next]_vars =>
        [\A n \in theirs : dst[n].is # "none" /\ dst'[n] # dst[n] =>
           n \in agreed' \/ (dst[n].is = "link" /\ n \in source.links)]_vars
  BY Asked DEF IInv
<1>2. QED
  BY <1>1, InductiveInvariant, PTL DEF Spec, AsksFirst
=============================================================================
