--------------------------- MODULE EditorSave_proofs ---------------------------
(***************************************************************************)
(* Proofs about EditorSave: a save replaces nothing silently that its      *)
(* session does not know, and what was saved stays as a whole.             *)
(*                                                                         *)
(* Neither property is inductive: both look at files only, and it depends  *)
(* on where every session is in its save whether the next step breaks      *)
(* them.  The invariant adds what a session may conclude at each place     *)
(*   - from the time in its window (KnownOf), and                          *)
(*   - from the questions it has passed and the time it has found          *)
(*     (SafeOf),                                                           *)
(* for every file that is not Dirty.  A step of one session changes one    *)
(* file at most.  The others then know nothing wrong of it, because the    *)
(* step marks the file as raced when one of them is at work on it, and as  *)
(* hasty when one of them knows it by the time it gets (OthersKept).       *)
(***************************************************************************)
EXTENDS EditorSave, TLAPS

(* What happened to f is something the comparison of times cannot see.     *)
Dirty(f) == \E m \in {"raced", "hasty", "untimed"} : <<f, m>> \in marks

(* Times are those of files that are there; the clock has started.         *)
NodeInv ==
  /\ now # 0
  /\ \A f \in File : disk[f].is = "absent" <=> disk[f].mtime = 0

Named == {"load", "reload", "reread", "overwrite", "stat", "links", "changed", "create", "write",
          "restat", "backup", "rename", "sudo"}
Replacing == {"create", "write", "restat", "backup", "rename", "sudo"}
Saving == {"stat", "links", "changed"} \cup Replacing

(* How the C stack of a session and its window go together.                *)
CallOf(c, w) ==
  /\ c.at = "idle" => c = Idle
  /\ c.at # "idle" => w.open
  /\ c.at \in Named => c.file \in File
  /\ c.at \in {"load", "reload", "reread"} => c.file = w.file
  /\ c.at = "load" => w.stat1 # 0
  /\ c.at \in {"name", "overwrite"} => c.as
  /\ c.at \in {"idle", "load", "reload", "reread", "quit", "closing"} => ~c.as
  /\ (c.at \in Saving /\ ~c.as) => c.file = w.file
  /\ c.at \in {"backup", "rename"} => c.temp # 0
  /\ (c.at = "restat" /\ c.mode \notin {"quick", "sudo"}) => c.temp # 0
  /\ c.at = "reread" => c.sb # 0
  /\ w.new => w.file \in File
  /\ ~w.open => w = Closed

CallInv == \A s \in Session : CallOf(call[s], win[s])

(* Unless s is loading f, the time in its window is one it has; and when it *)
(* is that of what is there, s has loaded or written that.  n and S stand   *)
(* for disk[f] and seen[f].                                                 *)
KnownOf(s, f, c, w, n, S) ==
  (w.file = f /\ c.at # "load") =>
    /\ w.stat1 = 0 => c.at \in {"reload", "reread"}
    /\ (w.stat1 = n.mtime /\ n.is \in {"partial", "saved"}) => s \in S

(* While s saves f unasked, there is nothing at f that s does not know.    *)
SafeOf(s, f, c, w, n, S) ==
  c.file = f =>
    /\ (~c.agreed /\ c.at \in Replacing) => (s \in S \/ n.is \in {"absent", "empty"})
    /\ c.at = "links" => c.sb = n.mtime
    /\ (~c.agreed /\ c.at \in {"stat", "links"} /\ w.file # f) => n.is = "absent"
    /\ (c.at = "restat" /\ c.mode \in {"quick", "sudo"}) => n.is # "absent"

SessionOf(s, f, c, w, n, S) == KnownOf(s, f, c, w, n, S) /\ SafeOf(s, f, c, w, n, S)

SessionInv ==
  \A s \in Session : \A f \in File :
    Dirty(f) \/ SessionOf(s, f, call[s], win[s], disk[f], seen[f])

LostInv == \A f \in File : <<f, "lost">> \in marks => Dirty(f)

(* What was last saved of f is at f or in its backup, which the next save  *)
(* replaces only by what is whole, or it is marked.  n, B and M stand for  *)
(* disk[f], bak and marks.                                                 *)
CopyOf(f, n, B, M) ==
  \/ n.is = "saved" \/ (f \in B /\ n.is \in {"absent", "partial"})
  \/ <<f, "raced">> \in M \/ <<f, "short">> \in M

CopyInv == \A f \in kept : CopyOf(f, disk[f], bak, marks)

IInv == TypeOK /\ NodeInv /\ CallInv /\ SessionInv /\ LostInv /\ CopyInv

-----------------------------------------------------------------------------
(* Facts about one state, and about records.                               *)

(* What the invariant says of one session.                                 *)
LEMMA OneSession ==
  ASSUME IInv, NEW s \in Session
  PROVE  /\ call[s] \in Call /\ win[s] \in Window /\ CallOf(call[s], win[s])
         /\ \A f \in File : Dirty(f) \/ SessionOf(s, f, call[s], win[s], disk[f], seen[f])
BY DEF IInv, TypeOK, CallInv, SessionInv

(* What it says of one file.                                               *)
LEMMA OneFile ==
  ASSUME IInv, NEW f \in File
  PROVE  /\ disk[f] \in Node /\ disk[f].mtime \in Time
         /\ disk[f].is \in {"absent", "empty", "partial", "saved"}
         /\ disk[f].is = "absent" <=> disk[f].mtime = 0
         /\ Present(disk[f]) <=> disk[f].is # "absent"
         /\ seen[f] \subseteq Session
BY DEF IInv, TypeOK, NodeInv, Node, Present

(* The clock, and the window and the call a session starts with.           *)
LEMMA Constants ==
  /\ Time \subseteq Nat /\ 0 \in Time /\ 2 \in Time
  /\ Idle \in Call /\ Idle.at = "idle" /\ Idle.file = NoFile /\ ~Idle.as /\ ~Idle.agreed
  /\ Closed \in Window /\ NoName \in Window
  /\ ~Closed.open /\ Closed.file = NoFile /\ ~Closed.new
  /\ NoName.open /\ NoName.file = NoFile /\ ~NoName.new
<1>1. Time \subseteq Nat /\ 0 \in Time /\ 2 \in Time
  BY BoundAssumption DEF Time
<1>2. Idle \in Call /\ Idle.at = "idle" /\ Idle.file = NoFile /\ ~Idle.as /\ ~Idle.agreed
  BY <1>1 DEF Idle, Call, Place
<1>3. Closed \in Window /\ NoName \in Window
  BY <1>1 DEF Closed, NoName, Window
<1> QED BY <1>1, <1>2, <1>3 DEF Closed, NoName

-----------------------------------------------------------------------------
(* What a step of one session means for the others.                        *)

(* s changes the files of T and no others: it is marked wherever another   *)
(* session is at work on the file, or knows it by the time it has then.    *)
Touches(s, T) ==
  /\ marks \subseteq marks'
  /\ \A f \in File \ T : /\ disk'[f] = disk[f]
                         /\ seen[f] \ {s} \subseteq seen'[f]
  /\ \A f \in T :
       /\ Using(f) \ {s} = {} \/ <<f, "raced">> \in marks'
       /\ \A t \in Session \ {s} :
            (win[t].file = f /\ win[t].stat1 = disk'[f].mtime)
              => disk'[f].is \in {"absent", "empty"} \/ <<f, "hasty">> \in marks'

(* Marks stay.                                                             *)
LEMMA DirtyStays ==
  ASSUME NEW f, marks \subseteq marks'
  PROVE  Dirty(f) => Dirty(f)'
BY DEF Dirty

(* A session at work on a file is among its users.                         *)
LEMMA AtWork ==
  ASSUME IInv, NEW t \in Session, NEW f \in File, call[t].file = f,
         \/ call[t].at \in Replacing \cup {"links"}
         \/ call[t].at = "stat" /\ win[t].file # f
  PROVE  t \in Using(f)
<1>1. call[t].at = "stat" => call[t].as
  BY OneSession DEF CallOf, Saving, Replacing
<1> QED BY <1>1 DEF Using, Replacing, At

(* The other sessions keep what they know.                                 *)
LEMMA OthersKept ==
  ASSUME IInv, NEW s \in Session, NEW t \in Session \ {s}, NEW T \in SUBSET File, Touches(s, T),
         NEW f \in File
  PROVE  Dirty(f)' \/ SessionOf(t, f, call[t], win[t], disk'[f], seen'[f])
<1>1. Dirty(f) \/ SessionOf(t, f, call[t], win[t], disk[f], seen[f])
  BY OneSession
<1>2. Dirty(f) => Dirty(f)'
  BY DirtyStays DEF Touches
<1>3. CASE f \notin T
  <2>1. disk'[f] = disk[f] /\ (t \in seen[f] => t \in seen'[f])
    BY <1>3 DEF Touches
  <2> QED BY <1>1, <1>2, <2>1 DEF SessionOf, KnownOf, SafeOf
<1>4. CASE f \in T
  <2>1. Using(f) \ {s} = {} \/ Dirty(f)'
    BY <1>4 DEF Touches, Dirty
  <2>2. t \notin Using(f) => SafeOf(t, f, call[t], win[t], disk'[f], seen'[f])
    <3>1. CASE call[t].file # f
      BY <3>1 DEF SafeOf
    <3>2. CASE call[t].file = f /\ t \notin Using(f)
      BY <3>2, AtWork DEF SafeOf, Replacing
    <3> QED BY <3>1, <3>2
  <2>3. Dirty(f)' \/ KnownOf(t, f, call[t], win[t], disk'[f], seen'[f])
    <3>1. /\ (win[t].file = f /\ win[t].stat1 = disk'[f].mtime)
               => disk'[f].is \in {"absent", "empty"} \/ Dirty(f)'
      BY <1>4 DEF Touches, Dirty
    <3> QED BY <1>1, <1>2, <3>1 DEF SessionOf, KnownOf
  <2> QED BY <2>1, <2>2, <2>3 DEF SessionOf
<1> QED BY <1>3, <1>4

(* A step of one session, by its new window and call.                      *)
LEMMA SessionStep ==
  ASSUME IInv, NEW s \in Session, NEW w \in Window, NEW c \in Call, NEW T \in SUBSET File,
         win' = [win EXCEPT ![s] = w], call' = [call EXCEPT ![s] = c],
         Touches(s, T), CallOf(c, w),
         \A f \in File : Dirty(f)' \/ SessionOf(s, f, c, w, disk'[f], seen'[f])
  PROVE  /\ win' \in [Session -> Window] /\ call' \in [Session -> Call]
         /\ \A t \in Session : call'[t].at = "idle" => call'[t] = Idle
         /\ CallInv' /\ SessionInv'
<1>1. win' \in [Session -> Window] /\ call' \in [Session -> Call]
  BY DEF IInv, TypeOK
<1>2. \A t \in Session : /\ win'[t] = IF t = s THEN w ELSE win[t]
                         /\ call'[t] = IF t = s THEN c ELSE call[t]
  BY DEF IInv, TypeOK
<1>3. \A t \in Session : CallOf(call'[t], win'[t])
  BY <1>2, OneSession
<1>4. CallInv'
  BY <1>3 DEF CallInv
<1>5. \A t \in Session : call'[t].at = "idle" => call'[t] = Idle
  BY <1>3 DEF CallOf
<1>6. \A t \in Session : \A f \in File :
        Dirty(f)' \/ SessionOf(t, f, call'[t], win'[t], disk'[f], seen'[f])
  BY <1>2, OthersKept
<1>7. SessionInv'
  BY <1>6 DEF SessionInv
<1> QED BY <1>1, <1>4, <1>5, <1>7

(* A step that changes no file, nor its history.                           *)
LEMMA QuietStep ==
  ASSUME IInv, NEW s \in Session, NEW w \in Window, NEW c \in Call,
         win' = [win EXCEPT ![s] = w], call' = [call EXCEPT ![s] = c],
         UNCHANGED <<disk, bak, now, historyVars>>, CallOf(c, w),
         \A f \in File : Dirty(f) \/ SessionOf(s, f, c, w, disk[f], seen[f])
  PROVE  IInv'
<1>1. UNCHANGED <<disk, bak, now, kept, seen, marks>>
  BY DEF historyVars
<1>2. \A f : Dirty(f)' <=> Dirty(f)
  BY <1>1 DEF Dirty
<1>3. Touches(s, {})
  BY <1>1 DEF Touches
<1>4. /\ win' \in [Session -> Window] /\ call' \in [Session -> Call]
      /\ \A t \in Session : call'[t].at = "idle" => call'[t] = Idle
      /\ CallInv' /\ SessionInv'
  <2>1. \A f \in File : Dirty(f)' \/ SessionOf(s, f, c, w, disk'[f], seen'[f])
    BY <1>1, <1>2
  <2>2. {} \in SUBSET File
    OBVIOUS
  <2> QED BY <1>3, <2>1, <2>2, SessionStep
<1>5. TypeOK'
  BY <1>1, <1>4 DEF IInv, TypeOK
<1>6. NodeInv' /\ LostInv' /\ CopyInv'
  BY <1>1, <1>2 DEF IInv, NodeInv, LostInv, CopyInv
<1> QED BY <1>4, <1>5, <1>6 DEF IInv

-----------------------------------------------------------------------------
(* The steps that change no file.                                          *)

(* An empty window.                                                        *)
LEMMA OpenNewStep ==
  ASSUME IInv, NEW s \in Session, OpenNew(s)
  PROVE  IInv'
<1>1. /\ ~win[s].open /\ win' = [win EXCEPT ![s] = NoName]
      /\ UNCHANGED <<disk, bak, now, call, historyVars>>
  BY DEF OpenNew
<1>2. call' = [call EXCEPT ![s] = call[s]]
  BY <1>1 DEF IInv, TypeOK
<1>3. call[s] = Idle /\ call[s] \in Call
  BY <1>1, OneSession DEF CallOf
<1>4. CallOf(call[s], NoName)
  BY <1>3, Constants DEF CallOf, Named, Saving, Replacing
<1>5. \A f \in File : SessionOf(s, f, call[s], NoName, disk[f], seen[f])
  BY <1>3, Constants, NoFileAssumption DEF SessionOf, KnownOf, SafeOf
<1> QED BY <1>1, <1>2, <1>3, <1>4, <1>5, Constants, QuietStep

(* Typing.                                                                 *)
LEMMA EditStep ==
  ASSUME IInv, NEW s \in Session, Edit(s)
  PROVE  IInv'
<1> DEFINE w == [win[s] EXCEPT !.modified = TRUE]
<1>1. /\ win[s].open /\ call[s].at = "idle"
      /\ win' = [win EXCEPT ![s] = w]
      /\ UNCHANGED <<disk, bak, now, call, historyVars>>
  BY DEF Edit, At, IInv, TypeOK
<1>2. call' = [call EXCEPT ![s] = call[s]] /\ call[s] \in Call
  BY <1>1 DEF IInv, TypeOK
<1>3. /\ w \in Window /\ w.open /\ w.file = win[s].file /\ w.stat1 = win[s].stat1
      /\ w.new = win[s].new /\ w.asis = win[s].asis
  BY <1>1, OneSession DEF Window
<1> HIDE DEF w
<1>4. CallOf(call[s], w)
  BY <1>1, <1>3, OneSession DEF CallOf
<1>5. \A f \in File : Dirty(f) \/ SessionOf(s, f, call[s], w, disk[f], seen[f])
  BY <1>3, OneSession DEF SessionOf, KnownOf, SafeOf
<1> QED BY <1>1, <1>2, <1>3, <1>4, <1>5, QuietStep

(* A step that leaves the window alone and changes the call.               *)
LEMMA CallStep ==
  ASSUME IInv, NEW s \in Session, NEW c \in Call, Goes(s, c),
         UNCHANGED <<disk, bak, now, win, historyVars>>, CallOf(c, win[s]),
         c.at # "load",
         \A f \in File : (win[s].file = f /\ win[s].stat1 = 0 /\ c.at \notin {"reload", "reread"})
                           => Dirty(f) \/ call[s].at \notin {"load", "reload", "reread"},
         \A f \in File : Dirty(f) \/ SafeOf(s, f, c, win[s], disk[f], seen[f]),
         call[s].at # "load"
  PROVE  IInv'
<1>1. win' = [win EXCEPT ![s] = win[s]] /\ call' = [call EXCEPT ![s] = c] /\ win[s] \in Window
  BY DEF Goes, IInv, TypeOK
<1>2. \A f \in File : Dirty(f) \/ SessionOf(s, f, c, win[s], disk[f], seen[f])
  BY OneSession DEF SessionOf, KnownOf
<1> QED BY <1>1, <1>2, QuietStep

(* A call that is not at work on a file.                                   *)
LEMMA AwayStep ==
  ASSUME IInv, NEW s \in Session, NEW c \in Call, Goes(s, c),
         UNCHANGED <<disk, bak, now, win, historyVars>>,
         c.at \in {"idle", "name", "quit", "closing"},
         c.file = NoFile, c.at = "idle" => c = Idle, c.as <=> c.at = "name", win[s].open,
         call[s].at \notin {"load", "reload", "reread"}
  PROVE  IInv'
<1>1. CallOf(c, win[s])
  BY OneSession DEF CallOf, Named, Saving, Replacing
<1>2. \A f \in File : SafeOf(s, f, c, win[s], disk[f], seen[f])
  BY NoFileAssumption DEF SafeOf
<1> QED BY <1>1, <1>2, CallStep

(* The end of a save, and what follows it.                                 *)
LEMMA Endings ==
  ASSUME NEW b \in BOOLEAN
  PROVE  /\ [Idle EXCEPT !.at = "closing"] \in Call
         /\ [Idle EXCEPT !.at = "quit"] \in Call
         /\ [Idle EXCEPT !.at = "name", !.as = TRUE] \in Call
         /\ [Idle EXCEPT !.at = "name", !.as = TRUE, !.closing = b] \in Call
         /\ [Idle EXCEPT !.at = "closing"].file = NoFile
         /\ ~[Idle EXCEPT !.at = "closing"].as
         /\ [Idle EXCEPT !.at = "quit"].file = NoFile
         /\ ~[Idle EXCEPT !.at = "quit"].as
         /\ [Idle EXCEPT !.at = "name", !.as = TRUE].file = NoFile
         /\ [Idle EXCEPT !.at = "name", !.as = TRUE, !.closing = b].file = NoFile
<1>1. 0 \in Time
  BY Constants
<1> QED BY <1>1 DEF Idle, Call, Place

(* The call that is left when a save returns.                              *)
LEMMA Returns ==
  ASSUME NEW s \in Session, NEW fine \in BOOLEAN, SaveReturns(s, fine)
  PROVE  \E c \in Call : Goes(s, c) /\ c.at \in {"idle", "closing"} /\ c.file = NoFile /\ ~c.as
                         /\ (c.at = "idle" => c = Idle)
<1>1. Goes(s, Idle) \/ Goes(s, [Idle EXCEPT !.at = "closing"])
  BY DEF SaveReturns
<1>2. [Idle EXCEPT !.at = "closing"].at = "closing"
  BY DEF Idle
<1> QED BY <1>1, <1>2, Constants, Endings

(* A save returns without having written.                                  *)
LEMMA ReturnStep ==
  ASSUME IInv, NEW s \in Session, NEW fine \in BOOLEAN, SaveReturns(s, fine),
         UNCHANGED <<disk, bak, now, win, historyVars>>,
         call[s].at \in Saving \cup {"name", "overwrite"}
  PROVE  IInv'
<1>1. PICK c \in Call : Goes(s, c) /\ c.at \in {"idle", "closing"} /\ c.file = NoFile /\ ~c.as
                         /\ (c.at = "idle" => c = Idle)
  BY Returns
<1>2. c.at # "name"
  BY <1>1
<1>3. win[s].open /\ call[s].at \notin {"load", "reload", "reread"}
  BY OneSession DEF CallOf, Saving, Replacing
<1> QED BY <1>1, <1>2, <1>3, AwayStep

(* Answers and cancelled questions that end a save.                        *)
LEMMA CancelSteps ==
  ASSUME IInv, NEW s \in Session, AnswerCancel(s) \/ SaveCancel(s)
  PROVE  IInv'
<1>1. CASE AnswerCancel(s)
  <2>1. call[s].at \in Saving
    BY <1>1 DEF AnswerCancel, At, Saving
  <2>2. CASE call[s].as
    BY <1>1, <2>1, <2>2, ReturnStep DEF AnswerCancel, Aborted, SaveReturns
  <2>3. CASE ~call[s].as
    BY <1>1, <2>1, <2>3, ReturnStep DEF AnswerCancel, Aborted, SaveReturns
  <2> QED BY <2>2, <2>3
<1>2. CASE SaveCancel(s)
  BY <1>2, ReturnStep DEF SaveCancel, At, Saving, Replacing
<1> QED BY <1>1, <1>2

(* A save fails: sudo is offered, or a name is asked for, or it is over.   *)
LEMMA FailedStep ==
  ASSUME IInv, NEW s \in Session, NEW denied \in BOOLEAN, Failed(s, denied),
         UNCHANGED <<disk, bak, now, win, historyVars>>,
         call[s].at \in Replacing
  PROVE  IInv'
<1>0. win[s].open /\ call[s].at \notin {"load", "reload", "reread"} /\ call[s] \in Call
  BY OneSession DEF CallOf, Replacing
<1>1. CASE Goes(s, [call[s] EXCEPT !.at = "sudo", !.temp = 0, !.short = FALSE])
  <2> DEFINE c == [call[s] EXCEPT !.at = "sudo", !.temp = 0, !.short = FALSE]
  <2>1. /\ c \in Call /\ c.at = "sudo" /\ c.file = call[s].file /\ c.as = call[s].as
        /\ c.agreed = call[s].agreed
    BY <1>0, Constants DEF Call, Place
  <2> HIDE DEF c
  <2>2. CallOf(c, win[s])
    BY <1>0, <2>1, OneSession DEF CallOf, Named, Saving, Replacing
  <2>3. \A f \in File : Dirty(f) \/ SafeOf(s, f, c, win[s], disk[f], seen[f])
    BY <2>1, OneSession DEF SessionOf, SafeOf, Replacing
  <2> QED BY <1>0, <1>1, <2>1, <2>2, <2>3, CallStep DEF c
<1>2. CASE SaveReturns(s, FALSE)
  BY <1>2, ReturnStep DEF Saving
<1>3. CASE Goes(s, [Idle EXCEPT !.at = "name", !.as = TRUE, !.closing = call[s].closing])
  <2> DEFINE c == [Idle EXCEPT !.at = "name", !.as = TRUE, !.closing = call[s].closing]
  <2>1. call[s].closing \in BOOLEAN
    BY <1>0 DEF Call
  <2>2. c \in Call /\ c.file = NoFile
    BY <2>1, Endings
  <2>3. c.at = "name" /\ c.as
    BY DEF Idle
  <2> HIDE DEF c
  <2> QED BY <1>0, <1>3, <2>2, <2>3, AwayStep DEF c
<1> QED BY <1>1, <1>2, <1>3 DEF Failed

(* The failures that find the files as they were.                          *)
LEMMA FailureSteps ==
  ASSUME IInv, NEW s \in Session, NEW denied \in BOOLEAN,
         CreateFails(s, denied) \/ WriteFails(s) \/ RenameFails(s, denied)
  PROVE  IInv'
<1>1. CASE CreateFails(s, denied) \/ RenameFails(s, denied)
  BY <1>1, FailedStep DEF CreateFails, RenameFails, At, Replacing
<1>2. CASE WriteFails(s)
  BY <1>2, FailedStep DEF WriteFails, At, Replacing
<1> QED BY <1>1, <1>2

(* Commands that begin, and the question before closing.                   *)
LEMMA CommandSteps ==
  ASSUME IInv, NEW s \in Session, Save(s) \/ SaveAs(s) \/ Close(s) \/ AnswerQuit(s)
  PROVE  IInv'
<1>1. /\ win[s].open /\ call[s].at \notin {"load", "reload", "reread"}
      /\ call[s] \in Call /\ win[s] \in Window
      /\ UNCHANGED <<disk, bak, now, win, historyVars>>
  BY OneSession DEF CallOf, Save, SaveAs, Close, AnswerQuit, At
<1>2. ASSUME NEW c \in Call, Goes(s, c), win[s].file # NoFile,
             c.at = "stat", c.file = win[s].file, ~c.as
      PROVE  IInv'
  <2>1. win[s].file \in File
    BY <1>1, <1>2 DEF Window
  <2>2. CallOf(c, win[s])
    BY <1>1, <1>2, <2>1, OneSession DEF CallOf, Named, Saving, Replacing
  <2>3. \A f \in File : SafeOf(s, f, c, win[s], disk[f], seen[f])
    BY <1>2 DEF SafeOf, Replacing
  <2> QED BY <1>1, <1>2, <2>2, <2>3, CallStep
<1>3. ASSUME NEW c \in Call, Goes(s, c), c.at \in {"idle", "name", "quit", "closing"},
             c.file = NoFile, c.at = "idle" => c = Idle, c.as <=> c.at = "name"
      PROVE  IInv'
  BY <1>1, <1>3, AwayStep
<1> DEFINE Begins(b) == [Idle EXCEPT !.at = "stat", !.file = win[s].file, !.closing = b]
           Begun == [Idle EXCEPT !.at = "stat", !.file = win[s].file]
<1>4. win[s].file # NoFile =>
        /\ Begun \in Call /\ Begun.at = "stat" /\ Begun.file = win[s].file /\ ~Begun.as
        /\ Begins(TRUE) \in Call /\ Begins(TRUE).at = "stat"
        /\ Begins(TRUE).file = win[s].file /\ ~Begins(TRUE).as
  <2>1. win[s].file # NoFile => win[s].file \in File
    BY <1>1 DEF Window
  <2> QED BY <2>1, Constants DEF Idle, Call, Place
<1>5. /\ [Idle EXCEPT !.at = "name", !.as = TRUE].at = "name"
      /\ [Idle EXCEPT !.at = "name", !.as = TRUE].as
      /\ [Idle EXCEPT !.at = "name", !.as = TRUE, !.closing = TRUE].at = "name"
      /\ [Idle EXCEPT !.at = "name", !.as = TRUE, !.closing = TRUE].as
      /\ [Idle EXCEPT !.at = "quit"].at = "quit" /\ [Idle EXCEPT !.at = "closing"].at = "closing"
  BY DEF Idle
<1>6. CASE Save(s)
  <2>1. CASE win[s].file = NoFile
    BY <1>3, <1>5, <1>6, <2>1, Endings DEF Save
  <2>2. CASE win[s].file # NoFile
    <3>1. Goes(s, Begun)
      BY <1>6, <2>2 DEF Save
    <3> HIDE DEF Begun
    <3> QED BY <1>2, <1>4, <2>2, <3>1
  <2> QED BY <2>1, <2>2
<1>7. CASE SaveAs(s)
  BY <1>3, <1>5, <1>7, Endings DEF SaveAs
<1>8. CASE Close(s)
  <2>1. call[s] = Idle
    BY <1>8, OneSession DEF Close, At, CallOf
  <2>2. Goes(s, [Idle EXCEPT !.at = "quit"]) \/ Goes(s, [Idle EXCEPT !.at = "closing"])
    BY <1>8, <2>1 DEF Close, To
  <2> QED BY <1>3, <1>5, <2>2, Endings
<1>9. CASE AnswerQuit(s)
  <2>1. CASE Goes(s, IF win[s].file = NoFile
                     THEN [Idle EXCEPT !.at = "name", !.as = TRUE, !.closing = TRUE]
                     ELSE [Idle EXCEPT !.at = "stat", !.file = win[s].file, !.closing = TRUE])
    <3>1. CASE win[s].file = NoFile
      BY <1>3, <1>5, <2>1, <3>1, Endings
    <3>2. CASE win[s].file # NoFile
      <4>1. Goes(s, Begins(TRUE))
        BY <2>1, <3>2
      <4> HIDE DEF Begins
      <4> QED BY <1>2, <1>4, <3>2, <4>1
    <3> QED BY <3>1, <3>2
  <2>2. CASE Goes(s, [Idle EXCEPT !.at = "closing"])
    BY <1>3, <1>5, <2>2, Endings
  <2>3. CASE Goes(s, Idle)
    BY <1>3, <2>3, Constants
  <2> QED BY <1>9, <2>1, <2>2, <2>3 DEF AnswerQuit
<1> QED BY <1>6, <1>7, <1>8, <1>9

-----------------------------------------------------------------------------
(* Steps of a save that change no file.                                    *)

(* What the comparison of times finds: nothing there that s does not know. *)
LEMMA ComparedKnown ==
  ASSUME IInv, NEW s \in Session, NEW f \in File, call[s].at \in {"stat", "links"},
         call[s].file = f, ~call[s].agreed, win[s].stat1 \in {0, disk[f].mtime}
  PROVE  Dirty(f) \/ s \in seen[f] \/ disk[f].is \in {"absent", "empty"}
<1>1. Dirty(f) \/ SessionOf(s, f, call[s], win[s], disk[f], seen[f])
  BY OneSession
<1>2. CASE win[s].file = f
  BY <1>1, <1>2, OneFile DEF SessionOf, KnownOf
<1>3. CASE win[s].file # f
  BY <1>1, <1>3 DEF SessionOf, SafeOf
<1> QED BY <1>2, <1>3

(* edit_save_file looks at what is there.                                  *)
LEMMA StatFileStep ==
  ASSUME IInv, NEW s \in Session, NEW m \in Mode, NEW asks \in BOOLEAN, StatFile(s, m, asks)
  PROVE  IInv'
<1> DEFINE f == call[s].file
           mode == IF Present(disk[f]) THEN m ELSE "quick"
<1>1. /\ call[s].at = "stat" /\ call[s] \in Call /\ win[s] \in Window /\ f \in File
      /\ UNCHANGED <<disk, bak, now, win, historyVars>>
  BY OneSession DEF StatFile, At, CallOf, Named
<1>2. mode \in {"quick", "safe", "backup", "sudo"}
  BY ModeAssumption
<1>3. ASSUME NEW c \in Call, Goes(s, c), c.file = f, c.as = call[s].as,
             c.agreed = call[s].agreed, c.at \in {"links", "changed", "create"},
             c.at = "links" => c.sb = disk[f].mtime /\ Present(disk[f]),
             c.at = "create" => \/ disk[f].is = "absent"
                                \/ win[s].stat1 \in {0, disk[f].mtime}
      PROVE  IInv'
  <2>1. CallOf(c, win[s])
    BY <1>1, <1>3, OneSession DEF CallOf, Named, Saving, Replacing
  <2>2. Dirty(f) \/ SafeOf(s, f, c, win[s], disk[f], seen[f])
    <3>1. CASE c.at = "create"
      BY <1>1, <1>3, <3>1, ComparedKnown DEF SafeOf
    <3>2. CASE c.at \in {"links", "changed"}
      BY <1>1, <1>3, <3>2, OneSession DEF SessionOf, SafeOf, Replacing
    <3> QED BY <1>3, <3>1, <3>2
  <2>3. \A g \in File : Dirty(g) \/ SafeOf(s, g, c, win[s], disk[g], seen[g])
    BY <1>3, <2>2 DEF SafeOf
  <2> QED BY <1>1, <1>3, <2>1, <2>3, CallStep
<1>4. disk[f].mtime \in Time /\ (Present(disk[f]) <=> disk[f].is # "absent")
  BY <1>1, OneFile
<1>5. CASE asks /\ Goes(s, [[call[s] EXCEPT !.mode = mode] EXCEPT !.at = "links",
                                                                  !.sb = disk[f].mtime])
  <2> DEFINE c == [[call[s] EXCEPT !.mode = mode] EXCEPT !.at = "links", !.sb = disk[f].mtime]
  <2>1. /\ c \in Call /\ c.at = "links" /\ c.file = f /\ c.as = call[s].as
        /\ c.agreed = call[s].agreed /\ c.sb = disk[f].mtime
    BY <1>1, <1>2, <1>4 DEF Call, Place
  <2>2. Present(disk[f])
    BY <1>5 DEF StatFile
  <2> HIDE DEF c
  <2> QED BY <1>3, <1>5, <2>1, <2>2 DEF c
<1>6. ASSUME NEW p \in {"changed", "create"},
             Goes(s, [[call[s] EXCEPT !.mode = mode] EXCEPT !.at = p]),
             p = "create" => disk[f].is = "absent" \/ win[s].stat1 \in {0, disk[f].mtime}
      PROVE  IInv'
  <2> DEFINE c == [[call[s] EXCEPT !.mode = mode] EXCEPT !.at = p]
  <2>1. /\ c \in Call /\ c.at = p /\ c.file = f /\ c.as = call[s].as
        /\ c.agreed = call[s].agreed
    BY <1>1, <1>2 DEF Call, Place
  <2> HIDE DEF c
  <2> QED BY <1>3, <1>6, <2>1 DEF c
<1>7. CASE ~asks /\ Present(disk[f])
  <2>1. Goes(s, [[call[s] EXCEPT !.mode = mode] EXCEPT !.at = Compared(win[s], disk[f].mtime)])
    BY <1>7 DEF StatFile
  <2> QED BY <1>6, <2>1 DEF Compared
<1>8. CASE ~asks /\ ~Present(disk[f])
  <2>1. Goes(s, [[call[s] EXCEPT !.mode = mode] EXCEPT !.at = "create"])
    BY <1>8 DEF StatFile
  <2> QED BY <1>4, <1>6, <1>8, <2>1
<1>9. CASE asks
  BY <1>5, <1>9 DEF StatFile
<1> QED BY <1>7, <1>8, <1>9

(* The question about hard links.                                          *)
LEMMA AnswerLinksStep ==
  ASSUME IInv, NEW s \in Session, NEW detach \in BOOLEAN, AnswerLinks(s, detach)
  PROVE  IInv'
<1> DEFINE f == call[s].file
           p == Compared(win[s], call[s].sb)
           mode == IF detach THEN "safe" ELSE "quick"
           c == [call[s] EXCEPT !.mode = mode, !.sb = 0, !.at = p]
<1>1. /\ call[s].at = "links" /\ call[s] \in Call /\ win[s] \in Window /\ f \in File
      /\ UNCHANGED <<disk, bak, now, win, historyVars>> /\ Goes(s, c)
  BY OneSession DEF AnswerLinks, At, CallOf, Named
<1>2. p \in {"changed", "create"} /\ mode \in {"quick", "safe", "backup", "sudo"}
  BY DEF Compared
<1>3. p = "create" => win[s].stat1 \in {0, call[s].sb}
  BY DEF Compared
<1> HIDE DEF p, mode
<1>4. /\ c \in Call /\ c.at = p /\ c.file = f /\ c.as = call[s].as /\ c.agreed = call[s].agreed
  BY <1>1, <1>2, Constants DEF Call, Place
<1> HIDE DEF c
<1>5. CallOf(c, win[s])
  BY <1>1, <1>2, <1>4, OneSession DEF CallOf, Named, Saving, Replacing
<1>6. Dirty(f) \/ SafeOf(s, f, c, win[s], disk[f], seen[f])
  <2>1. Dirty(f) \/ call[s].sb = disk[f].mtime
    BY <1>1, OneSession DEF SessionOf, SafeOf
  <2>2. CASE p = "create"
    BY <1>1, <1>3, <1>4, <2>1, <2>2, ComparedKnown DEF SafeOf
  <2>3. CASE p = "changed"
    BY <1>4, <2>3 DEF SafeOf, Replacing
  <2> QED BY <1>2, <2>2, <2>3
<1>7. \A g \in File : Dirty(g) \/ SafeOf(s, g, c, win[s], disk[g], seen[g])
  BY <1>4, <1>6 DEF SafeOf
<1> QED BY <1>1, <1>2, <1>4, <1>5, <1>7, CallStep

(* The user agrees to overwrite, or to become root.                        *)
LEMMA AnswerSteps ==
  ASSUME IInv, NEW s \in Session, AnswerChanged(s) \/ AnswerOverwrite(s) \/ SudoSaves(s)
  PROVE  IInv'
<1>1. /\ call[s] \in Call /\ call[s].at \in {"changed", "overwrite", "sudo"}
      /\ UNCHANGED <<disk, bak, now, win, historyVars>>
  BY OneSession DEF AnswerChanged, AnswerOverwrite, SudoSaves, At
<1>2. CASE AnswerChanged(s)
  <2> DEFINE c == [call[s] EXCEPT !.at = "create", !.agreed = TRUE]
  <2>1. /\ c \in Call /\ c.at = "create" /\ c.file = call[s].file /\ c.as = call[s].as /\ c.agreed
    BY <1>1 DEF Call, Place
  <2>2. Goes(s, c) /\ call[s].at = "changed"
    BY <1>2 DEF AnswerChanged, At
  <2> HIDE DEF c
  <2>3. CallOf(c, win[s])
    BY <2>1, <2>2, OneSession DEF CallOf, Named, Saving, Replacing
  <2>4. \A f \in File : SafeOf(s, f, c, win[s], disk[f], seen[f])
    BY <2>1 DEF SafeOf
  <2> QED BY <1>1, <2>1, <2>2, <2>3, <2>4, CallStep
<1>3. CASE SudoSaves(s)
  <2> DEFINE c == [call[s] EXCEPT !.at = "create", !.mode = "sudo"]
  <2>1. /\ c \in Call /\ c.at = "create" /\ c.file = call[s].file /\ c.as = call[s].as
        /\ c.agreed = call[s].agreed
    BY <1>1 DEF Call, Place
  <2>2. Goes(s, c) /\ call[s].at = "sudo"
    BY <1>3 DEF SudoSaves, At
  <2> HIDE DEF c
  <2>3. CallOf(c, win[s])
    BY <2>1, <2>2, OneSession DEF CallOf, Named, Saving, Replacing
  <2>4. \A f \in File : Dirty(f) \/ SafeOf(s, f, c, win[s], disk[f], seen[f])
    BY <2>1, <2>2, OneSession DEF SessionOf, SafeOf, Replacing
  <2> QED BY <1>1, <2>1, <2>2, <2>3, <2>4, CallStep
<1>4. CASE AnswerOverwrite(s)
  <2> DEFINE c == [call[s] EXCEPT !.at = "stat", !.agreed = TRUE]
  <2>1. /\ c \in Call /\ c.at = "stat" /\ c.file = call[s].file /\ c.as = call[s].as /\ c.agreed
    BY <1>1 DEF Call, Place
  <2>2. Goes(s, c) /\ call[s].at = "overwrite"
    BY <1>4 DEF AnswerOverwrite, At
  <2> HIDE DEF c
  <2>3. CallOf(c, win[s])
    BY <2>1, <2>2, OneSession DEF CallOf, Named, Saving, Replacing
  <2>4. \A f \in File : SafeOf(s, f, c, win[s], disk[f], seen[f])
    BY <2>1 DEF SafeOf
  <2> QED BY <1>1, <2>1, <2>2, <2>3, <2>4, CallStep
<1> QED BY <1>2, <1>3, <1>4

(* The name to save under.                                                 *)
LEMMA NameStep ==
  ASSUME IInv, NEW s \in Session, NEW f \in File, NEW asis \in BOOLEAN, Name(s, f, asis)
  PROVE  IInv'
<1> DEFINE p == IF f # win[s].file /\ Present(disk[f]) THEN "overwrite" ELSE "stat"
           w == [win[s] EXCEPT !.asis = asis]
           c == [call[s] EXCEPT !.file = f, !.at = p]
<1>1. /\ call[s] \in Call /\ call[s].at = "name" /\ win[s] \in Window
      /\ UNCHANGED <<disk, bak, now, historyVars>>
      /\ win' = [win EXCEPT ![s] = w] /\ Goes(s, c)
  BY OneSession DEF Name, At, IInv, TypeOK
<1>2. p \in {"overwrite", "stat"} /\ (p = "stat" => win[s].file = f \/ disk[f].is = "absent")
  BY OneFile
<1> HIDE DEF p
<1>3. /\ c \in Call /\ c.at = p /\ c.file = f /\ c.as = call[s].as /\ c.agreed = call[s].agreed
  BY <1>1, <1>2 DEF Call, Place
<1>4. /\ w \in Window /\ w.file = win[s].file /\ w.stat1 = win[s].stat1 /\ w.open = win[s].open
      /\ w.new = win[s].new
  BY <1>1 DEF Window
<1> HIDE DEF c, w
<1>5. CallOf(c, w)
  BY <1>1, <1>2, <1>3, <1>4, OneSession DEF CallOf, Named, Saving, Replacing
<1>6. \A g \in File : Dirty(g) \/ SessionOf(s, g, c, w, disk[g], seen[g])
  <2>1. \A g \in File : SafeOf(s, g, c, w, disk[g], seen[g])
    BY <1>2, <1>3, <1>4 DEF SafeOf, Replacing
  <2>2. \A g \in File : Dirty(g) \/ KnownOf(s, g, c, w, disk[g], seen[g])
    BY <1>1, <1>4, OneSession DEF SessionOf, KnownOf
  <2> QED BY <2>1, <2>2 DEF SessionOf
<1> QED BY <1>1, <1>3, <1>4, <1>5, <1>6, QuietStep DEF Goes

(* A save goes on, with its temporary file.                                *)
LEMMA TemporaryStep ==
  ASSUME IInv, NEW s \in Session, NEW p \in {"write", "restat", "backup", "rename"},
         NEW c \in Call, Goes(s, c), ~Direct(s), c.at = p, c.file = call[s].file,
         c.as = call[s].as, c.agreed = call[s].agreed, c.mode = call[s].mode, c.temp = now,
         UNCHANGED <<disk, bak, now, win, historyVars>>, call[s].at \in {"create", "write"}
  PROVE  IInv'
<1>1. now # 0
  BY DEF IInv, NodeInv
<1>2. CallOf(c, win[s])
  BY <1>1, OneSession DEF CallOf, Named, Saving, Replacing
<1>3. \A f \in File : Dirty(f) \/ SafeOf(s, f, c, win[s], disk[f], seen[f])
  BY OneSession DEF SessionOf, SafeOf, Replacing, Direct
<1> QED BY <1>2, <1>3, CallStep

(* Temporary files are made and written.                                   *)
LEMMA TemporarySteps ==
  ASSUME IInv, NEW s \in Session, ~Direct(s), NEW filter \in BOOLEAN, NEW whole \in BOOLEAN,
         Create(s) \/ Write(s, filter, whole)
  PROVE  IInv'
<1>1. call[s] \in Call /\ now \in Time
  BY OneSession DEF IInv, TypeOK
<1>2. CASE Create(s)
  <2> DEFINE c == [call[s] EXCEPT !.at = "write", !.temp = now]
  <2>1. /\ call[s].at = "create" /\ Goes(s, c)
        /\ UNCHANGED <<disk, bak, now, win, historyVars>>
    BY <1>2 DEF Create, At, historyVars
  <2>2. /\ c \in Call /\ c.at = "write" /\ c.file = call[s].file /\ c.as = call[s].as
        /\ c.agreed = call[s].agreed /\ c.mode = call[s].mode /\ c.temp = now
    BY <1>1 DEF Call, Place
  <2> HIDE DEF c
  <2> QED BY <2>1, <2>2, TemporaryStep
<1>3. CASE Write(s, filter, whole)
  <2> DEFINE d == [call[s] EXCEPT !.temp = now, !.short = ~whole]
  <2>1. /\ call[s].at = "write" /\ UNCHANGED <<disk, bak, now, historyVars>>
        /\ IF Checked(s, filter) THEN Goes(s, [d EXCEPT !.at = "restat"]) /\ UNCHANGED win
                                 ELSE GoesOn(s, win[s], d)
    BY <1>3 DEF Write, At
  <2>2. PICK p \in {"restat", "backup", "rename"} : Goes(s, [d EXCEPT !.at = p]) /\ UNCHANGED win
    BY <2>1 DEF GoesOn, IInv, TypeOK
  <2> DEFINE c == [d EXCEPT !.at = p]
  <2>3. (~whole) \in BOOLEAN
    OBVIOUS
  <2>4. /\ c \in Call /\ c.at = p /\ c.file = call[s].file /\ c.as = call[s].as
        /\ c.agreed = call[s].agreed /\ c.mode = call[s].mode /\ c.temp = now
    BY <1>1, <2>3 DEF Call, Place
  <2> HIDE DEF c
  <2> QED BY <2>1, <2>2, <2>4, TemporaryStep DEF c
<1> QED BY <1>2, <1>3

-----------------------------------------------------------------------------
(* Steps that change one file, or only what is known of the files.         *)

(* A step of s that makes f what n says.                                   *)
LEMMA PutsStep ==
  ASSUME IInv, NEW s \in Session, NEW w \in Window, NEW c \in Call, NEW f \in File,
         NEW n \in Node, win' = [win EXCEPT ![s] = w], call' = [call EXCEPT ![s] = c], UNCHANGED now,
         disk' = [disk EXCEPT ![f] = n], n.is = "absent" <=> n.mtime = 0,
         seen' \in [File -> SUBSET Session],
         \A g \in File \ {f} : seen[g] \ {s} \subseteq seen'[g],
         bak' \subseteq File, bak \ {f} \subseteq bak',
         kept' \subseteq File, kept' \ {f} \subseteq kept,
         marks' \subseteq File \X Mark, marks \subseteq marks', Raced(s, f) \subseteq marks',
         n.is \in {"absent", "empty"} \/ Hasty(s, f, n.mtime) \subseteq marks',
         f \in kept' => CopyOf(f, n, bak', marks'),
         \A g \in File : <<g, "lost">> \in marks' => <<g, "lost">> \in marks \/ Dirty(g)',
         CallOf(c, w),
         \A g \in File \ {f} : Dirty(g) \/ SessionOf(s, g, c, w, disk[g], seen'[g]),
         Dirty(f)' \/ SessionOf(s, f, c, w, n, seen'[f])
  PROVE  IInv'
<1>1. /\ disk' \in [File -> Node] /\ disk'[f] = n
      /\ \A g \in File \ {f} : disk'[g] = disk[g]
  BY DEF IInv, TypeOK
<1>2. \A g : Dirty(g) => Dirty(g)'
  BY DirtyStays
<1>3. Touches(s, {f})
  <2>1. Using(f) \ {s} = {} \/ <<f, "raced">> \in marks'
    BY DEF Raced
  <2>2. \A t \in Session \ {s} :
          (win[t].file = f /\ win[t].stat1 = n.mtime)
            => n.is \in {"absent", "empty"} \/ <<f, "hasty">> \in marks'
    BY DEF Hasty
  <2> QED BY <1>1, <2>1, <2>2 DEF Touches
<1>4. \A g \in File : Dirty(g)' \/ SessionOf(s, g, c, w, disk'[g], seen'[g])
  BY <1>1, <1>2
<1>5. /\ win' \in [Session -> Window] /\ call' \in [Session -> Call]
      /\ \A t \in Session : call'[t].at = "idle" => call'[t] = Idle
      /\ CallInv' /\ SessionInv'
  BY <1>3, <1>4, SessionStep
<1>6. TypeOK'
  BY <1>1, <1>5 DEF IInv, TypeOK
<1>7. NodeInv'
  BY <1>1 DEF IInv, NodeInv
<1>8. LostInv'
  BY <1>2 DEF IInv, LostInv
<1>9. CopyInv'
  <2> SUFFICES ASSUME NEW g \in kept'
               PROVE  CopyOf(g, disk'[g], bak', marks')
    BY DEF CopyInv
  <2>1. CASE g = f
    BY <1>1, <2>1
  <2>2. CASE g # f
    <3>1. g \in kept /\ g \in File
      BY <2>2
    <3>2. CopyOf(g, disk[g], bak, marks)
      BY <3>1 DEF IInv, CopyInv
    <3> QED BY <1>1, <2>2, <3>1, <3>2 DEF CopyOf
  <2> QED BY <2>1, <2>2
<1> QED BY <1>5, <1>6, <1>7, <1>8, <1>9 DEF IInv

(* A step of s that leaves the files as they are.                          *)
LEMMA SeenStep ==
  ASSUME IInv, NEW s \in Session, NEW w \in Window, NEW c \in Call,
         win' = [win EXCEPT ![s] = w], call' = [call EXCEPT ![s] = c],
         UNCHANGED <<disk, bak, now, kept>>,
         seen' \in [File -> SUBSET Session], \A g \in File : seen[g] \ {s} \subseteq seen'[g],
         marks' \subseteq File \X Mark, marks \subseteq marks',
         \A g \in File : <<g, "lost">> \in marks' => <<g, "lost">> \in marks,
         CallOf(c, w),
         \A g \in File : Dirty(g)' \/ SessionOf(s, g, c, w, disk[g], seen'[g])
  PROVE  IInv'
<1>1. \A g : Dirty(g) => Dirty(g)'
  BY DirtyStays
<1>2. Touches(s, {}) /\ {} \in SUBSET File
  BY DEF Touches
<1>3. /\ win' \in [Session -> Window] /\ call' \in [Session -> Call]
      /\ \A t \in Session : call'[t].at = "idle" => call'[t] = Idle
      /\ CallInv' /\ SessionInv'
  <2>1. \A g \in File : Dirty(g)' \/ SessionOf(s, g, c, w, disk'[g], seen'[g])
    OBVIOUS
  <2> QED BY <1>2, <2>1, SessionStep
<1>4. TypeOK'
  BY <1>3 DEF IInv, TypeOK
<1>5. NodeInv' /\ LostInv' /\ CopyInv'
  BY <1>1 DEF IInv, NodeInv, LostInv, CopyInv, CopyOf
<1> QED BY <1>3, <1>4, <1>5 DEF IInv

(* What the marks of a step are, and that they are well-formed.            *)
LEMMA MarksTyped ==
  ASSUME NEW s \in Session, NEW f \in File, NEW time
  PROVE  /\ Raced(s, f) \cup Lost(s, f) \cup Hasty(s, f, time) \cup Untimed(s, f)
              \cup {<<f, "short">>} \subseteq File \X Mark
         /\ \A g \in File : <<g, "lost">> \notin Raced(s, f) \cup Hasty(s, f, time)
                                                  \cup Untimed(s, f) \cup {<<f, "short">>}
         /\ \A g \in File : <<g, "lost">> \in Lost(s, f) => g = f
BY DEF Raced, Lost, Hasty, Untimed, Mark

(* A save that nobody has agreed to loses nothing, as far as times can tell.*)
LEMMA NothingLost ==
  ASSUME IInv, NEW s \in Session, NEW f \in File, call[s].file = f, call[s].at \in Replacing
  PROVE  Lost(s, f) = {} \/ Dirty(f)
BY OneSession DEF Lost, SessionOf, SafeOf

(* A window of s that has a name has a time, but while it is reloaded.     *)
LEMMA HasTime ==
  ASSUME IInv, NEW s \in Session, NEW f \in File, win[s].file = f,
         call[s].at \notin {"load", "reload", "reread"}
  PROVE  Dirty(f) \/ win[s].stat1 # 0
BY OneSession DEF SessionOf, KnownOf

-----------------------------------------------------------------------------
(* Opening and closing.                                                    *)

(* The file is opened or created for a window that s gets, or will get.    *)
LEMMA AccessStep ==
  ASSUME IInv, NEW s \in Session, NEW f \in File, NEW w \in Window, NEW c \in Call,
         win' = [win EXCEPT ![s] = w], call' = [call EXCEPT ![s] = c],
         UNCHANGED <<bak, now>>, CheckAccess(s, f), CallOf(c, w),
         w.file = f, c.at = "load" \/ (c.at = "reread" /\ call[s].at = "reload" /\ w = win[s])
  PROVE  IInv'
<1>0. call[s].at = "reload" => Dirty(f) \/ SessionOf(s, f, call[s], win[s], disk[f], seen[f])
  BY OneSession
<1>1. \A g \in File : Dirty(g) \/ SafeOf(s, g, c, w, disk[g], seen[g])
  BY DEF SafeOf, Replacing
<1>2. \A g \in File \ {f} : Dirty(g) \/ SessionOf(s, g, c, w, disk[g], seen[g])
  BY <1>1 DEF SessionOf, KnownOf
<1>3. CASE Present(disk[f])
  <2>1. UNCHANGED <<disk, historyVars>>
    BY <1>3 DEF CheckAccess
  <2>2. Dirty(f) \/ SessionOf(s, f, c, w, disk[f], seen[f])
    BY <1>0, <1>1 DEF SessionOf, KnownOf
  <2>3. \A g \in File : Dirty(g) \/ SessionOf(s, g, c, w, disk[g], seen[g])
    BY <1>2, <2>2
  <2> QED BY <2>1, <2>3, QuietStep
<1>4. CASE ~Present(disk[f])
  <2> DEFINE n == [is |-> "empty", mtime |-> now]
  <2>1. n \in Node /\ n.is = "empty" /\ n.mtime = now /\ now # 0
    BY DEF IInv, TypeOK, NodeInv, Node
  <2>2. /\ disk' = [disk EXCEPT ![f] = n] /\ seen' = [seen EXCEPT ![f] = {s}]
        /\ kept' = kept \ {f} /\ marks' = marks \cup Raced(s, f)
    BY <1>4 DEF CheckAccess, Puts, Marks
  <2> HIDE DEF n
  <2>3. /\ seen' \in [File -> SUBSET Session] /\ seen'[f] = {s}
        /\ \A g \in File \ {f} : seen'[g] = seen[g]
        /\ bak \subseteq File /\ kept \subseteq File /\ marks \subseteq File \X Mark
    BY <2>2 DEF IInv, TypeOK
  <2>4. \A g \in File : <<g, "lost">> \in marks' => <<g, "lost">> \in marks
    BY <2>2, MarksTyped
  <2>5. marks' \subseteq File \X Mark /\ marks \subseteq marks' /\ Raced(s, f) \subseteq marks'
    BY <2>2, <2>3, MarksTyped
  <2>6. Dirty(f)' \/ SessionOf(s, f, c, w, n, seen'[f])
    <3>1. SafeOf(s, f, c, w, n, seen'[f])
      BY DEF SafeOf, Replacing
    <3>2. KnownOf(s, f, c, w, n, seen'[f])
      BY <2>1, <2>3 DEF KnownOf
    <3> QED BY <3>1, <3>2 DEF SessionOf
  <2> QED BY <1>2, <2>1, <2>2, <2>3, <2>4, <2>5, <2>6, PutsStep
<1> QED BY <1>3, <1>4

(* Opening, and reloading after Save As.                                   *)
LEMMA OpenStep ==
  ASSUME IInv, NEW s \in Session, NEW f \in File, Open(s, f)
  PROVE  IInv'
<1> DEFINE w == [NoName EXCEPT !.file = f, !.stat1 = Accessed(f), !.new = ~Present(disk[f])]
           c == [Idle EXCEPT !.at = "load", !.file = f]
<1>1. /\ CheckAccess(s, f) /\ win' = [win EXCEPT ![s] = w] /\ call' = [call EXCEPT ![s] = c]
      /\ UNCHANGED <<bak, now>>
  BY DEF Open, Goes
<1>2. Accessed(f) \in Time /\ Accessed(f) # 0
  BY OneFile DEF Accessed, Present, IInv, TypeOK, NodeInv
<1>3. (~Present(disk[f])) \in BOOLEAN
  OBVIOUS
<1>4. w \in Window /\ w.file = f /\ w.open /\ w.stat1 # 0
  BY <1>2, <1>3, Constants DEF NoName, Closed, Window
<1>5. c \in Call /\ c.at = "load" /\ c.file = f /\ ~c.as
  BY Constants DEF Idle, Call, Place
<1> HIDE DEF w, c
<1>6. CallOf(c, w)
  BY <1>4, <1>5 DEF CallOf, Named, Saving, Replacing
<1> QED BY <1>1, <1>4, <1>5, <1>6, AccessStep

(* edit_reload.                                                            *)
LEMMA ReloadStep ==
  ASSUME IInv, NEW s \in Session, Reload(s)
  PROVE  IInv'
<1> DEFINE f == call[s].file
           c == [call[s] EXCEPT !.at = "reread", !.sb = Accessed(f), !.made = ~Present(disk[f])]
<1>1. /\ call[s].at = "reload" /\ CheckAccess(s, f) /\ call' = [call EXCEPT ![s] = c]
      /\ UNCHANGED <<bak, now, win>> /\ call[s] \in Call /\ win[s] \in Window
      /\ win' = [win EXCEPT ![s] = win[s]]
  BY OneSession DEF Reload, Goes, At, IInv, TypeOK
<1>2. f \in File /\ win[s].file = f
  BY <1>1, OneSession DEF CallOf, Named
<1>3. Accessed(f) \in Time /\ Accessed(f) # 0
  BY <1>2, OneFile DEF Accessed, Present, IInv, TypeOK, NodeInv
<1>4. (~Present(disk[f])) \in BOOLEAN
  OBVIOUS
<1>5. c \in Call /\ c.at = "reread" /\ c.file = f /\ c.as = call[s].as /\ c.sb # 0
  BY <1>1, <1>3, <1>4 DEF Call, Place
<1> HIDE DEF c
<1>6. CallOf(c, win[s])
  BY <1>1, <1>2, <1>5, OneSession DEF CallOf, Named, Saving, Replacing
<1> QED BY <1>1, <1>2, <1>5, <1>6, AccessStep

(* The file is there, and its window begins.                               *)
LEMMA LoadStep ==
  ASSUME IInv, NEW s \in Session, Load(s)
  PROVE  IInv'
<1> DEFINE f == call[s].file
<1>1. /\ call[s].at = "load" /\ seen' = [seen EXCEPT ![f] = @ \cup {s}]
      /\ call' = [call EXCEPT ![s] = Idle] /\ UNCHANGED <<disk, bak, now, win, kept, marks>>
      /\ win' = [win EXCEPT ![s] = win[s]] /\ win[s] \in Window
  BY OneSession DEF Load, Goes, At, IInv, TypeOK
<1>2. f \in File /\ win[s].file = f /\ win[s].open /\ win[s].stat1 # 0
  BY <1>1, OneSession DEF CallOf, Named
<1>3. /\ seen' \in [File -> SUBSET Session] /\ s \in seen'[f]
      /\ \A g \in File : seen[g] \subseteq seen'[g]
      /\ marks \subseteq File \X Mark
  BY <1>1, <1>2 DEF IInv, TypeOK
<1>5. CallOf(Idle, win[s])
  BY <1>2, OneSession, Constants DEF CallOf, Named, Saving, Replacing
<1>6. \A g \in File : SessionOf(s, g, Idle, win[s], disk[g], seen'[g])
  BY <1>2, <1>3, Constants, NoFileAssumption DEF SessionOf, KnownOf, SafeOf
<1> QED BY <1>1, <1>3, <1>5, <1>6, Constants, SeenStep

(* What the history forgets.                                               *)
LEMMA ForgottenSeen ==
  ASSUME IInv, NEW s \in Session, Forgotten(s)
  PROVE  /\ seen' \in [File -> SUBSET Session]
         /\ \A g \in File : seen[g] \ {s} \subseteq seen'[g]
BY DEF Forgotten, IInv, TypeOK

(* No window and no call go together,                                      *)
LEMMA ClosedCall == CallOf(Idle, Closed)
BY Constants DEF CallOf, Named, Saving, Replacing

(* and know nothing.                                                       *)
LEMMA ClosedKnows ==
  ASSUME NEW s, NEW g \in File, NEW n, NEW S
  PROVE  SessionOf(s, g, Idle, Closed, n, S)
BY Constants, NoFileAssumption DEF SessionOf, KnownOf, SafeOf

(* What cleaning a window that is marked new does to its file.             *)
LEMMA CleanedNew ==
  ASSUME IInv, NEW s \in Session, NEW f \in File, win[s].new, Cleaned(s, f)
  PROVE  /\ Absent \in Node /\ Absent.is = "absent" /\ Absent.mtime = 0
         /\ disk' = [disk EXCEPT ![f] = Absent]
         /\ kept' \subseteq File /\ kept' \ {f} \subseteq kept
         /\ f \in kept' => CopyOf(f, Absent, bak, marks')
         /\ marks' \subseteq File \X Mark /\ marks \subseteq marks' /\ Raced(s, f) \subseteq marks'
         /\ \A g \in File : <<g, "lost">> \in marks' => <<g, "lost">> \in marks
<1>1. Absent \in Node /\ Absent.is = "absent" /\ Absent.mtime = 0
  BY Constants DEF Absent, Node
<1>2. /\ disk' = [disk EXCEPT ![f] = Absent]
      /\ kept' = IF disk[f].is = "saved" THEN kept \ {f} ELSE kept
      /\ marks' = marks \cup (Raced(s, f) \cup
                              IF disk[f].is = "saved" THEN {<<f, "removed">>} ELSE {})
  BY DEF Cleaned, Marks
<1>3. kept \subseteq File /\ marks \subseteq File \X Mark
  BY DEF IInv, TypeOK
<1>4. f \in kept' => CopyOf(f, Absent, bak, marks')
  BY <1>1, <1>2 DEF IInv, CopyInv, CopyOf
<1>5. <<f, "removed">> \in File \X Mark /\ \A g : <<g, "lost">> # <<f, "removed">>
  BY DEF Mark
<1>6. /\ marks' \subseteq File \X Mark
      /\ \A g \in File : <<g, "lost">> \in marks' => <<g, "lost">> \in marks
  BY <1>2, <1>3, <1>5, MarksTyped
<1> QED BY <1>1, <1>2, <1>3, <1>4, <1>6

(* A window goes, with its file if that is marked new.                     *)
LEMMA CleanStep ==
  ASSUME IInv, NEW s \in Session, Cleaned(s, win[s].file), Forgotten(s),
         win' = [win EXCEPT ![s] = Closed], Goes(s, Idle), UNCHANGED <<bak, now>>
  PROVE  IInv'
<1>1. call' = [call EXCEPT ![s] = Idle] /\ Closed \in Window /\ Idle \in Call
  BY Constants DEF Goes
<1>2. /\ \A g \in File : SessionOf(s, g, Idle, Closed, disk[g], seen'[g])
      /\ \A g \in File : SessionOf(s, g, Idle, Closed, Absent, seen'[g])
  BY ClosedKnows
<1>3. CASE ~win[s].new
  <2>1. UNCHANGED <<disk, kept, marks>> /\ marks \subseteq File \X Mark
    BY <1>3 DEF Cleaned, IInv, TypeOK
  <2> QED BY <1>1, <1>2, <2>1, ClosedCall, ForgottenSeen, SeenStep
<1>4. CASE win[s].new
  <2> DEFINE f == win[s].file
  <2>1. f \in File
    BY <1>4, OneSession DEF CallOf
  <2> HIDE DEF f
  <2>3. /\ Absent \in Node /\ Absent.is = "absent" /\ Absent.mtime = 0
        /\ disk' = [disk EXCEPT ![f] = Absent]
        /\ kept' \subseteq File /\ kept' \ {f} \subseteq kept
        /\ f \in kept' => CopyOf(f, Absent, bak, marks')
        /\ marks' \subseteq File \X Mark /\ marks \subseteq marks' /\ Raced(s, f) \subseteq marks'
        /\ \A g \in File : <<g, "lost">> \in marks' => <<g, "lost">> \in marks
    BY <1>4, <2>1, CleanedNew DEF f
  <2>4. bak' \subseteq File /\ bak' = bak
    BY DEF IInv, TypeOK
  <2> QED BY <1>1, <1>2, <2>1, <2>3, <2>4, ClosedCall, ForgottenSeen, PutsStep
<1> QED BY <1>3, <1>4

(* Closing, a failed load, and a crash.                                    *)
LEMMA EndSteps ==
  ASSUME IInv, NEW s \in Session, LoadFails(s) \/ Destroy(s) \/ Crash(s)
  PROVE  IInv'
<1>1. CASE LoadFails(s)
  <2>1. call[s].file = win[s].file
    BY <1>1, OneSession DEF LoadFails, At, CallOf
  <2> QED BY <1>1, <2>1, CleanStep DEF LoadFails
<1>2. CASE Destroy(s)
  BY <1>2, CleanStep DEF Destroy
<1>3. CASE Crash(s)
  <2>1. /\ call' = [call EXCEPT ![s] = Idle] /\ win' = [win EXCEPT ![s] = Closed]
        /\ UNCHANGED <<disk, bak, now, kept, marks>> /\ marks \subseteq File \X Mark
    BY <1>3 DEF Crash, Goes, IInv, TypeOK
  <2>2. \A g \in File : SessionOf(s, g, Idle, Closed, disk[g], seen'[g])
    BY ClosedKnows
  <2>4. Forgotten(s)
    BY <1>3 DEF Crash
  <2> QED BY <2>1, <2>2, <2>4, Constants, ClosedCall, ForgottenSeen, SeenStep
<1> QED BY <1>1, <1>2, <1>3

-----------------------------------------------------------------------------
(* Writing.                                                                *)

(* The window and the call after a save that has written.                  *)
LEMMA DoneEnds ==
  ASSUME IInv, NEW s \in Session, NEW w \in Window, w.open, call[s].file \in File, Done(s, w)
  PROVE  \E v \in Window : \E c \in Call :
           /\ win' = [win EXCEPT ![s] = v] /\ call' = [call EXCEPT ![s] = c]
           /\ CallOf(c, v) /\ v.file = call[s].file /\ v.stat1 = w.stat1
           /\ c.at \in {"reload", "idle", "closing"} /\ c.file \in {call[s].file, NoFile}
           /\ c.at = "reload" \/ ~Rereads(s)
<1> DEFINE f == call[s].file
           v == [w EXCEPT !.file = f]
<1>1. call[s] \in Call /\ call[s].closing \in BOOLEAN
  BY OneSession DEF Call
<1>2. v \in Window /\ v.open /\ v.file = f /\ v.stat1 = w.stat1
  BY DEF Window
<1>3. CASE Rereads(s)
  <2> DEFINE c == [Idle EXCEPT !.at = "reload", !.file = f, !.closing = call[s].closing]
  <2>1. win' = [win EXCEPT ![s] = v] /\ call' = [call EXCEPT ![s] = c]
    BY <1>2, <1>3 DEF Done, Reloads, Goes
  <2>2. c \in Call /\ c.at = "reload" /\ c.file = f /\ ~c.as
    BY <1>1, Constants DEF Idle, Call, Place
  <2> HIDE DEF c, v, f
  <2>3. CallOf(c, v)
    BY <1>2, <2>2 DEF CallOf, Named, Saving, Replacing, f
  <2> QED BY <1>2, <2>1, <2>2, <2>3 DEF f
<1>4. CASE ~Rereads(s)
  <2> DEFINE u == [v EXCEPT !.modified = FALSE, !.new = FALSE]
  <2>1. win' = [win EXCEPT ![s] = u] /\ SaveReturns(s, TRUE)
    BY <1>2, <1>4 DEF Done
  <2>2. u \in Window /\ u.open /\ u.file = f /\ u.stat1 = w.stat1 /\ ~u.new
    BY <1>2 DEF Window
  <2>3. PICK c \in Call : Goes(s, c) /\ c.at \in {"idle", "closing"} /\ c.file = NoFile /\ ~c.as
                           /\ (c.at = "idle" => c = Idle)
    BY <2>1, Returns
  <2>4. call' = [call EXCEPT ![s] = c]
    BY <2>3 DEF Goes
  <2> HIDE DEF u, v, f
  <2>5. CallOf(c, u)
    BY <2>2, <2>3 DEF CallOf, Named, Saving, Replacing
  <2> QED BY <1>4, <2>1, <2>2, <2>3, <2>4, <2>5 DEF f
<1> QED BY <1>3, <1>4

(* s puts n at its file, and the save goes on or is over.                  *)
LEMMA ReplaceStep ==
  ASSUME IInv, NEW s \in Session, NEW f \in File, NEW n \in Node, NEW w \in Window,
         NEW c \in Call, call[s].at \in Replacing, call[s].file = f,
         disk' = [disk EXCEPT ![f] = n], seen' = [seen EXCEPT ![f] = {s}],
         kept' \subseteq File, kept' \ {f} \subseteq kept, n.is = "absent" <=> n.mtime = 0,
         UNCHANGED now, win' = [win EXCEPT ![s] = w], call' = [call EXCEPT ![s] = c],
         bak' \subseteq File, bak \ {f} \subseteq bak',
         marks \subseteq marks', marks' \subseteq marks \cup Raced(s, f) \cup Lost(s, f)
                                                  \cup Hasty(s, f, n.mtime)
                                                  \cup Untimed(s, f) \cup {<<f, "short">>},
         Raced(s, f) \subseteq marks',
         n.is \in {"absent", "empty"} \/ Hasty(s, f, n.mtime) \subseteq marks',
         f \in kept' => CopyOf(f, n, bak', marks'),
         CallOf(c, w), c.file \in {f, NoFile},
         c.at = "restat" => n.is # "absent", c.at \notin {"load", "links", "stat"},
         w # win[s] => w.file = f,
         w.file = f => w.stat1 # 0 \/ Dirty(f)' \/ c.at = "reload"
  PROVE  IInv'
<1>1. marks \subseteq File \X Mark
  BY DEF IInv, TypeOK
<1>2. /\ seen' \in [File -> SUBSET Session] /\ seen'[f] = {s}
      /\ \A g \in File \ {f} : seen'[g] = seen[g]
  BY <1>1 DEF IInv, TypeOK
<1>3. marks' \subseteq File \X Mark
  BY <1>1, MarksTyped
<1>4. Dirty(f) => Dirty(f)'
  BY DirtyStays
<1>5. \A g \in File : <<g, "lost">> \in marks' => <<g, "lost">> \in marks \/ Dirty(g)'
  <2>1. Lost(s, f) = {} \/ Dirty(f)'
    BY <1>4, NothingLost
  <2> QED BY <2>1, MarksTyped
<1>6. call[s].at \notin {"load", "reload", "reread"}
  BY DEF Replacing
<1>7. \A g \in File : SafeOf(s, g, c, w, n, seen'[f]) \/ g # f
  BY <1>2 DEF SafeOf
<1>8. \A g \in File \ {f} : Dirty(g) \/ SessionOf(s, g, c, w, disk[g], seen'[g])
  <2> TAKE g \in File \ {f}
  <2>1. SafeOf(s, g, c, w, disk[g], seen'[g])
    BY NoFileAssumption DEF SafeOf
  <2>2. Dirty(g) \/ KnownOf(s, g, c, w, disk[g], seen'[g])
    BY <1>2, <1>6, OneSession DEF SessionOf, KnownOf
  <2> QED BY <2>1, <2>2 DEF SessionOf
<1>9. Dirty(f)' \/ SessionOf(s, f, c, w, n, seen'[f])
  <2>1. SafeOf(s, f, c, w, n, seen'[f])
    BY <1>7
  <2>2. Dirty(f)' \/ KnownOf(s, f, c, w, n, seen'[f])
    BY <1>2, <1>4 DEF KnownOf
  <2> QED BY <2>1, <2>2 DEF SessionOf
<1>11. \A g \in File \ {f} : seen[g] \ {s} \subseteq seen'[g]
  BY <1>2
<1> QED BY <1>2, <1>3, <1>5, <1>8, <1>9, <1>11, PutsStep, ZenonT(30)

(* A window that has no time for what it has saved is marked.              *)
LEMMA NoTime ==
  ASSUME NEW s \in Session, NEW f \in File, Untimed(s, f) \subseteq marks',
         win[s].stat1 = 0, ~Rereads(s)
  PROVE  Dirty(f)'
<1>1. <<f, "untimed">> \in marks'
  BY DEF Untimed
<1>2. <<f, "untimed">> \in marks' => Dirty(f)'
  BY DEF Dirty
<1> QED BY <1>1, <1>2

(* The file is truncated.                                                  *)
LEMMA CreateStep ==
  ASSUME IInv, NEW s \in Session, Create(s), Direct(s)
  PROVE  IInv'
<1>0. PICK f \in File : f = call[s].file
  BY OneSession DEF Create, At, CallOf, Named
<1> DEFINE n == [is |-> "partial", mtime |-> now]
           c == [call[s] EXCEPT !.at = "write"]
<1>1. /\ call[s].at = "create" /\ call[s] \in Call /\ win[s] \in Window
      /\ disk' = [disk EXCEPT ![f] = n] /\ seen' = [seen EXCEPT ![f] = {s}]
      /\ kept' = kept \ {f} /\ call' = [call EXCEPT ![s] = c]
      /\ marks' = marks \cup (Raced(s, f) \cup Lost(s, f) \cup Hasty(s, f, now))
      /\ UNCHANGED <<bak, now, win>> /\ win' = [win EXCEPT ![s] = win[s]]
  BY <1>0, OneSession DEF Create, Puts, At, To, Goes, Marks, IInv, TypeOK
<1>2. f \in File /\ bak \subseteq File /\ kept \subseteq File /\ now \in Time /\ now # 0
  BY <1>0, <1>1, OneSession DEF CallOf, Named, IInv, TypeOK, NodeInv
<1>3. n \in Node /\ n.is = "partial" /\ n.mtime = now
  BY <1>2 DEF Node
<1>4. c \in Call /\ c.at = "write" /\ c.file = f /\ c.as = call[s].as
  BY <1>0, <1>1 DEF Call, Place
<1> HIDE DEF c, n
<1>5. CallOf(c, win[s])
  BY <1>0, <1>1, <1>4, OneSession DEF CallOf, Named, Saving, Replacing
<1>6. call[s].at \in Replacing
  BY <1>1 DEF Replacing
<1>7. win[s].file = f => win[s].stat1 # 0 \/ Dirty(f)'
  <2>1. Dirty(f) => Dirty(f)'
    BY <1>1, DirtyStays
  <2> QED BY <1>1, <1>2, <2>1, HasTime
<1>8. /\ marks \subseteq marks' /\ Raced(s, f) \subseteq marks'
      /\ marks' \subseteq marks \cup Raced(s, f) \cup Lost(s, f) \cup Hasty(s, f, n.mtime)
                               \cup Untimed(s, f) \cup {<<f, "short">>}
      /\ Hasty(s, f, n.mtime) \subseteq marks'
      /\ kept' \subseteq File /\ kept' \ {f} \subseteq kept /\ f \notin kept'
      /\ bak' \subseteq File /\ bak \ {f} \subseteq bak'
  BY <1>1, <1>2, <1>3
<1> QED BY <1>0, <1>1, <1>2, <1>3, <1>4, <1>5, <1>6, <1>7, <1>8, ReplaceStep

(* The file is written, as a whole or not.                                *)
LEMMA WriteStep ==
  ASSUME IInv, NEW s \in Session, NEW filter \in BOOLEAN, NEW whole \in BOOLEAN,
         Write(s, filter, whole), Direct(s)
  PROVE  IInv'
<1>0. PICK f \in File : f = call[s].file
  BY OneSession DEF Write, At, CallOf, Named
<1> DEFINE n == [is |-> IF whole THEN "saved" ELSE "partial", mtime |-> now]
           d == [call[s] EXCEPT !.temp = 0]
           c == [d EXCEPT !.at = "restat"]
           u == IF Checked(s, filter) THEN {} ELSE Untimed(s, f)
<1>1. /\ call[s].at = "write" /\ call[s] \in Call /\ win[s] \in Window
      /\ disk' = [disk EXCEPT ![f] = n] /\ seen' = [seen EXCEPT ![f] = {s}]
      /\ kept' = IF whole THEN kept \cup {f} ELSE kept \ {f}
      /\ bak' = bak \ {f} /\ UNCHANGED now
      /\ marks' = marks \cup (Raced(s, f) \cup Hasty(s, f, now) \cup u)
      /\ IF Checked(s, filter) THEN Goes(s, c) /\ UNCHANGED win ELSE Done(s, win[s])
  BY <1>0, OneSession DEF Write, Puts, At, GoesOn, Marks
<1>2. /\ f \in File /\ bak \subseteq File /\ kept \subseteq File
      /\ now \in Time /\ now # 0 /\ win[s].open
  BY <1>0, <1>1, OneSession DEF CallOf, Named, IInv, TypeOK, NodeInv
<1>3. /\ n \in Node /\ n.is \in {"saved", "partial"} /\ n.mtime = now
      /\ f \in kept' => CopyOf(f, n, bak', marks')
  BY <1>1, <1>2 DEF Node, CopyOf
<1>4. /\ c \in Call /\ c.at = "restat" /\ c.file = f /\ c.as = call[s].as
      /\ c.mode = call[s].mode
  BY <1>0, <1>1, Constants DEF Call, Place
<1> HIDE DEF c, d, n
<1>5. call[s].at \in Replacing
  BY <1>1 DEF Replacing
<1>6. CASE Checked(s, filter)
  <2>1. CallOf(c, win[s])
    BY <1>0, <1>1, <1>4, OneSession DEF CallOf, Named, Saving, Replacing, Direct
  <2>2. win' = [win EXCEPT ![s] = win[s]] /\ call' = [call EXCEPT ![s] = c]
    BY <1>1, <1>6 DEF Goes, IInv, TypeOK
  <2>3. Dirty(f) => Dirty(f)'
    BY <1>1, DirtyStays
  <2>4. win[s].file = f => win[s].stat1 # 0 \/ Dirty(f)'
    BY <1>1, <1>2, <2>3, HasTime
  <2> QED BY <1>0, <1>1, <1>2, <1>3, <1>4, <1>5, <1>6, <2>1, <2>2, <2>4, ReplaceStep
<1>7. CASE ~Checked(s, filter)
  <2>1. PICK v \in Window, e \in Call :
           /\ win' = [win EXCEPT ![s] = v] /\ call' = [call EXCEPT ![s] = e]
           /\ CallOf(e, v) /\ v.file = f /\ v.stat1 = win[s].stat1
           /\ e.at \in {"reload", "idle", "closing"} /\ e.file \in {f, NoFile}
           /\ e.at = "reload" \/ ~Rereads(s)
    BY <1>0, <1>1, <1>2, <1>7, DoneEnds
  <2>2. v.stat1 # 0 \/ Dirty(f)' \/ e.at = "reload"
    BY <1>1, <1>2, <1>7, <2>1, NoTime
  <2> QED BY <1>0, <1>1, <1>2, <1>3, <1>5, <1>7, <2>1, <2>2, ReplaceStep
<1> QED BY <1>6, <1>7

(* The file is moved to its backup.                                        *)
LEMMA BackupStep ==
  ASSUME IInv, NEW s \in Session, Backup(s)
  PROVE  IInv'
<1>0. PICK f \in File : f = call[s].file
  BY OneSession DEF Backup, At, CallOf, Named
<1> DEFINE c == [call[s] EXCEPT !.at = "rename"]
<1>1. /\ call[s].at = "backup" /\ call[s] \in Call /\ win[s] \in Window
      /\ Present(disk[f]) /\ call' = [call EXCEPT ![s] = c]
      /\ disk' = [disk EXCEPT ![f] = Absent] /\ seen' = [seen EXCEPT ![f] = {s}]
      /\ bak' = IF disk[f].is = "saved" THEN bak \cup {f} ELSE bak \ {f}
      /\ marks' = marks \cup (Raced(s, f) \cup Lost(s, f) \cup Short(f, disk[f].is = "partial"))
      /\ UNCHANGED <<now, win>> /\ win' = [win EXCEPT ![s] = win[s]]
  BY <1>0, OneSession DEF Backup, Puts, At, To, Goes, Marks, IInv, TypeOK
<1>2. f \in File /\ bak \subseteq File
  BY <1>0, <1>1, OneSession DEF CallOf, Named, IInv, TypeOK
<1>3. Absent \in Node /\ Absent.is = "absent" /\ Absent.mtime = 0
  BY Constants DEF Absent, Node
<1>4. /\ c \in Call /\ c.at = "rename" /\ c.file = f /\ c.as = call[s].as
      /\ c.temp = call[s].temp
  BY <1>0, <1>1 DEF Call, Place
<1> HIDE DEF c
<1>5. CallOf(c, win[s])
  BY <1>0, <1>1, <1>4, OneSession DEF CallOf, Named, Saving, Replacing
<1>6. call[s].at \in Replacing
  BY <1>1 DEF Replacing
<1>7. bak' \subseteq File /\ bak \ {f} \subseteq bak'
  BY <1>1, <1>2
<1>8. f \in kept => CopyOf(f, Absent, bak', marks')
  <2>1. f \in kept => CopyOf(f, disk[f], bak, marks)
    BY DEF IInv, CopyInv
  <2>2. disk[f].is = "partial" => <<f, "short">> \in marks'
    BY <1>1 DEF Short
  <2>3. disk[f].is # "absent"
    BY <1>1, <1>2, OneFile
  <2>4. disk[f].is = "saved" => f \in bak'
    BY <1>1
  <2> QED BY <1>1, <1>3, <2>1, <2>2, <2>3, <2>4 DEF CopyOf
<1>9. /\ marks \subseteq marks' /\ Raced(s, f) \subseteq marks'
      /\ marks' \subseteq marks \cup Raced(s, f) \cup Lost(s, f) \cup Hasty(s, f, Absent.mtime)
                               \cup Untimed(s, f) \cup {<<f, "short">>}
  BY <1>1 DEF Short
<1>10. kept' = kept /\ kept \subseteq File
  BY <1>0, <1>2 DEF Backup, Puts, IInv, TypeOK
<1>11. win[s].file = f => win[s].stat1 # 0 \/ Dirty(f)'
  <2>1. Dirty(f) => Dirty(f)'
    BY <1>1, DirtyStays
  <2> QED BY <1>1, <1>2, <2>1, HasTime
<1> QED
  BY <1>0, <1>1, <1>2, <1>3, <1>4, <1>5, <1>6, <1>7, <1>8, <1>9, <1>10, <1>11, ReplaceStep

(* The temporary file takes the place of the file, as a whole or not.      *)
LEMMA RenameStep ==
  ASSUME IInv, NEW s \in Session, Rename(s)
  PROVE  IInv'
<1>0. PICK f \in File : f = call[s].file
  BY OneSession DEF Rename, At, CallOf, Named
<1> DEFINE short == call[s].short
           n == [is |-> IF short THEN "partial" ELSE "saved", mtime |-> call[s].temp]
<1>1. /\ call[s].at = "rename" /\ call[s] \in Call /\ win[s] \in Window
      /\ disk' = [disk EXCEPT ![f] = n] /\ seen' = [seen EXCEPT ![f] = {s}]
      /\ kept' = (IF ~short \/ f \in kept THEN kept \cup {f} ELSE kept \ {f})
      /\ bak' = (IF short THEN bak ELSE bak \ {f}) /\ UNCHANGED now
      /\ marks' = marks \cup (Raced(s, f) \cup Lost(s, f) \cup Hasty(s, f, call[s].temp)
                              \cup Untimed(s, f) \cup Short(f, short /\ f \notin bak))
      /\ Done(s, win[s])
  BY <1>0, OneSession DEF Rename, Puts, At, Marks
<1>2. /\ f \in File /\ bak \subseteq File /\ kept \subseteq File /\ win[s].open
      /\ call[s].temp # 0 /\ short \in BOOLEAN
  BY <1>0, <1>1, OneSession DEF CallOf, Named, IInv, TypeOK, Call
<1>3. /\ n \in Node /\ n.is \in {"saved", "partial"} /\ n.mtime = call[s].temp
      /\ n.is = "partial" <=> short
  BY <1>1, <1>2 DEF Node, Call
<1>4. call[s].at \in Replacing
  BY <1>1 DEF Replacing
<1>5. f \in kept' => CopyOf(f, n, bak', marks')
  <2>1. CASE short /\ f \notin bak
    <3>1. <<f, "short">> \in marks'
      BY <1>1, <2>1 DEF Short
    <3> QED BY <3>1 DEF CopyOf
  <2>2. CASE ~(short /\ f \notin bak)
    BY <1>1, <1>3, <2>2 DEF CopyOf
  <2> QED BY <2>1, <2>2
<1> HIDE DEF n, short
<1>6. PICK v \in Window, e \in Call :
         /\ win' = [win EXCEPT ![s] = v] /\ call' = [call EXCEPT ![s] = e]
         /\ CallOf(e, v) /\ v.file = f /\ v.stat1 = win[s].stat1
         /\ e.at \in {"reload", "idle", "closing"} /\ e.file \in {f, NoFile}
         /\ e.at = "reload" \/ ~Rereads(s)
  BY <1>0, <1>1, <1>2, DoneEnds
<1>7. v.stat1 # 0 \/ Dirty(f)' \/ e.at = "reload"
  BY <1>1, <1>2, <1>6, NoTime
<1>8. /\ marks \subseteq marks' /\ Raced(s, f) \subseteq marks'
      /\ marks' \subseteq marks \cup Raced(s, f) \cup Lost(s, f) \cup Hasty(s, f, n.mtime)
                               \cup Untimed(s, f) \cup {<<f, "short">>}
      /\ Hasty(s, f, n.mtime) \subseteq marks'
      /\ kept' \subseteq File /\ kept' \ {f} \subseteq kept
      /\ bak' \subseteq File /\ bak \ {f} \subseteq bak'
  BY <1>1, <1>2, <1>3 DEF Short
<1> QED BY <1>0, <1>1, <1>2, <1>3, <1>4, <1>5, <1>6, <1>7, <1>8, ReplaceStep, ZenonT(30)

-----------------------------------------------------------------------------
(* The time of what was written, and reloading.                            *)

(* A time is taken that what is there has only if s has seen it, or by     *)
(* mistake.                                                                *)
LEMMA TakesTime ==
  ASSUME IInv, NEW s \in Session, NEW w \in Window, NEW c \in Call,
         win' = [win EXCEPT ![s] = w], call' = [call EXCEPT ![s] = c],
         UNCHANGED <<disk, bak, now, kept, seen>>,
         marks' = marks \cup Mistakes(s, w.file, w.stat1), CallOf(c, w), w.stat1 # 0,
         \A f \in File : Dirty(f) \/ SafeOf(s, f, c, w, disk[f], seen[f])
  PROVE  IInv'
<1>1. seen' \in [File -> SUBSET Session] /\ marks \subseteq File \X Mark
  BY DEF IInv, TypeOK
<1>2. /\ marks' \subseteq File \X Mark /\ marks \subseteq marks'
      /\ \A g \in File : <<g, "lost">> \in marks' => <<g, "lost">> \in marks
  <2>1. w.file = NoFile \/ w.file \in File
    BY DEF Window
  <2> QED BY <1>1, <2>1 DEF Mistakes, Mark
<1>3. \A f \in File : Dirty(f)' \/ SessionOf(s, f, c, w, disk[f], seen'[f])
  <2> TAKE f \in File
  <2>1. Dirty(f) => Dirty(f)'
    BY <1>2, DirtyStays
  <2>2. Dirty(f)' \/ KnownOf(s, f, c, w, disk[f], seen'[f])
    <3>1. (w.file = f /\ w.stat1 = disk[f].mtime /\ s \notin seen[f]) => Dirty(f)'
      BY NoFileAssumption DEF Mistakes, Dirty, Present
    <3> QED BY <3>1 DEF KnownOf
  <2> QED BY <2>1, <2>2 DEF SessionOf
<1> QED BY <1>1, <1>2, <1>3, SeenStep

(* "Update the file information, especially the mtime."                    *)
LEMMA RestatStep ==
  ASSUME IInv, NEW s \in Session, Restat(s)
  PROVE  IInv'
<1> DEFINE f == call[s].file
           time == IF Direct(s) THEN disk[f].mtime ELSE call[s].temp
           w == [win[s] EXCEPT !.stat1 = time]
<1>1. /\ call[s].at = "restat" /\ call[s] \in Call /\ win[s] \in Window
      /\ UNCHANGED <<disk, bak, now, kept, seen>>
      /\ marks' = marks \cup Mistakes(s, win'[s].file, time)
      /\ win \in [Session -> Window]
  BY OneSession DEF Restat, At, Marks, IInv, TypeOK
<1>2. f \in File /\ win[s].open
  BY <1>1, OneSession DEF CallOf, Named
<1>3. time \in Time
  BY <1>1, <1>2, OneFile DEF Call
<1>4. w \in Window /\ w.file = win[s].file /\ w.stat1 = time /\ w.open
      /\ w.new = win[s].new
  BY <1>1, <1>2, <1>3 DEF Window
<1>5. CASE time # 0
  <2>1. GoesOn(s, w, call[s])
    BY <1>5 DEF Restat
  <2> HIDE DEF w, time
  <2>2. CASE Direct(s)
    <3>1. Done(s, w)
      BY <2>1, <2>2 DEF GoesOn
    <3>2. PICK v \in Window, e \in Call :
             /\ win' = [win EXCEPT ![s] = v] /\ call' = [call EXCEPT ![s] = e]
             /\ CallOf(e, v) /\ v.file = f /\ v.stat1 = w.stat1
             /\ e.at \in {"reload", "idle", "closing"} /\ e.file \in {f, NoFile}
      BY <1>2, <1>4, <3>1, DoneEnds
    <3>3. win'[s] = v
      BY <1>1, <3>2
    <3>4. \A g \in File : SafeOf(s, g, e, v, disk[g], seen[g])
      BY <3>2 DEF SafeOf, Replacing
    <3> QED BY <1>1, <1>4, <1>5, <3>2, <3>3, <3>4, TakesTime
  <2>3. CASE ~Direct(s)
    <3> DEFINE c == [call[s] EXCEPT !.at = IF call[s].mode = "backup" THEN "backup" ELSE "rename"]
    <3>1. win' = [win EXCEPT ![s] = w] /\ call' = [call EXCEPT ![s] = c]
      BY <2>1, <2>3 DEF GoesOn, Goes
    <3>2. /\ c \in Call /\ c.at \in {"backup", "rename"} /\ c.file = f /\ c.as = call[s].as
          /\ c.temp = call[s].temp /\ c.agreed = call[s].agreed
      BY <1>1 DEF Call, Place
    <3>3. win'[s] = w
      BY <1>1, <3>1
    <3> HIDE DEF c
    <3>4. CallOf(c, w)
      BY <1>1, <1>2, <1>4, <1>5, <2>3, <3>2, OneSession
         DEF CallOf, Named, Saving, Replacing, Direct
    <3>5. \A g \in File : Dirty(g) \/ SafeOf(s, g, c, w, disk[g], seen[g])
      BY <1>1, <3>2, OneSession DEF SessionOf, SafeOf, Replacing
    <3> QED BY <1>1, <1>4, <1>5, <3>1, <3>2, <3>3, <3>4, <3>5, TakesTime
  <2> QED BY <2>2, <2>3
<1>6. CASE time = 0
  <2>1. Mistakes(s, win'[s].file, time) = {}
    BY <1>6 DEF Mistakes, Present
  <2>2. UNCHANGED historyVars
    BY <1>1, <2>1 DEF historyVars
  <2>3. CASE call[s].mode = "sudo"
    <3>1. Done(s, win[s])
      BY <1>6, <2>3 DEF Restat, GoesOn, Direct
    <3>2. PICK v \in Window, e \in Call :
             /\ win' = [win EXCEPT ![s] = v] /\ call' = [call EXCEPT ![s] = e]
             /\ CallOf(e, v) /\ v.file = f
             /\ e.at \in {"reload", "idle", "closing"} /\ e.file \in {f, NoFile}
      BY <1>1, <1>2, <3>1, DoneEnds
    <3>3. disk[f].is = "absent"
      BY <1>2, <1>6, <2>3, OneFile DEF Direct
    <3>4. Dirty(f)
      BY <1>1, <1>2, <2>3, <3>3, OneSession DEF SessionOf, SafeOf
    <3>5. \A g \in File : Dirty(g) \/ SessionOf(s, g, e, v, disk[g], seen[g])
      BY <3>2, <3>4 DEF SessionOf, KnownOf, SafeOf, Replacing
    <3> QED BY <1>1, <2>2, <3>2, <3>5, QuietStep
  <2>4. CASE call[s].mode # "sudo"
    <3>1. Failed(s, FALSE) /\ UNCHANGED win
      BY <1>6, <2>4 DEF Restat
    <3>2. call[s].at \in Replacing
      BY <1>1 DEF Replacing
    <3> QED BY <1>1, <2>2, <3>1, <3>2, FailedStep
  <2> QED BY <2>3, <2>4
<1> QED BY <1>5, <1>6

(* The window becomes that of what was loaded again.                       *)
LEMMA RereadStep ==
  ASSUME IInv, NEW s \in Session, Reread(s)
  PROVE  IInv'
<1> DEFINE f == call[s].file
           w == [NoName EXCEPT !.file = f, !.stat1 = call[s].sb]
<1>1. /\ call[s].at = "reread" /\ call[s] \in Call /\ Cleaned(s, f)
      /\ seen' = [seen EXCEPT ![f] = @ \cup {s}] /\ win' = [win EXCEPT ![s] = w]
      /\ SaveReturns(s, TRUE) /\ UNCHANGED <<bak, now>>
  BY OneSession DEF Reread, At
<1>2. f \in File /\ call[s].sb # 0 /\ win[s].file = f
  BY <1>1, OneSession DEF CallOf, Named
<1>3. w \in Window /\ w.file = f /\ w.stat1 # 0 /\ w.open /\ ~w.new
  BY <1>1, <1>2, Constants DEF NoName, Closed, Window, Call
<1>4. PICK c \in Call : Goes(s, c) /\ c.at \in {"idle", "closing"} /\ c.file = NoFile /\ ~c.as
                         /\ (c.at = "idle" => c = Idle)
  BY <1>1, Returns
<1>5. call' = [call EXCEPT ![s] = c]
  BY <1>4 DEF Goes
<1> HIDE DEF w
<1>6. CallOf(c, w)
  BY <1>3, <1>4 DEF CallOf, Named, Saving, Replacing
<1>7. /\ seen' \in [File -> SUBSET Session] /\ s \in seen'[f]
      /\ \A g \in File : seen[g] \ {s} \subseteq seen'[g]
      /\ bak \subseteq File /\ marks \subseteq File \X Mark
  BY <1>1, <1>2 DEF IInv, TypeOK
<1>8. \A n : SessionOf(s, f, c, w, n, seen'[f])
  BY <1>3, <1>4, <1>7 DEF SessionOf, KnownOf, SafeOf, Replacing
<1>9. \A g \in File \ {f} : SessionOf(s, g, c, w, disk[g], seen'[g])
  BY <1>3, <1>4, NoFileAssumption DEF SessionOf, KnownOf, SafeOf
<1>10. CASE ~win[s].new
  <2>1. UNCHANGED <<disk, kept, marks>>
    BY <1>1, <1>10 DEF Cleaned
  <2>3. \A g \in File : SessionOf(s, g, c, w, disk[g], seen'[g])
    BY <1>8, <1>9
  <2> QED BY <1>1, <1>3, <1>4, <1>5, <1>6, <1>7, <2>1, <2>3, SeenStep
<1>11. CASE win[s].new
  <2> HIDE DEF f
  <2>2. /\ Absent \in Node /\ Absent.is = "absent" /\ Absent.mtime = 0
        /\ disk' = [disk EXCEPT ![f] = Absent]
        /\ kept' \subseteq File /\ kept' \ {f} \subseteq kept
        /\ f \in kept' => CopyOf(f, Absent, bak, marks')
        /\ marks' \subseteq File \X Mark /\ marks \subseteq marks' /\ Raced(s, f) \subseteq marks'
        /\ \A g \in File : <<g, "lost">> \in marks' => <<g, "lost">> \in marks
    BY <1>1, <1>2, <1>11, CleanedNew
  <2>3. bak' \subseteq File /\ bak' = bak
    BY <1>1, <1>7
  <2> QED BY <1>1, <1>2, <1>3, <1>4, <1>5, <1>6, <1>7, <1>8, <1>9, <2>2, <2>3, PutsStep
<1> QED BY <1>10, <1>11

(* It could not be loaded: the window goes on with the time it had.        *)
LEMMA RereadFailsStep ==
  ASSUME IInv, NEW s \in Session, RereadFails(s)
  PROVE  IInv'
<1>0. PICK f \in File : f = call[s].file
  BY OneSession DEF RereadFails, At, CallOf, Named
<1> DEFINE w == [win[s] EXCEPT !.modified = FALSE, !.new = FALSE]
<1>1. /\ call[s].at = "reread" /\ call[s] \in Call /\ win[s] \in Window
      /\ SaveReturns(s, TRUE) /\ UNCHANGED <<bak, now>>
      /\ win' = [win EXCEPT ![s] = w]
      /\ IF call[s].made
         THEN Puts(s, f, Absent, FALSE) /\ marks' = marks \cup (Raced(s, f) \cup Untimed(s, f))
         ELSE marks' = marks \cup Untimed(s, f) /\ UNCHANGED <<disk, kept, seen>>
  BY <1>0, OneSession DEF RereadFails, At, Marks, IInv, TypeOK
<1>2. win[s].file = f /\ win[s].open
  BY <1>0, <1>1, OneSession DEF CallOf, Named
<1>3. w \in Window /\ w.file = f /\ w.stat1 = win[s].stat1 /\ w.open /\ ~w.new
  BY <1>1, <1>2 DEF Window
<1>4. PICK c \in Call : Goes(s, c) /\ c.at \in {"idle", "closing"} /\ c.file = NoFile /\ ~c.as
                         /\ (c.at = "idle" => c = Idle)
  BY <1>1, Returns
<1>5. call' = [call EXCEPT ![s] = c]
  BY <1>4 DEF Goes
<1> HIDE DEF w
<1>6. CallOf(c, w)
  BY <1>3, <1>4 DEF CallOf, Named, Saving, Replacing
<1>7. /\ bak \subseteq File /\ marks \subseteq File \X Mark /\ kept \subseteq File
      /\ seen \in [File -> SUBSET Session] /\ Untimed(s, f) \subseteq marks'
  BY <1>1 DEF IInv, TypeOK
<1>8. /\ marks' \subseteq File \X Mark /\ marks \subseteq marks'
      /\ \A g \in File : <<g, "lost">> \in marks' => <<g, "lost">> \in marks
  BY <1>1, <1>2, <1>7, MarksTyped
<1>9. /\ Dirty(f) => Dirty(f)'
      /\ w.stat1 = 0 => Dirty(f)'
  <2>1. ~Rereads(s)
    BY <1>1, OneSession DEF CallOf, Rereads
  <2>2. w.stat1 = 0 => Dirty(f)'
    BY <1>3, <1>7, <2>1, NoTime
  <2> QED BY <1>8, <2>2, DirtyStays
<1>10. \A S : \A g \in File \ {f} : SessionOf(s, g, c, w, disk[g], S)
  BY <1>3, <1>4, NoFileAssumption DEF SessionOf, KnownOf, SafeOf
<1>11. CASE ~call[s].made
  <2>1. marks' = marks \cup Untimed(s, f) /\ UNCHANGED <<disk, kept, seen>>
    BY <1>1, <1>11
  <2>2. Dirty(f)' \/ SessionOf(s, f, c, w, disk[f], seen[f])
    <3>1. Dirty(f) \/ SessionOf(s, f, call[s], win[s], disk[f], seen[f])
      BY <1>2, OneSession
    <3> QED BY <1>1, <1>2, <1>3, <1>4, <1>9, <3>1 DEF SessionOf, KnownOf, SafeOf, Replacing
  <2>3. \A g \in File : Dirty(g)' \/ SessionOf(s, g, c, w, disk[g], seen'[g])
    BY <1>10, <2>1, <2>2
  <2>4. seen' \in [File -> SUBSET Session] /\ \A g \in File : seen[g] \ {s} \subseteq seen'[g]
    BY <1>7, <2>1
  <2> QED BY <1>1, <1>3, <1>4, <1>5, <1>6, <1>8, <2>1, <2>3, <2>4, SeenStep
<1>12. CASE call[s].made
  <2>1. /\ disk' = [disk EXCEPT ![f] = Absent] /\ seen' = [seen EXCEPT ![f] = {s}]
        /\ kept' = kept \ {f} /\ Raced(s, f) \subseteq marks'
    BY <1>1, <1>12 DEF Puts
  <2>2. Absent \in Node /\ Absent.is = "absent" /\ Absent.mtime = 0
    BY Constants DEF Absent, Node
  <2>3. /\ seen' \in [File -> SUBSET Session]
        /\ \A g \in File \ {f} : seen[g] \ {s} \subseteq seen'[g]
        /\ bak' \subseteq File /\ bak \ {f} \subseteq bak'
        /\ kept' \subseteq File /\ kept' \ {f} \subseteq kept /\ f \notin kept'
    BY <1>1, <1>7, <2>1
  <2>5. \A g \in File \ {f} : Dirty(g) \/ SessionOf(s, g, c, w, disk[g], seen'[g])
    BY <1>10
  <2>4. Dirty(f)' \/ SessionOf(s, f, c, w, Absent, seen'[f])
    BY <1>2, <1>4, <1>9, <2>2, NoFileAssumption DEF SessionOf, KnownOf, SafeOf
  <2> QED BY <1>1, <1>2, <1>3, <1>4, <1>5, <1>6, <1>8, <2>1, <2>2, <2>3, <2>4, <2>5, PutsStep
<1> QED BY <1>11, <1>12

-----------------------------------------------------------------------------
(* The invariant.                                                          *)

(* Time passes.                                                            *)
LEMMA TickStep ==
  ASSUME IInv, Tick
  PROVE  IInv'
<1>1. /\ now' = now + 1 /\ now < MaxTime
      /\ UNCHANGED <<disk, bak, win, call, kept, seen, marks>>
  BY DEF Tick, historyVars
<1>2. now' \in Time /\ now' # 0
  BY <1>1, BoundAssumption DEF IInv, TypeOK, Time
<1>3. TypeOK' /\ NodeInv' /\ CallInv' /\ LostInv' /\ CopyInv'
  BY <1>1, <1>2 DEF IInv, TypeOK, NodeInv, CallInv, LostInv, CopyInv, Dirty
<1>4. SessionInv'
  BY <1>1 DEF IInv, SessionInv, Dirty
<1> QED BY <1>3, <1>4 DEF IInv

(* Stuttering.                                                             *)
LEMMA StutterStep ==
  ASSUME IInv, UNCHANGED vars
  PROVE  IInv'
BY DEF IInv, TypeOK, NodeInv, CallInv, SessionInv, LostInv, CopyInv, Dirty, vars, historyVars

(* The invariant holds at first: nothing is open, and nothing has happened.*)
LEMMA InitInvariant ==
  ASSUME Init
  PROVE  IInv
<1>1. TypeOK
  <2>1. {Absent, [is |-> "saved", mtime |-> 1]} \subseteq Node
    BY BoundAssumption DEF Node, Absent, Time
  <2>2. disk \in [File -> Node]
    BY <2>1 DEF Init
  <2> QED BY <2>2, Constants DEF Init, TypeOK
<1>2. NodeInv
  BY DEF Init, NodeInv, Absent
<1>3. CallInv
  BY ClosedCall DEF Init, CallInv
<1>4. SessionInv
  BY ClosedKnows DEF Init, SessionInv
<1>5. LostInv /\ CopyInv
  BY DEF Init, LostInv, CopyInv, CopyOf, Present, Absent
<1> QED BY <1>1, <1>2, <1>3, <1>4, <1>5 DEF IInv

(* A step of edit_save_file.                                               *)
LEMMA SaveFileSteps ==
  ASSUME IInv, NEW s \in Session, SaveFile(s)
  PROVE  IInv'
<1>1. CASE \E m \in Mode, asks \in BOOLEAN : StatFile(s, m, asks)
  BY <1>1, StatFileStep
<1>2. CASE \E detach \in BOOLEAN : AnswerLinks(s, detach)
  BY <1>2, AnswerLinksStep
<1>3. CASE AnswerChanged(s) \/ AnswerCancel(s)
  BY <1>3, AnswerSteps, CancelSteps
<1>4. CASE Create(s) \/ \E filter, whole \in BOOLEAN : Write(s, filter, whole)
  BY <1>4, TemporarySteps, CreateStep, WriteStep
<1>5. CASE \/ WriteFails(s)
           \/ \E denied \in BOOLEAN : CreateFails(s, denied) \/ RenameFails(s, denied)
  BY <1>5, FailureSteps
<1>6. CASE Restat(s) \/ Backup(s) \/ Rename(s)
  BY <1>6, RestatStep, BackupStep, RenameStep
<1> QED BY <1>1, <1>2, <1>3, <1>4, <1>5, <1>6 DEF SaveFile

(* A step of the commands that save.                                       *)
LEMMA SaveCommandSteps ==
  ASSUME IInv, NEW s \in Session, SaveCommands(s)
  PROVE  IInv'
<1>1. CASE Save(s) \/ SaveAs(s)
  BY <1>1, CommandSteps
<1>2. CASE SudoSaves(s) \/ AnswerOverwrite(s)
  BY <1>2, AnswerSteps
<1>3. CASE SaveCancel(s)
  BY <1>3, CancelSteps
<1>4. CASE Reload(s) \/ Reread(s) \/ RereadFails(s)
  BY <1>4, ReloadStep, RereadStep, RereadFailsStep
<1>5. CASE \E f \in File, asis \in BOOLEAN : Name(s, f, asis)
  BY <1>5, NameStep
<1> QED BY <1>1, <1>2, <1>3, <1>4, <1>5 DEF SaveCommands

(* Every step keeps the invariant.                                         *)
LEMMA NextInvariant ==
  ASSUME IInv, [Next]_vars
  PROVE  IInv'
<1>1. ASSUME NEW s \in Session,
             \/ OpenNew(s)
             \/ \E f \in File : Open(s, f)
             \/ Load(s) \/ LoadFails(s) \/ Edit(s)
             \/ Close(s) \/ AnswerQuit(s) \/ Destroy(s) \/ Crash(s)
      PROVE  IInv'
  <2>1. CASE OpenNew(s) \/ \E f \in File : Open(s, f)
    BY <2>1, OpenNewStep, OpenStep
  <2>2. CASE Load(s) \/ Edit(s)
    BY <2>2, LoadStep, EditStep
  <2>3. CASE LoadFails(s) \/ Destroy(s) \/ Crash(s)
    BY <2>3, EndSteps
  <2>4. CASE Close(s) \/ AnswerQuit(s)
    BY <2>4, CommandSteps
  <2> QED BY <1>1, <2>1, <2>2, <2>3, <2>4
<1>2. CASE Next
  BY <1>1, <1>2, SaveFileSteps, SaveCommandSteps, TickStep DEF Next
<1>3. CASE UNCHANGED vars
  BY <1>3, StutterStep
<1> QED BY <1>2, <1>3

(* The inductive invariant: what a session knows of its files, that a save *)
(* replaces nothing it does not know, and that a copy of what was saved is *)
(* there, each up to the three things that times cannot tell.              *)
THEOREM InductiveInvariant == Spec => []IInv
<1>1. Init => IInv
  BY InitInvariant
<1>2. IInv /\ [Next]_vars => IInv'
  BY NextInvariant
<1> QED BY <1>1, <1>2, PTL DEF Spec

(* The variables have their types in every reachable state, and the stack  *)
(* of a session that does nothing is empty.                                *)
THEOREM TypeCorrect == Spec => []TypeOK
<1>1. IInv => TypeOK
  BY DEF IInv
<1> QED BY <1>1, InductiveInvariant, PTL

(* For any sessions and files, and any save modes: what a save replaces    *)
(* unasked, its session has loaded or written, unless another session      *)
(* changed the file during the save, or times coincide, or there is none.  *)
THEOREM NoSilentOverwriteHolds == Spec => []NoSilentOverwrite
<1>1. IInv => NoSilentOverwrite
  BY DEF IInv, LostInv, Dirty, NoSilentOverwrite
<1> QED BY <1>1, InductiveInvariant, PTL

(* For any sessions and files, and any save modes: at every moment of a    *)
(* save, and after a crash or any failure that the code sees, what was     *)
(* last saved is there as a whole, under its name or its backup's; a       *)
(* failed write that it does not see leaves it in the backup, until that   *)
(* is replaced.                                                            *)
THEOREM KeepsACopyHolds == Spec => []KeepsACopy
<1>1. IInv => KeepsACopy
  BY DEF IInv, CopyInv, CopyOf, KeepsACopy
<1> QED BY <1>1, InductiveInvariant, PTL
=============================================================================
