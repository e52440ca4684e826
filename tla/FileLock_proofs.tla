---------------------------- MODULE FileLock_proofs ----------------------------
(***************************************************************************)
(* Proofs about FileLock, for any number of processes, windows and files,  *)
(* on any hosts and with any process numbers: types, that a lock is        *)
(* exclusive until somebody breaks it, that none is left behind, and that  *)
(* a modified window keeps its own.                                        *)
(*                                                                         *)
(* Exclusive is not inductive: that an unlock only removes what its caller *)
(* holds depends on where the caller is, so the invariant adds GoodCall    *)
(* (what a process knows at each place of its calls) and GoodWindow.       *)
(* Every action of a process replaces the state of its call and of one of  *)
(* its windows (Step), and the lemmas below lift facts about the two new   *)
(* records to the whole state.                                             *)
(***************************************************************************)
EXTENDS FileLock, TLAPS

GoodWindow(s) == s = Closed \/ (s.owner \in running /\ s.file \in File)

GoodCall(p, c, s) ==
  /\ p \notin running => c = Idle
  /\ c.at = "idle" => c = Idle
  /\ c.at # "idle" => c.win \in Window /\ s.owner = p
  /\ c.at \in Locking => /\ c.file \in File /\ ~c.save_lock
                         /\ c.for \in {"modify", "save", "save_as"}
                         /\ c.for = "modify" => c.file = s.file
  /\ c.at \in Saving => /\ c.for \in {"save", "save_as"}
                        /\ c.at = "write" => c.file \in File
                        /\ c.at # "write" => ~c.save_lock
  /\ c.at \in Unlocking => /\ c.file \in File /\ c.for # "modify"
                           /\ c.for \in {"undo", "close"} => ~c.save_lock
                           /\ ~c.save_lock => s.locked
                           /\ ~c.save_lock /\ c.for \in {"save", "save_as"} => c.res = "done"

Control ==
  /\ \A p \in Proc : GoodCall(p, call[p], win[call[p].win])
  /\ \A w \in Window : GoodWindow(win[w])

IInv == TypeOK /\ Control /\ Exclusive

(* Process p goes to c, and its window w to s.                             *)
Step(p, w, c, s) ==
  /\ running' = running
  /\ call' = [call EXCEPT ![p] = c]
  /\ win' = [win EXCEPT ![w] = s]

Good(p, w, c, s) ==
  /\ c \in CallState /\ s \in WindowState
  /\ c.at # "idle" => c.win = w
  /\ GoodCall(p, c, s) /\ GoodWindow(s)

(* Nothing is held that was not held before.                               *)
Shrinks(p, w, c, s) ==
  /\ s.locked => win[w].locked /\ s.file = win[w].file /\ s.owner = win[w].owner
  /\ c.save_lock => call[p].save_lock /\ c.file = call[p].file

(* What window w holds it still holds.                                     *)
Retains(w, s) ==
  win[w].locked => s.locked /\ s.file = win[w].file /\ s.owner = win[w].owner

(* A modified window that has no lock and was not refused one.             *)
Owes(s) == s.modified /\ ~s.new /\ ~s.locked /\ ~s.declined

(* No modification is about to lock and no undo is unlocking, an           *)
(* unmodified window that has the lock was one before, and so was one that *)
(* owes a lock; but an undo lets the lock of a modified window go.         *)
Calm(p, w, c, s) ==
  /\ ~(c.at \in Locking /\ c.for = "modify") /\ ~(c.at \in Unlocking /\ c.for = "undo")
  /\ Owes(s) => Owes(win[w]) \/ (call[p].for = "undo" /\ win[w].modified)
  /\ s.locked /\ ~s.modified => /\ win[w].locked /\ ~win[w].modified /\ s.file = win[w].file
                               /\ call[p].for # "undo"

USE NoneAssumption, LinkAssumption

-----------------------------------------------------------------------------
(* The step of a process leaves the others alone.                          *)
LEMMA StepControl ==
  ASSUME TypeOK, Control,
         NEW p \in Proc, NEW w \in Window, NEW c, NEW s,
         win[w].owner \in {p, None},
         Step(p, w, c, s), Good(p, w, c, s)
  PROVE  /\ call' \in [Proc -> CallState] /\ win' \in [Window -> WindowState]
         /\ Control'
<1>1. call' \in [Proc -> CallState] /\ win' \in [Window -> WindowState]
  BY DEF TypeOK, Step, Good
<1>2. ASSUME NEW v \in Window PROVE GoodWindow(win[v])'
  <2>1. CASE v = w
    BY <2>1 DEF TypeOK, Step, Good, GoodWindow, Closed
  <2>2. CASE v # w
    BY <2>2 DEF TypeOK, Control, Step, GoodWindow, Closed
  <2>3. QED
    BY <2>1, <2>2
<1>3. ASSUME NEW q \in Proc PROVE GoodCall(q, call[q], win[call[q].win])'
  <2>1. CASE q = p
    <3>1. call'[q] = c
      BY <2>1 DEF TypeOK, Step
    <3>2. CASE c.at = "idle"
      BY <2>1, <3>1, <3>2 DEF Good, GoodCall, Idle, Step, Locking, Saving, Unlocking
    <3>3. CASE c.at # "idle"
      <4>1. win'[c.win] = s
        BY <3>3 DEF TypeOK, Step, Good
      <4>2. QED
        BY <2>1, <3>1, <4>1 DEF Good, GoodCall, Idle, Step
    <3>4. QED
      BY <3>2, <3>3
  <2>2. CASE q # p
    <3>1. call'[q] = call[q] /\ GoodCall(q, call[q], win[call[q].win])
      BY <2>2 DEF TypeOK, Step, Control
    <3>2. CASE call[q].at = "idle"
      BY <3>1, <3>2 DEF GoodCall, Idle, Step, Locking, Saving, Unlocking
    <3>3. CASE call[q].at # "idle"
      <4>1. call[q].win \in Window /\ win[call[q].win].owner = q
        BY <3>1, <3>3 DEF GoodCall
      <4>2. win'[call[q].win] = win[call[q].win]
        BY <2>2, <4>1 DEF TypeOK, Step
      <4>3. QED
        BY <3>1, <4>2 DEF GoodCall, Idle, Step
    <3>4. QED
      BY <3>2, <3>3
  <2>3. QED
    BY <2>1, <2>2
<1>4. QED
  BY <1>1, <1>2, <1>3 DEF Control

(* A step that takes and removes no lock keeps locks exclusive.            *)
LEMMA StepShrinks ==
  ASSUME TypeOK, Exclusive,
         NEW p \in Proc, NEW w \in Window, NEW c, NEW s,
         Step(p, w, c, s), Shrinks(p, w, c, s),
         link' = link, broken' = broken
  PROVE  Exclusive'
<1> SUFFICES ASSUME NEW f \in File \ broken
             PROVE /\ \A v \in Window : Holds(v, f)' => link[f] = win'[v].owner
                   /\ \A q \in Proc : SaveHolds(q, f)' => link[f] = q
                   /\ \A u, v \in Window : Holds(u, f)' /\ Holds(v, f)' => u = v
                   /\ \A q \in Proc, v \in Window : ~(SaveHolds(q, f)' /\ Holds(v, f)')
  BY DEF Exclusive
<1>1. \A v \in Window : Holds(v, f)' => Holds(v, f) /\ win'[v].owner = win[v].owner
  BY DEF TypeOK, Step, Shrinks, Holds
<1>2. \A q \in Proc : SaveHolds(q, f)' => SaveHolds(q, f)
  BY DEF TypeOK, Step, Shrinks, SaveHolds
<1>3. QED
  BY <1>1, <1>2 DEF Exclusive

Outcome(p, w, c, s) == Step(p, w, c, s) /\ Good(p, w, c, s) /\ Shrinks(p, w, c, s)

(* What a process knows of its call.                                       *)
LEMMA InCall ==
  ASSUME TypeOK, Control, NEW p \in Proc, call[p].at # "idle"
  PROVE  /\ p \in running /\ call[p] \in CallState
         /\ call[p].win \in Window /\ win[call[p].win] \in WindowState
         /\ win[call[p].win].owner = p /\ win[call[p].win].file \in File
BY DEF TypeOK, Control, GoodCall, GoodWindow, Closed, Idle

(* A save that holds no lock of its own ends.                              *)
LEMMA SaveEndsOutcome ==
  ASSUME TypeOK, Control, NEW p \in Proc, call[p].at # "idle",
         NEW c0 \in CallState, c0.win = call[p].win, c0.file \in File,
         c0.for \in {"save", "save_as"}, ~c0.save_lock, call[p].for # "undo",
         SaveEnds(p, c0), running' = running
  PROVE  \E c \in CallState, s \in WindowState :
           /\ Outcome(p, c0.win, c, s) /\ Calm(p, c0.win, c, s)
           /\ ~c.save_lock
           /\ c0.res = "done" => ~s.locked
           /\ c0.res # "done" => Retains(c0.win, s)
<1> DEFINE w == c0.win
<1>1. /\ p \in running /\ w \in Window /\ win[w] \in WindowState /\ win[w].owner = p
      /\ win[w].file \in File /\ win[w] # Closed
  BY InCall DEF Closed
<1>2. GoodWindow(win[w])
  BY <1>1 DEF GoodWindow
<1>3. Idle \in CallState /\ Idle.at = "idle" /\ ~Idle.save_lock
  BY DEF Idle, CallState, Locking, Saving, Unlocking, Result, Target
<1>4. win = [win EXCEPT ![w] = win[w]]
  BY <1>1 DEF TypeOK
<1>5. CASE c0.res = "done" /\ win' = [win EXCEPT ![w] = [@ EXCEPT !.file = c0.file,
             !.modified = FALSE, !.new = FALSE, !.locked = FALSE, !.declined = FALSE]]
             /\ Goes(p, Idle)
  <2> DEFINE s == [win[w] EXCEPT !.file = c0.file, !.modified = FALSE, !.new = FALSE,
                                 !.locked = FALSE, !.declined = FALSE]
  <2>1. s \in WindowState /\ ~s.locked /\ s.owner = p /\ s.file \in File /\ ~Owes(s)
    BY <1>1 DEF WindowState, Owes
  <2>2. Good(p, w, Idle, s)
    BY <1>1, <1>3, <2>1 DEF Good, GoodCall, GoodWindow, Idle, Locking, Saving, Unlocking
  <2>3. Step(p, w, Idle, s) /\ Shrinks(p, w, Idle, s)
    BY <1>3, <1>5, <2>1 DEF Step, Shrinks, Goes
  <2>4. QED
    BY <1>3, <1>5, <2>1, <2>2, <2>3 DEF Outcome, Calm, Locking, Unlocking
<1>6. CASE c0.res = "denied" /\ Goes(p, [c0 EXCEPT !.at = "sudo", !.res = "none"]) /\ UNCHANGED win
  <2> DEFINE c == [c0 EXCEPT !.at = "sudo", !.res = "none"]
  <2>1. /\ c \in CallState /\ c.at = "sudo" /\ ~c.save_lock /\ c.win = w
        /\ c.for \in {"save", "save_as"}
    BY DEF CallState, Saving, Result
  <2>2. Good(p, w, c, win[w])
    BY <1>1, <1>2, <2>1 DEF Good, GoodCall, Locking, Saving, Unlocking
  <2>3. Step(p, w, c, win[w]) /\ Shrinks(p, w, c, win[w])
    BY <1>4, <1>6, <2>1 DEF Step, Shrinks, Goes
  <2>4. QED
    BY <1>1, <1>6, <2>1, <2>2, <2>3 DEF Outcome, Calm, Retains, Locking, Unlocking
<1>7. CASE /\ c0.res = "error"
           /\ Goes(p, [c0 EXCEPT !.at = "name", !.for = "save_as", !.res = "none"])
           /\ UNCHANGED win
  <2> DEFINE c == [c0 EXCEPT !.at = "name", !.for = "save_as", !.res = "none"]
  <2>1. c \in CallState /\ c.at = "name" /\ ~c.save_lock /\ c.win = w /\ c.for = "save_as"
    BY DEF CallState, Saving, Result
  <2>2. Good(p, w, c, win[w])
    BY <1>1, <1>2, <2>1 DEF Good, GoodCall, Locking, Saving, Unlocking
  <2>3. Step(p, w, c, win[w]) /\ Shrinks(p, w, c, win[w])
    BY <1>4, <1>7, <2>1 DEF Step, Shrinks, Goes
  <2>4. QED
    BY <1>1, <1>7, <2>1, <2>2, <2>3 DEF Outcome, Calm, Retains, Locking, Unlocking
<1>8. CASE c0.res \in {"abort", "error"} /\ Goes(p, Idle) /\ UNCHANGED win
  <2>1. Good(p, w, Idle, win[w])
    BY <1>1, <1>2, <1>3 DEF Good, GoodCall, Idle, Locking, Saving, Unlocking
  <2>2. Step(p, w, Idle, win[w]) /\ Shrinks(p, w, Idle, win[w])
    BY <1>3, <1>4, <1>8 DEF Step, Shrinks, Goes
  <2>3. QED
    BY <1>1, <1>3, <1>8, <2>1, <2>2 DEF Outcome, Calm, Retains, Locking, Unlocking
<1>9. QED
  BY <1>5, <1>6, <1>7, <1>8 DEF SaveEnds

(* A save goes on to the unlocking it owes, or ends.                       *)
LEMMA SaveGoesOnOutcome ==
  ASSUME TypeOK, Control, NEW p \in Proc, call[p].at # "idle",
         NEW c0 \in CallState, c0.win = call[p].win, c0.file \in File,
         c0.file = call[p].file, c0.save_lock => call[p].save_lock,
         c0.for \in {"save", "save_as"}, call[p].for # "undo",
         SaveGoesOn(p, c0), running' = running
  PROVE  \E c \in CallState, s \in WindowState :
           /\ Outcome(p, c0.win, c, s) /\ Calm(p, c0.win, c, s)
           /\ c.save_lock = c0.save_lock /\ (c.save_lock => c.file = c0.file)
           /\ Retains(c0.win, s)
<1> DEFINE w == c0.win
<1>1. /\ p \in running /\ w \in Window /\ win[w] \in WindowState /\ win[w].owner = p
      /\ win[w].file \in File /\ GoodWindow(win[w])
  BY InCall DEF GoodWindow
<1>2. CASE MustUnlock(c0)
  <2> DEFINE c == [c0 EXCEPT !.at = "unlock_lstat"]
  <2>1. /\ c \in CallState /\ c.at = "unlock_lstat" /\ c.win = w /\ c.file = c0.file
        /\ c.for = c0.for /\ c.save_lock = c0.save_lock /\ c.res = c0.res
    BY DEF CallState, Unlocking
  <2>2. Good(p, w, c, win[w])
    BY <1>1, <1>2, <2>1 DEF Good, GoodCall, Locking, Saving, Unlocking, MustUnlock
  <2>3. win = [win EXCEPT ![w] = win[w]]
    BY <1>1 DEF TypeOK
  <2>4. Step(p, w, c, win[w]) /\ Shrinks(p, w, c, win[w])
    BY <1>2, <2>1, <2>3 DEF Step, Shrinks, SaveGoesOn, Goes
  <2>5. QED
    BY <1>1, <2>1, <2>2, <2>4 DEF Outcome, Calm, Retains, Locking, Unlocking
<1>3. CASE ~MustUnlock(c0)
  <2>1. ~c0.save_lock /\ SaveEnds(p, c0) /\ (c0.res = "done" => ~win[w].locked)
    BY <1>3 DEF MustUnlock, SaveGoesOn
  <2>2. PICK c \in CallState, s \in WindowState :
          /\ Outcome(p, w, c, s) /\ Calm(p, w, c, s)
          /\ ~c.save_lock
          /\ c0.res # "done" => Retains(w, s)
    BY <2>1, SaveEndsOutcome
  <2>3. Retains(w, s) /\ c0.save_lock = FALSE /\ c.save_lock = FALSE
    BY <2>1, <2>2 DEF Retains, CallState
  <2>4. QED
    BY <2>2, <2>3
<1>4. QED
  BY <1>2, <1>3

(* unlock_file returns: what it was called for is not held any more.       *)
LEMMA UnlockReturnsOutcome ==
  ASSUME TypeOK, Control, NEW p \in Proc, call[p].at \in Unlocking,
         UnlockReturns(p), running' = running
  PROVE  \E c \in CallState, s \in WindowState :
           /\ Outcome(p, call[p].win, c, s) /\ Calm(p, call[p].win, c, s)
           /\ ~c.save_lock
           /\ ~call[p].save_lock => ~s.locked
           /\ call[p].save_lock => Retains(call[p].win, s)
<1> DEFINE c0 == call[p]
           w == c0.win
<1>1. /\ p \in running /\ w \in Window /\ win[w] \in WindowState /\ win[w].owner = p
      /\ win[w].file \in File /\ GoodWindow(win[w]) /\ c0 \in CallState /\ c0.at # "idle"
  BY InCall DEF GoodWindow, Unlocking
<1>2. /\ c0.file \in File /\ c0.for # "modify"
      /\ c0.for \in {"undo", "close"} => ~c0.save_lock
      /\ ~c0.save_lock /\ c0.for \in {"save", "save_as"} => c0.res = "done"
  BY DEF Control, GoodCall
<1>3. Idle \in CallState /\ Idle.at = "idle" /\ ~Idle.save_lock
  BY DEF Idle, CallState, Locking, Saving, Unlocking, Result, Target
<1>4. c0.for \in {"modify", "undo", "save", "save_as", "close"}
  BY <1>1 DEF CallState
<1>5. CASE c0.for = "undo"
  <2> DEFINE s == [win[w] EXCEPT !.locked = FALSE]
  <2>1. s \in WindowState /\ ~s.locked /\ s.owner = p /\ s.file = win[w].file
        /\ (Owes(s) => win[w].modified)
    BY <1>1 DEF WindowState, Owes
  <2>2. Good(p, w, Idle, s)
    BY <1>1, <1>3, <2>1 DEF Good, GoodCall, GoodWindow, Idle, Locking, Saving, Unlocking
  <2>3. win' = [win EXCEPT ![w] = s] /\ Goes(p, Idle)
    BY <1>1, <1>5 DEF UnlockReturns, TypeOK, WindowState
  <2>4. Step(p, w, Idle, s) /\ Shrinks(p, w, Idle, s)
    BY <1>3, <2>1, <2>3 DEF Step, Shrinks, Goes
  <2>5. QED
    BY <1>2, <1>3, <1>5, <2>1, <2>2, <2>4 DEF Outcome, Calm, Locking, Unlocking
<1>6. CASE c0.for = "close"
  <2>1. Closed \in WindowState /\ ~Closed.locked /\ ~Owes(Closed)
    BY DEF Closed, WindowState, Owes
  <2>2. Good(p, w, Idle, Closed)
    BY <1>1, <1>3, <2>1 DEF Good, GoodCall, GoodWindow, Idle, Locking, Saving, Unlocking
  <2>3. Step(p, w, Idle, Closed) /\ Shrinks(p, w, Idle, Closed)
    BY <1>3, <1>6, <2>1 DEF Step, Shrinks, UnlockReturns, Goes
  <2>4. QED
    BY <1>2, <1>3, <1>6, <2>1, <2>2, <2>3 DEF Outcome, Calm, Locking, Unlocking
<1>7. CASE c0.for \in {"save", "save_as"} /\ c0.save_lock
  <2> DEFINE d == [c0 EXCEPT !.save_lock = FALSE]
  <2>1. /\ d \in CallState /\ d.win = w /\ d.file = c0.file /\ ~d.save_lock
        /\ d.for = c0.for
    BY <1>1 DEF CallState
  <2>2. SaveGoesOn(p, d)
    BY <1>7 DEF UnlockReturns
  <2> HIDE DEF d
  <2>3. \E c \in CallState, s \in WindowState :
          /\ Outcome(p, d.win, c, s) /\ Calm(p, d.win, c, s)
          /\ c.save_lock = d.save_lock /\ Retains(d.win, s)
    <3>1. d.win = call[p].win /\ d.file = call[p].file /\ d.file \in File
      BY <1>2, <2>1
    <3>2. /\ d.for \in {"save", "save_as"} /\ call[p].for # "undo"
          /\ d.save_lock => call[p].save_lock
      BY <1>7, <2>1
    <3>3. QED
      BY <1>1, <2>1, <2>2, <3>1, <3>2, SaveGoesOnOutcome
  <2>4. QED
    BY <1>7, <2>1, <2>3
<1>8. CASE c0.for \in {"save", "save_as"} /\ ~c0.save_lock
  <2>1. SaveEnds(p, c0)
    BY <1>8 DEF UnlockReturns
  <2>2. c0.for # "undo" /\ c0.res = "done"
    BY <1>2, <1>8
  <2>3. QED
    BY <1>1, <1>2, <1>8, <2>1, <2>2, SaveEndsOutcome
<1>9. QED
  BY <1>2, <1>4, <1>5, <1>6, <1>7, <1>8

(* lock_file returns: if it took the lock, the window holds it or the save *)
(* does, and nothing else changes.                                         *)
LEMMA LockReturnsOutcome ==
  ASSUME TypeOK, Control, NEW p \in Proc, call[p].at \in Locking, NEW ok \in BOOLEAN,
         LockReturns(p, ok), running' = running
  PROVE  \E c \in CallState, s \in WindowState :
           /\ Step(p, call[p].win, c, s) /\ Good(p, call[p].win, c, s)
           /\ ~ok => Shrinks(p, call[p].win, c, s)
           /\ \/ ~c.save_lock /\ s.owner = p /\ s.file = call[p].file
              \/ s = win[call[p].win] /\ c.file = call[p].file
           /\ Calm(p, call[p].win, c, s)
           /\ ok => \/ s.locked /\ s.owner = p /\ s.file = call[p].file
                    \/ c.save_lock /\ c.file = call[p].file
           /\ \/ Retains(call[p].win, s)
              \/ call[p].for = "modify" /\ win[call[p].win].file = call[p].file
<1> DEFINE c0 == call[p]
           w == c0.win
<1>1. /\ p \in running /\ w \in Window /\ win[w] \in WindowState /\ win[w].owner = p
      /\ win[w].file \in File /\ GoodWindow(win[w]) /\ c0 \in CallState /\ c0.at # "idle"
  BY InCall DEF GoodWindow, Locking
<1>2. /\ c0.file \in File /\ ~c0.save_lock /\ c0.for \in {"modify", "save", "save_as"}
      /\ c0.for = "modify" => c0.file = win[w].file
  BY DEF Control, GoodCall
<1>3. CASE c0.for = "modify"
  <2> DEFINE s == [win[w] EXCEPT !.locked = ok, !.modified = TRUE, !.declined = ~ok]
  <2>1. /\ s \in WindowState /\ s.locked = ok /\ s.owner = p /\ s.file = win[w].file
        /\ s.modified /\ ~Owes(s)
    BY <1>1 DEF WindowState, Owes
  <2>2. Idle \in CallState /\ Idle.at = "idle" /\ ~Idle.save_lock
    BY DEF Idle, CallState, Locking, Saving, Unlocking, Result, Target
  <2>3. Good(p, w, Idle, s)
    BY <1>1, <2>1, <2>2 DEF Good, GoodCall, GoodWindow, Idle, Locking, Saving, Unlocking
  <2>4. win' = [win EXCEPT ![w] = s] /\ Goes(p, Idle)
    BY <1>1, <1>3 DEF LockReturns, TypeOK, WindowState
  <2>5. Step(p, w, Idle, s) /\ (~ok => Shrinks(p, w, Idle, s))
    BY <2>1, <2>2, <2>4 DEF Step, Shrinks, Goes
  <2>6. QED
    BY <1>2, <1>3, <2>1, <2>2, <2>3, <2>5 DEF Calm, Locking, Unlocking
<1>4. CASE c0.for # "modify"
  <2> DEFINE c == [c0 EXCEPT !.at = "write", !.save_lock = ok]
  <2>1. /\ c \in CallState /\ c.at = "write" /\ c.save_lock = ok /\ c.win = w
        /\ c.file = c0.file /\ c.for = c0.for
    BY <1>1 DEF CallState, Saving
  <2>2. Good(p, w, c, win[w])
    BY <1>1, <1>2, <1>4, <2>1 DEF Good, GoodCall, Locking, Saving, Unlocking
  <2>3. win = [win EXCEPT ![w] = win[w]]
    BY <1>1 DEF TypeOK
  <2>4. Step(p, w, c, win[w]) /\ (~ok => Shrinks(p, w, c, win[w]))
    BY <1>4, <2>1, <2>3 DEF Step, Shrinks, LockReturns, Goes
  <2>5. QED
    BY <1>1, <1>2, <2>1, <2>2, <2>4 DEF Calm, Retains, Locking, Unlocking
<1>5. QED
  BY <1>3, <1>4

(* A process that is somewhere in a call goes on, and its windows stay as  *)
(* they are.                                                               *)
LEMMA GoesOnOutcome ==
  ASSUME TypeOK, Control, NEW p \in Proc, call[p].at # "idle",
         NEW c \in CallState, c.win = call[p].win, GoodCall(p, c, win[call[p].win]),
         c.save_lock => call[p].save_lock /\ c.file = call[p].file,
         Goes(p, c), win' = win, running' = running
  PROVE  Outcome(p, call[p].win, c, win[call[p].win])
<1> DEFINE w == call[p].win
<1>1. w \in Window /\ win[w] \in WindowState /\ GoodWindow(win[w])
  BY InCall DEF GoodWindow
<1>2. win = [win EXCEPT ![w] = win[w]]
  BY <1>1 DEF TypeOK
<1>3. QED
  BY <1>1, <1>2 DEF Outcome, Step, Good, Shrinks, Goes

(* A command of an idle process begins a call for one of its windows, or   *)
(* is done at once.                                                        *)
LEMMA BeginsOutcome ==
  ASSUME TypeOK, Control, NEW w \in Window, Ready(w), running' = running
  PROVE  LET p == win[w].owner
         IN /\ p \in Proc /\ p \in running /\ win[w].file \in File
            /\ win[w] \in WindowState /\ call[p] = Idle
            /\ \A c \in CallState, s \in WindowState :
                 /\ c.win = w /\ ~c.save_lock /\ c.at # "idle"
                 /\ GoodCall(p, c, s)
                 /\ s.owner = p /\ s.file \in File
                 /\ s.locked => win[w].locked /\ s.file = win[w].file
                 /\ Goes(p, c) /\ win' = [win EXCEPT ![w] = s]
                 => Outcome(p, w, c, s)
            /\ \A s \in WindowState :
                 /\ GoodWindow(s)
                 /\ s.locked => win[w].locked /\ s.file = win[w].file /\ s.owner = p
                 /\ call' = call /\ win' = [win EXCEPT ![w] = s]
                 => Outcome(p, w, Idle, s)
<1> DEFINE p == win[w].owner
<1>1. win[w] \in WindowState /\ GoodWindow(win[w]) /\ p \in running
  BY DEF TypeOK, Control, Ready, At
<1>2. p \in Proc /\ win[w].file \in File
  BY <1>1 DEF TypeOK, GoodWindow, Closed
<1>3. call[p] = Idle
  BY <1>2 DEF Control, GoodCall, Ready, At
<1>4. Idle \in CallState /\ Idle.at = "idle" /\ ~Idle.save_lock
  BY DEF Idle, CallState, Locking, Saving, Unlocking, Result, Target
<1>5. ASSUME NEW c \in CallState, NEW s \in WindowState,
             c.win = w, ~c.save_lock, c.at # "idle", GoodCall(p, c, s),
             s.owner = p, s.file \in File,
             s.locked => win[w].locked /\ s.file = win[w].file,
             Goes(p, c), win' = [win EXCEPT ![w] = s]
      PROVE  Outcome(p, w, c, s)
  BY <1>1, <1>2, <1>5 DEF Outcome, Step, Good, Shrinks, Goes, GoodWindow
<1>6. ASSUME NEW s \in WindowState, GoodWindow(s),
             s.locked => win[w].locked /\ s.file = win[w].file /\ s.owner = p,
             call' = call, win' = [win EXCEPT ![w] = s]
      PROVE  Outcome(p, w, Idle, s)
  <2>1. call' = [call EXCEPT ![p] = Idle]
    BY <1>2, <1>3, <1>6 DEF TypeOK
  <2>2. GoodCall(p, Idle, s)
    BY <1>1, <1>4 DEF GoodCall, Idle, Locking, Saving, Unlocking
  <2>3. QED
    BY <1>4, <1>6, <2>1, <2>2 DEF Outcome, Step, Good, Shrinks
<1>7. QED
  BY <1>1, <1>2, <1>3, <1>5, <1>6

-----------------------------------------------------------------------------
(* Exclusive through the steps that change a link.                         *)

(* The link was not there, and is made.                                    *)
LEMMA StepTakes ==
  ASSUME TypeOK, Control, Exclusive,
         NEW p \in Proc, NEW w \in Window, NEW c, NEW s, NEW f \in File,
         Step(p, w, c, s), ~call[p].save_lock,
         \/ ~c.save_lock /\ s.owner = p /\ s.file = f
         \/ s = win[w] /\ c.file = f,
         link[f] = NoLink, link' = [link EXCEPT ![f] = p], broken' = broken
  PROVE  Exclusive'
<1>1. \A v \in Window : win[v].locked => win[v].owner \in Proc
  BY DEF TypeOK, Control, GoodWindow, Closed
<1>2. \A v \in Window : v # w => win'[v] = win[v]
  BY DEF TypeOK, Step
<1>3. \A q \in Proc : q # p => call'[q] = call[q]
  BY DEF TypeOK, Step
<1>4. win'[w] = s /\ call'[p] = c
  BY DEF TypeOK, Step
<1>5. link'[f] = p /\ \A g \in File : g # f => link'[g] = link[g]
  BY DEF TypeOK
<1>6. ASSUME NEW g \in File \ broken, g # f
      PROVE  /\ \A v \in Window : Holds(v, g)' => Holds(v, g) /\ win'[v].owner = win[v].owner
             /\ \A q \in Proc : SaveHolds(q, g)' => SaveHolds(q, g)
  BY <1>2, <1>3, <1>4, <1>6 DEF Holds, SaveHolds
<1>7. ASSUME f \notin broken
      PROVE  /\ \A v \in Window : ~Holds(v, f)
             /\ \A q \in Proc : ~SaveHolds(q, f)
  BY <1>1, <1>7 DEF Exclusive, Holds
<1>8. ASSUME NEW g \in File \ broken'
      PROVE  /\ \A v \in Window : Holds(v, g)' => link'[g] = win'[v].owner
             /\ \A q \in Proc : SaveHolds(q, g)' => link'[g] = q
             /\ \A u, v \in Window : Holds(u, g)' /\ Holds(v, g)' => u = v
             /\ \A q \in Proc, v \in Window : ~(SaveHolds(q, g)' /\ Holds(v, g)')
  <2>1. CASE g # f
    BY <1>5, <1>6, <2>1 DEF Exclusive
  <2>2. CASE g = f
    <3>1. \A v \in Window : Holds(v, f)' => v = w /\ ~c.save_lock /\ s.owner = p
      BY <1>2, <1>4, <1>7, <2>2 DEF Holds
    <3>2. \A q \in Proc : SaveHolds(q, f)' => q = p /\ c.save_lock
      BY <1>3, <1>4, <1>7, <2>2 DEF SaveHolds
    <3>3. QED
      BY <1>4, <1>5, <2>2, <3>1, <3>2
  <2>3. QED
    BY <2>1, <2>2
<1>9. QED
  BY <1>8 DEF Exclusive

(* A link is removed: it was the caller's own, or the lock is broken now.  *)
LEMMA StepReleases ==
  ASSUME TypeOK, Control, Exclusive,
         NEW p \in Proc, call[p].at \in Unlocking, NEW c, NEW s,
         NEW w \in Window, w = call[p].win,
         Step(p, w, c, s), Shrinks(p, w, c, s),
         ~c.save_lock, ~call[p].save_lock => ~s.locked,
         NEW f \in File, f = Unlocked(call[p]),
         link' = [link EXCEPT ![f] = NoLink],
         broken' = IF link[f] \in {p, NoLink} THEN broken ELSE broken \cup {f}
  PROVE  Exclusive'
<1>1. w \in Window /\ win[w].owner = p /\ (~call[p].save_lock => win[w].locked)
  BY InCall DEF Control, GoodCall, Unlocking
<1>2. \A v \in Window : v # w => win'[v] = win[v]
  BY <1>1 DEF TypeOK, Step
<1>3. \A q \in Proc : q # p => call'[q] = call[q]
  BY DEF TypeOK, Step
<1>4. win'[w] = s /\ call'[p] = c
  BY <1>1 DEF TypeOK, Step
<1>5. \A g \in File : g # f => link'[g] = link[g]
  BY DEF TypeOK
<1>6. \A g \in File :
        /\ \A v \in Window : Holds(v, g)' => Holds(v, g) /\ win'[v].owner = win[v].owner
        /\ \A q \in Proc : SaveHolds(q, g)' => SaveHolds(q, g)
  BY <1>1, <1>2, <1>3, <1>4 DEF Holds, SaveHolds, Shrinks
<1>7. ASSUME f \notin broken
      PROVE  /\ \A v \in Window : ~Holds(v, f)'
             /\ \A q \in Proc : ~SaveHolds(q, f)'
  <2>1. CASE call[p].save_lock
    <3>1. SaveHolds(p, f)
      BY <2>1 DEF SaveHolds, Unlocked
    <3>2. \A q \in Proc : SaveHolds(q, f) => q = p
      BY <1>7, <3>1 DEF Exclusive
    <3>3. \A v \in Window : ~Holds(v, f)
      BY <1>7, <3>1 DEF Exclusive
    <3>4. ~SaveHolds(p, f)'
      BY <1>4 DEF SaveHolds
    <3>5. QED
      BY <1>6, <3>2, <3>3, <3>4
  <2>2. CASE ~call[p].save_lock
    <3>1. Holds(w, f)
      BY <1>1, <2>2 DEF Holds, Unlocked
    <3>2. \A v \in Window : Holds(v, f) => v = w
      BY <1>1, <1>7, <3>1 DEF Exclusive
    <3>3. \A q \in Proc : ~SaveHolds(q, f)
      BY <1>1, <1>7, <3>1 DEF Exclusive
    <3>4. ~Holds(w, f)'
      BY <1>4, <2>2 DEF Holds
    <3>5. QED
      BY <1>6, <3>2, <3>3, <3>4
  <2>3. QED
    BY <2>1, <2>2
<1>8. ASSUME NEW g \in File \ broken'
      PROVE  /\ \A v \in Window : Holds(v, g)' => link'[g] = win'[v].owner
             /\ \A q \in Proc : SaveHolds(q, g)' => link'[g] = q
             /\ \A u, v \in Window : Holds(u, g)' /\ Holds(v, g)' => u = v
             /\ \A q \in Proc, v \in Window : ~(SaveHolds(q, g)' /\ Holds(v, g)')
  <2>1. g \in File \ broken
    BY <1>8
  <2>2. CASE g # f
    BY <1>5, <1>6, <2>1, <2>2 DEF Exclusive
  <2>3. CASE g = f
    BY <1>7, <2>1, <2>3
  <2>4. QED
    BY <2>2, <2>3
<1>9. QED
  BY <1>8 DEF Exclusive

-----------------------------------------------------------------------------
(* Every action keeps the invariant.                                       *)

(* A step that takes and removes no lock.                                  *)
LEMMA OutcomeKeeps ==
  ASSUME IInv, NEW p \in Proc, NEW w \in Window, NEW c, NEW s,
         win[w].owner = p, Outcome(p, w, c, s),
         link' = link, broken' = broken, sudo_saved' \subseteq File
  PROVE  IInv'
<1>1. Step(p, w, c, s) /\ Good(p, w, c, s) /\ Shrinks(p, w, c, s)
  BY DEF Outcome
<1>2. /\ call' \in [Proc -> CallState] /\ win' \in [Window -> WindowState] /\ Control'
  BY <1>1, StepControl DEF IInv
<1>3. Exclusive'
  BY <1>1, StepShrinks DEF IInv
<1>4. QED
  BY <1>1, <1>2, <1>3 DEF IInv, TypeOK, Step

(* The steps of lock_file.                                                 *)
LEMMA LockKeeps ==
  ASSUME IInv, NEW p \in Proc, Lock(p)
  PROVE  IInv'
<1> USE DEF IInv
<1> DEFINE c0 == call[p]
           w == c0.win
<1>1. c0.at \in Locking /\ c0.at # "idle" /\ running' = running
  BY DEF Lock, LockLstat, LockReadlink, LockKill, LockGrab, LockIgnore, LockUnlink, LockSymlink,
         At, Locking
<1>2. /\ p \in running /\ c0 \in CallState /\ w \in Window /\ win[w] \in WindowState
      /\ win[w].owner = p /\ GoodWindow(win[w])
  BY <1>1, InCall DEF GoodWindow
<1>3. GoodCall(p, c0, win[w]) /\ c0.file \in File /\ ~c0.save_lock
  BY <1>1 DEF Control, GoodCall
<1>4. ASSUME NEW c \in CallState, c.at \in Locking, c.win = w, c.file = c0.file,
             c.for = c0.for, c.save_lock = c0.save_lock,
             Goes(p, c), win' = win
      PROVE  Outcome(p, w, c, win[w])
  <2>1. GoodCall(p, c, win[w])
    BY <1>1, <1>2, <1>3, <1>4 DEF GoodCall, Locking, Saving, Unlocking
  <2>2. QED
    BY <1>1, <1>4, <2>1, GoesOnOutcome
<1>5. ASSUME LockReturns(p, FALSE), link' = link, broken' = broken, sudo_saved' = sudo_saved
      PROVE  IInv'
  <2>1. PICK c \in CallState, s \in WindowState :
          Step(p, w, c, s) /\ Good(p, w, c, s) /\ Shrinks(p, w, c, s)
    BY <1>1, <1>5, LockReturnsOutcome
  <2>2. QED
    BY <1>2, <1>5, <2>1, OutcomeKeeps DEF Outcome, TypeOK
<1>6. CASE LockLstat(p)
  <2> DEFINE c == [c0 EXCEPT !.at = IF link[c0.file] = NoLink THEN "symlink" ELSE "readlink"]
  <2>1. /\ c \in CallState /\ c.at \in Locking /\ c.win = w /\ c.file = c0.file
        /\ c.for = c0.for /\ c.save_lock = c0.save_lock
    BY <1>2 DEF CallState, Locking
  <2>2. Outcome(p, w, c, win[w])
    BY <1>4, <1>6, <2>1 DEF LockLstat
  <2>3. QED
    BY <1>2, <1>6, <2>2, OutcomeKeeps DEF LockLstat, TypeOK
<1>7. CASE LockReadlink(p)
  <2>1. CASE link[c0.file] \in {NoLink, NotALink}
    BY <1>5, <1>7, <2>1 DEF LockReadlink
  <2>2. CASE link[c0.file] \notin {NoLink, NotALink}
    <3> DEFINE c == [c0 EXCEPT !.at = "kill", !.lockinfo = link[c0.file]]
    <3>1. link[c0.file] \in Target \ {NotALink}
      BY <1>3, <2>2 DEF TypeOK
    <3>2. /\ c \in CallState /\ c.at \in Locking /\ c.win = w /\ c.file = c0.file
          /\ c.for = c0.for /\ c.save_lock = c0.save_lock
      BY <1>2, <3>1 DEF CallState, Locking
    <3>3. Outcome(p, w, c, win[w])
      BY <1>4, <1>7, <2>2, <3>2 DEF LockReadlink
    <3>4. QED
      BY <1>2, <1>7, <3>3, OutcomeKeeps DEF LockReadlink, TypeOK
  <2>3. QED
    BY <2>1, <2>2
<1>8. CASE LockKill(p)
  <2> DEFINE at == IF c0.lockinfo = NoPid \/ Alive(p, c0.lockinfo) THEN "query" ELSE "unlink"
             c == [c0 EXCEPT !.at = at, !.lockinfo = NoLink]
  <2>1. at \in {"query", "unlink"}
    OBVIOUS
  <2>2. Goes(p, c) /\ win' = win /\ link' = link /\ broken' = broken /\ sudo_saved' = sudo_saved
    BY <1>8 DEF LockKill
  <2> HIDE DEF at
  <2>3. /\ c \in CallState /\ c.at \in Locking /\ c.win = w /\ c.file = c0.file
        /\ c.for = c0.for /\ c.save_lock = c0.save_lock
    BY <1>2, <2>1 DEF CallState, Locking, Target
  <2>4. Outcome(p, w, c, win[w])
    BY <1>4, <2>2, <2>3
  <2>5. QED
    BY <1>2, <2>2, <2>4, OutcomeKeeps DEF TypeOK
<1>9. CASE LockGrab(p)
  <2> DEFINE c == [c0 EXCEPT !.at = "unlink"]
  <2>1. /\ c \in CallState /\ c.at \in Locking /\ c.win = w /\ c.file = c0.file
        /\ c.for = c0.for /\ c.save_lock = c0.save_lock
    BY <1>2 DEF CallState, Locking
  <2>2. Outcome(p, w, c, win[w])
    BY <1>4, <1>9, <2>1 DEF LockGrab
  <2>3. QED
    BY <1>2, <1>9, <2>2, OutcomeKeeps DEF LockGrab, TypeOK
<1>10. CASE LockIgnore(p)
  BY <1>5, <1>10 DEF LockIgnore
<1>11. CASE LockUnlink(p)
  <2> DEFINE f == c0.file
             c == [c0 EXCEPT !.at = "symlink"]
  <2>1. /\ c \in CallState /\ c.at \in Locking /\ c.win = w /\ c.file = c0.file
        /\ c.for = c0.for /\ c.save_lock = c0.save_lock
    BY <1>2 DEF CallState, Locking
  <2>2. Outcome(p, w, c, win[w])
    BY <1>4, <1>11, <2>1 DEF LockUnlink
  <2>3. Step(p, w, c, win[w]) /\ Good(p, w, c, win[w])
    BY <2>2 DEF Outcome
  <2>4. call' \in [Proc -> CallState] /\ win' \in [Window -> WindowState] /\ Control'
    BY <1>2, <2>3, StepControl
  <2>5. /\ link' = [link EXCEPT ![f] = NoLink]
        /\ broken' = IF link[f] = NoLink THEN broken ELSE broken \cup {f}
        /\ sudo_saved' \subseteq sudo_saved
    BY <1>11 DEF LockUnlink
  <2>6. TypeOK'
    BY <1>1, <1>3, <2>4, <2>5 DEF TypeOK, Target
  <2>7. \A g \in File \ broken' : g \in File \ broken /\ link'[g] = link[g]
    BY <1>3, <2>5 DEF TypeOK
  <2>8. win' = win /\ \A q \in Proc : call'[q].save_lock = call[q].save_lock
                                      /\ call'[q].file = call[q].file
    BY <1>11, <2>1 DEF LockUnlink, Goes, TypeOK
  <2>9. \A g \in File : /\ \A v \in Window : Holds(v, g)' = Holds(v, g)
                        /\ \A q \in Proc : SaveHolds(q, g)' = SaveHolds(q, g)
    BY <2>8 DEF Holds, SaveHolds
  <2>10. Exclusive'
    BY <2>7, <2>8, <2>9 DEF Exclusive
  <2>11. QED
    BY <2>4, <2>6, <2>10
<1>12. CASE LockSymlink(p)
  <2>1. CASE LockReturns(p, FALSE) /\ link' = link
    BY <1>5, <1>12, <2>1 DEF LockSymlink
  <2>2. CASE link[c0.file] = NoLink /\ link' = [link EXCEPT ![c0.file] = p] /\ LockReturns(p, TRUE)
    <3>1. PICK c \in CallState, s \in WindowState :
            /\ Step(p, w, c, s) /\ Good(p, w, c, s)
            /\ \/ ~c.save_lock /\ s.owner = p /\ s.file = c0.file
               \/ s = win[w] /\ c.file = c0.file
      BY <1>1, <2>2, LockReturnsOutcome
    <3>2. call' \in [Proc -> CallState] /\ win' \in [Window -> WindowState] /\ Control'
      BY <1>2, <3>1, StepControl
    <3>3. Exclusive'
      BY <1>2, <1>3, <1>12, <2>2, <3>1, StepTakes DEF LockSymlink
    <3>4. TypeOK'
      BY <1>1, <1>3, <1>12, <2>2, <3>2 DEF TypeOK, Target, LockSymlink
    <3>5. QED
      BY <3>2, <3>3, <3>4
  <2>3. QED
    BY <1>12, <2>1, <2>2 DEF LockSymlink
<1>13. QED
  BY <1>6, <1>7, <1>8, <1>9, <1>10, <1>11, <1>12 DEF Lock
(* The steps of unlock_file.                                               *)
LEMMA UnlockKeeps ==
  ASSUME IInv, NEW p \in Proc, Unlock(p)
  PROVE  IInv'
<1> USE DEF IInv
<1> DEFINE c0 == call[p]
           w == c0.win
<1>1. c0.at \in Unlocking /\ c0.at # "idle" /\ running' = running
  BY DEF Unlock, UnlockLstat, UnlockReadlink, UnlockUnlink, At, Unlocking
<1>2. /\ p \in running /\ c0 \in CallState /\ w \in Window /\ win[w] \in WindowState
      /\ win[w].owner = p /\ win[w].file \in File
  BY <1>1, InCall
<1>3. GoodCall(p, c0, win[w]) /\ c0.file \in File
  BY <1>1 DEF Control, GoodCall
<1>4. ASSUME NEW place \in Unlocking, Goes(p, [c0 EXCEPT !.at = place]), win' = win,
             link' = link, broken' = broken, sudo_saved' = sudo_saved
      PROVE  IInv'
  <2> DEFINE c == [c0 EXCEPT !.at = place]
  <2>1. /\ c \in CallState /\ c.at \in Unlocking /\ c.win = w /\ c.file = c0.file
        /\ c.for = c0.for /\ c.save_lock = c0.save_lock /\ c.res = c0.res
    BY <1>2 DEF CallState, Unlocking
  <2>2. GoodCall(p, c, win[w])
    BY <1>1, <1>2, <1>3, <2>1 DEF GoodCall, Locking, Saving, Unlocking
  <2>3. Outcome(p, w, c, win[w])
    BY <1>1, <1>4, <2>1, <2>2, GoesOnOutcome DEF Unlocking
  <2>4. QED
    BY <1>2, <1>4, <2>3, OutcomeKeeps DEF TypeOK
<1>5. ASSUME UnlockReturns(p), link' = link, broken' = broken, sudo_saved' = sudo_saved
      PROVE  IInv'
  <2>1. PICK c \in CallState, s \in WindowState : Outcome(p, w, c, s)
    BY <1>1, <1>5, UnlockReturnsOutcome
  <2>2. QED
    BY <1>2, <1>5, <2>1, OutcomeKeeps DEF TypeOK
<1>6. CASE UnlockLstat(p)
  BY <1>4, <1>5, <1>6 DEF UnlockLstat, Unlocking
<1>7. CASE UnlockReadlink(p)
  BY <1>4, <1>5, <1>7 DEF UnlockReadlink, Unlocking
<1>8. CASE UnlockUnlink(p)
  <2>1. PICK f \in File : f = Unlocked(c0)
    BY <1>2, <1>3 DEF Unlocked
  <2>2. PICK c \in CallState, s \in WindowState :
          /\ Outcome(p, w, c, s) /\ ~c.save_lock
          /\ ~c0.save_lock => ~s.locked
    BY <1>1, <1>8, UnlockReturnsOutcome DEF UnlockUnlink
  <2>3. Step(p, w, c, s) /\ Good(p, w, c, s) /\ Shrinks(p, w, c, s)
    BY <2>2 DEF Outcome
  <2>4. call' \in [Proc -> CallState] /\ win' \in [Window -> WindowState] /\ Control'
    BY <1>2, <2>3, StepControl
  <2>5. /\ link' = [link EXCEPT ![f] = NoLink]
        /\ broken' = IF link[f] \in {p, NoLink} THEN broken ELSE broken \cup {f}
        /\ sudo_saved' \subseteq sudo_saved
    BY <1>8, <2>1 DEF UnlockUnlink
  <2>6. TypeOK'
    BY <1>1, <2>4, <2>5 DEF TypeOK, Target
  <2>7. Exclusive'
    BY <1>1, <1>2, <2>1, <2>2, <2>3, <2>5, StepReleases
  <2>8. QED
    BY <2>4, <2>6, <2>7
<1>9. QED
  BY <1>6, <1>7, <1>8 DEF Unlock

(* The steps of a save between locking and unlocking.                      *)
LEMMA SavesKeeps ==
  ASSUME IInv, NEW p \in Proc, Saves(p)
  PROVE  IInv'
<1> USE DEF IInv
<1> DEFINE c0 == call[p]
           w == c0.win
<1>1. c0.at \in Saving /\ c0.at # "idle" /\ running' = running
  BY DEF Saves, SaveWrites, SaveAsName, SudoSaves, SaveCancel, At, Saving
<1>2. /\ p \in running /\ c0 \in CallState /\ w \in Window /\ win[w] \in WindowState
      /\ win[w].owner = p /\ win[w].file \in File /\ GoodWindow(win[w])
  BY <1>1, InCall DEF GoodWindow
<1>3. /\ c0.for \in {"save", "save_as"}
      /\ c0.at = "write" => c0.file \in File
      /\ c0.at # "write" => ~c0.save_lock
  BY <1>1 DEF Control, GoodCall
<1>4. Idle \in CallState /\ Idle.at = "idle" /\ ~Idle.save_lock
  BY DEF Idle, CallState, Locking, Saving, Unlocking, Result, Target
<1>5. ASSUME NEW res \in Result \ {"none"}, SaveWrites(p, res)
      PROVE  IInv'
  <2>1. c0.file \in File
    BY <1>3, <1>5 DEF SaveWrites, At
  <2>2. PICK d : d = [c0 EXCEPT !.res = res]
    OBVIOUS
  <2>3. /\ d \in CallState /\ d.win = w /\ d.file = c0.file /\ d.save_lock = c0.save_lock
        /\ d.for = c0.for
    BY <1>2, <2>2 DEF CallState
  <2>4. SaveGoesOn(p, d)
    BY <1>5, <2>2 DEF SaveWrites
  <2>5. PICK c \in CallState, s \in WindowState : Outcome(p, w, c, s)
    <3>1. d.for \in {"save", "save_as"} /\ d.file \in File /\ c0.for # "undo"
      BY <1>3, <2>1, <2>3
    <3>2. QED
      BY <1>1, <2>3, <2>4, <3>1, SaveGoesOnOutcome
  <2>6. QED
    BY <1>2, <1>5, <2>5, OutcomeKeeps DEF SaveWrites, TypeOK
<1>6. ASSUME NEW f \in File, SaveAsName(p, f)
      PROVE  IInv'
  <2> DEFINE at == IF f # win[w].file \/ LocksToSave(w) THEN "lstat" ELSE "write"
             c == [c0 EXCEPT !.file = f, !.at = at]
  <2>1. at \in {"lstat", "write"}
    OBVIOUS
  <2>2. Goes(p, c) /\ win' = win
    BY <1>6 DEF SaveAsName
  <2> HIDE DEF at
  <2>3. /\ c \in CallState /\ c.at = at /\ c.win = w /\ c.file = f /\ c.for = c0.for
        /\ c.save_lock = c0.save_lock
    BY <1>2, <2>1 DEF CallState, Locking, Saving
  <2>4. ~c0.save_lock
    BY <1>3, <1>6 DEF SaveAsName, At
  <2>5. GoodCall(p, c, win[w])
    BY <1>2, <1>3, <2>1, <2>3, <2>4 DEF GoodCall, Locking, Saving, Unlocking
  <2>6. c.at # "idle"
    BY <2>1, <2>3
  <2>7. Outcome(p, w, c, win[w])
    BY <1>1, <2>2, <2>3, <2>4, <2>5, <2>6, GoesOnOutcome
  <2>8. QED
    BY <1>2, <1>6, <2>7, OutcomeKeeps DEF SaveAsName, TypeOK
<1>7. CASE SudoSaves(p)
  <2> DEFINE s == [win[w] EXCEPT !.modified = FALSE, !.new = FALSE, !.declined = FALSE]
  <2>1. /\ s \in WindowState /\ s.locked = win[w].locked /\ s.owner = p
        /\ s.file = win[w].file
    BY <1>2 DEF WindowState
  <2>2. Good(p, w, Idle, s)
    BY <1>2, <1>4, <2>1 DEF Good, GoodCall, GoodWindow, Idle, Locking, Saving, Unlocking
  <2>3. win' = [win EXCEPT ![w] = s] /\ Goes(p, Idle)
    BY <1>2, <1>7 DEF SudoSaves, TypeOK, WindowState
  <2>4. Outcome(p, w, Idle, s)
    BY <1>1, <1>2, <1>4, <2>1, <2>2, <2>3 DEF Outcome, Step, Shrinks, Goes
  <2>5. sudo_saved' \subseteq File
    BY <1>2, <1>7 DEF SudoSaves, TypeOK
  <2>6. QED
    BY <1>2, <1>7, <2>4, <2>5, OutcomeKeeps DEF SudoSaves
<1>8. CASE SaveCancel(p)
  <2>1. GoodCall(p, Idle, win[w])
    BY <1>2, <1>4 DEF GoodCall, Idle, Locking, Saving, Unlocking
  <2>2. Good(p, w, Idle, win[w])
    BY <1>2, <1>4, <2>1 DEF Good
  <2>3. win' = [win EXCEPT ![w] = win[w]] /\ Goes(p, Idle)
    BY <1>2, <1>8 DEF SaveCancel, TypeOK
  <2>4. Outcome(p, w, Idle, win[w])
    BY <1>1, <1>2, <1>4, <2>2, <2>3 DEF Outcome, Step, Shrinks, Goes
  <2>5. QED
    BY <1>2, <1>8, <2>4, OutcomeKeeps DEF SaveCancel, TypeOK
<1>9. QED
  BY <1>5, <1>6, <1>7, <1>8 DEF Saves
(* The commands of the editor.                                             *)
LEMMA EditsKeeps ==
  ASSUME IInv, NEW w \in Window, Edits(w)
  PROVE  IInv'
<1> USE DEF IInv
<1>1. running' = running /\ link' = link /\ broken' = broken /\ sudo_saved' \subseteq File
  BY DEF Edits, Open, Modify, Undo, Save, SaveAs, Close, TypeOK
<1>2. ASSUME NEW p \in Proc, NEW f \in File, NEW new \in BOOLEAN, Open(p, w, f, new)
      PROVE  IInv'
  <2> DEFINE s == [Closed EXCEPT !.owner = p, !.file = f, !.new = new]
  <2>1. p \in running /\ call[p] = Idle /\ win[w] = Closed
    BY <1>2 DEF Open, At, Control, GoodCall
  <2>2. win[w].owner = None
    BY <2>1 DEF Closed
  <2>3. s \in WindowState /\ s.owner = p /\ s.file = f /\ ~s.locked
    BY DEF Closed, WindowState
  <2>4. Idle \in CallState /\ Idle.at = "idle" /\ ~Idle.save_lock
    BY DEF Idle, CallState, Locking, Saving, Unlocking, Result, Target
  <2>5. Good(p, w, Idle, s)
    BY <2>1, <2>3, <2>4
    DEF Good, GoodCall, GoodWindow, Idle, Locking, Saving, Unlocking
  <2>6. Step(p, w, Idle, s)
    BY <1>1, <1>2, <2>1 DEF Open, Step, TypeOK
  <2>7. Shrinks(p, w, Idle, s)
    BY <2>3, <2>4 DEF Shrinks
  <2>8. /\ call' \in [Proc -> CallState] /\ win' \in [Window -> WindowState] /\ Control'
    BY <2>2, <2>5, <2>6, StepControl
  <2>9. Exclusive'
    BY <1>1, <2>6, <2>7, StepShrinks
  <2>10. QED
    BY <1>1, <2>8, <2>9 DEF TypeOK
<1>3. CASE Ready(w) /\ (Modify(w) \/ Undo(w) \/ Save(w) \/ SaveAs(w) \/ Close(w))
  <2> DEFINE p == win[w].owner
  <2>1. /\ p \in Proc /\ p \in running /\ win[w].file \in File
        /\ win[w] \in WindowState /\ call[p] = Idle
    BY <1>1, <1>3, BeginsOutcome
  <2>2. ASSUME NEW c \in CallState, NEW s \in WindowState,
               c.win = w, ~c.save_lock, c.at # "idle", GoodCall(p, c, s),
               s.owner = p, s.file \in File,
               s.locked => win[w].locked /\ s.file = win[w].file,
               Goes(p, c), win' = [win EXCEPT ![w] = s]
        PROVE  IInv'
    <3>1. Outcome(p, w, c, s)
      BY <1>1, <1>3, <2>2, BeginsOutcome
    <3>2. QED
      BY <1>1, <2>1, <3>1, OutcomeKeeps
  <2>3. ASSUME NEW s \in WindowState, GoodWindow(s),
               s.locked => win[w].locked /\ s.file = win[w].file /\ s.owner = p,
               call' = call, win' = [win EXCEPT ![w] = s]
        PROVE  IInv'
    <3>1. Outcome(p, w, Idle, s)
      BY <1>1, <1>3, <2>3, BeginsOutcome
    <3>2. QED
      BY <1>1, <2>1, <3>1, OutcomeKeeps
  <2>4. win = [win EXCEPT ![w] = win[w]]
    BY DEF TypeOK
  <2>5. CASE Modify(w)
    <3>1. CASE win[w].new
      <4> DEFINE s == [win[w] EXCEPT !.modified = TRUE]
      <4>1. /\ s \in WindowState /\ s.locked = win[w].locked /\ s.owner = p
            /\ s.file = win[w].file
        BY <2>1 DEF WindowState
      <4>2. win' = [win EXCEPT ![w] = s] /\ call' = call
        BY <2>5, <3>1 DEF Modify, TypeOK
      <4>3. QED
        BY <2>1, <2>3, <4>1, <4>2 DEF GoodWindow
    <3>2. CASE ~win[w].new
      <4>1. PICK c : c = [Idle EXCEPT !.at = "lstat", !.for = "modify",
                                      !.file = win[w].file, !.win = w]
        OBVIOUS
      <4>2. /\ c \in CallState /\ c.at = "lstat" /\ c.win = w /\ c.file = win[w].file
            /\ c.for = "modify" /\ ~c.save_lock
        BY <2>1, <4>1 DEF Idle, CallState, Locking, Result, Target
      <4>3. GoodCall(p, c, win[w])
        BY <2>1, <4>2 DEF GoodCall, Locking, Saving, Unlocking
      <4>4. Goes(p, c) /\ win' = win
        BY <2>5, <3>2, <4>1 DEF Modify, Begins
      <4>5. QED
        BY <2>1, <2>2, <2>4, <4>2, <4>3, <4>4
    <3>3. QED
      BY <3>1, <3>2
  <2>6. CASE Undo(w)
    <3> DEFINE s == [win[w] EXCEPT !.modified = FALSE, !.declined = FALSE]
    <3>1. /\ s \in WindowState /\ s.locked = win[w].locked /\ s.owner = p
          /\ s.file = win[w].file
      BY <2>1 DEF WindowState
    <3>2. win' = [win EXCEPT ![w] = s]
      BY <2>6 DEF Undo, TypeOK
    <3>3. CASE win[w].locked
      <4>1. PICK c : c = [Idle EXCEPT !.at = "unlock_lstat", !.for = "undo",
                                      !.file = win[w].file, !.win = w]
        OBVIOUS
      <4>2. /\ c \in CallState /\ c.at = "unlock_lstat" /\ c.win = w /\ c.file = win[w].file
            /\ c.for = "undo" /\ ~c.save_lock
        BY <2>1, <4>1 DEF Idle, CallState, Unlocking, Result, Target
      <4>3. GoodCall(p, c, s)
        BY <2>1, <3>1, <3>3, <4>2 DEF GoodCall, Locking, Saving, Unlocking
      <4>4. Goes(p, c)
        BY <2>6, <3>3, <4>1 DEF Undo, Begins
      <4>5. QED
        BY <2>1, <2>2, <3>1, <3>2, <4>2, <4>3, <4>4
    <3>4. CASE ~win[w].locked
      BY <2>1, <2>3, <2>6, <3>1, <3>2, <3>4 DEF Undo, GoodWindow
    <3>5. QED
      BY <3>3, <3>4
  <2>7. CASE Save(w)
    <3> DEFINE at == IF LocksToSave(w) THEN "lstat" ELSE "write"
    <3>1. at \in {"lstat", "write"}
      OBVIOUS
    <3>2. PICK c : c = [Idle EXCEPT !.at = at, !.for = "save", !.file = win[w].file, !.win = w]
      OBVIOUS
    <3>3. Goes(p, c) /\ win' = win
      BY <2>7, <3>2 DEF Save, Begins
    <3> HIDE DEF at
    <3>4. /\ c \in CallState /\ c.at \in {"lstat", "write"} /\ c.win = w
          /\ c.file = win[w].file /\ c.for = "save" /\ ~c.save_lock
      BY <2>1, <3>1, <3>2 DEF Idle, CallState, Locking, Saving, Result, Target
    <3>5. GoodCall(p, c, win[w])
      BY <2>1, <3>4 DEF GoodCall, Locking, Saving, Unlocking
    <3>6. c.at # "idle"
      BY <3>4
    <3>7. QED
      BY <2>1, <2>2, <2>4, <3>3, <3>4, <3>5, <3>6
  <2>8. CASE SaveAs(w)
    <3>1. PICK c : c = [Idle EXCEPT !.at = "name", !.for = "save_as", !.win = w]
      OBVIOUS
    <3>2. Goes(p, c) /\ win' = win
      BY <2>8, <3>1 DEF SaveAs, Begins
    <3>3. /\ c \in CallState /\ c.at = "name" /\ c.win = w /\ c.for = "save_as"
          /\ ~c.save_lock
      BY <3>1 DEF Idle, CallState, Saving, Result, Target
    <3>4. GoodCall(p, c, win[w])
      BY <2>1, <3>3 DEF GoodCall, Locking, Saving, Unlocking
    <3>5. QED
      BY <2>1, <2>2, <2>4, <3>2, <3>3, <3>4
  <2>9. CASE Close(w)
    <3>1. CASE win[w].locked
      <4>1. PICK c : c = [Idle EXCEPT !.at = "unlock_lstat", !.for = "close",
                                      !.file = win[w].file, !.win = w]
        OBVIOUS
      <4>2. /\ c \in CallState /\ c.at = "unlock_lstat" /\ c.win = w /\ c.file = win[w].file
            /\ c.for = "close" /\ ~c.save_lock
        BY <2>1, <4>1 DEF Idle, CallState, Unlocking, Result, Target
      <4>3. GoodCall(p, c, win[w])
        BY <2>1, <3>1, <4>2 DEF GoodCall, Locking, Saving, Unlocking
      <4>4. Goes(p, c) /\ win' = win
        BY <2>9, <3>1, <4>1 DEF Close, Begins
      <4>5. QED
        BY <2>1, <2>2, <2>4, <4>2, <4>3, <4>4
    <3>2. CASE ~win[w].locked
      <4>1. Closed \in WindowState /\ ~Closed.locked /\ GoodWindow(Closed)
        BY DEF Closed, WindowState, GoodWindow
      <4>2. win' = [win EXCEPT ![w] = Closed] /\ call' = call
        BY <2>9, <3>2 DEF Close
      <4>3. QED
        BY <2>3, <4>1, <4>2
    <3>3. QED
      BY <3>1, <3>2
  <2>10. QED
    BY <1>3, <2>5, <2>6, <2>7, <2>8, <2>9
<1>4. QED
  BY <1>2, <1>3 DEF Edits, Modify, Undo, Save, SaveAs, Close

(* A process starts or ends in order: nothing is held for it.              *)
LEMMA ProcessKeeps ==
  ASSUME IInv, NEW p \in Proc, Start(p) \/ Quit(p)
  PROVE  IInv'
<1> USE DEF IInv
<1>1. /\ running' \subseteq Proc /\ link' = link /\ win' = win /\ call' = call
      /\ broken' = broken /\ sudo_saved' = sudo_saved
  BY DEF Start, Quit, TypeOK
<1>2. TypeOK'
  BY <1>1 DEF TypeOK
<1>3. \A q \in Proc : call[q] # Idle => (q \in running => q \in running')
  BY DEF Start, Quit, At, Control, GoodCall
<1>4. \A w \in Window : win[w] # Closed => win[w].owner \in running'
  BY <1>1 DEF Start, Quit, Control, GoodWindow
<1>5. Control'
  BY <1>1, <1>3, <1>4 DEF Control, GoodCall, GoodWindow
<1>6. Exclusive'
  BY <1>1 DEF Exclusive, Holds, SaveHolds
<1>7. QED
  BY <1>2, <1>5, <1>6

(* A process dies: what it holds is broken, and its windows are gone.      *)
LEMMA CrashKeeps ==
  ASSUME IInv, NEW p \in Proc, Crash(p)
  PROVE  IInv'
<1> USE DEF IInv
<1>1. Idle \in CallState /\ Idle.at = "idle" /\ ~Idle.save_lock
  BY DEF Idle, CallState, Locking, Saving, Unlocking, Result, Target
<1>2. Closed \in WindowState /\ Closed.owner = None /\ ~Closed.locked
  BY DEF Closed, WindowState
<1>3. /\ running' = running \ {p} /\ link' = link /\ sudo_saved' = sudo_saved
      /\ broken' = broken \cup {f \in File : link[f] = p}
      /\ call' = [call EXCEPT ![p] = Idle]
      /\ win' = [v \in Window |-> IF win[v].owner = p THEN Closed ELSE win[v]]
  BY DEF Crash
<1>4. TypeOK'
  <2>1. call' \in [Proc -> CallState]
    BY <1>1, <1>3 DEF TypeOK
  <2>2. win' \in [Window -> WindowState]
    BY <1>2, <1>3 DEF TypeOK
  <2>3. running' \subseteq Proc /\ link' \in [File -> Target]
        /\ broken' \subseteq File /\ sudo_saved' \subseteq File
    BY <1>3 DEF TypeOK
  <2>4. QED
    BY <2>1, <2>2, <2>3 DEF TypeOK
<1>5. \A v \in Window : win'[v] = IF win[v].owner = p THEN Closed ELSE win[v]
  BY <1>3
<1>6. call'[p] = Idle /\ \A q \in Proc : q # p => call'[q] = call[q]
  BY <1>3 DEF TypeOK
<1>7. ASSUME NEW q \in Proc PROVE GoodCall(q, call[q], win[call[q].win])'
  <2>1. CASE call'[q] = Idle
    BY <1>1, <2>1 DEF GoodCall, Idle, Locking, Saving, Unlocking
  <2>2. CASE call'[q] # Idle
    <3>1. q # p /\ call'[q] = call[q] /\ GoodCall(q, call[q], win[call[q].win])
      BY <1>6, <2>2 DEF Control
    <3>2. call[q].at # "idle" /\ q \in running'
      BY <1>3, <2>2, <3>1 DEF GoodCall
    <3>3. call[q].win \in Window /\ win[call[q].win].owner = q
      BY <3>1, <3>2 DEF GoodCall
    <3>4. win'[call[q].win] = win[call[q].win]
      BY <1>5, <3>1, <3>3
    <3>5. QED
      BY <3>1, <3>2, <3>4 DEF GoodCall
  <2>3. QED
    BY <2>1, <2>2
<1>8. ASSUME NEW v \in Window PROVE GoodWindow(win[v])'
  BY <1>2, <1>3, <1>5 DEF Control, GoodWindow
<1>9. Exclusive'
  <2>1. \A f \in File : /\ \A v \in Window : Holds(v, f)' => Holds(v, f) /\ win'[v] = win[v]
                        /\ \A q \in Proc : SaveHolds(q, f)' => SaveHolds(q, f)
    BY <1>1, <1>2, <1>5, <1>6 DEF Holds, SaveHolds
  <2>2. File \ broken' \subseteq File \ broken
    BY <1>3
  <2>3. QED
    BY <1>3, <2>1, <2>2 DEF Exclusive
<1>10. QED
  BY <1>4, <1>7, <1>8, <1>9 DEF Control

-----------------------------------------------------------------------------
(* The invariant holds at first.                                           *)
LEMMA InitIInv ==
  Init => IInv
<1> SUFFICES ASSUME Init PROVE IInv
  OBVIOUS
<1>1. Idle \in CallState /\ Idle.at = "idle" /\ ~Idle.save_lock
  BY DEF Idle, CallState, Locking, Saving, Unlocking, Result, Target
<1>2. Closed \in WindowState /\ ~Closed.locked
  BY DEF Closed, WindowState
<1>3. TypeOK
  BY <1>1, <1>2 DEF Init, TypeOK, Target
<1>4. Control
  BY <1>1 DEF Init, Control, GoodCall, GoodWindow, Idle, Locking, Saving, Unlocking
<1>5. Exclusive
  BY <1>1, <1>2 DEF Init, Exclusive, Holds, SaveHolds
<1>6. QED
  BY <1>3, <1>4, <1>5 DEF IInv

(* Every step keeps the invariant.                                         *)
LEMMA NextIInv ==
  IInv /\ [Next]_vars => IInv'
<1> SUFFICES ASSUME IInv, [Next]_vars PROVE IInv'
  OBVIOUS
<1>1. ASSUME NEW p \in Proc, Lock(p) \/ Unlock(p) \/ Saves(p) PROVE IInv'
  BY <1>1, LockKeeps, UnlockKeeps, SavesKeeps
<1>2. ASSUME NEW p \in Proc, Start(p) \/ Quit(p) \/ Crash(p) PROVE IInv'
  BY <1>2, ProcessKeeps, CrashKeeps
<1>3. ASSUME NEW w \in Window, Edits(w) PROVE IInv'
  BY <1>3, EditsKeeps
<1>4. CASE UNCHANGED vars
  BY <1>4 DEF vars, IInv, TypeOK, Control, GoodCall, GoodWindow, Exclusive, Holds, SaveHolds
<1>5. QED
  BY <1>1, <1>2, <1>3, <1>4 DEF Next

(* In every reachable state a process in the middle of a lock, a save or   *)
(* an unlock knows what that place of the code takes for granted, and      *)
(* locks are exclusive.                                                    *)
THEOREM InductiveInvariant == Spec => []IInv
BY InitIInv, NextIInv, PTL DEF Spec

(* The windows, the links and the locals of the calls keep their types.    *)
THEOREM TypeCorrect == Spec => []TypeOK
<1>1. IInv => TypeOK
  BY DEF IInv
<1>2. QED
  BY <1>1, InductiveInvariant, PTL

(* Until somebody breaks the lock of a file (lock.c asks first, or finds   *)
(* its owner dead), the window or the save that believes it holds that     *)
(* lock is the only one, and the link on the disk names its process.       *)
THEOREM LockExclusive == Spec => []Exclusive
<1>1. IInv => Exclusive
  BY DEF IInv
<1>2. QED
  BY <1>1, InductiveInvariant, PTL

-----------------------------------------------------------------------------
(* Release.  No lock is left behind, and a modified window keeps its lock. *)
(*                                                                         *)
(* A lock can only be lost by a window that asks again for what it has:    *)
(* lock_file then fails, and locked is cleared.  Settled says that this    *)
(* happens to no file but the broken ones and those saved through sudo: a  *)
(* window that has a lock is modified, or is giving the lock up.           *)
(* Conversely, no window that should have a lock is without one (Owes).    *)

Undoing(w) ==
  \E p \in Proc : call[p].at \in Unlocking /\ call[p].for = "undo" /\ call[p].win = w

Settled ==
  /\ \A w \in Window : win[w].locked /\ ~win[w].modified =>
       win[w].file \in broken \cup sudo_saved \/ Undoing(w)
  /\ \A p \in Proc : call[p].at \in Locking /\ call[p].for = "modify" =>
       ~win[call[p].win].modified
  /\ \A p \in Proc : call[p].at \in Unlocking /\ call[p].for = "undo" =>
       ~win[call[p].win].modified
  /\ \A w \in Window : ~Owes(win[w])

RInv == IInv /\ Settled /\ NothingLeftBehind

(* What the two new records of a step must be for Settled.                 *)
Tidy(s, c, gone) ==
  /\ s.locked /\ ~s.modified => s.file \in gone \/ (c.at \in Unlocking /\ c.for = "undo")
  /\ c.at \in Locking /\ c.for = "modify" => ~s.modified
  /\ c.at \in Unlocking /\ c.for = "undo" => ~s.modified
  /\ ~Owes(s)

(* Process p holds f by them.                                              *)
HoldsBy(p, s, c, f) == (s.locked /\ s.owner = p /\ s.file = f) \/ (c.save_lock /\ c.file = f)

-----------------------------------------------------------------------------
(* A window that holds a lock which is not broken sees it on the disk.     *)
LEMMA HeldIsThere ==
  ASSUME IInv, NEW w \in Window, win[w].locked, win[w].file \notin broken
  PROVE  /\ win[w].file \in File /\ win[w].owner \in Proc
         /\ link[win[w].file] = win[w].owner
<1>1. win[w].owner \in running /\ win[w].file \in File
  BY DEF IInv, Control, GoodWindow, Closed
<1>2. QED
  BY <1>1 DEF IInv, TypeOK, Exclusive, Holds

(* The same after a step.                                                  *)
LEMMA HeldIsThereNext ==
  ASSUME IInv', NEW w \in Window, win'[w].locked, win'[w].file \notin broken'
  PROVE  /\ win'[w].file \in File /\ win'[w].owner \in Proc
         /\ link'[win'[w].file] = win'[w].owner
<1>1. win'[w].owner \in running' /\ win'[w].file \in File
  BY DEF IInv, Control, GoodWindow, Closed
<1>2. QED
  BY <1>1 DEF IInv, TypeOK, Exclusive, Holds

(* A step of process p that changes links as it may.                       *)
LEMMA StepReleased ==
  ASSUME IInv, IInv', Settled, NothingLeftBehind,
         NEW p \in Proc, NEW w \in Window, NEW c, NEW s,
         Step(p, w, c, s), Good(p, w, c, s), win[w].owner \in {p, None},
         call[p].at # "idle" => call[p].win = w,
         Tidy(s, c, broken \cup sudo_saved \cup broken' \cup sudo_saved'),
         \A f \in File : link'[f] \in {p, link[f], NoLink},
         \A f \in broken \cup sudo_saved : f \in broken' \cup sudo_saved' \/ link'[f] = NoLink,
         \A f \in File \ (broken' \cup sudo_saved') :
           link'[f] = p => \/ HoldsBy(p, s, c, f)
                           \/ /\ link[f] = p
                              /\ Holds(w, f) => HoldsBy(p, s, c, f)
                              /\ SaveHolds(p, f) => HoldsBy(p, s, c, f)
  PROVE  Settled' /\ NothingLeftBehind'
<1>1. /\ \A v \in Window : v # w => win'[v] = win[v]
      /\ \A q \in Proc : q # p => call'[q] = call[q]
      /\ win'[w] = s /\ call'[p] = c
  BY DEF IInv, TypeOK, Step
<1>2. c.at # "idle" => c.win = w
  BY DEF Good
<1>3. \A q \in Proc : q # p /\ call[q].at # "idle" => call[q].win \in Window \ {w}
  BY DEF IInv, Control, GoodCall
<1>4. ASSUME NEW v \in Window, win'[v].locked, ~win'[v].modified
      PROVE  win'[v].file \in broken' \cup sudo_saved' \/ Undoing(v)'
  <2>1. \/ win'[v].file \in broken \cup sudo_saved \cup broken' \cup sudo_saved'
        \/ Undoing(v)'
    <3>1. CASE v = w
      BY <1>1, <1>2, <1>4, <3>1 DEF Tidy, Undoing, Unlocking
    <3>2. CASE v # w
      <4>1. win[v].file \in broken \cup sudo_saved \/ Undoing(v)
        BY <1>1, <1>4, <3>2 DEF Settled
      <4>2. CASE Undoing(v)
        <5>1. PICK q \in Proc : call[q].at \in Unlocking /\ call[q].for = "undo" /\ call[q].win = v
          BY <4>2 DEF Undoing
        <5>2. q # p
          BY <3>2, <5>1 DEF Unlocking
        <5>3. QED
          BY <1>1, <5>1, <5>2 DEF Undoing
      <4>3. QED
        BY <1>1, <3>2, <4>1, <4>2
    <3>3. QED
      BY <3>1, <3>2
  <2>2. CASE win'[v].file \notin broken'
    <3>1. link'[win'[v].file] # NoLink
      BY <1>4, <2>2, HeldIsThereNext
    <3>2. QED
      BY <2>1, <3>1
  <2>3. QED
    BY <2>2
<1>5. ASSUME NEW q \in Proc,
             \/ call'[q].at \in Locking /\ call'[q].for = "modify"
             \/ call'[q].at \in Unlocking /\ call'[q].for = "undo"
      PROVE  ~win'[call'[q].win].modified
  <2>1. CASE q = p
    BY <1>1, <1>2, <1>5, <2>1 DEF Tidy, Locking, Unlocking
  <2>2. CASE q # p
    <3>1. call'[q] = call[q] /\ call[q].win \in Window \ {w}
      BY <1>1, <1>3, <1>5, <2>2 DEF Locking, Unlocking
    <3>2. QED
      BY <1>1, <1>5, <3>1 DEF Settled
  <2>3. QED
    BY <2>1, <2>2
<1>6. Settled'
  <2>1. \A v \in Window : ~Owes(win'[v])
    BY <1>1 DEF Settled, Tidy
  <2>2. QED
    BY <1>4, <1>5, <2>1 DEF Settled, Owes
<1>7. ASSUME NEW f \in File \ (broken' \cup sudo_saved'), NEW q \in Proc, link'[f] = q
      PROVE  \/ \E v \in Window : win'[v].owner = q /\ win'[v].locked /\ win'[v].file = f
             \/ call'[q].save_lock /\ call'[q].file = f
  <2>1. f \notin broken \cup sudo_saved
    BY <1>7
  <2>2. link[f] = q => \/ \E v \in Window : win[v].owner = q /\ Holds(v, f)
                       \/ SaveHolds(q, f)
    BY <2>1 DEF NothingLeftBehind, NoneLeft
  <2>3. CASE q = p
    <3>1. CASE HoldsBy(p, s, c, f)
      BY <1>1, <2>3, <3>1 DEF HoldsBy
    <3>2. CASE ~HoldsBy(p, s, c, f)
      <4>1. link[f] = p /\ ~Holds(w, f) /\ ~SaveHolds(p, f)
        BY <1>7, <2>3, <3>2
      <4>2. PICK v \in Window : win[v].owner = p /\ Holds(v, f)
        BY <2>2, <2>3, <4>1
      <4>3. QED
        BY <1>1, <2>3, <4>1, <4>2 DEF Holds
    <3>3. QED
      BY <3>1, <3>2
  <2>4. CASE q # p
    <3>1. link[f] = q
      BY <1>7, <2>4
    <3>2. CASE SaveHolds(q, f)
      BY <1>1, <2>4, <3>2 DEF SaveHolds
    <3>3. ASSUME NEW v \in Window, win[v].owner = q, Holds(v, f)
          PROVE  win'[v].owner = q /\ win'[v].locked /\ win'[v].file = f
      BY <1>1, <2>4, <3>3 DEF Holds
    <3>4. QED
      BY <2>2, <3>1, <3>2, <3>3
  <2>5. QED
    BY <2>3, <2>4
<1>8. NothingLeftBehind'
  BY <1>7 DEF NothingLeftBehind, NoneLeft, Holds, SaveHolds
<1>9. QED
  BY <1>6, <1>8

(* A step that changes no link and gives up nothing.                       *)
LEMMA QuietReleased ==
  ASSUME IInv, IInv', Settled, NothingLeftBehind,
         NEW p \in Proc, NEW w \in Window, NEW c, NEW s,
         Step(p, w, c, s), Good(p, w, c, s), win[w].owner \in {p, None},
         call[p].at # "idle" => call[p].win = w,
         Tidy(s, c, broken \cup sudo_saved \cup sudo_saved'),
         link' = link, broken' = broken, sudo_saved \subseteq sudo_saved',
         Retains(w, s), call[p].save_lock => c.save_lock /\ c.file = call[p].file
  PROVE  Settled' /\ NothingLeftBehind'
<1>1. Tidy(s, c, broken \cup sudo_saved \cup broken' \cup sudo_saved')
  BY DEF Tidy
<1>2. ASSUME NEW f \in File \ (broken' \cup sudo_saved'), link'[f] = p
      PROVE  /\ link[f] = p
             /\ Holds(w, f) => HoldsBy(p, s, c, f)
             /\ SaveHolds(p, f) => HoldsBy(p, s, c, f)
  <2>1. Holds(w, f) => win[w].owner = p
    BY <1>2 DEF IInv, Control, GoodWindow, Closed, Holds, TypeOK
  <2>2. QED
    BY <1>2, <2>1 DEF Holds, SaveHolds, HoldsBy, Retains
<1>3. QED
  BY <1>1, <1>2, StepReleased
(* A step of a call that asks for no modification lock keeps windows tidy. *)
LEMMA CalmTidy ==
  ASSUME IInv, Settled, NEW p \in Proc, call[p].at # "idle",
         call[p].at \in Unlocking \/ call[p].for # "undo",
         NEW c, NEW s, Calm(p, call[p].win, c, s)
  PROVE  Tidy(s, c, broken \cup sudo_saved)
<1> DEFINE w == call[p].win
<1>1. w \in Window /\ win[w].owner = p
  BY InCall DEF IInv
<1>2. ASSUME s.locked, ~s.modified
      PROVE  s.file \in broken \cup sudo_saved
  <2>1. win[w].locked /\ ~win[w].modified /\ s.file = win[w].file /\ call[p].for # "undo"
    BY <1>2 DEF Calm
  <2>2. ~Undoing(w)
    <3>1. \A q \in Proc : call[q].at \in Unlocking /\ call[q].win = w => q = p
      BY <1>1 DEF IInv, Control, GoodCall, Unlocking
    <3>2. QED
      BY <2>1, <3>1 DEF Undoing
  <2>3. QED
    BY <1>1, <2>1, <2>2 DEF Settled
<1>3. ~Owes(s)
  <2>1. ~Owes(win[w]) /\ (call[p].for = "undo" => ~win[w].modified)
    BY <1>1 DEF Settled
  <2>2. QED
    BY <2>1 DEF Calm
<1>4. QED
  BY <1>2, <1>3 DEF Tidy, Calm

(* A process that is somewhere in a call goes on.                          *)
LEMMA GoesOnReleased ==
  ASSUME IInv, IInv', Settled, NothingLeftBehind,
         NEW p \in Proc, call[p].at # "idle",
         NEW c, c.win = call[p].win, c.for = call[p].for, c \in CallState,
         c.at \in Locking => call[p].at \in Locking \/ c.for # "modify",
         call[p].at \in Unlocking <=> c.at \in Unlocking,
         c.save_lock = call[p].save_lock, c.save_lock => c.file = call[p].file,
         Goes(p, c), win' = win, running' = running, link' = link, broken' = broken,
         sudo_saved' = sudo_saved, c.at # "idle"
  PROVE  Settled' /\ NothingLeftBehind'
<1> DEFINE w == call[p].win
<1>1. w \in Window /\ win[w].owner = p /\ GoodWindow(win[w]) /\ win[w] \in WindowState
  BY InCall DEF IInv, Control
<1>2. win' = [win EXCEPT ![w] = win[w]]
  BY <1>1 DEF IInv, TypeOK
<1>3. call'[p] = c /\ win'[w] = win[w]
  BY <1>1 DEF Goes, IInv, TypeOK
<1>4. GoodCall(p, c, win[w])
  BY <1>3 DEF IInv, Control, GoodCall
<1>5. Step(p, w, c, win[w]) /\ Good(p, w, c, win[w])
  BY <1>1, <1>2, <1>4 DEF Step, Good, Goes
<1>6. Tidy(win[w], c, broken \cup sudo_saved)
  <2>1. ASSUME win[w].locked, ~win[w].modified, win[w].file \notin broken \cup sudo_saved
        PROVE  c.at \in Unlocking /\ c.for = "undo"
    <3>1. PICK q \in Proc : call[q].at \in Unlocking /\ call[q].for = "undo" /\ call[q].win = w
      BY <1>1, <2>1 DEF Settled, Undoing
    <3>2. q = p
      BY <1>1, <3>1 DEF IInv, Control, GoodCall, Unlocking
    <3>3. QED
      BY <3>1, <3>2
  <2>2. c.at \in Locking /\ c.for = "modify" => ~win[w].modified
    BY DEF Settled
  <2>3. c.at \in Unlocking /\ c.for = "undo" => ~win[w].modified
    BY DEF Settled
  <2>4. ~Owes(win[w])
    BY <1>1 DEF Settled
  <2>5. QED
    BY <2>1, <2>2, <2>3, <2>4 DEF Tidy
<1>7. Retains(w, win[w])
  BY DEF Retains
<1>8. Tidy(win[w], c, broken \cup sudo_saved \cup sudo_saved')
  BY <1>6 DEF Tidy
<1>9. QED
  BY <1>1, <1>5, <1>7, <1>8, QuietReleased

(* lock_file loses no lock its process has.                                *)
LEMMA LockReleases ==
  ASSUME IInv, IInv', Settled, NothingLeftBehind, NEW p \in Proc, Lock(p)
  PROVE  Settled' /\ NothingLeftBehind'
<1> USE DEF IInv
<1> DEFINE c0 == call[p]
           w == c0.win
<1>1. c0.at \in Locking /\ c0.at # "idle" /\ running' = running
  BY DEF Lock, LockLstat, LockReadlink, LockKill, LockGrab, LockIgnore, LockUnlink, LockSymlink,
         At, Locking
<1>2. /\ p \in running /\ c0 \in CallState /\ w \in Window /\ win[w] \in WindowState
      /\ win[w].owner = p /\ GoodWindow(win[w])
  BY <1>1, InCall DEF GoodWindow
<1>3. c0.file \in File /\ ~c0.save_lock /\ c0.for # "undo"
  BY <1>1 DEF Control, GoodCall
<1>4. ASSUME NEW at \in Locking, NEW l \in Target \ {NotALink},
             Goes(p, [c0 EXCEPT !.at = at, !.lockinfo = l]),
             win' = win, link' = link, broken' = broken, sudo_saved' = sudo_saved
      PROVE  Settled' /\ NothingLeftBehind'
  <2> DEFINE c == [c0 EXCEPT !.at = at, !.lockinfo = l]
  <2>1. /\ c \in CallState /\ c.at \in Locking /\ c.at # "idle" /\ c.win = w
        /\ c.file = c0.file /\ c.for = c0.for /\ c.save_lock = c0.save_lock
    BY <1>2 DEF CallState, Locking
  <2>2. c0.at \notin Unlocking /\ c.at \notin Unlocking
    BY <1>1, <2>1 DEF Locking, Unlocking
  <2> HIDE DEF c
  <2>3. Goes(p, c)
    BY <1>4 DEF c
  <2>4. QED
    BY <1>1, <1>4, <2>1, <2>2, <2>3, GoesOnReleased
<1>5. c0.lockinfo \in Target \ {NotALink}
  BY <1>2 DEF CallState
<1>6. ASSUME NEW ok \in BOOLEAN, LockReturns(p, ok), broken' = broken, sudo_saved' = sudo_saved,
             IF ok THEN link[c0.file] = NoLink /\ link' = [link EXCEPT ![c0.file] = p]
                   ELSE link' = link
      PROVE  Settled' /\ NothingLeftBehind'
  <2>1. PICK c \in CallState, s \in WindowState :
          /\ Step(p, w, c, s) /\ Good(p, w, c, s) /\ Calm(p, w, c, s)
          /\ ok => HoldsBy(p, s, c, c0.file)
          /\ \/ Retains(w, s)
             \/ c0.for = "modify" /\ win[w].file = c0.file
    BY <1>1, <1>6, LockReturnsOutcome DEF HoldsBy
  <2>2. Tidy(s, c, broken \cup sudo_saved \cup broken' \cup sudo_saved')
    BY <1>1, <1>3, <2>1, CalmTidy DEF Tidy
  <2>3. link' = IF ok THEN [link EXCEPT ![c0.file] = p] ELSE link
    BY <1>6
  <2>4. \A f \in File : link'[f] = (IF ok /\ f = c0.file THEN p ELSE link[f])
    BY <1>3, <2>3 DEF TypeOK
  <2>5. ASSUME NEW f \in File \ (broken' \cup sudo_saved'), link'[f] = p, ~HoldsBy(p, s, c, f)
        PROVE  link[f] = p /\ ~Holds(w, f) /\ ~SaveHolds(p, f)
    <3>1. link[f] = p
      BY <2>1, <2>4, <2>5
    <3>2. ~SaveHolds(p, f)
      BY <1>3 DEF SaveHolds
    <3>3. ASSUME Holds(w, f) PROVE FALSE
      <4>1. CASE Retains(w, s)
        BY <1>2, <2>5, <3>3, <4>1 DEF Retains, Holds, HoldsBy
      <4>2. CASE c0.for = "modify"
        <5>1. ~win[w].modified
          BY <1>1, <4>2 DEF Settled
        <5>2. f \notin broken \cup sudo_saved
          BY <1>6, <2>5
        <5>3. PICK q \in Proc : call[q].at \in Unlocking /\ call[q].win = w
          BY <1>2, <3>3, <5>1, <5>2 DEF Settled, Undoing, Holds
        <5>4. q = p
          BY <1>2, <5>3 DEF Control, GoodCall, Unlocking
        <5>5. QED
          BY <1>1, <5>3, <5>4 DEF Locking, Unlocking
      <4>3. QED
        BY <2>1, <4>1, <4>2
    <3>4. QED
      BY <3>1, <3>2, <3>3
  <2>6. \A f \in broken \cup sudo_saved : f \in broken' \cup sudo_saved'
    BY <1>6
  <2>7. \A f \in File : link'[f] \in {p, link[f], NoLink}
    BY <2>4
  <2>8. QED
    BY <1>2, <2>1, <2>2, <2>5, <2>6, <2>7, StepReleased
<1>7. CASE LockLstat(p)
  <2> DEFINE at == IF link[c0.file] = NoLink THEN "symlink" ELSE "readlink"
  <2>1. at \in Locking
    BY DEF Locking
  <2>2. [c0 EXCEPT !.at = at] = [c0 EXCEPT !.at = at, !.lockinfo = c0.lockinfo]
    BY <1>2 DEF CallState
  <2>3. Goes(p, [c0 EXCEPT !.at = at])
    BY <1>7 DEF LockLstat
  <2> HIDE DEF at
  <2>4. QED
    BY <1>4, <1>5, <1>7, <2>1, <2>2, <2>3 DEF LockLstat
<1>8. CASE LockReadlink(p)
  <2>1. CASE link[c0.file] \in {NoLink, NotALink}
    BY <1>6, <1>8, <2>1 DEF LockReadlink
  <2>2. CASE link[c0.file] \notin {NoLink, NotALink}
    <3>1. PICK l : l = link[c0.file]
      OBVIOUS
    <3>2. l \in Target \ {NotALink}
      BY <1>3, <2>2, <3>1 DEF TypeOK
    <3>3. [c0 EXCEPT !.at = "kill", !.lockinfo = l]
            = [c0 EXCEPT !.at = "kill", !.lockinfo = l]
      BY <1>2 DEF CallState
    <3>4. Goes(p, [c0 EXCEPT !.at = "kill", !.lockinfo = l])
      BY <1>8, <2>2, <3>1 DEF LockReadlink
    <3>5. QED
      BY <1>4, <1>5, <1>8, <2>2, <3>2, <3>3, <3>4 DEF LockReadlink, Locking
  <2>3. QED
    BY <2>1, <2>2
<1>9. CASE LockKill(p)
  <2> DEFINE at == IF c0.lockinfo = NoPid \/ Alive(p, c0.lockinfo) THEN "query" ELSE "unlink"
  <2>1. at \in Locking
    BY DEF Locking
  <2>2. [c0 EXCEPT !.at = at, !.lockinfo = NoLink]
          = [c0 EXCEPT !.at = at, !.lockinfo = NoLink]
    BY <1>2 DEF CallState
  <2>3. /\ Goes(p, [c0 EXCEPT !.at = at, !.lockinfo = NoLink])
        /\ win' = win /\ link' = link /\ broken' = broken /\ sudo_saved' = sudo_saved
    BY <1>9 DEF LockKill
  <2> HIDE DEF at
  <2>4. QED
    BY <1>4, <1>5, <2>1, <2>2, <2>3 DEF Target
<1>10. CASE LockGrab(p)
  <2>1. [c0 EXCEPT !.at = "unlink"]
          = [c0 EXCEPT !.at = "unlink", !.lockinfo = c0.lockinfo]
    BY <1>2 DEF CallState
  <2>2. QED
    BY <1>4, <1>5, <1>10, <2>1 DEF LockGrab, Locking
<1>11. CASE LockIgnore(p)
  BY <1>6, <1>11 DEF LockIgnore
<1>12. CASE LockUnlink(p)
  <2> DEFINE c == [c0 EXCEPT !.at = "symlink"]
  <2>1. /\ c \in CallState /\ c.at = "symlink" /\ c.win = w /\ c.file = c0.file
        /\ c.for = c0.for /\ c.save_lock = c0.save_lock
    BY <1>2 DEF CallState, Locking
  <2>2. Goes(p, c) /\ win' = win /\ link' = [link EXCEPT ![c0.file] = NoLink]
    BY <1>12 DEF LockUnlink
  <2>3. broken \subseteq broken' /\ sudo_saved' = sudo_saved \ {c0.file}
    BY <1>12 DEF LockUnlink
  <2> HIDE DEF c
  <2>4. GoodCall(p, c, win[w])
    <3>1. GoodCall(p, c0, win[w])
      BY DEF Control
    <3>2. QED
      BY <1>1, <1>2, <2>1, <3>1 DEF GoodCall, Locking, Saving, Unlocking
  <2>5. Step(p, w, c, win[w]) /\ Good(p, w, c, win[w])
    BY <1>1, <1>2, <2>1, <2>2, <2>4 DEF Step, Good, Goes, TypeOK
  <2>6. Calm(p, w, c, win[w]) \/ c0.for = "modify"
    BY <1>1, <1>3, <2>1 DEF Calm, Control, GoodCall, Unlocking
  <2>7. Tidy(win[w], c, broken \cup sudo_saved)
    <3>1. CASE c0.for # "modify"
      BY <1>1, <1>3, <2>6, <3>1, CalmTidy
    <3>2. CASE c0.for = "modify"
      <4>1. ~win[w].modified
        BY <1>1, <3>2 DEF Settled
      <4>2. ~Undoing(w)
        <5>1. \A q \in Proc : call[q].at \in Unlocking /\ call[q].win = w => q = p
          BY <1>2 DEF Control, GoodCall, Unlocking
        <5>2. QED
          BY <1>1, <5>1 DEF Undoing, Locking, Unlocking
      <4>3. QED
        BY <1>2, <2>1, <4>1, <4>2 DEF Settled, Tidy
    <3>3. QED
      BY <3>1, <3>2
  <2>8. Tidy(win[w], c, broken \cup sudo_saved \cup broken' \cup sudo_saved')
    BY <2>7 DEF Tidy
  <2>9. \A f \in File : link'[f] = (IF f = c0.file THEN NoLink ELSE link[f])
    BY <2>2 DEF TypeOK
  <2>10. ASSUME NEW f \in File \ (broken' \cup sudo_saved'), link'[f] = p
         PROVE  /\ link[f] = p
                /\ Holds(w, f) => HoldsBy(p, win[w], c, f)
                /\ SaveHolds(p, f) => HoldsBy(p, win[w], c, f)
    BY <1>2, <1>3, <2>9, <2>10 DEF Holds, SaveHolds, HoldsBy
  <2>11. \A f \in broken \cup sudo_saved : f \in broken' \cup sudo_saved' \/ link'[f] = NoLink
    BY <1>3, <2>3, <2>9
  <2>12. QED
    BY <1>2, <2>5, <2>8, <2>9, <2>10, <2>11, StepReleased
<1>13. CASE LockSymlink(p)
  BY <1>6, <1>13 DEF LockSymlink
<1>14. QED
  BY <1>7, <1>8, <1>9, <1>10, <1>11, <1>12, <1>13 DEF Lock
(* unlock_file returns, and its file is not locked by its process any more. *)
LEMMA UnlockReturnsReleased ==
  ASSUME IInv, IInv', Settled, NothingLeftBehind,
         NEW p \in Proc, call[p].at \in Unlocking, running' = running, UnlockReturns(p),
         \A f \in File : link'[f] \in {link[f], NoLink},
         \A f \in File : f = Unlocked(call[p]) => link'[f] # p,
         \A f \in broken \cup sudo_saved : f \in broken' \cup sudo_saved' \/ link'[f] = NoLink
  PROVE  Settled' /\ NothingLeftBehind'
<1> USE DEF IInv
<1> DEFINE w == call[p].win
<1>1. call[p].at # "idle" /\ w \in Window /\ win[w].owner = p
  BY InCall DEF Unlocking
<1>2. PICK c \in CallState, s \in WindowState :
        /\ Outcome(p, w, c, s) /\ Calm(p, w, c, s)
        /\ call[p].save_lock => Retains(w, s)
  BY UnlockReturnsOutcome
<1>3. Tidy(s, c, broken \cup sudo_saved \cup broken' \cup sudo_saved')
  BY <1>1, <1>2, CalmTidy DEF Tidy
<1>4. ASSUME NEW f \in File, link'[f] = p
      PROVE  /\ link[f] = p
             /\ Holds(w, f) => HoldsBy(p, s, c, f)
             /\ SaveHolds(p, f) => HoldsBy(p, s, c, f)
  <2>1. link[f] = p /\ f # Unlocked(call[p])
    BY <1>4
  <2>2. ~SaveHolds(p, f)
    BY <2>1 DEF SaveHolds, Unlocked
  <2>3. Holds(w, f) => call[p].save_lock
    BY <2>1 DEF Holds, Unlocked
  <2>4. QED
    BY <1>1, <1>2, <2>1, <2>2, <2>3 DEF Holds, HoldsBy, Retains
<1>5. \A f \in File : link'[f] \in {p, link[f], NoLink}
  OBVIOUS
<1>6. Step(p, w, c, s) /\ Good(p, w, c, s)
  BY <1>2 DEF Outcome
<1>7. QED
  BY <1>1, <1>3, <1>4, <1>5, <1>6, StepReleased

(* unlock_file gives up the lock it was called for, and no other.          *)
LEMMA UnlockReleases ==
  ASSUME IInv, IInv', Settled, NothingLeftBehind, NEW p \in Proc, Unlock(p)
  PROVE  Settled' /\ NothingLeftBehind'
<1> USE DEF IInv
<1> DEFINE c0 == call[p]
<1>1. c0.at \in Unlocking /\ c0.at # "idle" /\ running' = running
  BY DEF Unlock, UnlockLstat, UnlockReadlink, UnlockUnlink, At, Unlocking
<1>2. c0 \in CallState
  BY <1>1, InCall
<1>3. ASSUME NEW place \in Unlocking, Goes(p, [c0 EXCEPT !.at = place]), win' = win,
             link' = link, broken' = broken, sudo_saved' = sudo_saved
      PROVE  Settled' /\ NothingLeftBehind'
  <2> DEFINE c == [c0 EXCEPT !.at = place]
  <2>1. /\ c \in CallState /\ c.at \in Unlocking /\ c.win = c0.win /\ c.file = c0.file
        /\ c.for = c0.for /\ c.save_lock = c0.save_lock /\ c.at # "idle" /\ c.at \notin Locking
    BY <1>2 DEF CallState, Locking, Unlocking
  <2>2. Goes(p, c)
    BY <1>3
  <2> HIDE DEF c
  <2>3. QED
    BY <1>1, <1>3, <2>1, <2>2, GoesOnReleased
<1>4. ASSUME UnlockReturns(p), link' = link, broken' = broken, sudo_saved' = sudo_saved,
             link[Unlocked(c0)] # p
      PROVE  Settled' /\ NothingLeftBehind'
  BY <1>1, <1>4, UnlockReturnsReleased
<1>5. CASE UnlockLstat(p)
  BY <1>3, <1>4, <1>5 DEF UnlockLstat, Unlocking
<1>6. CASE UnlockReadlink(p)
  <2>1. Ours(p, p)
    BY DEF Ours
  <2>2. QED
    BY <1>3, <1>4, <1>6, <2>1 DEF UnlockReadlink, Unlocking
<1>7. CASE UnlockUnlink(p)
  <2>1. link' = [link EXCEPT ![Unlocked(c0)] = NoLink]
    BY <1>7 DEF UnlockUnlink
  <2>2. broken \subseteq broken' /\ sudo_saved' = sudo_saved \ {Unlocked(c0)}
    BY <1>7 DEF UnlockUnlink
  <2>3. \A f \in File : link'[f] = (IF f = Unlocked(c0) THEN NoLink ELSE link[f])
    BY <2>1 DEF TypeOK
  <2>4. \A f \in broken \cup sudo_saved : f \in broken' \cup sudo_saved' \/ link'[f] = NoLink
    BY <2>2, <2>3 DEF TypeOK
  <2>5. QED
    BY <1>1, <1>7, <2>3, <2>4, UnlockReturnsReleased DEF UnlockUnlink
<1>8. QED
  BY <1>5, <1>6, <1>7 DEF Unlock

(* Writing, naming and saving through sudo keep or hand on the locks.      *)
LEMMA SavesReleases ==
  ASSUME IInv, IInv', Settled, NothingLeftBehind, NEW p \in Proc, Saves(p)
  PROVE  Settled' /\ NothingLeftBehind'
<1> USE DEF IInv
<1> DEFINE c0 == call[p]
           w == c0.win
<1>1. c0.at \in Saving /\ c0.at # "idle" /\ running' = running
  BY DEF Saves, SaveWrites, SaveAsName, SudoSaves, SaveCancel, At, Saving
<1>2. /\ p \in running /\ c0 \in CallState /\ w \in Window /\ win[w] \in WindowState
      /\ win[w].owner = p /\ win[w].file \in File /\ GoodWindow(win[w])
  BY <1>1, InCall DEF GoodWindow
<1>3. /\ c0.for \in {"save", "save_as"} /\ c0.for # "undo"
      /\ c0.at = "write" => c0.file \in File
      /\ c0.at # "write" => ~c0.save_lock
  BY <1>1 DEF Control, GoodCall
<1>4. Idle \in CallState /\ Idle.at = "idle" /\ ~Idle.save_lock
  BY DEF Idle, CallState, Locking, Saving, Unlocking, Result, Target
<1>5. ASSUME NEW c \in CallState, NEW s \in WindowState, Outcome(p, w, c, s), Retains(w, s),
             c0.save_lock => c.save_lock /\ c.file = c0.file,
             Tidy(s, c, broken \cup sudo_saved \cup sudo_saved'),
             link' = link, broken' = broken, sudo_saved \subseteq sudo_saved'
      PROVE  Settled' /\ NothingLeftBehind'
  BY <1>2, <1>5, QuietReleased DEF Outcome
<1>6. ASSUME NEW res \in Result \ {"none"}, SaveWrites(p, res)
      PROVE  Settled' /\ NothingLeftBehind'
  <2>1. c0.file \in File
    BY <1>3, <1>6 DEF SaveWrites, At
  <2>2. PICK d : d = [c0 EXCEPT !.res = res]
    OBVIOUS
  <2>3. /\ d \in CallState /\ d.win = w /\ d.file = c0.file /\ d.save_lock = c0.save_lock
        /\ d.for = c0.for
    BY <1>2, <2>2 DEF CallState
  <2>4. SaveGoesOn(p, d)
    BY <1>6, <2>2 DEF SaveWrites
  <2>5. PICK c \in CallState, s \in WindowState :
          /\ Outcome(p, w, c, s) /\ Calm(p, w, c, s)
          /\ c.save_lock = c0.save_lock /\ (c.save_lock => c.file = c0.file)
          /\ Retains(w, s)
    <3>1. d.for \in {"save", "save_as"} /\ d.file \in File /\ c0.for # "undo"
      BY <1>3, <2>1, <2>3
    <3>2. QED
      BY <1>1, <2>3, <2>4, <3>1, SaveGoesOnOutcome
  <2>6. Tidy(s, c, broken \cup sudo_saved \cup sudo_saved')
    BY <1>1, <1>3, <2>5, CalmTidy DEF Tidy
  <2>7. QED
    BY <1>5, <1>6, <2>5, <2>6 DEF SaveWrites
<1>7. ASSUME NEW f \in File, SaveAsName(p, f)
      PROVE  Settled' /\ NothingLeftBehind'
  <2> DEFINE at == IF f # win[w].file \/ LocksToSave(w) THEN "lstat" ELSE "write"
  <2>1. at \in {"lstat", "write"}
    OBVIOUS
  <2>2. PICK c : c = [c0 EXCEPT !.file = f, !.at = at]
    OBVIOUS
  <2>3. Goes(p, c) /\ win' = win
    BY <1>7, <2>2 DEF SaveAsName
  <2> HIDE DEF at
  <2>4. /\ c \in CallState /\ c.at = at /\ c.win = w /\ c.file = f /\ c.for = c0.for
        /\ c.save_lock = c0.save_lock
    BY <1>2, <2>1, <2>2 DEF CallState, Locking, Saving
  <2>5. ~c0.save_lock
    BY <1>3, <1>7 DEF SaveAsName, At
  <2>6. c.at # "idle" /\ c0.at \notin Unlocking /\ c.at \notin Unlocking /\ c.for # "modify"
    BY <1>1, <1>3, <2>1, <2>4 DEF Saving, Unlocking
  <2>7. QED
    BY <1>1, <1>7, <2>3, <2>4, <2>5, <2>6, GoesOnReleased DEF SaveAsName
<1>8. CASE SudoSaves(p)
  <2> DEFINE s == [win[w] EXCEPT !.modified = FALSE, !.new = FALSE, !.declined = FALSE]
  <2>1. /\ s \in WindowState /\ s.locked = win[w].locked /\ s.owner = p
        /\ s.file = win[w].file /\ ~Owes(s)
    BY <1>2 DEF WindowState, Owes
  <2>2. Good(p, w, Idle, s)
    BY <1>2, <1>4, <2>1 DEF Good, GoodCall, GoodWindow, Idle, Locking, Saving, Unlocking
  <2>3. win' = [win EXCEPT ![w] = s] /\ Goes(p, Idle)
    BY <1>2, <1>8 DEF SudoSaves, TypeOK, WindowState
  <2> HIDE DEF s
  <2>4. Outcome(p, w, Idle, s) /\ Retains(w, s)
    BY <1>1, <1>2, <1>4, <2>1, <2>2, <2>3 DEF Outcome, Step, Shrinks, Goes, Retains
  <2>5. sudo_saved \subseteq sudo_saved' /\ (win[w].locked => win[w].file \in sudo_saved')
    BY <1>8 DEF SudoSaves
  <2>6. Tidy(s, Idle, broken \cup sudo_saved \cup sudo_saved')
    BY <1>4, <2>1, <2>5 DEF Tidy, Locking, Unlocking
  <2>7. ~c0.save_lock
    BY <1>3, <1>8 DEF SudoSaves, At
  <2>8. QED
    BY <1>4, <1>5, <1>8, <2>1, <2>4, <2>5, <2>6, <2>7 DEF SudoSaves
<1>9. CASE SaveCancel(p)
  <2>1. GoodCall(p, Idle, win[w])
    BY <1>2, <1>4 DEF GoodCall, Idle, Locking, Saving, Unlocking
  <2>2. Good(p, w, Idle, win[w])
    BY <1>2, <1>4, <2>1 DEF Good
  <2>3. win' = [win EXCEPT ![w] = win[w]] /\ Goes(p, Idle)
    BY <1>2, <1>9 DEF SaveCancel, TypeOK
  <2>4. Outcome(p, w, Idle, win[w]) /\ Retains(w, win[w]) /\ Calm(p, w, Idle, win[w])
    BY <1>1, <1>2, <1>3, <1>4, <2>2, <2>3
    DEF Outcome, Step, Shrinks, Goes, Retains, Calm, Locking, Unlocking
  <2>5. Tidy(win[w], Idle, broken \cup sudo_saved \cup sudo_saved')
    BY <1>1, <1>3, <2>4, CalmTidy DEF Tidy
  <2>6. ~c0.save_lock
    BY <1>3, <1>9 DEF SaveCancel, At
  <2>7. QED
    BY <1>2, <1>4, <1>5, <1>9, <2>4, <2>5, <2>6 DEF SaveCancel
<1>10. QED
  BY <1>6, <1>7, <1>8, <1>9 DEF Saves
(* A command of the editor begins a call, or loses nothing.                *)
LEMMA EditsReleases ==
  ASSUME IInv, IInv', Settled, NothingLeftBehind, NEW w \in Window, Edits(w)
  PROVE  Settled' /\ NothingLeftBehind'
<1> USE DEF IInv
<1>1. /\ running' = running /\ link' = link /\ broken' = broken /\ sudo_saved' = sudo_saved
  BY DEF Edits, Open, Modify, Undo, Save, SaveAs, Close
<1>2. win[w] \in WindowState /\ (win[w].locked => win[w].owner \in Proc)
  BY DEF TypeOK, Control, GoodWindow, Closed
<1>3. ASSUME NEW p \in Proc, NEW c \in CallState, NEW s \in WindowState,
             win[w].owner \in {p, None}, call[p] = Idle, Step(p, w, c, s),
             c.at # "idle" => c.win = w, Retains(w, s),
             Tidy(s, c, broken \cup sudo_saved)
      PROVE  Settled' /\ NothingLeftBehind'
  <2>1. call'[p] = c /\ win'[w] = s
    BY <1>3 DEF Step, TypeOK
  <2>2. GoodCall(p, c, s) /\ GoodWindow(s)
    <3>1. \A v \in Window : GoodWindow(win[v])'
      BY DEF Control
    <3>2. GoodWindow(s)
      BY <1>1, <2>1, <3>1 DEF GoodWindow
    <3>3. GoodCall(p, call[p], win[call[p].win])'
      BY DEF Control
    <3>4. CASE c.at = "idle"
      BY <1>1, <2>1, <3>2, <3>3, <3>4 DEF GoodCall, Idle, Locking, Saving, Unlocking
    <3>5. CASE c.at # "idle"
      <4>1. win'[call'[p].win] = s
        BY <1>3, <2>1, <3>5
      <4>2. QED
        BY <1>1, <2>1, <3>2, <3>3, <4>1 DEF GoodCall, Idle
    <3>6. QED
      BY <3>4, <3>5
  <2>3. Good(p, w, c, s)
    BY <1>3, <2>2 DEF Good
  <2>4. call[p].at = "idle" /\ ~call[p].save_lock
    BY <1>3 DEF Idle
  <2>5. Tidy(s, c, broken \cup sudo_saved \cup sudo_saved')
    BY <1>3 DEF Tidy
  <2>6. QED
    BY <1>1, <1>3, <2>3, <2>4, <2>5, QuietReleased
<1>4. Idle \in CallState /\ Idle.at = "idle"
  BY DEF Idle, CallState, Locking, Saving, Unlocking, Result, Target
<1>5. ASSUME NEW p \in Proc, NEW f \in File, NEW new \in BOOLEAN, Open(p, w, f, new)
      PROVE  Settled' /\ NothingLeftBehind'
  <2> DEFINE s == [Closed EXCEPT !.owner = p, !.file = f, !.new = new]
  <2>1. call[p] = Idle /\ win[w] = Closed
    BY <1>5 DEF Open, At, Control, GoodCall
  <2>2. s \in WindowState /\ ~s.locked /\ ~Owes(s)
    BY DEF Closed, WindowState, Owes
  <2>3. win' = [win EXCEPT ![w] = s] /\ call' = call
    BY <1>5 DEF Open
  <2>4. call' = [call EXCEPT ![p] = Idle]
    BY <2>1, <2>3 DEF TypeOK
  <2> HIDE DEF s
  <2>5. win[w].owner = None /\ ~win[w].locked
    BY <2>1 DEF Closed
  <2>6. Step(p, w, Idle, s) /\ Retains(w, s) /\ Tidy(s, Idle, broken \cup sudo_saved)
    BY <1>1, <1>4, <2>2, <2>3, <2>4, <2>5 DEF Step, Retains, Tidy, Locking, Unlocking
  <2>7. QED
    BY <1>3, <1>4, <2>1, <2>2, <2>5, <2>6
<1>6. CASE Ready(w) /\ (Modify(w) \/ Undo(w) \/ Save(w) \/ SaveAs(w) \/ Close(w))
  <2> DEFINE p == win[w].owner
  <2>1. /\ p \in Proc /\ p \in running /\ win[w].file \in File
        /\ win[w] \in WindowState /\ call[p] = Idle
    BY <1>1, <1>6, BeginsOutcome
  <2>2. ~Undoing(w)
    <3>1. \A q \in Proc : call[q].at \in Unlocking /\ call[q].win = w => q = p
      BY DEF Control, GoodCall, Unlocking
    <3>2. QED
      BY <1>4, <2>1, <3>1 DEF Undoing, Unlocking
  <2>3. win[w].locked /\ ~win[w].modified => win[w].file \in broken \cup sudo_saved
    BY <2>2 DEF Settled
  <2>4. win = [win EXCEPT ![w] = win[w]] /\ call = [call EXCEPT ![p] = Idle]
    BY <2>1 DEF TypeOK
  (* A command that begins a call and leaves the window as it is.          *)
  <2>5. ASSUME NEW c \in CallState, c.win = w, Goes(p, c), win' = win,
               c.at \in Locking /\ c.for = "modify" => ~win[w].modified,
               c.for # "undo"
        PROVE  Settled' /\ NothingLeftBehind'
    <3>1. Step(p, w, c, win[w]) /\ Retains(w, win[w])
      BY <1>1, <2>4, <2>5 DEF Step, Retains, Goes
    <3>2. Tidy(win[w], c, broken \cup sudo_saved)
      BY <2>3, <2>5 DEF Tidy, Settled
    <3>3. QED
      BY <1>3, <2>1, <2>5, <3>1, <3>2
  (* A command that is done at once.                                       *)
  <2>6. ASSUME NEW s \in WindowState, win' = [win EXCEPT ![w] = s], call' = call, Retains(w, s),
               s.locked /\ ~s.modified => s.file \in broken \cup sudo_saved, ~Owes(s)
        PROVE  Settled' /\ NothingLeftBehind'
    <3>1. Step(p, w, Idle, s)
      BY <1>1, <2>4, <2>6 DEF Step
    <3>2. Tidy(s, Idle, broken \cup sudo_saved)
      BY <1>4, <2>6 DEF Tidy, Locking, Unlocking
    <3>3. QED
      BY <1>3, <1>4, <2>1, <2>6, <3>1, <3>2
  <2>7. CASE Modify(w)
    <3>1. CASE win[w].new
      <4> DEFINE s == [win[w] EXCEPT !.modified = TRUE]
      <4>1. /\ s \in WindowState /\ s.locked = win[w].locked /\ s.owner = p
            /\ s.file = win[w].file /\ s.modified /\ ~Owes(s)
        BY <2>1, <3>1 DEF WindowState, Owes
      <4>2. win' = [win EXCEPT ![w] = s] /\ call' = call
        BY <2>7, <3>1 DEF Modify, TypeOK
      <4> HIDE DEF s
      <4>3. QED
        BY <2>6, <4>1, <4>2 DEF Retains
    <3>2. CASE ~win[w].new
      <4>1. PICK c : c = [Idle EXCEPT !.at = "lstat", !.for = "modify",
                                      !.file = win[w].file, !.win = w]
        OBVIOUS
      <4>2. c \in CallState /\ c.win = w /\ c.for # "undo"
        BY <2>1, <4>1 DEF Idle, CallState, Locking, Result, Target
      <4>3. Goes(p, c) /\ win' = win /\ ~win[w].modified
        BY <2>7, <3>2, <4>1 DEF Modify, Begins
      <4>4. QED
        BY <2>5, <4>2, <4>3
    <3>3. QED
      BY <3>1, <3>2
  <2>8. CASE Undo(w)
    <3> DEFINE s == [win[w] EXCEPT !.modified = FALSE, !.declined = FALSE]
    <3>1. /\ s \in WindowState /\ s.locked = win[w].locked /\ s.owner = p
          /\ s.file = win[w].file /\ ~s.modified /\ ~Owes(s)
      BY <2>1 DEF WindowState, Owes
    <3>2. win' = [win EXCEPT ![w] = s]
      BY <2>8 DEF Undo, TypeOK
    <3> HIDE DEF s
    <3>3. CASE win[w].locked
      <4>1. PICK c : c = [Idle EXCEPT !.at = "unlock_lstat", !.for = "undo",
                                      !.file = win[w].file, !.win = w]
        OBVIOUS
      <4>2. c \in CallState /\ c.at \in Unlocking /\ c.for = "undo" /\ c.win = w
        BY <2>1, <4>1 DEF Idle, CallState, Unlocking, Result, Target
      <4>3. Goes(p, c)
        BY <2>8, <3>3, <4>1 DEF Undo, Begins
      <4>4. Step(p, w, c, s) /\ Retains(w, s) /\ Tidy(s, c, broken \cup sudo_saved)
        BY <1>1, <3>1, <3>2, <4>2, <4>3 DEF Step, Retains, Tidy, Goes, Locking, Unlocking
      <4>5. QED
        BY <1>3, <2>1, <3>1, <4>2, <4>4
    <3>4. CASE ~win[w].locked
      BY <2>6, <2>8, <3>1, <3>2, <3>4 DEF Undo, Retains
    <3>5. QED
      BY <3>3, <3>4
  <2>9. CASE Save(w)
    <3> DEFINE at == IF LocksToSave(w) THEN "lstat" ELSE "write"
    <3>1. at \in {"lstat", "write"}
      OBVIOUS
    <3>2. PICK c : c = [Idle EXCEPT !.at = at, !.for = "save", !.file = win[w].file, !.win = w]
      OBVIOUS
    <3>3. Goes(p, c) /\ win' = win
      BY <2>9, <3>2 DEF Save, Begins
    <3> HIDE DEF at
    <3>4. c \in CallState /\ c.win = w /\ c.for = "save"
      BY <2>1, <3>1, <3>2 DEF Idle, CallState, Locking, Saving, Result, Target
    <3>5. QED
      BY <2>5, <3>3, <3>4
  <2>10. CASE SaveAs(w)
    <3>1. PICK c : c = [Idle EXCEPT !.at = "name", !.for = "save_as", !.win = w]
      OBVIOUS
    <3>2. Goes(p, c) /\ win' = win
      BY <2>10, <3>1 DEF SaveAs, Begins
    <3>3. c \in CallState /\ c.win = w /\ c.for = "save_as"
      BY <3>1 DEF Idle, CallState, Saving, Result, Target
    <3>4. QED
      BY <2>5, <3>2, <3>3
  <2>11. CASE Close(w)
    <3>1. CASE win[w].locked
      <4>1. PICK c : c = [Idle EXCEPT !.at = "unlock_lstat", !.for = "close",
                                      !.file = win[w].file, !.win = w]
        OBVIOUS
      <4>2. c \in CallState /\ c.win = w /\ c.for = "close"
        BY <2>1, <4>1 DEF Idle, CallState, Unlocking, Result, Target
      <4>3. Goes(p, c) /\ win' = win
        BY <2>11, <3>1, <4>1 DEF Close, Begins
      <4>4. QED
        BY <2>5, <4>2, <4>3
    <3>2. CASE ~win[w].locked
      <4>1. Closed \in WindowState /\ ~Closed.locked /\ ~Owes(Closed)
        BY DEF Closed, WindowState, Owes
      <4>2. win' = [win EXCEPT ![w] = Closed] /\ call' = call
        BY <2>11, <3>2 DEF Close
      <4>3. QED
        BY <2>6, <3>2, <4>1, <4>2 DEF Retains
    <3>3. QED
      BY <3>1, <3>2
  <2>12. QED
    BY <1>6, <2>7, <2>8, <2>9, <2>10, <2>11
<1>7. QED
  BY <1>5, <1>6 DEF Edits, Modify, Undo, Save, SaveAs, Close

(* A process that dies leaves its own locks broken and the others alone.   *)
LEMMA CrashReleases ==
  ASSUME IInv, Settled, NothingLeftBehind, NEW p \in Proc, Crash(p)
  PROVE  Settled' /\ NothingLeftBehind'
<1> USE DEF IInv
<1>1. /\ link' = link /\ sudo_saved' = sudo_saved
      /\ broken' = broken \cup {f \in File : link[f] = p}
      /\ \A v \in Window : win'[v] = IF win[v].owner = p THEN Closed ELSE win[v]
      /\ call'[p] = Idle /\ \A q \in Proc : q # p => call'[q] = call[q]
  BY DEF Crash, TypeOK
<1>2. \A q \in Proc : call[q].at # "idle" => call[q].win \in Window /\ win[call[q].win].owner = q
  BY DEF Control, GoodCall
<1>3. Settled'
  <2>1. ASSUME NEW v \in Window, win'[v].locked, ~win'[v].modified
        PROVE  win'[v].file \in broken' \cup sudo_saved' \/ Undoing(v)'
    <3>1. win'[v] = win[v] /\ win[v].owner # p
      BY <1>1, <2>1 DEF Closed
    <3>2. CASE Undoing(v)
      <4>1. PICK q \in Proc : call[q].at \in Unlocking /\ call[q].for = "undo" /\ call[q].win = v
        BY <3>2 DEF Undoing
      <4>2. q # p
        BY <1>2, <3>1, <4>1 DEF Unlocking
      <4>3. QED
        BY <1>1, <4>1, <4>2 DEF Undoing
    <3>3. CASE ~Undoing(v)
      BY <1>1, <2>1, <3>1, <3>3 DEF Settled
    <3>4. QED
      BY <3>2, <3>3
  <2>2. ASSUME NEW q \in Proc,
               \/ call'[q].at \in Locking /\ call'[q].for = "modify"
               \/ call'[q].at \in Unlocking /\ call'[q].for = "undo"
        PROVE  ~win'[call'[q].win].modified
    <3>1. q # p /\ call'[q] = call[q]
      BY <1>1, <2>2 DEF Idle, Locking, Unlocking
    <3>2. call[q].win \in Window /\ win[call[q].win].owner = q
      BY <1>2, <2>2, <3>1 DEF Locking, Unlocking
    <3>3. QED
      BY <1>1, <2>2, <3>1, <3>2 DEF Settled
  <2>3. \A v \in Window : ~Owes(win'[v])
    BY <1>1 DEF Settled, Owes, Closed
  <2>4. QED
    BY <2>1, <2>2, <2>3 DEF Settled, Owes
<1>4. NothingLeftBehind'
  <2>1. ASSUME NEW f \in File \ (broken' \cup sudo_saved'), NEW q \in Proc, link'[f] = q
        PROVE  \/ \E v \in Window : win'[v].owner = q /\ win'[v].locked /\ win'[v].file = f
               \/ call'[q].save_lock /\ call'[q].file = f
    <3>1. f \notin broken \cup sudo_saved /\ q # p /\ link[f] = q
      BY <1>1, <2>1
    <3>2. (\E v \in Window : win[v].owner = q /\ Holds(v, f)) \/ SaveHolds(q, f)
      BY <3>1 DEF NothingLeftBehind, NoneLeft
    <3>3. QED
      BY <1>1, <3>1, <3>2 DEF Holds, SaveHolds
  <2>2. QED
    BY <2>1 DEF NothingLeftBehind, NoneLeft, Holds, SaveHolds
<1>5. QED
  BY <1>3, <1>4

-----------------------------------------------------------------------------
(* Nothing is locked at first.                                             *)
LEMMA InitRInv ==
  Init => RInv
<1> SUFFICES ASSUME Init PROVE RInv
  OBVIOUS
<1>1. Settled
  BY DEF Init, Settled, Owes, Closed, Idle, Locking, Unlocking
<1>2. NothingLeftBehind
  BY DEF Init, NothingLeftBehind, NoneLeft
<1>3. QED
  BY <1>1, <1>2, InitIInv DEF RInv

(* Every step keeps the invariant.                                         *)
LEMMA NextRInv ==
  RInv /\ [Next]_vars => RInv'
<1> SUFFICES ASSUME RInv, [Next]_vars PROVE RInv'
  OBVIOUS
<1>1. IInv /\ IInv' /\ Settled /\ NothingLeftBehind
  BY NextIInv DEF RInv
<1>2. ASSUME NEW p \in Proc, Lock(p) \/ Unlock(p) \/ Saves(p)
      PROVE  Settled' /\ NothingLeftBehind'
  BY <1>1, <1>2, LockReleases, UnlockReleases, SavesReleases
<1>3. ASSUME NEW p \in Proc, Crash(p)
      PROVE  Settled' /\ NothingLeftBehind'
  BY <1>1, <1>3, CrashReleases
<1>4. ASSUME NEW w \in Window, Edits(w)
      PROVE  Settled' /\ NothingLeftBehind'
  BY <1>1, <1>4, EditsReleases
<1>5. ASSUME UNCHANGED <<link, win, call, broken, sudo_saved>>
      PROVE  Settled' /\ NothingLeftBehind'
  BY <1>1, <1>5 DEF Settled, Owes, Undoing, NothingLeftBehind, NoneLeft, Holds, SaveHolds
<1>6. Settled' /\ NothingLeftBehind'
  BY <1>2, <1>3, <1>4, <1>5 DEF Next, Start, Quit, vars
<1>7. QED
  BY <1>1, <1>6 DEF RInv

(* In every reachable state a window that has a lock needs it or is giving *)
(* it up, and one that needs a lock has it.                                *)
THEOREM ReleaseInvariant == Spec => []RInv
BY InitRInv, NextRInv, PTL DEF Spec

(* No lock is left behind: a link that names a process belongs to one of   *)
(* its windows or to a save of it, whatever was cancelled, failed or was   *)
(* saved under another name, unless it was broken or saved through sudo.   *)
THEOREM NothingIsLeft == Spec => []NothingLeftBehind
<1>1. RInv => NothingLeftBehind
  BY DEF RInv
<1>2. QED
  BY <1>1, ReleaseInvariant, PTL

(* A modified buffer has the lock that edit_modification took, or was      *)
(* refused it, through every save that fails or is cancelled.              *)
THEOREM LockIsKept == Spec => []ModifyLockKept
<1>1. RInv => ModifyLockKept
  BY DEF RInv, Settled, Owes, ModifyLockKept
<1>2. QED
  BY <1>1, ReleaseInvariant, PTL
=============================================================================
