----------------------------- MODULE EditorUndo -----------------------------
(***************************************************************************)
(* Undo, redo and the modified flag of the editor: src/editor/edit.c.      *)
(* Every change of the text or move of the cursor pushes its inverse on    *)
(* the undo ring, a key press first pushes a mark.  Undo pops down to the  *)
(* mark and meanwhile pushes its own inverses on the redo ring.  Both are  *)
(* rings of a power of two that grow up to a limit and then lose their     *)
(* oldest key presses; a run of equal actions is one action and a count.   *)
(* The modified flag is cleared when undo or redo arrives at the place in  *)
(* the history that was saved.                                             *)
(*                                                                         *)
(* The editor is one record, passed through the functions of the code; a   *)
(* key, a click or a call of a script is one step.  The text is one line.  *)
(* Selections, columns and the position of the display are left out, but   *)
(* for one entry that stands for the markers a click pushes.               *)
(***************************************************************************)
EXTENDS Integers, Sequences, FiniteSets, SequencesExt

CONSTANTS
  Chars,       \* what is typed
  Blank,       \* those whose code is at most 32
  Texts,       \* the texts of the loaded file
  Scripts,     \* what scripts insert
  Moves,       \* how far cursor keys move
  Offsets,     \* where clicks go
  StartSize,   \* START_STACK_SIZE
  Options,     \* the values of max_undo and edit_options.group_undo, in pairs
  Reserve,     \* a ring grows when fewer entries are left than these
  MaxText,     \* bound: the length of the text
  MaxKeys      \* bound: keys that edit, move or save, clicks and scripts

ASSUME CharAssumption == Blank \subseteq Chars /\ Chars \subseteq STRING \ {""}
ASSUME TextAssumption == Texts \cup Scripts \subseteq Seq(Chars)
ASSUME SizeAssumption == LET Powers == {2 ^ n : n \in 3 .. 20}
                         IN StartSize \in Powers /\ Options \subseteq Powers \X BOOLEAN
(* Else a ring would lose its oldest entries before it grows.              *)
ASSUME ReserveAssumption == Reserve \in 5 .. StartSize
ASSUME MoveAssumption == Moves \subseteq Int /\ Offsets \subseteq Nat
ASSUME BoundAssumption == {MaxText, MaxKeys} \subseteq Nat

VARIABLES
  edit,     \* the editor
  group,    \* edit_options.group_undo
  seen,     \* history: the text at every key press the undo ring holds
  saved,    \* history: the text when it was loaded or saved
  aside,    \* history: a click or a script came while a redo was pending, or
            \* the redo ring has dropped changes that were undone
  keys      \* bound: keys that edit, move or save, clicks and scripts so far

vars == <<edit, group, seen, saved, aside, keys>>

(* The entries of a ring: an action, or how often the one below is pushed. *)
Act(op, ch) == [op |-> op, ch |-> ch, n |-> 1]
Count(n) == [op |-> "COUNT", ch |-> "", n |-> n]
KEY_PRESS == Act("KEY_PRESS", "")
STACK_BOTTOM == Act("STACK_BOTTOM", "")
MARK == Act("MARK", "")
CURS_LEFT == Act("CURS_LEFT", "")
CURS_RIGHT == Act("CURS_RIGHT", "")
BACKSPACE(ch) == Act(IF ch \in Blank THEN "BACKSPACE_BR" ELSE "BACKSPACE", "")
DELCHAR(ch) == Act(IF ch \in Blank THEN "DELCHAR_BR" ELSE "DELCHAR", "")
Insert(ch) == Act("INSERT", ch)
InsertAhead(ch) == Act("INSERT_AHEAD", ch)
None == Act("", "")

edit_undo_action_changes_content(c) ==
  c.op \in {"INSERT", "INSERT_AHEAD", "BACKSPACE", "BACKSPACE_BR", "DELCHAR", "DELCHAR_BR"}

-----------------------------------------------------------------------------
(* A ring, whose entries lie from bottom up to pointer.                    *)
Slots(r) == 0 .. r.size - 1
Back(r, k) == (r.pointer - k) % r.size
Up(r, i, k) == (i + k) % r.size
Used(r) == (r.pointer - r.bottom) % r.size
IsEmpty(r) == r.pointer = r.bottom
Live(r, i) == (i - r.bottom) % r.size < Used(r)
Presses(r) == Cardinality({i \in Slots(r) : r.at[i] = KEY_PRESS})

(* What is no longer in the ring is never read; it is not told apart.      *)
Cleared(r) == [r EXCEPT !.at = [i \in Slots(r) |-> IF Live(r, i) THEN @[i] ELSE None]]

NewRing(limit) ==
  [at |-> [i \in 0 .. StartSize - 1 |-> None], pointer |-> 0, bottom |-> 0,
   size |-> StartSize, max |-> limit]

Emptied(r) == [r EXCEPT !.at = [i \in Slots(r) |-> None], !.pointer = 0, !.bottom = 0]

Grown(r) ==
  IF r.pointer > r.size - Reserve /\ r.size < r.max
  THEN [r EXCEPT !.size = 2 * @,
                 !.at = [i \in 0 .. 2 * r.size - 1 |-> IF i < r.size THEN @[i] ELSE None]]
  ELSE r

(* The bottom moves up to the next key press when the pointer comes near.  *)
NextPress(r) ==
  LET ends == {k \in 1 .. r.size : \/ r.at[Up(r, r.bottom, k)] = KEY_PRESS
                                   \/ Up(r, r.bottom, k) = r.pointer}
  IN Up(r, r.bottom, CHOOSE k \in ends : \A j \in ends : k <= j)

Raised(r) ==
  IF (r.bottom - r.pointer) % r.size \in {2, 3}
  THEN Cleared([r EXCEPT !.bottom = NextPress(r)]) ELSE r

(* Mutant of CheckBottom: a ring that one key filled is not started over.  *)
BottomUnchecked(r) == Raised(r)

StartedOver(r) == IF ~IsEmpty(r) /\ r.at[r.bottom] # KEY_PRESS THEN Emptied(r) ELSE r

CheckBottom(r) == StartedOver(Raised(r))

(* Mutant of Put: the pointer is not masked.                               *)
PutUnmasked(r, e) == CheckBottom([r EXCEPT !.at[r.pointer] = e, !.pointer = @ + 1])

Put(r, e) == CheckBottom([r EXCEPT !.at[r.pointer] = e, !.pointer = Up(r, @, 1)])

(* A ring with three entries may compress.                                 *)
PushOn(r, c) ==
  LET top == r.at[Back(r, 1)]
      under == r.at[Back(r, 2)]
      deep == r.bottom \notin {r.pointer, Back(r, 1), Back(r, 2)}
  IN CASE deep /\ top.op = "COUNT" /\ under = c -> [r EXCEPT !.at[Back(r, 1)].n = @ + 1]
       [] deep /\ top = c /\ c = KEY_PRESS -> r
       [] OTHER -> Put(r, IF deep /\ top = c THEN Count(2) ELSE c)

Push(r, c) == PushOn(Grown(r), c)

HasAction(r) == ~IsEmpty(r) /\ (r.at[Back(r, 1)].op = "COUNT" => Back(r, 1) # r.bottom)

get_prev_undo_action(r) ==
  LET top == r.at[Back(r, 1)]
  IN CASE ~HasAction(r) -> STACK_BOTTOM
       [] top.op = "COUNT" -> r.at[Back(r, 2)]
       [] OTHER -> top

(* Mutant of Popped: the last two of a run are popped at once.             *)
PoppedTwo(r) ==
  LET top == r.at[Back(r, 1)]
  IN IF ~HasAction(r) THEN r
     ELSE IF top.op = "COUNT" /\ top.n > 3 THEN [r EXCEPT !.at[Back(r, 1)].n = @ - 1]
     ELSE [r EXCEPT !.at[Back(r, 1)] = None, !.pointer = Back(r, 1)]

Popped(r) ==
  LET top == r.at[Back(r, 1)]
  IN IF ~HasAction(r) THEN r
     ELSE IF top.op = "COUNT" /\ top.n > 2 THEN [r EXCEPT !.at[Back(r, 1)].n = @ - 1]
     ELSE [r EXCEPT !.at[Back(r, 1)] = None, !.pointer = Back(r, 1)]

-----------------------------------------------------------------------------
(* The four changes and the move, each with its inverse.                   *)
(* Mutant of edit_push_redo_action: moves of the cursor are not redone.    *)
RedoOfChanges(e, c) ==
  IF edit_undo_action_changes_content(c) THEN [e EXCEPT !.redo = Push(@, c), !.has = TRUE] ELSE e

edit_push_redo_action(e, c) ==
  [e EXCEPT !.redo = Push(@, c), !.has = @ \/ edit_undo_action_changes_content(c)]

AtSave(e) == e.seq = e.savedSeq /\ e.gen = e.savedGen

(* Mutant of Branched: a branch is not told from the history it leaves.    *)
BranchedUnmarked(e) == [e EXCEPT !.redo = Emptied(@), !.has = FALSE]

(* A pending redo is dropped: the history branches.                        *)
Branched(e) ==
  LET branches == ~IsEmpty(e.redo) /\ e.has
      gen == IF branches THEN e.gen + 1 ELSE e.gen
  IN [e EXCEPT !.gen = gen,
               !.savedGen = IF branches /\ AtSave(e) THEN gen ELSE @,
               !.redo = Emptied(@), !.has = FALSE]

edit_push_undo_action(e, c) ==
  IF e.disabled
  THEN edit_push_redo_action(edit_push_redo_action([e EXCEPT !.undo = Grown(@)], KEY_PRESS), c)
  ELSE LET b == IF e.reset THEN Branched(e) ELSE e
       IN [b EXCEPT !.undo = Push(@, c),
                    !.seq = IF edit_undo_action_changes_content(c) THEN @ + 1 ELSE @]

edit_push_key_press(e) == edit_push_undo_action(e, KEY_PRESS)

edit_modification(e) == [e EXCEPT !.modified = TRUE]

edit_insert(e, ch) ==
  [edit_push_undo_action(edit_modification(e), BACKSPACE(ch)) EXCEPT !.before = Append(@, ch)]

edit_insert_ahead(e, ch) ==
  [edit_push_undo_action(edit_modification(e), DELCHAR(ch)) EXCEPT !.after = <<ch>> \o @]

edit_delete(e) ==
  IF e.after = <<>> THEN e
  ELSE edit_modification(
         [edit_push_undo_action(e, InsertAhead(Head(e.after))) EXCEPT !.after = Tail(@)])

edit_backspace(e) ==
  IF e.before = <<>> THEN e
  ELSE edit_modification(
         [edit_push_undo_action(e, Insert(Last(e.before))) EXCEPT !.before = Front(@)])

RECURSIVE Repeat(_, _, _)
Repeat(F(_), e, n) == IF n <= 0 THEN e ELSE Repeat(F, F(e), n - 1)

(* Several moves at once: the first two are pushed, the others counted.    *)
PushMoves(e, action, n) == Repeat(LAMBDA f : edit_push_undo_action(f, action), e, n)

PushOthers(e, action, n) ==
  LET r == e.undo
      counted == r.at[Back(r, 1)].op = "COUNT" /\ r.at[Back(r, 2)] = action
  IN IF n > 0 /\ counted THEN [e EXCEPT !.undo.at[Back(r, 1)].n = @ + n]
     ELSE PushMoves(e, action, n)

edit_push_cursor_move_undo(e, action, count) ==
  LET first == IF e.disabled \/ count <= 1 THEN count ELSE 2
  IN PushOthers(PushMoves(e, action, first), action, count - first)

edit_cursor_move(e, increment) ==
  LET text == e.before \o e.after
      wish == Len(e.before) + increment
      to == IF wish < 0 THEN 0 ELSE IF wish > Len(text) THEN Len(text) ELSE wish
      step == to - Len(e.before)
  IN [edit_push_cursor_move_undo(e, IF step < 0 THEN CURS_RIGHT ELSE CURS_LEFT,
                                 IF step < 0 THEN -step ELSE step) EXCEPT
       !.before = SubSeq(text, 1, to), !.after = SubSeq(text, to + 1, Len(text))]

-----------------------------------------------------------------------------
(* Undo and redo.                                                          *)
Perform(e, c) ==
  CASE c.op \in {"CURS_LEFT", "CURS_RIGHT"} ->
         edit_cursor_move(e, IF c.op = "CURS_LEFT" THEN -1 ELSE 1)
    [] c.op \in {"BACKSPACE", "BACKSPACE_BR"} -> edit_backspace(e)
    [] c.op \in {"DELCHAR", "DELCHAR_BR"} -> edit_delete(e)
    [] c.op = "INSERT" -> edit_insert(e, c.ch)
    [] c.op = "INSERT_AHEAD" -> edit_insert_ahead(e, c.ch)
    [] OTHER -> e

RECURSIVE UndoActions(_), RedoActions(_)
Undone(e, c) ==
  [e EXCEPT !.seq = IF edit_undo_action_changes_content(c) THEN @ - 1 ELSE @]

UndoActions(e) ==
  LET c == get_prev_undo_action(e.undo)
      p == [e EXCEPT !.undo = Popped(@)]
  IN IF c \in {KEY_PRESS, STACK_BOTTOM} THEN p ELSE UndoActions(Undone(Perform(p, c), c))

RedoActions(e) ==
  LET c == get_prev_undo_action(e.redo)
      p == [e EXCEPT !.redo = Popped(@)]
  IN IF c \in {KEY_PRESS, STACK_BOTTOM} THEN p ELSE RedoActions(Perform(p, c))

edit_do_undo(e) == [UndoActions([e EXCEPT !.disabled = TRUE]) EXCEPT !.disabled = FALSE]

edit_do_redo(e) == IF e.reset THEN e ELSE RedoActions(e)

edit_check_and_clear_modified(e) == IF AtSave(e) THEN [e EXCEPT !.modified = FALSE] ELSE e

(* With group undo, groups are undone as long as they end alike.           *)
RECURSIVE UndoAlike(_), GoOn(_, _)
GoOn(e, last) ==
  LET ac == get_prev_undo_action(e.undo)
  IN IF group /\ ac # STACK_BOTTOM /\ ac = last THEN UndoAlike(e) ELSE e
UndoAlike(e) == GoOn(edit_do_undo(e), get_prev_undo_action(e.undo))

edit_group_undo(e) == edit_check_and_clear_modified(UndoAlike(e))

-----------------------------------------------------------------------------
(* The keys, and what changes the text beside them.                        *)
Text(e) == e.before \o e.after
Place(e) == <<e.before, e.after>>

Init ==
  \E text \in Texts, option \in Options :
    /\ edit = [before |-> <<>>, after |-> text,
               undo |-> NewRing(option[1]), redo |-> NewRing(option[1]),
               seq |-> 0, savedSeq |-> 0, gen |-> 0, savedGen |-> 0, has |-> FALSE,
               disabled |-> FALSE, reset |-> FALSE, modified |-> FALSE]
    /\ group = option[2]
    /\ seen = <<>>
    /\ saved = text
    /\ aside = FALSE
    /\ keys = 0

(* The history s with a key press at e, when the step has led to f.        *)
Seen(s, e, f) ==
  LET new == edit_push_key_press(e).undo # Grown(e.undo)
      all == IF new THEN Append(s, Place(e)) ELSE s
  IN SubSeq(all, Len(all) - Presses(f.undo) + 1, Len(all))

Step(f) ==
  /\ edit' = f
  /\ UNCHANGED group

Recorded(f) ==
  /\ Step(f)
  /\ seen' = Seen(seen, edit, f)

Bounded ==
  /\ keys < MaxKeys
  /\ keys' = keys + 1
  /\ Len(Text(edit')) <= MaxText

(* An ordinary key: the mark, then the command, which ends a pending redo. *)
edit_execute_key_command(Command(_)) ==
  Recorded(Command([edit_push_key_press(edit) EXCEPT !.reset = TRUE]))

Key(Command(_)) ==
  /\ edit_execute_key_command(Command)
  /\ UNCHANGED <<saved, aside>>
  /\ Bounded

InsertChar(ch) == Key(LAMBDA e : edit_insert(e, ch))
BackSpace == Key(edit_backspace)
Delete == Key(edit_delete)
DeleteToHome == Key(LAMBDA e : Repeat(edit_backspace, e, Len(e.before)))
DeleteToEnd == Key(LAMBDA e : Repeat(edit_delete, e, Len(e.after)))
Move(by) == Key(LAMBDA e : edit_cursor_move(e, by))

Save ==
  /\ edit_execute_key_command(
       LAMBDA e : [e EXCEPT !.modified = FALSE, !.savedSeq = e.seq, !.savedGen = e.gen])
  /\ saved' = Text(edit)
  /\ UNCHANGED aside
  /\ Bounded

(* Undo is no key press; without a history it says so.                     *)
NotAvailable == IsEmpty(edit.undo) /\ edit.modified

Changes(r) == Cardinality({i \in Slots(r) : edit_undo_action_changes_content(r.at[i])})

StepBack(f) ==
  /\ Step(f)
  /\ aside' = (aside \/ Changes(f.redo) # Changes(edit.redo) + (edit.seq - f.seq))
  /\ seen' = SubSeq(seen, 1, Presses(f.undo))

Undo ==
  LET e == [edit EXCEPT !.reset = FALSE]
  IN /\ StepBack(IF NotAvailable THEN e ELSE edit_group_undo(e))
     /\ UNCHANGED <<saved, keys>>

RedoKey(e) ==
  edit_check_and_clear_modified(edit_do_redo([edit_push_key_press(e) EXCEPT !.reset = FALSE]))

Redo == Recorded(RedoKey(edit)) /\ UNCHANGED <<saved, aside, keys>>

(* Scripts and the mouse do not touch redo_stack_reset.                    *)
Aside ==
  /\ aside' = (aside \/ (~edit.reset /\ ~IsEmpty(edit.redo)))
  /\ UNCHANGED saved
  /\ Bounded

EditorInsert(text) ==
  LET typed == edit_push_key_press(edit)
  IN Recorded(FoldLeft(edit_insert, typed, text)) /\ Aside

(* A click moves the cursor when pressed, and pushes markers both times.   *)
edit_update_cursor(e, offset) ==
  edit_push_undo_action(
    edit_cursor_move(edit_push_key_press(e), offset - Len(e.before)), MARK)

Clicked(down, up) ==
  /\ Step(up)
  /\ seen' = Seen(Seen(seen, edit, down), down, up)

Release(down, offset) == Clicked(down, edit_update_cursor(down, offset))

Click(offset) ==
  /\ offset <= Len(Text(edit))
  /\ Release(edit_update_cursor(edit, offset), offset)
  /\ Aside

Next ==
  \/ \E ch \in Chars : InsertChar(ch)
  \/ BackSpace
  \/ Delete
  \/ DeleteToHome
  \/ DeleteToEnd
  \/ \E by \in Moves : Move(by)
  \/ Save
  \/ Undo
  \/ Redo
  \/ \E text \in Scripts : EditorInsert(text)
  \/ \E offset \in Offsets : Click(offset)

Spec == Init /\ [][Next]_vars

-----------------------------------------------------------------------------
RingOK(r) ==
  /\ r.size \in StartSize .. r.max
  /\ {r.pointer, r.bottom} \subseteq Slots(r)
  /\ DOMAIN r.at = Slots(r)

(* The two rings, the place in the history and the text are well formed.   *)
TypeOK ==
  /\ edit.before \in Seq(Chars) /\ edit.after \in Seq(Chars)
  /\ RingOK(edit.undo) /\ RingOK(edit.redo)
  /\ edit.savedGen <= edit.gen
  /\ ~edit.disabled
  /\ group \in BOOLEAN /\ aside \in BOOLEAN
  /\ Len(seen) = Presses(edit.undo)
  /\ saved \in Seq(Chars)
  /\ keys \in 0 .. MaxKeys

(* A ring that holds anything begins with a key press, holds counts only   *)
(* above the action they count, always has room for the next pushes, and   *)
(* loses nothing before it has grown to its limit: edit_push_undo_action   *)
(* may start over in the middle of a key, but never leaves half a key.     *)
RingSound ==
  \A r \in {edit.undo, edit.redo} :
    /\ ~IsEmpty(r) => r.at[r.bottom] = KEY_PRESS
    /\ Used(r) <= r.size - 4
    /\ r.size < r.max => r.bottom = 0
    /\ \A i \in Slots(r) : Live(r, i) /\ r.at[i].op = "COUNT" =>
         /\ r.at[i].n >= 2
         /\ r.at[Up(r, i, r.size - 1)].op \notin {"COUNT", "KEY_PRESS"}

(* Undo brings back the text and the cursor of the key press it goes back  *)
(* to, exactly, whatever the ring has compressed, moved or dropped since:  *)
(* "undo tracks scrolling and key actions exactly" (edit_do_undo).         *)
UndoRestores ==
  [][Len(seen') < Len(seen) /\ keys' = keys /\ Undo => Place(edit') = seen[Len(seen') + 1]]_vars

(* What one undo takes back, redo brings back action by action, with the   *)
(* place in the history, unless the redo ring had to drop entries.         *)
Redone(u) == Repeat(RedoKey, u, Presses(u.redo) - Presses(edit.redo))
Returns(u, f) ==
  u.redo.bottom = edit.redo.bottom /\ f.undo.bottom = u.undo.bottom
    => Place(f) = Place(edit) /\ f.seq = edit.seq
ReturnsFrom(u) == Returns(u, Redone(u))
RedoReturns == ReturnsFrom(edit_do_undo([edit EXCEPT !.reset = FALSE]))

(* A text that is not marked as modified is the text in the file, as long  *)
(* as no click and no script came in while a redo was pending and no undo  *)
(* filled the redo ring: undo and redo clear the mark by comparing places  *)
(* in the history, not texts, and a redo that was dropped is no branch.    *)
ClearMeansSaved == ~aside /\ ~edit.modified => Text(edit) = saved

(* Without that condition, as edit_undo_modified.c has it for a cursor     *)
(* key: "Buffer is now "ac", not "ab", so modified must remain 1".         *)
ModifiedTells == ~edit.modified => Text(edit) = saved
=============================================================================
