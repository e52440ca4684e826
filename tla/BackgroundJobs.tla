--------------------------- MODULE BackgroundJobs ---------------------------
(***************************************************************************)
(* File operations in the background (src/background.c; do_background and  *)
(* end_bg_process in src/filemanager/file.c; the Jobs dialog of boxes.c;   *)
(* check_selects of lib/tty/key.c).  A job is a forked copy of mc with one *)
(* pipe to its parent and one back.  It asks by writing a request in       *)
(* several pieces and reads the answer; mc reads requests from the event   *)
(* loop, and a request opens a dialog, which runs the event loop again:    *)
(* stack is that C stack of event loops, the innermost last, each with the *)
(* result of its own select().                                             *)
(*                                                                         *)
(* mc never closes its ends of the pipes, and a job inherits the ends mc   *)
(* holds of every job started before it.                                   *)
(***************************************************************************)
EXTENDS Naturals, Sequences, FiniteSets, SequencesExt

CONSTANTS
  Job,        \* jobs that may be started
  NoJob,      \* an event loop that serves none
  MaxCalls    \* bound: requests of one job, besides its goodbye

ASSUME NoJobAssumption == NoJob \notin Job
ASSUME CallsAssumption == MaxCalls \in Nat

VARIABLES
  mc,           \* "running", or how it ended
  started,      \* jobs in the order of their fork
  proc,         \* processes: whether the child runs, is stopped or has ended
  clean,        \* its exit status is 0
  pc,           \* what the job does
  request,      \* the kind of its last request
  calls,        \* how many requests it has begun
  up, down,     \* unread pieces of its request; unread answers, by call number
  task,         \* its record in task_list, or how that record was freed
  select_list,  \* jobs whose pipe is watched, the last added first
  pid,          \* ctx->pid as mc sees it: "own", or "zero"
  stack         \* event loops of mc

childVars == <<proc, clean, pc, request, calls>>
pipeVars == <<up, down>>
listVars == <<task, select_list, pid>>
vars == <<mc, started, childVars, pipeVars, listVars, stack>>

Loop == [ready : SUBSET Job, job : Job \cup {NoJob}, call : Nat,
         phase : {"idle", "head", "rest", "asked", "notice"}]
IdleLoop == [ready |-> {}, job |-> NoJob, call |-> 0, phase |-> "idle"]

TypeOK ==
  /\ mc \in {"running", "quit", "terminated", "broken_pipe"}
  /\ started \in Seq(Job)
  /\ proc \in [Job -> {"none", "running", "stopped", "exiting", "zombie", "reaped"}]
  /\ clean \in [Job -> BOOLEAN]
  /\ pc \in [Job -> {"work", "sending", "asking", "leaving"}]
  /\ request \in [Job -> {"none", "message", "query", "bye"}]
  /\ calls \in [Job -> 0 .. MaxCalls + 1]
  /\ up \in [Job -> Seq({"head", "rest"})]
  /\ down \in [Job -> Seq(Nat)]
  /\ task \in [Job -> {"none", "Running", "Stopped", "done", "killed"}]
  /\ select_list \in Seq(Job)
  /\ pid \in [Job -> {"own", "zero"}]
  /\ stack \in Seq(Loop)

Init ==
  /\ mc = "running"
  /\ started = <<>>
  /\ proc = [j \in Job |-> "none"]
  /\ clean = [j \in Job |-> FALSE]
  /\ pc = [j \in Job |-> "work"]
  /\ request = [j \in Job |-> "none"]
  /\ calls = [j \in Job |-> 0]
  /\ up = [j \in Job |-> <<>>]
  /\ down = [j \in Job |-> <<>>]
  /\ task = [j \in Job |-> "none"]
  /\ select_list = <<>>
  /\ pid = [j \in Job |-> "own"]
  /\ stack = <<IdleLoop>>

Alive(j) == proc[j] \in {"running", "stopped"}
Listed(j) == task[j] \in {"Running", "Stopped"}
Watched(j) == Contains(select_list, j)
Top == Last(stack)
WithTop(loop) == Append(Front(stack), loop)

(* Jobs forked after j, which inherited mc's ends of its pipes.            *)
Heirs(j) == {k \in ToSet(started) : \E a, b \in DOMAIN started :
                                      a < b /\ started[a] = j /\ started[b] = k}

(* Mutant of Held: the child forgets to close its copies of mc's ends.     *)
HeldByItself(j) == mc = "running" \/ \E k \in Heirs(j) \cup {j} : Alive(k)

(* Some process can read what j writes and write what j reads.             *)
Held(j) == mc = "running" \/ \E k \in Heirs(j) : Alive(k)

(* mc is gone: the system closes its ends.                                 *)
McEnds(how) ==
  /\ mc' = how
  /\ stack' = <<IdleLoop>>
  /\ select_list' = <<>>
  /\ task' = [j \in Job |-> IF Listed(j) THEN "done" ELSE task[j]]

-----------------------------------------------------------------------------
(* The user in the main window and in the Jobs dialog.                     *)

AtMain == mc = "running" /\ stack = <<IdleLoop>>

(* do_background with register_task_running.                               *)
Start(j) ==
  /\ AtMain /\ proc[j] = "none"
  /\ started' = Append(started, j)
  /\ proc' = [proc EXCEPT ![j] = "running"]
  /\ task' = [task EXCEPT ![j] = "Running"]
  /\ select_list' = <<j>> \o select_list
  /\ pid' = [pid EXCEPT ![j] = "own"]
  /\ UNCHANGED <<mc, clean, pc, request, calls, pipeVars, stack>>

(* task_cb, Stop and Resume.                                               *)
Stop(j) ==
  /\ AtMain /\ Listed(j)
  /\ task' = [task EXCEPT ![j] = "Stopped"]
  /\ proc' = [proc EXCEPT ![j] = IF @ = "running" THEN "stopped" ELSE @]
  /\ UNCHANGED <<mc, started, clean, pc, request, calls, pipeVars, select_list, pid, stack>>

Resume(j) ==
  /\ AtMain /\ Listed(j)
  /\ task' = [task EXCEPT ![j] = "Running"]
  /\ proc' = [proc EXCEPT ![j] = IF @ = "stopped" THEN "running" ELSE @]
  /\ UNCHANGED <<mc, started, clean, pc, request, calls, pipeVars, select_list, pid, stack>>

(* task_cb, Kill: the pid is read from the record just freed, so the       *)
(* signal reaches the job or nobody.                                       *)
Kill(j) ==
  /\ AtMain /\ Listed(j)
  /\ task' = [task EXCEPT ![j] = "killed"]
  /\ select_list' = RemoveFirst(select_list, j)
  /\ \/ proc' = [proc EXCEPT ![j] = IF Alive(j) THEN "exiting" ELSE @]
     \/ UNCHANGED proc
  /\ UNCHANGED <<mc, started, clean, pc, request, calls, pipeVars, pid, stack>>

Quit ==
  /\ AtMain
  /\ McEnds("quit")
  /\ UNCHANGED <<started, childVars, pipeVars, pid>>

-----------------------------------------------------------------------------
(* mc: the event loop and background_attention.                            *)

(* The end of the pipe is read once the only writer is gone.               *)
Eof(j) == up[j] = <<>> /\ ~Alive(j)
Readable(j) == up[j] # <<>> \/ Eof(j)

(* select() of the innermost loop.                                         *)
Select ==
  LET ready == {j \in ToSet(select_list) : Readable(j)} IN
  /\ mc = "running" /\ Top = IdleLoop /\ ready # {}
  /\ stack' = WithTop([Top EXCEPT !.ready = ready])
  /\ UNCHANGED <<mc, started, childVars, pipeVars, listVars>>

(* check_selects: the first watched descriptor found in the set.  The set  *)
(* is that of the last select of this loop: what inner loops have handled  *)
(* since is still in it.                                                   *)
FirstReady(j) ==
  \E i \in DOMAIN select_list : /\ select_list[i] = j /\ j \in Top.ready
                               /\ \A k \in 1 .. i - 1 : select_list[k] \notin Top.ready

Serving(j) == [ready |-> Top.ready \ {j}, job |-> j, call |-> 0, phase |-> "head"]

Check ==
  /\ mc = "running" /\ Top.phase = "idle" /\ Top.ready # {}
  /\ \/ /\ ToSet(select_list) \cap Top.ready = {}
        /\ stack' = WithTop(IdleLoop)
     \/ \E j \in Job : FirstReady(j) /\ stack' = WithTop(Serving(j))
  /\ UNCHANGED <<mc, started, childVars, pipeVars, listVars>>

Returned(loop) == [loop EXCEPT !.job = NoJob, !.phase = "idle", !.call = 0]

(* A dialog over the innermost loop: it runs a loop of its own.            *)
Modal(phase, call) ==
  WithTop([Top EXCEPT !.phase = phase, !.call = call]) \o <<IdleLoop>>

(* read() of the routine; it blocks while there is nothing to read.        *)
ReadHead ==
  LET j == Top.job IN
  /\ mc = "running" /\ Top.phase = "head" /\ up[j] # <<>>
  /\ up' = [up EXCEPT ![j] = Tail(@)]
  /\ stack' = WithTop([Top EXCEPT !.phase = "rest"])
  /\ UNCHANGED <<mc, started, childVars, down, listVars>>

(* A question comes with the context of the job, whose pid field is that   *)
(* of the time before the fork: 0.  A message comes without.               *)
PidRead(j) == IF request[j] = "query" THEN "zero" ELSE pid[j]

ReadQuestion ==
  LET j == Top.job IN
  /\ mc = "running" /\ Top.phase = "rest" /\ up[j] # <<>>
  /\ request[j] \in {"message", "query"}
  /\ up' = [up EXCEPT ![j] = Tail(@)]
  /\ pid' = [pid EXCEPT ![j] = PidRead(j)]
  /\ stack' = Modal("asked", calls[j])
  /\ UNCHANGED <<mc, started, childVars, down, task, select_list>>

(* Mutant of Answered: the pipe of the job forked last.                    *)
AnsweredLast(j, call) == [down EXCEPT ![Last(started)] = Append(@, call)]

(* write() to to_child_fd.                                                 *)
Answered(j, call) == [down EXCEPT ![j] = Append(@, call)]

(* The dialog of a question is closed and the answer written; without a    *)
(* reader the write is fatal (SIGPIPE).                                    *)
CloseQuestion ==
  LET asking == Last(Front(stack)) IN
  /\ mc = "running" /\ Len(stack) > 1 /\ Top = IdleLoop /\ asking.phase = "asked"
  /\ IF Alive(asking.job)
     THEN /\ down' = Answered(asking.job, asking.call)
          /\ stack' = Append(Front(Front(stack)), Returned(asking))
          /\ UNCHANGED <<mc, task, select_list>>
     ELSE McEnds("broken_pipe") /\ UNCHANGED down
  /\ UNCHANGED <<started, childVars, up, pid>>

CloseNotice ==
  LET noticed == Last(Front(stack)) IN
  /\ mc = "running" /\ Len(stack) > 1 /\ Top = IdleLoop /\ noticed.phase = "notice"
  /\ stack' = Append(Front(Front(stack)), Returned(noticed))
  /\ UNCHANGED <<mc, started, childVars, pipeVars, listVars>>

(* end_bg_process: the context now has the pid of the job.  No dialog, the *)
(* answer follows at once.                                                 *)
ReadGoodbye ==
  LET j == Top.job IN
  /\ mc = "running" /\ Top.phase = "rest" /\ up[j] # <<>> /\ request[j] = "bye"
  /\ up' = [up EXCEPT ![j] = Tail(@)]
  /\ pid' = [pid EXCEPT ![j] = "zero"]
  /\ IF Alive(j)
     THEN /\ task' = [task EXCEPT ![j] = IF Listed(j) THEN "done" ELSE @]
          /\ select_list' = RemoveFirst(select_list, j)
          /\ down' = Answered(j, calls[j])
          /\ stack' = WithTop(Returned(Top))
          /\ UNCHANGED mc
     ELSE McEnds("broken_pipe") /\ UNCHANGED down
  /\ UNCHANGED <<started, childVars>>

(* reading_failed: the job died between two pieces.                        *)
ReadFails ==
  /\ mc = "running" /\ Top.phase = "rest" /\ Eof(Top.job)
  /\ stack' = Modal("notice", 0)
  /\ UNCHANGED <<mc, started, childVars, pipeVars, listVars>>

(* Mutant of Unregistered: the channel found first is dropped.             *)
UnregisteredFirst(j) ==
  /\ select_list' = Tail(select_list)
  /\ task' = [task EXCEPT ![j] = IF Listed(j) /\ pid[j] = "own" THEN "done" ELSE @]

(* unregister_task_running with ctx->pid: the record is found by that pid. *)
Unregistered(j) ==
  /\ select_list' = RemoveFirst(select_list, j)
  /\ task' = [task EXCEPT ![j] = IF Listed(j) /\ pid[j] = "own" THEN "done" ELSE @]

Target(j) == IF pid[j] = "own" THEN {j} ELSE ToSet(started)

(* waitpid found an ended child: of ctx->pid, or any child for pid 0.      *)
Bury(j) ==
  /\ mc = "running" /\ Top.job = j /\ Top.phase = "head" /\ Eof(j)
  /\ \E k \in Target(j) :
       /\ proc[k] = "zombie"
       /\ proc' = [proc EXCEPT ![k] = "reaped"]
       /\ stack' = IF clean[k] THEN WithTop(Returned(Top)) ELSE Modal("notice", 0)
  /\ Unregistered(j)
  /\ UNCHANGED <<mc, started, clean, pc, request, calls, pipeVars, pid>>

(* waitpid returns 0, nobody has ended yet: SIGTERM to ctx->pid, and to    *)
(* the whole process group for pid 0.  A stopped process keeps the signal  *)
(* for later.                                                              *)
Misbehaves(j) ==
  /\ mc = "running" /\ Top.job = j /\ Top.phase = "head" /\ Eof(j)
  /\ \A k \in Target(j) : proc[k] # "zombie"
  /\ \E k \in Target(j) : proc[k] # "reaped"
  /\ IF pid[j] = "own"
     THEN /\ Unregistered(j)
          /\ stack' = Modal("notice", 0)
          /\ UNCHANGED <<mc, proc>>
     ELSE /\ McEnds("terminated")
          /\ proc' = [k \in Job |-> IF proc[k] = "running" THEN "exiting" ELSE proc[k]]
  /\ UNCHANGED <<started, clean, pc, request, calls, pipeVars, pid>>

(* waitpid fails, another end of pipe took the child: status is not set.   *)
NobodyToBury(j) ==
  /\ mc = "running" /\ Top.job = j /\ Top.phase = "head" /\ Eof(j)
  /\ \A k \in Target(j) : proc[k] = "reaped"
  /\ stack' \in {WithTop(Returned(Top)), Modal("notice", 0)}
  /\ Unregistered(j)
  /\ UNCHANGED <<mc, started, childVars, pipeVars, pid>>

-----------------------------------------------------------------------------
(* The job.                                                                *)

Runs(j) == proc[j] = "running"

(* write() to the parent: fatal when nobody can read it.                   *)
Writes(j, piece, next) ==
  IF Held(j)
  THEN /\ up' = [up EXCEPT ![j] = Append(@, piece)]
       /\ pc' = [pc EXCEPT ![j] = next]
       /\ UNCHANGED proc
  ELSE proc' = [proc EXCEPT ![j] = "exiting"] /\ UNCHANGED <<up, pc>>

(* parent_call_header: the routine.                                        *)
Ask(j, kind) ==
  /\ Runs(j) /\ pc[j] = "work"
  /\ kind = "bye" \/ calls[j] < MaxCalls
  /\ Writes(j, "head", "sending")
  /\ request' = [request EXCEPT ![j] = kind]
  /\ calls' = [calls EXCEPT ![j] = @ + 1]
  /\ UNCHANGED <<mc, started, clean, down, listVars, stack>>

(* The other pieces of parent_va_call.                                     *)
AskRest(j) ==
  /\ Runs(j) /\ pc[j] = "sending"
  /\ Writes(j, "rest", "asking")
  /\ UNCHANGED <<mc, started, clean, request, calls, down, listVars, stack>>

(* Mutant of GoOn: the goodbye does not end the job.                       *)
GoOnWorking(j) == pc' = [pc EXCEPT ![j] = "work"]

GoOn(j) == pc' = [pc EXCEPT ![j] = IF request[j] = "bye" THEN "leaving" ELSE "work"]

Receive(j) ==
  /\ Runs(j) /\ pc[j] = "asking" /\ down[j] # <<>>
  /\ down' = [down EXCEPT ![j] = Tail(@)]
  /\ GoOn(j)
  /\ UNCHANGED <<mc, started, proc, clean, request, calls, up, listVars, stack>>

(* read() finds the end of the pipe: the number of arguments stands for    *)
(* the answer.                                                             *)
ReceiveNothing(j) ==
  /\ Runs(j) /\ pc[j] = "asking" /\ down[j] = <<>> /\ ~Held(j)
  /\ GoOn(j)
  /\ UNCHANGED <<mc, started, proc, clean, request, calls, pipeVars, listVars, stack>>

Leave(j) ==
  /\ Runs(j) /\ pc[j] = "leaving"
  /\ proc' = [proc EXCEPT ![j] = "exiting"]
  /\ clean' = [clean EXCEPT ![j] = TRUE]
  /\ UNCHANGED <<mc, started, pc, request, calls, pipeVars, listVars, stack>>

(* The job crashes or somebody else kills it.                              *)
Die(j) ==
  /\ Alive(j)
  /\ proc' = [proc EXCEPT ![j] = "exiting"]
  /\ UNCHANGED <<mc, started, clean, pc, request, calls, pipeVars, listVars, stack>>

(* The system closes the descriptors of an exiting process before its      *)
(* status can be waited for.                                               *)
Ended(j) ==
  /\ proc[j] = "exiting"
  /\ proc' = [proc EXCEPT ![j] = "zombie"]
  /\ UNCHANGED <<mc, started, clean, pc, request, calls, pipeVars, listVars, stack>>

-----------------------------------------------------------------------------
Attention ==
  \/ Select \/ Check \/ ReadHead \/ ReadQuestion \/ ReadGoodbye \/ ReadFails
  \/ \E j \in Job : Bury(j) \/ Misbehaves(j) \/ NobodyToBury(j)
Close == CloseQuestion \/ CloseNotice
Work(j) ==
  \/ \E kind \in {"message", "query", "bye"} : Ask(j, kind)
  \/ AskRest(j) \/ Receive(j) \/ ReceiveNothing(j) \/ Leave(j)
Button(j) == Stop(j) \/ Resume(j) \/ Kill(j)

Next ==
  \/ Attention \/ Close \/ Quit
  \/ \E j \in Job : Start(j) \/ Button(j) \/ Work(j) \/ Die(j) \/ Ended(j)

(* mc and the jobs are processes the system schedules; the user closes     *)
(* every dialog in the end, but need not press anything else.              *)
Fairness ==
  /\ WF_vars(Attention) /\ WF_vars(Close)
  /\ \A j \in Job : WF_vars(Work(j)) /\ WF_vars(Ended(j))

Spec == Init /\ [][Next]_vars /\ Fairness

-----------------------------------------------------------------------------
(* Properties.                                                             *)

(* A job reads the answer to the question it waits with and to no other,   *)
(* however its question and those of other jobs were stacked in mc, and    *)
(* whatever was still to be read when an inner dialog had served it.       *)
AnswersMatch ==
  \A j \in Job : Alive(j) /\ down[j] # <<>> => down[j] = <<calls[j]>> /\ pc[j] = "asking"

(* Every living job that may still ask is watched, until mc takes its      *)
(* goodbye or the user kills it: no job is forgotten with its question.    *)
NotForgotten ==
  \A j \in Job :
    /\ mc = "running" /\ Alive(j) /\ task[j] # "killed"
    /\ pc[j] \in {"work", "sending"} \/ up[j] # <<>>
    => Watched(j) /\ Listed(j)

(* Unless somebody stops it for good, every job ends: asking gets answers  *)
(* while mc runs; when mc is gone, the younger jobs that hold its pipes    *)
(* end first.  Only a job whose Kill went astray may wait until mc quits.  *)
NeverStopped == [](\A j \in Job : proc[j] # "stopped")
EveryJobEnds ==
  NeverStopped =>
    \A j \in Job : Alive(j) ~> (~Alive(j) \/ (task[j] = "killed" /\ mc = "running"))
=============================================================================
