---------------------------- MODULE ViewerSource ----------------------------
(***************************************************************************)
(* A viewer whose content is made by an extension (src/viewer/source.c,    *)
(* growbuf.c, datasource.c; src/runtime-viewer-source.c): attaching and    *)
(* detaching source controllers, the options dialog with prepare, commit   *)
(* and rollback, F8 between the generated source and the raw file, the     *)
(* rebuild on resize, temporary files, the child process streamed through  *)
(* a select channel, and the states reported to the extension.             *)
(*                                                                         *)
(* mc is one thread, but every dialog and message runs the event loop      *)
(* inside the function that opened it: the stream goes on and the window   *)
(* can be resized between two lines of that function.  The variable flow   *)
(* is that C stack of open modals.  A callback into the extension is       *)
(* atomic.                                                                 *)
(***************************************************************************)
EXTENDS Integers, Sequences, FiniteSets, SequencesExt

CONSTANTS
  Mode,            \* "dialog": a viewer window; "quick": the quick view of a panel
  Policy,          \* what controllers may be: [viewport : BOOLEAN, raw : BOOLEAN]
  Kind,            \* kinds of sources: "process", "bytes" (a temporary file), "file"
  Size,            \* sizes of the window
  MaxSpecs,        \* bound: specifications prepared
  MaxGenerations,  \* bound: processes started
  MaxControllers,  \* bound: controllers attached
  MaxModals        \* bound: nested modals

ASSUME ModeAssumption == Mode \subseteq {"dialog", "quick"} /\ Mode # {}
ASSUME PolicyAssumption == Policy \subseteq [viewport : BOOLEAN, raw : BOOLEAN]
ASSUME KindAssumption == Kind \subseteq {"process", "bytes", "file"} /\ Kind # {}
ASSUME SizeAssumption == Size \subseteq Nat \ {0} /\ Size # {}
ASSUME LimitAssumption == /\ MaxSpecs \in Nat /\ MaxGenerations \in Nat
                          /\ MaxControllers \in Nat /\ MaxModals \in Nat

VARIABLES
  mode,            \* which kind of viewer this is
  window,          \* "none", "open", "away" (its dialog is suspended), "gone"
  size,            \* of the data area
  controller,      \* source_controller and source_ctx
  controllers,     \* bound counter: controllers attached so far
  live, pending,   \* the extension's parameters: in use; returned by options
  spec,            \* source_spec
  made,            \* bound counter: specifications prepared
  files,           \* current_temp and draft_temp of the controller; those on disk
  shown,           \* what the datasource was opened from
  magic,           \* mode_flags.magic: the generated source, not the raw file
  built,           \* source_viewport_columns, _lines; 0 for none
  datasource,      \* "none", "pipe", "file", "growing" (DS_VFS_PIPE)
  pipe_open,       \* ds_stdio_pipe # NULL: the child is not reaped
  streaming, stream_active, stream_redraw_queued,
  generation,      \* source_generation
  log,             \* the states reported to extensions
  flow             \* open modals, the topmost last

extensionVars == <<controller, controllers, live, pending, spec, made, files>>
contentVars == <<shown, magic, built>>
streamVars == <<datasource, pipe_open, streaming, stream_active, stream_redraw_queued,
                generation, log>>
vars == <<mode, window, size, extensionVars, contentVars, streamVars, flow>>

(* mcview_source_spec_t: where it comes from, the parameters and the size  *)
(* it was made for, its temporary file (0 for none).                       *)
Spec0 == [kind |-> "none", params |-> 0, temp |-> 0, size |-> 0]
SpecType == [kind : {"none", "plain", "raw"} \cup Kind, params : Nat, temp : Nat, size : Nat]

NoController == [id |-> 0, viewport |-> FALSE, raw |-> FALSE]
Attached == controller # NoController

Event == [to : Nat, generation : Nat, state : {"started", "finished", "failed", "cancelled"}]

(* Modals: the extension's options dialog; the error messages of options,  *)
(* of F8 (with the flag to restore) and of a rebuild.                      *)
Modal == [kind : {"options", "options_failed", "raw_failed", "rebuild_failed"},
          old_magic : BOOLEAN]
M(k) == [kind |-> k, old_magic |-> magic]

TypeOK ==
  /\ mode \in Mode
  /\ window \in {"none", "open", "away", "gone"}
  /\ size \in Size
  /\ controller \in [id : Nat, viewport : BOOLEAN, raw : BOOLEAN]
  /\ controllers \in 0 .. MaxControllers
  /\ live \in Nat /\ pending \in Nat
  /\ spec \in SpecType /\ shown \in SpecType
  /\ made \in 0 .. MaxSpecs
  /\ files \in [current : Nat, draft : Nat, disk : SUBSET (1 .. MaxSpecs)]
  /\ magic \in BOOLEAN
  /\ built \in Size \cup {0}
  /\ datasource \in {"none", "pipe", "file", "growing"}
  /\ {pipe_open, streaming, stream_active, stream_redraw_queued} \subseteq BOOLEAN
  /\ generation \in 0 .. MaxGenerations
  /\ log \in Seq(Event)
  /\ flow \in Seq(Modal)

Init ==
  /\ mode \in Mode
  /\ window = IF mode = "quick" THEN "open" ELSE "none"
  /\ size \in Size
  /\ controller = NoController /\ controllers = 0
  /\ live = 0 /\ pending = 0
  /\ spec = Spec0 /\ made = 0
  /\ files = [current |-> 0, draft |-> 0, disk |-> {}]
  /\ shown = Spec0
  /\ magic \in BOOLEAN
  /\ built = 0
  /\ datasource = "none"
  /\ pipe_open = FALSE
  /\ streaming = FALSE /\ stream_active = FALSE /\ stream_redraw_queued = FALSE
  /\ generation = 0
  /\ log = <<>>
  /\ flow = <<>>

InLoop == window = "open" /\ flow = <<>>
TopIs(k) == flow # <<>> /\ Last(flow).kind = k

-----------------------------------------------------------------------------
(* The stream and its reports.                                             *)

(* mcview_source_state_notify: nobody is told once the controller is gone. *)
Notified(l, c, g, state) ==
  IF c.id # 0 /\ g # 0
  THEN Append(l, [to |-> c.id, generation |-> g, state |-> state])
  ELSE l

(* Mutant of CloseLog: reports again what has ended by itself.             *)
CloseLogAgain ==
  IF datasource = "pipe" THEN Notified(log, controller, generation, "cancelled") ELSE log

(* mcview_close_datasource of a running process cancels it.                *)
CloseLog == IF pipe_open THEN Notified(log, controller, generation, "cancelled") ELSE log

(* stream_stop on the way, which takes the redraw hook along.              *)
QueuedAfterClose == stream_redraw_queued /\ ~pipe_open

(* mcview_reset_for_source_swap and mcview_install_source: the old source  *)
(* is closed, the process of the new one is streamed.                      *)
Install(s, c) ==
  LET process == s.kind = "process"
      g == IF process THEN generation + 1 ELSE generation
  IN /\ datasource' = IF process THEN "pipe" ELSE "file"
     /\ pipe_open' = process
     /\ stream_active' = process
     /\ stream_redraw_queued' = (process \/ QueuedAfterClose)
     /\ streaming' = (streaming \/ process)
     /\ generation' = g
     /\ log' = IF process THEN Notified(CloseLog, c, g, "started") ELSE CloseLog

(* A source with a raw file is installed as the generated one of the two.  *)
MagicAfter(c) == c.raw \/ magic

(* mcview_try_open_source can succeed: a temporary file must be there.     *)
CanOpen(s, disk) ==
  /\ s.temp \in disk \cup {0}
  /\ s.kind = "process" => generation < MaxGenerations

(* mcview_stream_ready: output arrives.                                    *)
StreamData ==
  /\ stream_active
  /\ stream_redraw_queued' = TRUE
  /\ UNCHANGED <<mode, window, size, extensionVars, contentVars, datasource, pipe_open, streaming,
                 stream_active, generation, log, flow>>

(* End of the output or a read error: the child is reaped and its end told;*)
(* the last output is still to be drawn.                                   *)
StreamEnd(state) ==
  /\ stream_active
  /\ pipe_open' = FALSE
  /\ stream_active' = FALSE
  /\ stream_redraw_queued' = TRUE
  /\ log' = Notified(log, controller, generation, state)
  /\ UNCHANGED <<mode, window, size, extensionVars, contentVars, datasource, streaming, generation,
                 flow>>

(* mcview_stream_redraw_hook, from the idle loop.                          *)
StreamRedraw ==
  /\ stream_redraw_queued
  /\ stream_redraw_queued' = FALSE
  /\ UNCHANGED <<mode, window, size, extensionVars, contentVars, datasource, pipe_open, streaming,
                 stream_active, generation, log, flow>>

-----------------------------------------------------------------------------
(* The temporary files of a controller.                                    *)

Temp(t) == {t} \ {0}

(* A specification the extension prepares for parameters p.                *)
NewSpec(k, p) ==
  [kind |-> k, params |-> p, temp |-> IF k = "bytes" THEN made + 1 ELSE 0, size |-> size]

CanPrepare == made < MaxSpecs

(* Mutants of Written: counts the missing file of a source without one;    *)
(* the new file takes the place of the shown one before it is opened.  *)
WrittenNull(s) ==
  [current |-> files.current, draft |-> s.temp,
   disk |-> (files.disk \ Temp(files.draft)) \cup {s.temp}]
WrittenOver(s) ==
  [current |-> s.temp, draft |-> 0,
   disk |-> (files.disk \ (Temp(files.current) \cup Temp(files.draft))) \cup Temp(s.temp)]

(* runtime_viewer_prepare writes the draft; prepare_viewport makes it the  *)
(* current file at once and removes the one before.                        *)
Written(s) ==
  IF controller.viewport
  THEN [current |-> s.temp, draft |-> 0,
        disk |-> (files.disk \ (Temp(files.current) \cup Temp(files.draft))) \cup Temp(s.temp)]
  ELSE [current |-> files.current, draft |-> s.temp,
        disk |-> (files.disk \ Temp(files.draft)) \cup Temp(s.temp)]

(* Mutant of Discarded: forgets the draft without removing the file.       *)
DiscardedKept(f) == [f EXCEPT !.draft = 0]

(* prepare or prepare_viewport fails: the old draft is gone already.       *)
Discarded(f) == [current |-> f.current, draft |-> 0, disk |-> f.disk \ Temp(f.draft)]

(* runtime_viewer_commit.                                                  *)
Promoted(f) == [current |-> f.draft, draft |-> 0, disk |-> f.disk \ Temp(f.current)]

(* runtime_viewer_free.                                                    *)
Freed(f) == [current |-> 0, draft |-> 0, disk |-> f.disk \ (Temp(f.current) \cup Temp(f.draft))]

-----------------------------------------------------------------------------
(* Attaching and detaching.                                                *)

(* mcview_source_controller_detach.                                        *)
Detached ==
  /\ controller' = NoController
  /\ spec' = Spec0
  /\ built' = 0
  /\ files' = Freed(files)
  /\ live' = 0 /\ pending' = 0

(* runtime_viewer_controller_open: a new window, or the viewer it was      *)
(* given.  The source is opened before the old one is let go; a failure    *)
(* leaves everything as it was, and is no step here.                       *)
Attach(c, k) ==
  /\ flow = <<>>
  /\ window = IF mode = "dialog" THEN "none" ELSE "open"
  /\ CanPrepare
  /\ controllers < MaxControllers
  /\ LET new == [id |-> controllers + 1, viewport |-> c.viewport, raw |-> c.raw]
         s == NewSpec(k, 1)
         old == Freed(files)
     IN /\ CanOpen(s, Temp(s.temp))
        /\ Install(s, new)
        /\ magic' = MagicAfter(new)
        /\ controller' = new
        /\ controllers' = new.id
        /\ spec' = s
        /\ shown' = s
        /\ files' = [current |-> s.temp, draft |-> 0, disk |-> old.disk \cup Temp(s.temp)]
        /\ live' = 1 /\ pending' = 0
        /\ built' = IF c.viewport THEN size ELSE 0
  /\ window' = "open"
  /\ made' = made + 1
  /\ UNCHANGED <<mode, size, flow>>

(* mcview_load: the quick view moves on to an ordinary file, which a size  *)
(* of zero makes a growing one (those of /proc).                           *)
Load(source) ==
  /\ InLoop
  /\ mode = "quick"
  /\ datasource' = source /\ pipe_open' = FALSE /\ stream_active' = FALSE
  /\ stream_redraw_queued' = QueuedAfterClose
  /\ log' = CloseLog
  /\ Detached
  /\ shown' = [Spec0 EXCEPT !.kind = "plain"]
  /\ UNCHANGED <<mode, window, size, controllers, made, magic, streaming, generation,
                 flow>>

(* Mutant of Destroy: forgets the redraw hook of a finished stream.        *)
DestroyHooked ==
  /\ InLoop \/ window = "away"
  /\ window' = "gone"
  /\ Detached
  /\ datasource' = "none" /\ pipe_open' = FALSE /\ stream_active' = FALSE
  /\ stream_redraw_queued' = QueuedAfterClose
  /\ log' = IF mode = "quick" THEN CloseLog ELSE log
  /\ UNCHANGED <<mode, size, controllers, made, shown, magic, streaming, generation, flow>>

(* The viewer goes away.  A viewer window lets its controller go when its  *)
(* loop ends, before its datasource is closed (mcview_done), and so        *)
(* cancels nothing; the quick view closes first and detaches then.         *)
Destroy ==
  /\ InLoop \/ window = "away"
  /\ window' = "gone"
  /\ Detached
  /\ datasource' = "none" /\ pipe_open' = FALSE /\ stream_active' = FALSE
  /\ stream_redraw_queued' = FALSE
  /\ log' = IF mode = "quick" THEN CloseLog ELSE log
  /\ UNCHANGED <<mode, size, controllers, made, shown, magic, streaming, generation, flow>>

(* Another window is brought to the front: dlg_run returns and the window, *)
(* without its controller, keeps its datasource and its stream.            *)
Suspend ==
  /\ InLoop
  /\ mode = "dialog"
  /\ window' = "away"
  /\ Detached
  /\ UNCHANGED <<mode, size, controllers, made, shown, magic, streamVars, flow>>

-----------------------------------------------------------------------------
(* Options: mcview_source_options.                                         *)

OptionsOpen ==
  /\ InLoop
  /\ Attached
  /\ flow' = <<M("options")>>
  /\ UNCHANGED <<mode, window, size, extensionVars, contentVars, streamVars>>

(* runtime_viewer_rollback.                                                *)
RolledBack == files' = Discarded(files) /\ pending' = 0

(* The extension's dialog is cancelled, or its callback fails.             *)
OptionsCancel ==
  /\ TopIs("options")
  /\ RolledBack
  /\ flow' = Front(flow)
  /\ UNCHANGED <<mode, window, size, controller, controllers, live, spec, made, contentVars,
                 streamVars>>

(* The dialog returns new parameters, and prepare fails.                   *)
OptionsUnprepared ==
  /\ TopIs("options")
  /\ pending' = live + 1
  /\ files' = Discarded(files)
  /\ flow' = Append(Front(flow), M("options_failed"))
  /\ UNCHANGED <<mode, window, size, controller, controllers, live, spec, made, contentVars,
                 streamVars>>

(* The source is prepared, and opening it fails.                           *)
OptionsUnopened(k) ==
  /\ TopIs("options")
  /\ CanPrepare
  /\ pending' = live + 1
  /\ files' = Written(NewSpec(k, pending'))
  /\ made' = made + 1
  /\ flow' = Append(Front(flow), M("options_failed"))
  /\ UNCHANGED <<mode, window, size, controller, controllers, live, spec, contentVars, streamVars>>

(* The message is closed: the draft is abandoned.                          *)
OptionsFailed ==
  /\ TopIs("options_failed")
  /\ RolledBack
  /\ flow' = Front(flow)
  /\ UNCHANGED <<mode, window, size, controller, controllers, live, spec, made, contentVars,
                 streamVars>>

(* Mutant of Committed: keeps the old parameters.                          *)
CommittedNothing(p) == live' = live /\ pending' = 0

(* The extension's side of commit.                                         *)
Committed(p) == live' = p /\ pending' = 0

(* The new source takes over and is committed.                             *)
OptionsDone(k) ==
  /\ TopIs("options")
  /\ CanPrepare
  /\ LET s == NewSpec(k, live + 1)
     IN /\ CanOpen(s, Temp(s.temp))
        /\ Install(s, controller)
        /\ magic' = MagicAfter(controller)
        /\ spec' = s
        /\ shown' = s
        /\ files' = Promoted(Written(s))
        /\ Committed(s.params)
  /\ made' = made + 1
  /\ flow' = Front(flow)
  /\ UNCHANGED <<mode, window, size, controller, controllers, built>>

-----------------------------------------------------------------------------
(* F8: mcview_toggle_magic_mode and mcview_source_set_raw.                 *)

Alternative == IF magic THEN [Spec0 EXCEPT !.kind = "raw"] ELSE spec

ToggleMagic ==
  /\ InLoop
  /\ controller.raw
  /\ LET s == Alternative
     IN /\ CanOpen(s, files.disk)
        /\ Install(s, controller)
        /\ shown' = s
  /\ magic' = ~magic
  /\ UNCHANGED <<mode, window, size, extensionVars, built, flow>>

ToggleFails ==
  /\ InLoop
  /\ controller.raw
  /\ magic' = ~magic
  /\ flow' = <<M("raw_failed")>>
  /\ UNCHANGED <<mode, window, size, extensionVars, shown, built, streamVars>>

(* The message is closed and the flag put back.                            *)
ToggleFailed ==
  /\ TopIs("raw_failed")
  /\ magic' = Last(flow).old_magic
  /\ flow' = Front(flow)
  /\ UNCHANGED <<mode, window, size, extensionVars, shown, built, streamVars>>

-----------------------------------------------------------------------------
(* Resizing the terminal, also under a modal.                              *)

(* mcview_source_rebuild_viewport has something to do at the new size.     *)
Rebuilds == magic /\ controller.viewport /\ built # size'

(* The extension prepares with what options returned, if it is not         *)
(* committed yet.                                                          *)
Params == IF pending # 0 THEN pending ELSE live

Resizes(n) == window = "open" /\ size' = n

Resize(n) ==
  /\ Resizes(n)
  /\ ~Rebuilds
  /\ UNCHANGED <<mode, window, extensionVars, contentVars, streamVars, flow>>

ResizeRebuilt(n, k) ==
  /\ Resizes(n)
  /\ Rebuilds
  /\ CanPrepare
  /\ LET s == [NewSpec(k, Params) EXCEPT !.size = n]
     IN /\ CanOpen(s, Temp(s.temp))
        /\ Install(s, controller)
        /\ magic' = MagicAfter(controller)
        /\ spec' = s
        /\ shown' = s
        /\ files' = Written(s)
  /\ made' = made + 1
  /\ built' = n
  /\ UNCHANGED <<mode, window, controller, controllers, live, pending, flow>>

ResizeUnprepared(n) ==
  /\ Resizes(n)
  /\ Rebuilds
  /\ Len(flow) < MaxModals
  /\ files' = Discarded(files)
  /\ flow' = Append(flow, M("rebuild_failed"))
  /\ UNCHANGED <<mode, window, controller, controllers, live, pending, spec, made, contentVars,
                 streamVars>>

ResizeUnopened(n, k) ==
  /\ Resizes(n)
  /\ Rebuilds
  /\ Len(flow) < MaxModals
  /\ CanPrepare
  /\ files' = Written(NewSpec(k, Params))
  /\ made' = made + 1
  /\ flow' = Append(flow, M("rebuild_failed"))
  /\ UNCHANGED <<mode, window, controller, controllers, live, pending, spec, contentVars,
                 streamVars>>

RebuildFailed ==
  /\ TopIs("rebuild_failed")
  /\ flow' = Front(flow)
  /\ UNCHANGED <<mode, window, size, extensionVars, contentVars, streamVars>>

-----------------------------------------------------------------------------
Stream == StreamData \/ StreamRedraw \/ \E e \in {"finished", "failed"} : StreamEnd(e)

Options ==
  \/ OptionsOpen
  \/ OptionsCancel
  \/ OptionsUnprepared
  \/ \E k \in Kind : OptionsUnopened(k)
  \/ OptionsFailed
  \/ \E k \in Kind : OptionsDone(k)

Resizing ==
  \/ \E n \in Size : Resize(n) \/ ResizeUnprepared(n)
  \/ \E n \in Size, k \in Kind : ResizeRebuilt(n, k) \/ ResizeUnopened(n, k)
  \/ RebuildFailed

Next ==
  \/ \E c \in Policy, k \in Kind : Attach(c, k)
  \/ \E s \in {"none", "file", "growing"} : Load(s)
  \/ Destroy
  \/ Suspend
  \/ Stream
  \/ Options
  \/ ToggleMagic \/ ToggleFails \/ ToggleFailed
  \/ Resizing

Spec == Init /\ [][Next]_vars

-----------------------------------------------------------------------------
(* Properties.                                                             *)

(* What extensions are told: a process is started at most once, with a     *)
(* greater generation than all before; its end comes after its start, once,*)
(* to the same controller and before the next start it is told of.  So a   *)
(* stale end can be told by its generation (LUA_PLUGINS.md).               *)
EventOrder ==
  \A i \in DOMAIN log :
    IF log[i].state = "started"
    THEN i > 1 => /\ log[i - 1].generation < log[i].generation
                  /\ log[i - 1].state = "started" => log[i - 1].to # log[i].to
    ELSE i > 1 /\ log[i - 1] = [log[i] EXCEPT !.state = "started"]

(* The temporary files on the disk are those the attached controller       *)
(* knows: none outlives it, whatever failed in between.                    *)
TempsOwned ==
  /\ files.disk \subseteq {files.current, files.draft}
  /\ ~Attached => files.disk = {}

(* When no modal is open the draft is decided: nothing pending is left,    *)
(* and the generated source is the one made for the parameters in use      *)
(* (mcviewer.h: promote or drop pending state).                            *)
Settled ==
  (flow = <<>> /\ Attached) => /\ pending = 0 /\ files.draft = 0
                               /\ ~controller.viewport => spec.params = live

(* F8 switches between the generated source and the raw file               *)
(* (LUA_PLUGINS.md): whenever it can be pressed, the temporary file of the *)
(* generated source is there to be opened again.  The promise is restricted*)
(* to sources that are not built for the viewport.                         *)
ReopenableUnlessViewport ==
  (~controller.viewport /\ InLoop /\ Attached) => spec.temp \in files.disk \cup {0}

(* A viewer that is gone has left nothing behind that the event loop or    *)
(* the disk would keep: no child, channel, idle hook or temporary file.    *)
NothingLeftBehind ==
  window = "gone" => /\ ~pipe_open /\ ~stream_active /\ ~stream_redraw_queued
                     /\ ~Attached /\ files.disk = {}
=============================================================================
