-------------------------- MODULE ViewerSource_proofs --------------------------
(***************************************************************************)
(* Proofs about ViewerSource: what extensions are told of a process, and   *)
(* who owns temporary files, drafts, streams and hooks.                    *)
(*                                                                         *)
(* The stack of modals is what makes the properties hard: a function that  *)
(* waits in one of them goes on with what it knew.  FlowInv says that only *)
(* messages of rebuilds are above another modal, and that whoever left a   *)
(* draft or a pending parameter waits at the bottom to drop it.  TempInv   *)
(* says that a new file never takes the number of one that is in use, so   *)
(* that what is removed is never what is shown.  LogInv says that a process*)
(* that is not reaped is the last that was reported, and is not reported   *)
(* to have ended.                                                          *)
(***************************************************************************)
EXTENDS ViewerSource, SequenceLemmas

(* A log in the order that EventOrder asks for, and one that has no process*)
(* at its end that is still to end.                                        *)
Ordered(l) ==
  \A i \in DOMAIN l :
    IF l[i].state = "started"
    THEN i > 1 => /\ l[i - 1].generation < l[i].generation
                  /\ l[i - 1].state = "started" => l[i - 1].to # l[i].to
    ELSE i > 1 /\ l[i - 1] = [l[i] EXCEPT !.state = "started"]
Ended(l) == l = <<>> \/ l[Len(l)].state # "started"
UpTo(l, g) == \A i \in DOMAIN l : l[i].generation <= g

Begun == [to |-> controller.id, generation |-> generation, state |-> "started"]

LogInv ==
  /\ Ordered(log) /\ UpTo(log, generation)
  /\ pipe_open => generation # 0
  /\ stream_active => pipe_open
  /\ (pipe_open /\ Attached) => log # <<>> /\ log[Len(log)] = Begun
  /\ Ended(log) \/ (pipe_open /\ Attached) \/ window \in {"away", "gone"}

(* Modals belong to a controller of an open window.                        *)
FlowInv ==
  /\ Attached => controller.id # 0
  /\ flow # <<>> => window = "open" /\ Attached
  /\ \A i \in DOMAIN flow : i > 1 => flow[i].kind = "rebuild_failed"
  /\ (pending # 0 \/ files.draft # 0) => flow # <<>> /\ flow[1].kind = "options_failed"

(* Files of a controller, of which m have been numbered so far.            *)
FilesOf(f, m) ==
  /\ f \in [current : 0 .. m, draft : 0 .. m, disk : SUBSET (1 .. m)]
  /\ f.draft # 0 => f.draft # f.current
  /\ f.disk \subseteq {f.current, f.draft}

TempInv ==
  /\ FilesOf(files, made)
  /\ ~Attached => files.disk = {}
  /\ controller.viewport => files.draft = 0
  /\ (~controller.viewport /\ Attached) =>
        /\ spec.temp = files.current /\ files.current \in files.disk \cup {0}
        /\ spec.params = live

IInv == TypeOK /\ LogInv /\ FlowInv /\ TempInv /\ NothingLeftBehind

-----------------------------------------------------------------------------
(* The log.                                                                *)

(* One more event at the end of an ordered log.                            *)
LEMMA OrderedAppend ==
  ASSUME NEW l \in Seq(Event), NEW e \in Event, NEW g \in Nat, Ordered(l), UpTo(l, g),
         e.generation <= g,
         e.state = "started" => Ended(l) /\ \A i \in DOMAIN l : l[i].generation < e.generation,
         e.state # "started" => l # <<>> /\ l[Len(l)] = [e EXCEPT !.state = "started"]
  PROVE  /\ Append(l, e) \in Seq(Event) /\ Ordered(Append(l, e)) /\ UpTo(Append(l, e), g)
         /\ Append(l, e) # <<>> /\ Append(l, e)[Len(Append(l, e))] = e
<1> DEFINE a == Append(l, e)
           n == Len(l)
<1>1. /\ a \in Seq(Event) /\ DOMAIN a = 1 .. n + 1 /\ Len(a) = n + 1 /\ a[n + 1] = e
      /\ \A i \in 1 .. n : a[i] = l[i]
  BY AppendLemma
<1>2. n \in Nat /\ DOMAIN l = 1 .. n /\ (l # <<>> <=> n # 0)
  BY EmptySeq
<1> HIDE DEF a, n
<1>3. a # <<>>
  BY <1>1, <1>2, EmptySeq
<1>4. UpTo(a, g)
  BY <1>1, <1>2 DEF UpTo
<1>5. Ordered(a)
  <2> SUFFICES ASSUME NEW i \in 1 .. n + 1
               PROVE  IF a[i].state = "started"
                      THEN i > 1 => /\ a[i - 1].generation < a[i].generation
                                    /\ a[i - 1].state = "started" => a[i - 1].to # a[i].to
                      ELSE i > 1 /\ a[i - 1] = [a[i] EXCEPT !.state = "started"]
    BY <1>1 DEF Ordered
  <2>1. CASE i \in 1 .. n
    <3>1. a[i] = l[i] /\ (i > 1 => a[i - 1] = l[i - 1])
      BY <1>1, <1>2, <2>1
    <3>2. IF l[i].state = "started"
          THEN i > 1 => /\ l[i - 1].generation < l[i].generation
                        /\ l[i - 1].state = "started" => l[i - 1].to # l[i].to
          ELSE i > 1 /\ l[i - 1] = [l[i] EXCEPT !.state = "started"]
      BY <1>2, <2>1 DEF Ordered
    <3> QED BY <3>1, <3>2
  <2>2. CASE i = n + 1
    <3>1. a[i] = e /\ (i > 1 => a[i - 1] = l[n])
      BY <1>1, <1>2, <2>2
    <3>2. CASE e.state = "started"
      <4>1. i > 1 => l[n].state # "started" /\ l[n].generation < e.generation
        BY <1>2, <2>2, <3>2 DEF Ended, n
      <4> QED BY <3>1, <3>2, <4>1
    <3>3. CASE e.state # "started"
      BY <1>2, <2>2, <3>1, <3>3 DEF n
    <3> QED BY <3>2, <3>3
  <2> QED BY <1>2, <2>1, <2>2
<1> QED BY <1>1, <1>3, <1>4, <1>5 DEF a

(* The end of a process, as the extension is told it.                      *)
LEMMA EndNotified ==
  ASSUME IInv, pipe_open, NEW state \in {"finished", "failed", "cancelled"}
  PROVE  LET l == Notified(log, controller, generation, state)
         IN /\ l \in Seq(Event) /\ Ordered(l) /\ UpTo(l, generation)
            /\ Ended(l) \/ window \in {"away", "gone"}
<1> DEFINE e == [to |-> controller.id, generation |-> generation, state |-> state]
<1>1. /\ log \in Seq(Event) /\ generation \in Nat /\ generation # 0 /\ controller.id \in Nat
      /\ Ordered(log) /\ UpTo(log, generation)
  BY LimitAssumption DEF IInv, TypeOK, LogInv
<1>2. CASE Attached
  <2>1. controller.id # 0 /\ log # <<>> /\ log[Len(log)] = Begun
    BY <1>2 DEF IInv, LogInv, FlowInv
  <2>2. /\ e \in Event /\ e.generation = generation /\ e.state # "started"
        /\ Begun = [e EXCEPT !.state = "started"]
    BY <1>1 DEF Event, Begun
  <2>3. Notified(log, controller, generation, state) = Append(log, e)
    BY <1>1, <2>1 DEF Notified
  <2> HIDE DEF e
  <2>4. /\ Append(log, e) \in Seq(Event) /\ Ordered(Append(log, e))
        /\ UpTo(Append(log, e), generation)
        /\ Append(log, e) # <<>> /\ Append(log, e)[Len(Append(log, e))] = e
    BY <1>1, <2>1, <2>2, OrderedAppend
  <2> QED BY <2>2, <2>3, <2>4 DEF Ended
<1>3. CASE ~Attached
  <2>1. controller.id = 0
    BY <1>3 DEF Attached, NoController
  <2>2. Ended(log) \/ window \in {"away", "gone"}
    BY <1>3 DEF IInv, LogInv
  <2> QED BY <1>1, <2>1, <2>2 DEF Notified
<1> QED BY <1>2, <1>3

(* The log after the old source is closed.                                 *)
LEMMA Closing ==
  ASSUME IInv
  PROVE  /\ CloseLog \in Seq(Event) /\ Ordered(CloseLog) /\ UpTo(CloseLog, generation)
         /\ Ended(CloseLog) \/ window \in {"away", "gone"}
<1>1. CASE pipe_open
  BY <1>1, EndNotified DEF CloseLog
<1>2. CASE ~pipe_open
  BY <1>2 DEF CloseLog, IInv, TypeOK, LogInv
<1> QED BY <1>1, <1>2

(* What the stream variables are after a source is installed.              *)
LEMMA Installed ==
  ASSUME IInv, window \notin {"away", "gone"}, NEW s,
         NEW c \in [id : Nat \ {0}, viewport : BOOLEAN, raw : BOOLEAN],
         Install(s, c), controller' = c, s.kind = "process" => generation < MaxGenerations
  PROVE  /\ LogInv' /\ log' \in Seq(Event) /\ generation' \in 0 .. MaxGenerations
         /\ datasource' \in {"none", "pipe", "file", "growing"}
         /\ pipe_open' \in BOOLEAN /\ streaming' \in BOOLEAN /\ stream_active' \in BOOLEAN
         /\ stream_redraw_queued' \in BOOLEAN
<1> DEFINE e == [to |-> c.id, generation |-> generation + 1, state |-> "started"]
<1>1. /\ CloseLog \in Seq(Event) /\ Ordered(CloseLog) /\ UpTo(CloseLog, generation)
      /\ Ended(CloseLog) /\ generation \in 0 .. MaxGenerations /\ MaxGenerations \in Nat
  BY Closing, LimitAssumption DEF IInv, TypeOK
<1>2. /\ pipe_open \in BOOLEAN /\ streaming \in BOOLEAN /\ stream_active \in BOOLEAN
      /\ stream_redraw_queued \in BOOLEAN
  BY DEF IInv, TypeOK
<1>3. /\ datasource' \in {"none", "pipe", "file", "growing"}
      /\ pipe_open' \in BOOLEAN /\ streaming' \in BOOLEAN /\ stream_active' \in BOOLEAN
      /\ stream_redraw_queued' \in BOOLEAN
  BY <1>2 DEF Install, QueuedAfterClose
<1>4. CASE s.kind = "process"
  <2>1. /\ log' = Notified(CloseLog, c, generation + 1, "started") /\ generation' = generation + 1
        /\ pipe_open' = TRUE /\ stream_active' = TRUE
    BY <1>4 DEF Install
  <2>2. log' = Append(CloseLog, e) /\ e \in Event
    BY <1>1, <2>1 DEF Notified, Event
  <2>3. e.generation = generation + 1 /\ e.state = "started"
    OBVIOUS
  <2>4. \A i \in DOMAIN CloseLog : /\ CloseLog[i].generation \in Nat
                                     /\ CloseLog[i].generation < generation + 1
    <3> TAKE i \in DOMAIN CloseLog
    <3>1. CloseLog[i] \in Event
      BY <1>1, ElementOfSeq, LenProperties
    <3>2. CloseLog[i].generation \in Nat /\ CloseLog[i].generation <= generation
      BY <1>1, <3>1 DEF UpTo, Event
    <3> QED BY <1>1, <3>2
  <2>4a. UpTo(CloseLog, generation + 1) /\ generation + 1 \in Nat
    BY <1>1, <2>4 DEF UpTo
  <2>5. Begun' = e
    BY <2>1 DEF Begun
  <2> HIDE DEF e
  <2>6. /\ log' \in Seq(Event) /\ Ordered(log') /\ UpTo(log', generation')
        /\ log' # <<>> /\ log'[Len(log')] = e
    <3>1. \A i \in DOMAIN CloseLog : CloseLog[i].generation < e.generation
      BY <2>3, <2>4
    <3>2. e.generation <= generation + 1
      BY <2>3, <2>4a
    <3>3. LET l == Append(CloseLog, e)
          IN /\ l \in Seq(Event) /\ Ordered(l) /\ UpTo(l, generation + 1)
             /\ l # <<>> /\ l[Len(l)] = e
      BY <1>1, <2>2, <2>3, <2>4a, <3>1, <3>2, OrderedAppend
    <3> QED BY <2>1, <2>2, <3>3
  <2>7. Attached'
    BY DEF Attached, NoController
  <2>8. LogInv'
    BY <1>1, <2>1, <2>5, <2>6, <2>7 DEF LogInv
  <2> QED BY <1>1, <1>3, <1>4, <2>1, <2>6, <2>8
<1>5. CASE s.kind # "process"
  <2>1. /\ log' = CloseLog /\ generation' = generation /\ pipe_open' = FALSE
        /\ stream_active' = FALSE
    BY <1>5 DEF Install
  <2>2. LogInv'
    BY <1>1, <2>1 DEF LogInv
  <2> QED BY <1>1, <1>3, <2>1, <2>2
<1> QED BY <1>4, <1>5

-----------------------------------------------------------------------------
(* Files, modals and controllers.                                          *)

(* The number of the file of a new specification is new.                   *)
LEMMA NewSpecTyped ==
  ASSUME IInv, NEW k \in Kind, NEW p \in Nat, CanPrepare
  PROVE  /\ NewSpec(k, p) \in SpecType /\ NewSpec(k, p).temp \in {0, made + 1}
         /\ NewSpec(k, p).params = p
         /\ \A n \in Size : /\ [NewSpec(k, p) EXCEPT !.size = n] \in SpecType
                            /\ [NewSpec(k, p) EXCEPT !.size = n].temp = NewSpec(k, p).temp
                            /\ [NewSpec(k, p) EXCEPT !.size = n].params = p
         /\ made + 1 \in 0 .. MaxSpecs
<1>1. made \in Nat /\ MaxSpecs \in Nat /\ made + 1 \in 0 .. MaxSpecs /\ size \in Nat
  BY LimitAssumption, SizeAssumption DEF IInv, TypeOK, CanPrepare
<1>2. Size \subseteq Nat
  BY SizeAssumption
<1> QED BY <1>1, <1>2 DEF NewSpec, SpecType

(* A draft is abandoned; what is in use stays.                             *)
LEMMA DiscardedFiles ==
  ASSUME NEW m \in Nat, NEW f, FilesOf(f, m)
  PROVE  /\ FilesOf(Discarded(f), m) /\ Discarded(f).draft = 0 /\ Discarded(f).current = f.current
         /\ f.current \in f.disk \cup {0} => f.current \in Discarded(f).disk \cup {0}
         /\ f.disk = {} => Discarded(f).disk = {}
<1>1. /\ f \in [current : 0 .. m, draft : 0 .. m, disk : SUBSET (1 .. m)]
      /\ f.draft # 0 => f.draft # f.current
      /\ f.disk \subseteq {f.current, f.draft}
  BY DEF FilesOf
<1>2. f.current \in 0 .. m /\ f.draft \in 0 .. m /\ f.disk \subseteq 1 .. m /\ 0 \in 0 .. m
  BY <1>1
<1> DEFINE d == f.disk \ Temp(f.draft)
<1>3. Discarded(f) = [current |-> f.current, draft |-> 0, disk |-> d]
  BY DEF Discarded
<1>4. /\ d \subseteq 1 .. m /\ d \subseteq {f.current, 0} /\ (f.disk = {} => d = {})
      /\ f.current \in f.disk \cup {0} => f.current \in d \cup {0}
  BY <1>1, <1>2 DEF Temp
<1> HIDE DEF d
<1> QED BY <1>2, <1>3, <1>4 DEF FilesOf

(* A draft takes over.                                                     *)
LEMMA PromotedFiles ==
  ASSUME NEW m \in Nat, NEW f, FilesOf(f, m)
  PROVE  /\ FilesOf(Promoted(f), m) /\ Promoted(f).draft = 0 /\ Promoted(f).current = f.draft
         /\ f.draft \in f.disk \cup {0} => f.draft \in Promoted(f).disk \cup {0}
BY DEF FilesOf, Promoted, Temp

(* Nothing is left when a controller goes.                                 *)
LEMMA FreedFiles ==
  ASSUME NEW m \in Nat, NEW f, FilesOf(f, m)
  PROVE  Freed(f) = [current |-> 0, draft |-> 0, disk |-> {}]
<1>1. f.disk \ (Temp(f.current) \cup Temp(f.draft)) = {}
  BY DEF FilesOf, Temp
<1> QED BY <1>1 DEF Freed

(* A new file is written, as the draft or, for the viewport, at once.      *)
LEMMA WrittenFiles ==
  ASSUME NEW m \in Nat, FilesOf(files, m), NEW s, s.temp \in {0, m + 1}
  PROVE  /\ FilesOf(Written(s), m + 1)
         /\ controller.viewport => Written(s).draft = 0
         /\ ~controller.viewport => /\ Written(s).draft = s.temp
                                    /\ Written(s).current = files.current
                                    /\ s.temp \in Written(s).disk \cup {0}
                                    /\ files.current \in files.disk \cup {0} =>
                                         files.current \in Written(s).disk \cup {0}
<1>1. m + 1 \in 1 .. m + 1 /\ 0 .. m \subseteq 0 .. m + 1 /\ 1 .. m \subseteq 1 .. m + 1
      /\ m + 1 \notin 0 .. m /\ m + 1 # 0 /\ m + 1 \in 0 .. m + 1 /\ 0 \in 0 .. m + 1
      /\ 0 \notin 1 .. m
  OBVIOUS
<1>2. /\ files \in [current : 0 .. m, draft : 0 .. m, disk : SUBSET (1 .. m)]
      /\ files.draft # 0 => files.draft # files.current
      /\ files.disk \subseteq {files.current, files.draft}
  BY DEF FilesOf
<1>3. /\ files.current \in 0 .. m /\ files.draft \in 0 .. m /\ files.disk \subseteq 1 .. m
  BY <1>2
<1>4. CASE controller.viewport
  <2>1. /\ Written(s).current = s.temp /\ Written(s).draft = 0
        /\ Written(s).disk = Temp(s.temp)
    BY <1>2, <1>3, <1>4 DEF Written, Temp
  <2>2. Written(s) \in [current : 0 .. m + 1, draft : 0 .. m + 1, disk : SUBSET (1 .. m + 1)]
    <3>1. Written(s) = [current |-> s.temp, draft |-> 0, disk |-> Temp(s.temp)]
      BY <1>2, <1>3, <1>4 DEF Written, Temp
    <3> QED BY <1>1, <3>1 DEF Temp
  <2> QED BY <1>4, <2>1, <2>2 DEF FilesOf, Temp
<1>5. CASE ~controller.viewport
  <2> DEFINE d == (files.disk \ Temp(files.draft)) \cup Temp(s.temp)
  <2>1. Written(s) = [current |-> files.current, draft |-> s.temp, disk |-> d]
    BY <1>5 DEF Written
  <2>2. d \subseteq 1 .. m + 1 /\ d \subseteq {files.current, s.temp}
    BY <1>1, <1>2, <1>3 DEF Temp
  <2>3. s.temp # 0 => s.temp # files.current
    BY <1>1, <1>3
  <2>4. /\ s.temp \in d \cup {0}
        /\ files.current \in files.disk \cup {0} => files.current \in d \cup {0}
    BY <1>1, <1>2, <1>3 DEF Temp
  <2> HIDE DEF d
  <2> QED BY <1>1, <1>3, <1>5, <2>1, <2>2, <2>3, <2>4 DEF FilesOf
<1> QED BY <1>4, <1>5

(* The numbers of files fit their type.                                    *)
LEMMA FilesTyped ==
  ASSUME NEW m \in 0 .. MaxSpecs, NEW f, FilesOf(f, m)
  PROVE  f \in [current : Nat, draft : Nat, disk : SUBSET (1 .. MaxSpecs)]
BY LimitAssumption DEF FilesOf

(* What is below the topmost modal.                                        *)
LEMMA Below ==
  ASSUME IInv, flow # <<>>
  PROVE  /\ flow \in Seq(Modal) /\ Front(flow) \in Seq(Modal)
         /\ \A i \in DOMAIN Front(flow) : i \in DOMAIN flow /\ Front(flow)[i] = flow[i]
         /\ Front(flow) # <<>> => 1 \in DOMAIN Front(flow)
         /\ Last(flow).kind # "rebuild_failed" =>
              Front(flow) = <<>> /\ flow[1].kind = Last(flow).kind
         /\ Front(flow) = <<>> => flow[1].kind = Last(flow).kind
         /\ Last(flow) \in Modal
<1>1. flow \in Seq(Modal)
  BY DEF IInv, TypeOK
<1>2. /\ Front(flow) \in Seq(Modal) /\ Len(flow) \in Nat \ {0}
      /\ Len(Front(flow)) = Len(flow) - 1 /\ DOMAIN Front(flow) = 1 .. Len(flow) - 1
      /\ \A i \in 1 .. Len(flow) - 1 : Front(flow)[i] = flow[i]
      /\ DOMAIN flow = 1 .. Len(flow)
  BY <1>1, FrontProperties, LenProperties
<1>3. Front(flow) = <<>> <=> Len(flow) = 1
  BY <1>2, EmptySeq
<1>4. Len(flow) > 1 => Last(flow).kind = "rebuild_failed"
  BY <1>2 DEF IInv, FlowInv, Last
<1>5. Last(flow) \in Modal
  BY <1>1, <1>2, ElementOfSeq DEF Last
<1> QED BY <1>1, <1>2, <1>3, <1>4, <1>5 DEF Last

(* A modal on top of the others.                                           *)
LEMMA Above ==
  ASSUME NEW k \in {"options", "options_failed", "raw_failed", "rebuild_failed"}, magic \in BOOLEAN,
         NEW f \in Seq(Modal)
  PROVE  /\ M(k) \in Modal /\ <<M(k)>> \in Seq(Modal) /\ <<M(k)>> # <<>> /\ DOMAIN <<M(k)>> = {1}
         /\ <<M(k)>>[1].kind = k /\ Append(<<>>, M(k)) = <<M(k)>>
         /\ Append(f, M(k)) \in Seq(Modal) /\ Append(f, M(k)) # <<>>
         /\ \A i \in DOMAIN Append(f, M(k)) :
              \/ Append(f, M(k))[i].kind = k
              \/ i \in DOMAIN f /\ Append(f, M(k))[i] = f[i]
         /\ f # <<>> => 1 \in DOMAIN f /\ Append(f, M(k))[1] = f[1]
<1>1. M(k) \in Modal /\ M(k).kind = k
  BY DEF M, Modal
<1>2. /\ Append(f, M(k)) \in Seq(Modal) /\ DOMAIN Append(f, M(k)) = 1 .. Len(f) + 1
      /\ Len(Append(f, M(k))) = Len(f) + 1 /\ Append(f, M(k))[Len(f) + 1] = M(k)
      /\ \A i \in 1 .. Len(f) : Append(f, M(k))[i] = f[i]
      /\ Len(f) \in Nat /\ DOMAIN f = 1 .. Len(f)
  BY <1>1, AppendLemma, LenProperties
<1>3. f # <<>> => Len(f) # 0
  BY EmptySeq
<1>4. Append(f, M(k)) # <<>>
  BY <1>2, EmptySeq
<1>5. /\ <<M(k)>> \in Seq(Modal) /\ <<M(k)>> # <<>> /\ DOMAIN <<M(k)>> = {1}
      /\ <<M(k)>>[1].kind = k /\ Append(<<>>, M(k)) = <<M(k)>>
  BY <1>1
<1>6. \A i \in 1 .. Len(f) + 1 : i = Len(f) + 1 \/ i \in 1 .. Len(f)
  BY <1>2
<1> QED BY <1>1, <1>2, <1>3, <1>4, <1>5, <1>6

-----------------------------------------------------------------------------
(* The stream.                                                             *)

(* The log is as good as it was where no process starts or ends.           *)
LEMMA LogKept ==
  ASSUME IInv,
         UNCHANGED <<log, generation, pipe_open, stream_active, controller, window>>
  PROVE  LogInv'
BY DEF IInv, LogInv, Attached, Begun

(* Files are as good as they were where no one writes them.                *)
LEMMA FilesKept ==
  ASSUME IInv, UNCHANGED <<controller, live, spec, made, files>>
  PROVE  TempInv'
BY DEF IInv, TempInv, Attached

(* A modal is open over a viewer that is.                                  *)
LEMMA ModalOpen ==
  ASSUME IInv, flow # <<>>
  PROVE  window = "open" /\ Attached
BY DEF IInv, FlowInv

(* Output arrives and is drawn.                                            *)
LEMMA StreamDataStep ==
  ASSUME IInv, StreamData \/ StreamRedraw
  PROVE  IInv'
<1>1. UNCHANGED <<mode, window, size, controller, controllers, live, pending, spec, made, files,
                  shown, magic, built, datasource, pipe_open, streaming, stream_active, generation,
                  log, flow>>
  BY DEF StreamData, StreamRedraw, extensionVars, contentVars
<1>2. TypeOK'
  BY <1>1 DEF IInv, TypeOK, StreamData, StreamRedraw
<1>3. LogInv'
  BY <1>1, LogKept
<1>4. FlowInv'
  BY <1>1 DEF IInv, FlowInv, Attached
<1>5. TempInv'
  BY <1>1, FilesKept
<1>6. NothingLeftBehind'
  BY <1>1 DEF IInv, NothingLeftBehind, Attached, StreamData, StreamRedraw
<1> QED BY <1>2, <1>3, <1>4, <1>5, <1>6 DEF IInv

(* The process ends.                                                       *)
LEMMA StreamEndStep ==
  ASSUME IInv, NEW state \in {"finished", "failed"}, StreamEnd(state)
  PROVE  IInv'
<1>1. UNCHANGED <<mode, window, size, controller, controllers, live, pending, spec, made, files,
                  shown, magic, built, datasource, streaming, generation, flow>>
  BY DEF StreamEnd, extensionVars, contentVars
<1>2. /\ stream_active /\ pipe_open /\ pipe_open' = FALSE /\ stream_active' = FALSE
      /\ stream_redraw_queued' = TRUE
      /\ log' = Notified(log, controller, generation, state)
  BY DEF StreamEnd, IInv, LogInv
<1>3. /\ log' \in Seq(Event) /\ Ordered(log') /\ UpTo(log', generation)
      /\ Ended(log') \/ window \in {"away", "gone"}
  BY <1>2, EndNotified
<1>4. TypeOK'
  BY <1>1, <1>2, <1>3 DEF IInv, TypeOK
<1>5. LogInv'
  BY <1>1, <1>2, <1>3 DEF LogInv
<1>6. FlowInv'
  BY <1>1 DEF IInv, FlowInv, Attached
<1>7. TempInv'
  BY <1>1, FilesKept
<1>8. NothingLeftBehind'
  BY <1>1, <1>2 DEF IInv, NothingLeftBehind
<1> QED BY <1>4, <1>5, <1>6, <1>7, <1>8 DEF IInv

-----------------------------------------------------------------------------
(* Attaching and detaching.                                                *)

(* A controller takes the viewer over.                                     *)
LEMMA AttachStep ==
  ASSUME IInv, NEW c \in Policy, NEW k \in Kind, Attach(c, k)
  PROVE  IInv'
<1> DEFINE new == [id |-> controllers + 1, viewport |-> c.viewport, raw |-> c.raw]
           s == NewSpec(k, 1)
           fs == [current |-> s.temp, draft |-> 0, disk |-> Temp(s.temp)]
<1>1. /\ flow = <<>> /\ window \in {"none", "open"} /\ window' = "open" /\ CanPrepare
      /\ controllers < MaxControllers /\ CanOpen(s, Temp(s.temp)) /\ Install(s, new)
      /\ magic' = MagicAfter(new) /\ controller' = new /\ controllers' = new.id /\ spec' = s
      /\ shown' = s /\ live' = 1 /\ pending' = 0 /\ built' = IF c.viewport THEN size ELSE 0
      /\ made' = made + 1 /\ mode' = mode /\ size' = size /\ flow' = flow
      /\ files' = [current |-> s.temp, draft |-> 0, disk |-> Freed(files).disk \cup Temp(s.temp)]
  BY DEF Attach
<1>2. FilesOf(files, made) /\ made \in Nat /\ controllers \in 0 .. MaxControllers
      /\ size \in Size /\ mode \in Mode /\ flow \in Seq(Modal) /\ magic \in BOOLEAN
  BY LimitAssumption DEF IInv, TypeOK, TempInv
<1>3. files' = fs
  <2>1. Freed(files) = [current |-> 0, draft |-> 0, disk |-> {}]
    BY <1>2, FreedFiles
  <2> QED BY <1>1, <2>1
<1>4. /\ s \in SpecType /\ s.temp \in {0, made + 1} /\ s.params = 1 /\ made + 1 \in 0 .. MaxSpecs
      /\ s.kind = k
  BY <1>1, NewSpecTyped DEF NewSpec
<1>5. /\ new \in [id : Nat \ {0}, viewport : BOOLEAN, raw : BOOLEAN]
      /\ controllers + 1 \in 0 .. MaxControllers
  BY <1>1, <1>2, PolicyAssumption, LimitAssumption
<1> HIDE DEF s
<1>6. s.kind = "process" => generation < MaxGenerations
  BY <1>1 DEF CanOpen
<1>7. Attached' /\ controller'.id # 0
  BY <1>1, <1>5 DEF Attached, NoController
<1>8. /\ LogInv' /\ log' \in Seq(Event) /\ generation' \in 0 .. MaxGenerations
      /\ datasource' \in {"none", "pipe", "file", "growing"}
      /\ pipe_open' \in BOOLEAN /\ streaming' \in BOOLEAN /\ stream_active' \in BOOLEAN
      /\ stream_redraw_queued' \in BOOLEAN
  BY <1>1, <1>5, <1>6, Installed
<1>9. FilesOf(fs, made + 1)
  BY <1>2, <1>4 DEF FilesOf, Temp
<1>10. TypeOK'
  <2>1. files' \in [current : Nat, draft : Nat, disk : SUBSET (1 .. MaxSpecs)]
    BY <1>3, <1>4, <1>9, FilesTyped
  <2>2. magic' \in BOOLEAN
    BY <1>1, <1>2, <1>5 DEF MagicAfter
  <2>3. built' \in Size \cup {0}
    BY <1>1, <1>2
  <2>4. /\ spec' \in SpecType /\ shown' \in SpecType /\ made' \in 0 .. MaxSpecs
        /\ controllers' \in 0 .. MaxControllers
        /\ controller' \in [id : Nat, viewport : BOOLEAN, raw : BOOLEAN]
        /\ live' \in Nat /\ pending' \in Nat /\ mode' \in Mode /\ size' \in Size
        /\ window' = "open" /\ flow' \in Seq(Modal)
    BY <1>1, <1>2, <1>4, <1>5
  <2> QED BY <1>8, <2>1, <2>2, <2>3, <2>4 DEF TypeOK
<1>11. FlowInv'
  <2>1. flow' = <<>> /\ pending' = 0 /\ files'.draft = 0
    BY <1>1, <1>3
  <2>2. DOMAIN flow' = {}
    BY <2>1
  <2>3. /\ flow' # <<>> => window' = "open" /\ Attached'
        /\ \A i \in DOMAIN flow' : i > 1 => flow'[i].kind = "rebuild_failed"
        /\ ~(pending' # 0 \/ files'.draft # 0)
    BY <2>1, <2>2
  <2> QED BY <1>7, <2>3 DEF FlowInv
<1>12. TempInv'
  <2>1. files'.draft = 0 /\ files'.current = s.temp /\ s.temp \in files'.disk \cup {0}
    BY <1>3 DEF Temp
  <2> QED BY <1>1, <1>3, <1>4, <1>7, <1>9, <2>1 DEF TempInv
<1>13. NothingLeftBehind'
  BY <1>1 DEF NothingLeftBehind
<1> QED BY <1>8, <1>10, <1>11, <1>12, <1>13 DEF IInv

(* What is left when a controller goes.                                    *)
LEMMA DetachedState ==
  ASSUME IInv, Detached, InLoop \/ window = "away", UNCHANGED <<made, flow>>
  PROVE  /\ ~Attached' /\ FlowInv' /\ TempInv'
         /\ controller' \in [id : Nat, viewport : BOOLEAN, raw : BOOLEAN]
         /\ spec' \in SpecType /\ built' = 0 /\ live' \in Nat /\ pending' \in Nat
         /\ files' \in [current : Nat, draft : Nat, disk : SUBSET (1 .. MaxSpecs)]
         /\ files'.disk = {} /\ flow = <<>>
<1>1. /\ controller' = NoController /\ spec' = Spec0 /\ built' = 0 /\ files' = Freed(files)
      /\ live' = 0 /\ pending' = 0
  BY DEF Detached
<1>2. FilesOf(files, made) /\ made \in 0 .. MaxSpecs /\ made \in Nat
  BY LimitAssumption DEF IInv, TypeOK, TempInv
<1>3. files' = [current |-> 0, draft |-> 0, disk |-> {}]
  BY <1>1, <1>2, FreedFiles
<1>4. flow = <<>>
  BY DEF IInv, FlowInv, InLoop
<1>5. ~Attached'
  BY <1>1 DEF Attached
<1>6. /\ controller' \in [id : Nat, viewport : BOOLEAN, raw : BOOLEAN] /\ spec' \in SpecType
      /\ ~controller'.viewport
  BY <1>1 DEF NoController, Spec0, SpecType
<1>7. FlowInv'
  BY <1>1, <1>3, <1>4, <1>5 DEF FlowInv
<1>8. FilesOf(files', made') /\ files'.draft = 0 /\ files'.disk = {}
  BY <1>2, <1>3 DEF FilesOf
<1>9. TempInv'
  BY <1>5, <1>8 DEF TempInv
<1> QED BY <1>1, <1>3, <1>4, <1>5, <1>6, <1>7, <1>9

(* The quick view moves on to an ordinary file.                            *)
LEMMA LoadStep ==
  ASSUME IInv, NEW source \in {"none", "file", "growing"}, Load(source)
  PROVE  IInv'
<1>1. /\ InLoop /\ Detached /\ datasource' = source /\ pipe_open' = FALSE
      /\ stream_active' = FALSE /\ stream_redraw_queued' = QueuedAfterClose /\ log' = CloseLog
      /\ shown' = [Spec0 EXCEPT !.kind = "plain"]
      /\ UNCHANGED <<mode, window, size, controllers, made, magic, streaming, generation, flow>>
  BY DEF Load
<1>2. /\ ~Attached' /\ FlowInv' /\ TempInv'
      /\ controller' \in [id : Nat, viewport : BOOLEAN, raw : BOOLEAN]
      /\ spec' \in SpecType /\ built' = 0 /\ live' \in Nat /\ pending' \in Nat
      /\ files' \in [current : Nat, draft : Nat, disk : SUBSET (1 .. MaxSpecs)]
  BY <1>1, DetachedState
<1>3. /\ log' \in Seq(Event) /\ Ordered(log') /\ UpTo(log', generation)
      /\ Ended(log') \/ window \in {"away", "gone"}
  BY <1>1, Closing
<1>4. stream_redraw_queued' \in BOOLEAN /\ shown' \in SpecType
  BY <1>1 DEF QueuedAfterClose, Spec0, SpecType, IInv, TypeOK
<1>5. TypeOK'
  BY <1>1, <1>2, <1>3, <1>4 DEF IInv, TypeOK
<1>6. LogInv'
  BY <1>1, <1>3 DEF LogInv
<1>7. NothingLeftBehind'
  BY <1>1 DEF NothingLeftBehind, InLoop
<1> QED BY <1>2, <1>5, <1>6, <1>7 DEF IInv

(* The viewer goes away.                                                   *)
LEMMA DestroyStep ==
  ASSUME IInv, Destroy
  PROVE  IInv'
<1>1. /\ InLoop \/ window = "away"
      /\ Detached /\ window' = "gone" /\ datasource' = "none" /\ pipe_open' = FALSE
      /\ stream_active' = FALSE /\ stream_redraw_queued' = FALSE
      /\ log' = IF mode = "quick" THEN CloseLog ELSE log
      /\ UNCHANGED <<mode, size, controllers, made, shown, magic, streaming, generation, flow>>
  BY DEF Destroy
<1>2. /\ ~Attached' /\ FlowInv' /\ TempInv'
      /\ controller' \in [id : Nat, viewport : BOOLEAN, raw : BOOLEAN]
      /\ spec' \in SpecType /\ built' = 0 /\ live' \in Nat /\ pending' \in Nat
      /\ files' \in [current : Nat, draft : Nat, disk : SUBSET (1 .. MaxSpecs)]
      /\ files'.disk = {}
  <2>1. UNCHANGED <<made, flow>>
    BY <1>1
  <2>2. UNCHANGED window \/ TRUE
    OBVIOUS
  <2> QED BY <1>1, <2>1, DetachedState
<1>3. log' \in Seq(Event) /\ Ordered(log') /\ UpTo(log', generation)
  BY <1>1, Closing DEF IInv, TypeOK, LogInv
<1>4. TypeOK'
  BY <1>1, <1>2, <1>3 DEF IInv, TypeOK
<1>5. LogInv'
  BY <1>1, <1>3 DEF LogInv
<1>6. NothingLeftBehind'
  BY <1>1, <1>2 DEF NothingLeftBehind
<1> QED BY <1>2, <1>4, <1>5, <1>6 DEF IInv

(* A viewer window goes to the background without its controller.          *)
LEMMA SuspendStep ==
  ASSUME IInv, Suspend
  PROVE  IInv'
<1>1. /\ InLoop /\ Detached /\ window' = "away"
      /\ UNCHANGED <<mode, size, controllers, made, shown, magic, datasource, pipe_open, streaming,
                     stream_active, stream_redraw_queued, generation, log, flow>>
  BY DEF Suspend, streamVars
<1>2. /\ ~Attached' /\ FlowInv' /\ TempInv'
      /\ controller' \in [id : Nat, viewport : BOOLEAN, raw : BOOLEAN]
      /\ spec' \in SpecType /\ built' = 0 /\ live' \in Nat /\ pending' \in Nat
      /\ files' \in [current : Nat, draft : Nat, disk : SUBSET (1 .. MaxSpecs)]
  BY <1>1, DetachedState
<1>3. TypeOK'
  BY <1>1, <1>2 DEF IInv, TypeOK
<1>4. LogInv'
  BY <1>1, <1>2 DEF IInv, LogInv
<1>5. NothingLeftBehind'
  BY <1>1 DEF NothingLeftBehind
<1> QED BY <1>2, <1>3, <1>4, <1>5 DEF IInv

-----------------------------------------------------------------------------
(* Options.                                                                *)

(* A modal other than the message of a rebuild lies at the bottom; only    *)
(* the message of options keeps something pending.                         *)
LEMMA TopAlone ==
  ASSUME IInv, NEW k \in {"options", "options_failed", "raw_failed"}, TopIs(k)
  PROVE  /\ flow # <<>> /\ Front(flow) = <<>> /\ window = "open" /\ Attached /\ controller.id # 0
         /\ k # "options_failed" => pending = 0 /\ files.draft = 0
<1>1. flow # <<>> /\ Last(flow).kind = k
  BY DEF TopIs
<1>2. Front(flow) = <<>> /\ flow[1].kind = k
  BY <1>1, Below
<1> QED BY <1>1, <1>2 DEF IInv, FlowInv

(* No modal is left, and nothing is pending.                               *)
LEMMA FlowEmptied ==
  ASSUME Attached => controller.id # 0, UNCHANGED controller,
         flow' = <<>>, pending' = 0, files'.draft = 0
  PROVE  FlowInv'
<1>1. DOMAIN flow' = {} /\ (Attached' => controller'.id # 0)
  BY DEF Attached
<1> QED BY <1>1 DEF FlowInv

(* A first modal is opened.                                                *)
LEMMA FlowStarted ==
  ASSUME controller.id # 0, Attached, UNCHANGED <<controller, window>>, window = "open",
         NEW k \in {"options", "options_failed", "raw_failed"},
         magic \in BOOLEAN, flow' = <<M(k)>>,
         (pending' # 0 \/ files'.draft # 0) => k = "options_failed"
  PROVE  FlowInv' /\ flow' \in Seq(Modal)
<1>1. flow' \in Seq(Modal) /\ flow' # <<>> /\ DOMAIN flow' = {1} /\ flow'[1].kind = k
  <2>1. <<>> \in Seq(Modal)
    OBVIOUS
  <2> QED BY <2>1, Above
<1>2. Attached' /\ controller'.id # 0
  BY DEF Attached
<1> QED BY <1>1, <1>2 DEF FlowInv

(* Files that only lost their draft.                                       *)
LEMMA DraftDropped ==
  ASSUME IInv, UNCHANGED <<controller, live, spec, made>>, files' = Discarded(files)
  PROVE  TempInv' /\ files'.draft = 0
         /\ files' \in [current : Nat, draft : Nat, disk : SUBSET (1 .. MaxSpecs)]
<1>1. FilesOf(files, made) /\ made \in 0 .. MaxSpecs /\ made \in Nat
  BY LimitAssumption DEF IInv, TypeOK, TempInv
<1>2. /\ FilesOf(files', made) /\ files'.draft = 0 /\ files'.current = files.current
      /\ files.current \in files.disk \cup {0} => files'.current \in files'.disk \cup {0}
      /\ files.disk = {} => files'.disk = {}
  BY <1>1, DiscardedFiles
<1>3. TempInv'
  BY <1>1, <1>2 DEF IInv, TempInv, Attached
<1> QED BY <1>1, <1>2, <1>3, FilesTyped

(* A new file was written, and nothing taken over.                         *)
LEMMA DraftWritten ==
  ASSUME IInv, Attached, CanPrepare, NEW k \in Kind, NEW p \in Nat,
         UNCHANGED <<controller, live, spec>>, made' = made + 1,
         files' = Written(NewSpec(k, p))
  PROVE  TempInv' /\ made' \in 0 .. MaxSpecs /\ (controller.viewport => files'.draft = 0)
         /\ files' \in [current : Nat, draft : Nat, disk : SUBSET (1 .. MaxSpecs)]
<1> DEFINE s == NewSpec(k, p)
<1>1. FilesOf(files, made) /\ made \in Nat
  BY LimitAssumption DEF IInv, TypeOK, TempInv
<1>2. s.temp \in {0, made + 1} /\ made + 1 \in 0 .. MaxSpecs
  BY NewSpecTyped
<1> HIDE DEF s
<1>3. files' = Written(s)
  BY DEF s
<1>4. /\ FilesOf(files', made')
      /\ controller.viewport => files'.draft = 0
      /\ ~controller.viewport => /\ files'.current = files.current
                                 /\ files.current \in files.disk \cup {0} =>
                                      files'.current \in files'.disk \cup {0}
  BY <1>1, <1>2, <1>3, WrittenFiles
<1>5. TempInv'
  BY <1>4 DEF IInv, TempInv, Attached
<1> QED BY <1>2, <1>4, <1>5, FilesTyped

(* The dialog is opened.                                                   *)
LEMMA OptionsOpenStep ==
  ASSUME IInv, OptionsOpen
  PROVE  IInv'
<1>1. /\ InLoop /\ Attached /\ flow' = <<M("options")>>
      /\ UNCHANGED <<mode, window, size, controller, controllers, live, pending, spec, made, files,
                     shown, magic, built, datasource, pipe_open, streaming, stream_active,
                     stream_redraw_queued, generation, log>>
  BY DEF OptionsOpen, extensionVars, contentVars, streamVars
<1>2. /\ window = "open" /\ controller.id # 0 /\ pending = 0 /\ files.draft = 0
      /\ magic \in BOOLEAN
  BY <1>1 DEF IInv, TypeOK, FlowInv, InLoop
<1>3. FlowInv' /\ flow' \in Seq(Modal)
  BY <1>1, <1>2, FlowStarted
<1>4. TypeOK'
  BY <1>1, <1>3 DEF IInv, TypeOK
<1>5. LogInv' /\ TempInv'
  BY <1>1, LogKept, FilesKept
<1>6. NothingLeftBehind'
  BY <1>1, <1>2 DEF NothingLeftBehind
<1> QED BY <1>3, <1>4, <1>5, <1>6 DEF IInv

(* The dialog, or the message after it, is closed and the draft abandoned. *)
LEMMA RollbackStep ==
  ASSUME IInv, OptionsCancel \/ OptionsFailed
  PROVE  IInv'
<1>1. /\ TopIs("options") \/ TopIs("options_failed")
      /\ files' = Discarded(files) /\ pending' = 0 /\ flow' = Front(flow)
      /\ UNCHANGED <<mode, window, size, controller, controllers, live, spec, made,
                     shown, magic, built, datasource, pipe_open, streaming, stream_active,
                     stream_redraw_queued, generation, log>>
  BY DEF OptionsCancel, OptionsFailed, RolledBack, contentVars, streamVars
<1>2. flow' = <<>> /\ window = "open" /\ controller.id # 0
  BY <1>1, TopAlone
<1>3. TempInv' /\ files'.draft = 0
      /\ files' \in [current : Nat, draft : Nat, disk : SUBSET (1 .. MaxSpecs)]
  BY <1>1, DraftDropped
<1>4. FlowInv'
  BY <1>1, <1>2, <1>3, FlowEmptied
<1>5. flow' \in Seq(Modal) /\ pending' \in Nat
  BY <1>1, <1>2
<1>6. TypeOK'
  BY <1>1, <1>3, <1>5 DEF IInv, TypeOK
<1>7. LogInv'
  BY <1>1, LogKept
<1>8. NothingLeftBehind'
  BY <1>1, <1>2 DEF NothingLeftBehind
<1> QED BY <1>3, <1>4, <1>6, <1>7, <1>8 DEF IInv

(* New parameters, and the message that they cannot be used.               *)
LEMMA OptionsRefused ==
  ASSUME IInv, OptionsUnprepared \/ \E k \in Kind : OptionsUnopened(k)
  PROVE  IInv'
<1>1. /\ TopIs("options") /\ pending' = live + 1
      /\ flow' = Append(Front(flow), M("options_failed"))
      /\ UNCHANGED <<mode, window, size, controller, controllers, live, spec,
                     shown, magic, built, datasource, pipe_open, streaming, stream_active,
                     stream_redraw_queued, generation, log>>
  BY DEF OptionsUnprepared, OptionsUnopened, contentVars, streamVars
<1>2. /\ Front(flow) = <<>> /\ window = "open" /\ controller.id # 0 /\ Attached
      /\ magic \in BOOLEAN /\ live \in Nat /\ live + 1 \in Nat
  BY <1>1, TopAlone DEF IInv, TypeOK
<1>3. flow' = <<M("options_failed")>>
  BY <1>1, <1>2
<1>4. FlowInv' /\ flow' \in Seq(Modal)
  BY <1>1, <1>2, <1>3, FlowStarted
<1>5. TempInv' /\ made' \in 0 .. MaxSpecs
      /\ files' \in [current : Nat, draft : Nat, disk : SUBSET (1 .. MaxSpecs)]
  <2>1. CASE OptionsUnprepared
    <3>1. files' = Discarded(files) /\ made' = made
      BY <2>1 DEF OptionsUnprepared
    <3> QED BY <1>1, <3>1, DraftDropped DEF IInv, TypeOK
  <2>2. ASSUME NEW k \in Kind, OptionsUnopened(k)
        PROVE  TempInv' /\ made' \in 0 .. MaxSpecs
               /\ files' \in [current : Nat, draft : Nat, disk : SUBSET (1 .. MaxSpecs)]
    <3>1. CanPrepare /\ files' = Written(NewSpec(k, live + 1)) /\ made' = made + 1
      BY <1>1, <2>2 DEF OptionsUnopened
    <3> QED BY <1>1, <1>2, <3>1, DraftWritten
  <2> QED BY <2>1, <2>2
<1>6. TypeOK'
  BY <1>1, <1>2, <1>4, <1>5 DEF IInv, TypeOK
<1>7. LogInv'
  BY <1>1, LogKept
<1>8. NothingLeftBehind'
  BY <1>1, <1>2 DEF NothingLeftBehind
<1> QED BY <1>4, <1>5, <1>6, <1>7, <1>8 DEF IInv

(* The new source takes over.                                              *)
LEMMA OptionsDoneStep ==
  ASSUME IInv, NEW k \in Kind, OptionsDone(k)
  PROVE  IInv'
<1> DEFINE s == NewSpec(k, live + 1)
<1>1. /\ TopIs("options") /\ CanPrepare /\ CanOpen(s, Temp(s.temp)) /\ Install(s, controller)
      /\ magic' = MagicAfter(controller) /\ spec' = s /\ shown' = s
      /\ files' = Promoted(Written(s)) /\ live' = s.params /\ pending' = 0
      /\ made' = made + 1 /\ flow' = Front(flow)
      /\ UNCHANGED <<mode, window, size, controller, controllers, built>>
  BY DEF OptionsDone, Committed
<1>2. /\ flow' = <<>> /\ window = "open" /\ controller.id # 0 /\ Attached
  BY <1>1, TopAlone
<1>3. FilesOf(files, made) /\ made \in Nat /\ live \in Nat /\ magic \in BOOLEAN
      /\ controller \in [id : Nat, viewport : BOOLEAN, raw : BOOLEAN]
  BY LimitAssumption DEF IInv, TypeOK, TempInv
<1>4. /\ s \in SpecType /\ s.temp \in {0, made + 1} /\ s.params = live + 1
      /\ made' \in 0 .. MaxSpecs
  BY <1>1, <1>3, NewSpecTyped
<1> HIDE DEF s
<1>5. controller \in [id : Nat \ {0}, viewport : BOOLEAN, raw : BOOLEAN]
  BY <1>2, <1>3
<1>6. s.kind = "process" => generation < MaxGenerations
  BY <1>1 DEF CanOpen
<1>7. /\ LogInv' /\ log' \in Seq(Event) /\ generation' \in 0 .. MaxGenerations
      /\ datasource' \in {"none", "pipe", "file", "growing"}
      /\ pipe_open' \in BOOLEAN /\ streaming' \in BOOLEAN /\ stream_active' \in BOOLEAN
      /\ stream_redraw_queued' \in BOOLEAN
  <2>1. window \notin {"away", "gone"} /\ controller' = controller
    BY <1>1, <1>2
  <2> QED BY <1>1, <1>5, <1>6, <2>1, Installed
<1>8. /\ FilesOf(Written(s), made')
      /\ ~controller.viewport => /\ Written(s).draft = s.temp
                                 /\ s.temp \in Written(s).disk \cup {0}
  BY <1>1, <1>3, <1>4, WrittenFiles
<1>9. /\ FilesOf(files', made') /\ files'.draft = 0 /\ files'.current = Written(s).draft
      /\ Written(s).draft \in Written(s).disk \cup {0} => files'.current \in files'.disk \cup {0}
  BY <1>1, <1>4, <1>8, LimitAssumption, PromotedFiles
<1>10. TempInv'
  BY <1>1, <1>2, <1>3, <1>4, <1>8, <1>9 DEF TempInv, Attached
<1>11. FlowInv'
  BY <1>1, <1>2, <1>9, FlowEmptied
<1>12. TypeOK'
  <2>1. files' \in [current : Nat, draft : Nat, disk : SUBSET (1 .. MaxSpecs)]
    BY <1>4, <1>9, FilesTyped
  <2>2. magic' \in BOOLEAN
    BY <1>1, <1>3 DEF MagicAfter
  <2>3. /\ spec' \in SpecType /\ shown' \in SpecType /\ live' \in Nat /\ pending' \in Nat
        /\ flow' \in Seq(Modal)
    BY <1>1, <1>2, <1>3, <1>4
  <2> QED BY <1>1, <1>4, <1>7, <2>1, <2>2, <2>3 DEF IInv, TypeOK
<1>13. NothingLeftBehind'
  BY <1>1, <1>2 DEF NothingLeftBehind
<1> QED BY <1>7, <1>10, <1>11, <1>12, <1>13 DEF IInv

-----------------------------------------------------------------------------
(* F8.                                                                     *)

(* The other of the generated source and the raw file is shown.            *)
LEMMA ToggleMagicStep ==
  ASSUME IInv, ToggleMagic
  PROVE  IInv'
<1> DEFINE s == Alternative
<1>1. /\ InLoop /\ controller.raw /\ CanOpen(s, files.disk) /\ Install(s, controller)
      /\ shown' = s /\ magic' = ~magic
      /\ UNCHANGED <<mode, window, size, controller, controllers, live, pending, spec, made, files,
                     built, flow>>
  BY DEF ToggleMagic, extensionVars
<1>2. Attached /\ controller.id # 0 /\ window = "open" /\ magic \in BOOLEAN /\ spec \in SpecType
      /\ controller \in [id : Nat, viewport : BOOLEAN, raw : BOOLEAN]
  BY <1>1 DEF Attached, NoController, IInv, TypeOK, FlowInv, InLoop
<1>3. s \in SpecType
  BY <1>2 DEF Alternative, Spec0, SpecType
<1> HIDE DEF s
<1>4. controller \in [id : Nat \ {0}, viewport : BOOLEAN, raw : BOOLEAN]
  BY <1>2
<1>5. s.kind = "process" => generation < MaxGenerations
  BY <1>1 DEF CanOpen
<1>6. /\ LogInv' /\ log' \in Seq(Event) /\ generation' \in 0 .. MaxGenerations
      /\ datasource' \in {"none", "pipe", "file", "growing"}
      /\ pipe_open' \in BOOLEAN /\ streaming' \in BOOLEAN /\ stream_active' \in BOOLEAN
      /\ stream_redraw_queued' \in BOOLEAN
  <2>1. window \notin {"away", "gone"} /\ controller' = controller
    BY <1>1, <1>2
  <2> QED BY <1>1, <1>4, <1>5, <2>1, Installed
<1>7. (~magic) \in BOOLEAN
  BY <1>2
<1>8. TypeOK'
  BY <1>1, <1>3, <1>6, <1>7 DEF IInv, TypeOK
<1>9. FlowInv' /\ TempInv'
  BY <1>1, FilesKept DEF IInv, FlowInv, Attached
<1>10. NothingLeftBehind'
  BY <1>1, <1>2 DEF NothingLeftBehind
<1> QED BY <1>6, <1>8, <1>9, <1>10 DEF IInv

(* It cannot be shown.                                                     *)
LEMMA ToggleFailsStep ==
  ASSUME IInv, ToggleFails
  PROVE  IInv'
<1>1. /\ InLoop /\ controller.raw /\ magic' = ~magic /\ flow' = <<M("raw_failed")>>
      /\ UNCHANGED <<mode, window, size, controller, controllers, live, pending, spec, made, files,
                     shown, built, datasource, pipe_open, streaming, stream_active,
                     stream_redraw_queued, generation, log>>
  BY DEF ToggleFails, extensionVars, streamVars
<1>2. /\ Attached /\ controller.id # 0 /\ window = "open" /\ magic \in BOOLEAN
      /\ pending = 0 /\ files.draft = 0
  BY <1>1 DEF Attached, NoController, IInv, TypeOK, FlowInv, InLoop
<1>3. FlowInv' /\ flow' \in Seq(Modal)
  BY <1>1, <1>2, FlowStarted
<1>4. (~magic) \in BOOLEAN
  BY <1>2
<1>5. TypeOK'
  BY <1>1, <1>3, <1>4 DEF IInv, TypeOK
<1>6. LogInv' /\ TempInv'
  BY <1>1, LogKept, FilesKept
<1>7. NothingLeftBehind'
  BY <1>1, <1>2 DEF NothingLeftBehind
<1> QED BY <1>3, <1>5, <1>6, <1>7 DEF IInv

(* The message is closed.                                                  *)
LEMMA ToggleFailedStep ==
  ASSUME IInv, ToggleFailed
  PROVE  IInv'
<1>1. /\ TopIs("raw_failed") /\ magic' = Last(flow).old_magic /\ flow' = Front(flow)
      /\ UNCHANGED <<mode, window, size, controller, controllers, live, pending, spec, made, files,
                     shown, built, datasource, pipe_open, streaming, stream_active,
                     stream_redraw_queued, generation, log>>
  BY DEF ToggleFailed, extensionVars, streamVars
<1>2. /\ flow # <<>> /\ Front(flow) = <<>> /\ window = "open" /\ Attached /\ controller.id # 0
      /\ pending = 0 /\ files.draft = 0
  BY <1>1, TopAlone
<1>3. Last(flow).old_magic \in BOOLEAN
  BY <1>2, Below DEF Modal
<1>4. FlowInv'
  BY <1>1, <1>2, FlowEmptied
<1>5. flow' \in Seq(Modal)
  BY <1>1, <1>2
<1>6. TypeOK'
  BY <1>1, <1>3, <1>5 DEF IInv, TypeOK
<1>7. LogInv' /\ TempInv'
  BY <1>1, LogKept, FilesKept
<1>8. NothingLeftBehind'
  BY <1>1, <1>2 DEF NothingLeftBehind
<1> QED BY <1>4, <1>6, <1>7, <1>8 DEF IInv

-----------------------------------------------------------------------------
(* Resizing.                                                               *)

(* A message is put on top of what is open; the pending draft stays with   *)
(* the modal at the bottom.                                                *)
LEMMA FlowRaised ==
  ASSUME IInv, Attached, window = "open", magic \in BOOLEAN,
         UNCHANGED <<controller, window, pending>>,
         flow' = Append(flow, M("rebuild_failed")), files'.draft = 0
  PROVE  FlowInv' /\ flow' \in Seq(Modal)
<1>1. flow \in Seq(Modal) /\ controller.id # 0
  BY DEF IInv, TypeOK, FlowInv
<1>2. /\ flow' \in Seq(Modal) /\ flow' # <<>>
      /\ \A i \in DOMAIN flow' : \/ flow'[i].kind = "rebuild_failed"
                                 \/ i \in DOMAIN flow /\ flow'[i] = flow[i]
      /\ flow # <<>> => flow'[1] = flow[1]
  BY <1>1, Above
<1>3. \A i \in DOMAIN flow' : i > 1 => flow'[i].kind = "rebuild_failed"
  BY <1>2 DEF IInv, FlowInv
<1>4. pending' # 0 => flow'[1].kind = "options_failed"
  BY <1>2 DEF IInv, FlowInv
<1> QED BY <1>1, <1>2, <1>3, <1>4 DEF FlowInv, Attached

(* What a rebuild starts from.                                             *)
LEMMA Rebuilding ==
  ASSUME IInv, NEW n \in Size, Resizes(n), Rebuilds
  PROVE  /\ controller.viewport /\ Attached /\ controller.id # 0 /\ window = "open" /\ size' = n
         /\ magic \in BOOLEAN /\ Params \in Nat /\ files.draft = 0
         /\ controller \in [id : Nat \ {0}, viewport : BOOLEAN, raw : BOOLEAN]
<1>1. controller.viewport /\ window = "open" /\ size' = n
  BY DEF Resizes, Rebuilds
<1>2. Attached
  BY <1>1 DEF Attached, NoController
<1> QED BY <1>1, <1>2 DEF IInv, TypeOK, FlowInv, TempInv, Params

(* Nothing is built for the new size.                                      *)
LEMMA ResizeStep ==
  ASSUME IInv, NEW n \in Size, Resize(n)
  PROVE  IInv'
<1>1. /\ window = "open" /\ size' = n
      /\ UNCHANGED <<mode, window, controller, controllers, live, pending, spec, made, files,
                     shown, magic, built, datasource, pipe_open, streaming, stream_active,
                     stream_redraw_queued, generation, log, flow>>
  BY DEF Resize, Resizes, extensionVars, contentVars, streamVars
<1>2. TypeOK'
  BY <1>1 DEF IInv, TypeOK
<1>3. LogInv' /\ TempInv'
  BY <1>1, LogKept, FilesKept
<1>4. FlowInv'
  BY <1>1 DEF IInv, FlowInv, Attached
<1>5. NothingLeftBehind'
  BY <1>1 DEF NothingLeftBehind
<1> QED BY <1>2, <1>3, <1>4, <1>5 DEF IInv

(* A source for the new size takes over, under whatever is open.           *)
LEMMA ResizeRebuiltStep ==
  ASSUME IInv, NEW n \in Size, NEW k \in Kind, ResizeRebuilt(n, k)
  PROVE  IInv'
<1> DEFINE s == [NewSpec(k, Params) EXCEPT !.size = n]
<1>1. /\ Resizes(n) /\ Rebuilds /\ CanPrepare /\ CanOpen(s, Temp(s.temp))
      /\ Install(s, controller) /\ magic' = MagicAfter(controller) /\ spec' = s /\ shown' = s
      /\ files' = Written(s) /\ made' = made + 1 /\ built' = n
      /\ UNCHANGED <<mode, window, controller, controllers, live, pending, flow>>
  BY DEF ResizeRebuilt
<1>2. /\ controller.viewport /\ Attached /\ controller.id # 0 /\ window = "open" /\ size' = n
      /\ magic \in BOOLEAN /\ Params \in Nat
      /\ controller \in [id : Nat \ {0}, viewport : BOOLEAN, raw : BOOLEAN]
  BY <1>1, Rebuilding
<1>3. s \in SpecType /\ s.temp \in {0, made + 1} /\ made' \in 0 .. MaxSpecs
  BY <1>1, <1>2, NewSpecTyped
<1>4. FilesOf(files, made) /\ made \in Nat
  BY LimitAssumption DEF IInv, TypeOK, TempInv
<1> HIDE DEF s
<1>5. s.kind = "process" => generation < MaxGenerations
  BY <1>1 DEF CanOpen
<1>6. /\ LogInv' /\ log' \in Seq(Event) /\ generation' \in 0 .. MaxGenerations
      /\ datasource' \in {"none", "pipe", "file", "growing"}
      /\ pipe_open' \in BOOLEAN /\ streaming' \in BOOLEAN /\ stream_active' \in BOOLEAN
      /\ stream_redraw_queued' \in BOOLEAN
  <2>1. window \notin {"away", "gone"} /\ controller' = controller
    BY <1>1, <1>2
  <2> QED BY <1>1, <1>2, <1>5, <2>1, Installed
<1>7. FilesOf(files', made') /\ files'.draft = 0
  BY <1>1, <1>2, <1>3, <1>4, WrittenFiles
<1>8. TempInv'
  BY <1>1, <1>2, <1>7 DEF TempInv, Attached
<1>9. FlowInv'
  BY <1>1, <1>7 DEF IInv, FlowInv, Attached
<1>10. TypeOK'
  <2>1. files' \in [current : Nat, draft : Nat, disk : SUBSET (1 .. MaxSpecs)]
    BY <1>3, <1>7, FilesTyped
  <2>2. magic' \in BOOLEAN
    BY <1>1, <1>2 DEF MagicAfter
  <2> QED BY <1>1, <1>2, <1>3, <1>6, <2>1, <2>2 DEF IInv, TypeOK
<1>11. NothingLeftBehind'
  BY <1>1, <1>2 DEF NothingLeftBehind
<1> QED BY <1>6, <1>8, <1>9, <1>10, <1>11 DEF IInv

(* The rebuild fails, and says so.                                         *)
LEMMA ResizeRefused ==
  ASSUME IInv, NEW n \in Size, ResizeUnprepared(n) \/ \E k \in Kind : ResizeUnopened(n, k)
  PROVE  IInv'
<1>1. /\ Resizes(n) /\ Rebuilds /\ flow' = Append(flow, M("rebuild_failed"))
      /\ UNCHANGED <<mode, window, controller, controllers, live, pending, spec,
                     shown, magic, built, datasource, pipe_open, streaming, stream_active,
                     stream_redraw_queued, generation, log>>
  BY DEF ResizeUnprepared, ResizeUnopened, contentVars, streamVars
<1>2. /\ controller.viewport /\ Attached /\ controller.id # 0 /\ window = "open" /\ size' = n
      /\ magic \in BOOLEAN /\ Params \in Nat
  BY <1>1, Rebuilding
<1>3. TempInv' /\ made' \in 0 .. MaxSpecs /\ files'.draft = 0
      /\ files' \in [current : Nat, draft : Nat, disk : SUBSET (1 .. MaxSpecs)]
  <2>1. CASE ResizeUnprepared(n)
    <3>1. files' = Discarded(files) /\ made' = made
      BY <2>1 DEF ResizeUnprepared
    <3> QED BY <1>1, <3>1, DraftDropped DEF IInv, TypeOK
  <2>2. ASSUME NEW k \in Kind, ResizeUnopened(n, k)
        PROVE  TempInv' /\ made' \in 0 .. MaxSpecs /\ files'.draft = 0
               /\ files' \in [current : Nat, draft : Nat, disk : SUBSET (1 .. MaxSpecs)]
    <3>1. CanPrepare /\ files' = Written(NewSpec(k, Params)) /\ made' = made + 1
      BY <2>2 DEF ResizeUnopened
    <3> QED BY <1>1, <1>2, <3>1, DraftWritten
  <2> QED BY <2>1, <2>2
<1>4. FlowInv' /\ flow' \in Seq(Modal)
  BY <1>1, <1>2, <1>3, FlowRaised
<1>5. TypeOK'
  BY <1>1, <1>2, <1>3, <1>4 DEF IInv, TypeOK
<1>6. LogInv'
  BY <1>1, LogKept
<1>7. NothingLeftBehind'
  BY <1>1, <1>2 DEF NothingLeftBehind
<1> QED BY <1>3, <1>4, <1>5, <1>6, <1>7 DEF IInv

(* The message is closed; what it lay on goes on.                          *)
LEMMA RebuildFailedStep ==
  ASSUME IInv, RebuildFailed
  PROVE  IInv'
<1>1. /\ TopIs("rebuild_failed") /\ flow' = Front(flow)
      /\ UNCHANGED <<mode, window, size, controller, controllers, live, pending, spec, made, files,
                     shown, magic, built, datasource, pipe_open, streaming, stream_active,
                     stream_redraw_queued, generation, log>>
  BY DEF RebuildFailed, extensionVars, contentVars, streamVars
<1>2. flow # <<>> /\ Last(flow).kind = "rebuild_failed"
  BY <1>1 DEF TopIs
<1>3. window = "open" /\ Attached /\ controller.id # 0
  BY <1>2 DEF IInv, FlowInv
<1>4. /\ flow' \in Seq(Modal) /\ (flow' = <<>> => flow[1].kind = "rebuild_failed")
      /\ \A i \in DOMAIN flow' : i \in DOMAIN flow /\ flow'[i] = flow[i]
      /\ flow' # <<>> => 1 \in DOMAIN flow'
  BY <1>1, <1>2, Below
<1>5. FlowInv'
  <2>1. \A i \in DOMAIN flow' : i > 1 => flow'[i].kind = "rebuild_failed"
    BY <1>4 DEF IInv, FlowInv
  <2>2. pending' # 0 \/ files'.draft # 0 => flow' # <<>> /\ flow'[1].kind = "options_failed"
    BY <1>1, <1>4 DEF IInv, FlowInv
  <2> QED BY <1>1, <1>3, <2>1, <2>2 DEF FlowInv, Attached
<1>6. TypeOK'
  BY <1>1, <1>4 DEF IInv, TypeOK
<1>7. LogInv' /\ TempInv'
  BY <1>1, LogKept, FilesKept
<1>8. NothingLeftBehind'
  BY <1>1, <1>3 DEF NothingLeftBehind
<1> QED BY <1>5, <1>6, <1>7, <1>8 DEF IInv

-----------------------------------------------------------------------------
(* The theorems.                                                           *)

(* At the start nothing is attached, open or told.                         *)
LEMMA InitInv == Init => IInv
<1> SUFFICES ASSUME Init PROVE IInv
  OBVIOUS
<1> USE DEF Init
<1>1. ~Attached
  BY DEF Attached
<1>2. DOMAIN log = {} /\ DOMAIN flow = {}
  OBVIOUS
<1>3. TypeOK
  <2>1. size \in Size /\ built \in Size \cup {0} /\ mode \in Mode
    OBVIOUS
  <2>2. /\ controllers \in 0 .. MaxControllers /\ made \in 0 .. MaxSpecs
        /\ generation \in 0 .. MaxGenerations
    BY LimitAssumption
  <2>3. controller \in [id : Nat, viewport : BOOLEAN, raw : BOOLEAN] /\ spec \in SpecType
        /\ shown \in SpecType
    BY DEF NoController, Spec0, SpecType
  <2>4. /\ window \in {"none", "open", "away", "gone"} /\ live \in Nat /\ pending \in Nat
        /\ files \in [current : Nat, draft : Nat, disk : SUBSET (1 .. MaxSpecs)]
        /\ log \in Seq(Event) /\ flow \in Seq(Modal)
    OBVIOUS
  <2>5. /\ magic \in BOOLEAN /\ datasource \in {"none", "pipe", "file", "growing"}
        /\ {pipe_open, streaming, stream_active, stream_redraw_queued} \subseteq BOOLEAN
    OBVIOUS
  <2> HIDE DEF Init
  <2> QED BY <2>1, <2>2, <2>3, <2>4, <2>5 DEF TypeOK
<1>4. LogInv
  BY <1>1, <1>2 DEF LogInv, Ordered, UpTo, Ended
<1>5. FlowInv
  BY <1>1, <1>2 DEF FlowInv
<1>6. TempInv
  BY <1>1 DEF TempInv, FilesOf, NoController
<1>7. NothingLeftBehind
  BY DEF NothingLeftBehind
<1> QED BY <1>3, <1>4, <1>5, <1>6, <1>7 DEF IInv

(* Steps that change nothing.                                              *)
LEMMA StutterStep ==
  ASSUME IInv, UNCHANGED vars
  PROVE  IInv'
<1>1. UNCHANGED <<mode, window, size, controller, controllers, live, pending, spec, made, files,
                  shown, magic, built, datasource, pipe_open, streaming, stream_active,
                  stream_redraw_queued, generation, log, flow>>
  BY DEF vars, extensionVars, contentVars, streamVars
<1>2. TypeOK' /\ FlowInv' /\ NothingLeftBehind'
  BY <1>1 DEF IInv, TypeOK, FlowInv, NothingLeftBehind, Attached
<1>3. LogInv' /\ TempInv'
  BY <1>1, LogKept, FilesKept
<1> QED BY <1>2, <1>3 DEF IInv

(* Every step keeps the invariant.                                         *)
LEMMA StepInv == IInv /\ [Next]_vars => IInv'
<1> SUFFICES ASSUME IInv, [Next]_vars PROVE IInv'
  OBVIOUS
<1>1. CASE \E c \in Policy, k \in Kind : Attach(c, k)
  BY <1>1, AttachStep
<1>2. CASE \E s \in {"none", "file", "growing"} : Load(s)
  BY <1>2, LoadStep
<1>3. CASE Destroy
  BY <1>3, DestroyStep
<1>4. CASE Suspend
  BY <1>4, SuspendStep
<1>5. CASE Stream
  BY <1>5, StreamDataStep, StreamEndStep DEF Stream
<1>6. CASE Options
  BY <1>6, OptionsOpenStep, RollbackStep, OptionsRefused, OptionsDoneStep DEF Options
<1>7. CASE ToggleMagic \/ ToggleFails \/ ToggleFailed
  BY <1>7, ToggleMagicStep, ToggleFailsStep, ToggleFailedStep
<1>8. CASE Resizing
  BY <1>8, ResizeStep, ResizeRebuiltStep, ResizeRefused, RebuildFailedStep DEF Resizing
<1>9. CASE UNCHANGED vars
  BY <1>9, StutterStep
<1> QED BY <1>1, <1>2, <1>3, <1>4, <1>5, <1>6, <1>7, <1>8, <1>9 DEF Next

(* The inductive invariant: what the log, the stack of modals and the      *)
(* files are to each other, whatever is streamed, resized or refused while *)
(* a function waits in a modal.                                            *)
THEOREM InductiveInvariant == Spec => []IInv
BY InitInv, StepInv, PTL DEF Spec

(* Types.                                                                  *)
THEOREM TypeCorrect == Spec => []TypeOK
<1>1. IInv => TypeOK
  BY DEF IInv
<1> QED BY <1>1, InductiveInvariant, PTL

(* What extensions are told of their processes is in order: started once,  *)
(* with a new generation, and ended once, before the next is started.      *)
THEOREM EventOrderHolds == Spec => []EventOrder
<1>1. IInv => EventOrder
  BY DEF IInv, LogInv, Ordered, EventOrder
<1> QED BY <1>1, InductiveInvariant, PTL

(* No temporary file is on the disk that the attached controller does not  *)
(* know.                                                                   *)
THEOREM TempsOwnedHolds == Spec => []TempsOwned
<1>1. IInv => TempsOwned
  BY DEF IInv, TempInv, FilesOf, TempsOwned
<1> QED BY <1>1, InductiveInvariant, PTL

(* With no modal open nothing is pending, and what is shown was generated  *)
(* for the parameters in use.                                              *)
THEOREM SettledHolds == Spec => []Settled
<1>1. IInv => Settled
  BY DEF IInv, FlowInv, TempInv, Settled
<1> QED BY <1>1, InductiveInvariant, PTL

(* The generated source can be opened again by F8, unless it is built for  *)
(* the viewport.                                                           *)
THEOREM ReopenableHolds == Spec => []ReopenableUnlessViewport
<1>1. IInv => ReopenableUnlessViewport
  BY DEF IInv, TempInv, ReopenableUnlessViewport
<1> QED BY <1>1, InductiveInvariant, PTL

(* A viewer that is gone leaves no child, channel, hook or file.           *)
THEOREM NothingLeftBehindHolds == Spec => []NothingLeftBehind
<1>1. IInv => NothingLeftBehind
  BY DEF IInv
<1> QED BY <1>1, InductiveInvariant, PTL
=============================================================================
