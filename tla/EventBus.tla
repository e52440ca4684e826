------------------------------- MODULE EventBus -------------------------------
(***************************************************************************)
(* What the runtime event bus promises its publishers, without lists,      *)
(* queues or call stacks: every accepted event is dispatched exactly once, *)
(* except that a waiting panel selection may be replaced by a newer one of *)
(* the same panel; two events of one kind are never in dispatch together;  *)
(* a waiting event starts only when nothing else is in dispatch.           *)
(***************************************************************************)
EXTENDS Integers

CONSTANTS Event, Selection, Panel, NoPanel

VARIABLES
  issued,        \* number of events accepted so far, their identities 1 .. issued
  waiting,       \* events accepted and not yet dispatched
  dispatching    \* events in dispatch

busVars == <<issued, waiting, dispatching>>

EventRecord == [id : Nat, event : Event, panel : Panel \cup {NoPanel}]

BusInit == issued = 0 /\ waiting = {} /\ dispatching = {}

Busy(e) == \E d \in dispatching : d.event = e

New(s) == s.id = issued + 1 /\ issued' = s.id

DispatchNow(s) ==
  /\ New(s)
  /\ ~Busy(s.event)
  /\ dispatching' = dispatching \cup {s}
  /\ UNCHANGED waiting

Wait(s) ==
  /\ New(s)
  /\ Busy(s.event)
  /\ waiting' = waiting \cup {s}
  /\ UNCHANGED dispatching

Supersede(old, s) ==
  /\ New(s)
  /\ Busy(s.event)
  /\ old.event = Selection /\ s.event = Selection /\ old.panel = s.panel
  /\ waiting' = (waiting \ {old}) \cup {s}
  /\ UNCHANGED dispatching

Start(s) ==
  /\ dispatching = {}
  /\ waiting' = waiting \ {s}
  /\ dispatching' = {s}
  /\ UNCHANGED issued

Finish(s) ==
  /\ dispatching' = dispatching \ {s}
  /\ UNCHANGED <<issued, waiting>>

Publish(e, p) ==
  LET s == [id |-> issued + 1, event |-> e, panel |-> p]
  IN DispatchNow(s) \/ Wait(s) \/ \E old \in waiting : Supersede(old, s)

StartAny == \E s \in waiting : Start(s)
FinishAny == \E s \in dispatching : Finish(s)

BusNext ==
  \/ \E e \in Event, p \in Panel \cup {NoPanel} : Publish(e, p)
  \/ StartAny
  \/ FinishAny

BusSpec == BusInit /\ [][BusNext]_busVars

(* Accepted events are dispatched and dispatches end.                      *)
BusFairSpec == BusSpec /\ WF_busVars(StartAny) /\ WF_busVars(FinishAny)
===============================================================================
