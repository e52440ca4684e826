---------------------------- MODULE RuntimeEvents ----------------------------
(***************************************************************************)
(* The event bus between mc and its extension runtimes                     *)
(* (lib/runtime-events.c): subscriptions with priorities, reference counts *)
(* and an error limit; dispatch of a snapshot to a copied subscriber list; *)
(* a queue for events published while their own kind is being dispatched,  *)
(* with panel selections coalesced; the drain of that queue.               *)
(*                                                                         *)
(* mc is one thread, so concurrency here is re-entrancy: a callback may    *)
(* publish, subscribe and unsubscribe before it returns.  The C call stack *)
(* is the variable stack, one frame per active mc_runtime_event_dispatch;  *)
(* the code of a callback, or of the main loop when the stack is empty, is *)
(* whatever sequence of bus operations it likes.                           *)
(***************************************************************************)
EXTENDS Integers, FiniteSets, Sequences, SequencesExt

CONSTANTS
  Event,          \* the event kinds in play
  Selection,      \* MC_RUNTIME_EVENT_PANEL_SELECTION_CHANGED
  Key,            \* MC_RUNTIME_EVENT_EDITOR_KEY
  Panel,          \* panel handles a selection event may carry
  NoPanel,        \* the panel field of the other events
  Context,        \* runtime contexts, the owners of subscriptions
  NoContext,
  Priority,       \* priorities in play: those subscribe accepts, -100 to 100
  MAX_ERRORS,     \* MC_RUNTIME_EVENT_MAX_ERRORS
  MaxTokens,      \* bound: subscriptions ever made
  MaxPublish      \* bound: events ever published

ASSUME EventAssumption == Selection \in Event /\ Key \in Event /\ Selection # Key
ASSUME PanelAssumption == NoPanel \notin Panel /\ Panel # {}
ASSUME ContextAssumption == NoContext \notin Context /\ Context # {}
ASSUME PriorityAssumption == Priority \subseteq Int /\ Priority # {}
ASSUME ErrorsAssumption == MAX_ERRORS \in Nat \ {0}
ASSUME BoundsAssumption == MaxTokens \in Nat \ {0} /\ MaxPublish \in Nat

VARIABLES
  up,                    \* mc_runtime_events # NULL
  next_token,            \* the token the next subscription gets
  sub,                   \* token -> event, priority and context of the subscription
  subscriptions,         \* event -> its list of active subscriptions
  active,                \* tokens whose subscription is active
  ref_count,             \* token -> references to the subscription structure
  errors,                \* token -> errors its callback has returned
  destroyed,             \* token -> calls of its user_data_destroy
  stack,                 \* dispatch frames, the innermost last
  dispatch_depth,
  event_dispatch_depth,
  pending,               \* pending_events
  draining,              \* draining_pending_events
  purging,               \* context mc_runtime_events_unsubscribe_all works for
  published,             \* bound counter: the number of events published
  audit                  \* history, per frame: who was listed, who was called

subVars == <<next_token, sub, subscriptions, active, ref_count, errors, destroyed>>
dispatchVars == <<stack, dispatch_depth, event_dispatch_depth, audit>>
queueVars == <<pending, draining, published>>
vars == <<up, subVars, dispatchVars, queueVars, purging>>

Token == 1 .. MaxTokens

Subscription == [event : Event, priority : Priority, context : Context]

(* A snapshot: what was published, and the consumed flag of an editor key. *)
Snapshot == [id : Nat, event : Event, panel : Panel \cup {NoPanel}, consumed : BOOLEAN]

(* One activation of mc_runtime_event_dispatch.  running: the callback of  *)
(* list[pos] is on the C stack.  drained: called by the drain loop and not *)
(* by the publisher.                                                       *)
Frame == [snapshot : Snapshot, list : Seq(Token), pos : Nat,
          running : BOOLEAN, drained : BOOLEAN]

TypeOK ==
  /\ up \in BOOLEAN
  /\ next_token \in 1 .. MaxTokens + 1
  /\ sub \in [Token -> Subscription]
  /\ subscriptions \in [Event -> Seq(Token)]
  /\ active \subseteq Token
  /\ ref_count \in [Token -> Nat]
  /\ errors \in [Token -> Nat]
  /\ destroyed \in [Token -> Nat]
  /\ stack \in Seq(Frame)
  /\ dispatch_depth \in Nat
  /\ event_dispatch_depth \in [Event -> Nat]
  /\ pending \in Seq(Snapshot)
  /\ draining \in BOOLEAN
  /\ purging \in Context \cup {NoContext}
  /\ published \in 0 .. MaxPublish
  /\ audit \in Seq([listed : SUBSET Token, calls : Seq(Token)])

Init ==
  /\ up = TRUE
  /\ next_token = 1
  /\ sub = [t \in Token |-> CHOOSE s \in Subscription : TRUE]
  /\ subscriptions = [e \in Event |-> <<>>]
  /\ active = {}
  /\ ref_count = [t \in Token |-> 0]
  /\ errors = [t \in Token |-> 0]
  /\ destroyed = [t \in Token |-> 0]
  /\ stack = <<>>
  /\ dispatch_depth = 0
  /\ event_dispatch_depth = [e \in Event |-> 0]
  /\ pending = <<>>
  /\ draining = FALSE
  /\ purging = NoContext
  /\ published = 0
  /\ audit = <<>>

-----------------------------------------------------------------------------
(* Control: which code is running.                                         *)

Listed == UNION {Range(subscriptions[e]) : e \in Event}
Top == stack[Len(stack)]
Depth == Len(stack)

(* The main loop, or the innermost callback, has control.                  *)
CodeRuns ==
  /\ up
  /\ purging = NoContext
  /\ IF stack = <<>> THEN ~draining ELSE Top.running

(* mc_runtime_event_dispatch has control: between two callbacks.           *)
DispatchRuns == stack # <<>> /\ ~Top.running

-----------------------------------------------------------------------------
(* References.                                                             *)

(* Mutant of Unref: destroys the user data with one reference to go.       *)
UnrefEarly(T) ==
  /\ ref_count' = [t \in Token |-> IF t \in T THEN ref_count[t] - 1 ELSE ref_count[t]]
  /\ destroyed' = [t \in Token |-> IF t \in T /\ ref_count[t] \in 1 .. 2
                                   THEN destroyed[t] + 1 ELSE destroyed[t]]

(* mc_runtime_event_subscription_unref of every subscription in T.         *)
Unref(T) ==
  /\ ref_count' = [t \in Token |-> IF t \in T THEN ref_count[t] - 1 ELSE ref_count[t]]
  /\ destroyed' = [t \in Token |-> IF t \in T /\ ref_count[t] = 1
                                   THEN destroyed[t] + 1 ELSE destroyed[t]]

Without(s, t) == RemoveAt(s, CHOOSE i \in DOMAIN s : s[i] = t)

(* mc_runtime_event_subscription_deactivate of an active subscription.     *)
Deactivate(t) ==
  /\ subscriptions' = [subscriptions EXCEPT ![sub[t].event] = Without(@, t)]
  /\ active' = active \ {t}
  /\ Unref({t})

-----------------------------------------------------------------------------
(* Subscribing.                                                            *)

(* Mutant of InsertPosition: goes before entries of its own priority.      *)
InsertPositionBeforeEquals(s, p) ==
  IF \E i \in DOMAIN s : p >= sub[s[i]].priority
  THEN CHOOSE i \in DOMAIN s : /\ p >= sub[s[i]].priority
                               /\ \A j \in 1 .. i - 1 : p < sub[s[j]].priority
  ELSE Len(s) + 1

(* A new entry goes before the first one of lower priority.                *)
InsertPosition(s, p) ==
  IF \E i \in DOMAIN s : p > sub[s[i]].priority
  THEN CHOOSE i \in DOMAIN s : /\ p > sub[s[i]].priority
                               /\ \A j \in 1 .. i - 1 : p <= sub[s[j]].priority
  ELSE Len(s) + 1

mc_runtime_events_subscribe(c, e, p) ==
  /\ CodeRuns
  /\ next_token <= MaxTokens
  /\ LET t == next_token
         s == subscriptions[e]
     IN /\ next_token' = t + 1
        /\ sub' = [sub EXCEPT ![t] = [event |-> e, priority |-> p, context |-> c]]
        /\ subscriptions' = [subscriptions EXCEPT ![e] = InsertAt(s, InsertPosition(s, p), t)]
        /\ active' = active \cup {t}
        /\ ref_count' = [ref_count EXCEPT ![t] = 1]
  /\ UNCHANGED <<up, errors, destroyed, dispatchVars, queueVars, purging>>

mc_runtime_events_unsubscribe(c, t) ==
  /\ CodeRuns
  /\ t \in Listed
  /\ sub[t].context = c
  /\ Deactivate(t)
  /\ UNCHANGED <<up, next_token, sub, errors, dispatchVars, queueVars, purging>>

(* unsubscribe_all is a loop that deactivates one subscription at a time;  *)
(* purging is set while it runs.  The order is not observable on the bus.  *)
UnsubscribeAllBegin(c) ==
  /\ CodeRuns
  /\ purging' = c
  /\ UNCHANGED <<up, subVars, dispatchVars, queueVars>>

Owned(c) == {t \in Listed : sub[t].context = c}

UnsubscribeAllStep(t) ==
  /\ purging # NoContext
  /\ t \in Owned(purging)
  /\ Deactivate(t)
  /\ UNCHANGED <<up, next_token, sub, errors, dispatchVars, queueVars, purging>>

UnsubscribeAllEnd ==
  /\ purging # NoContext
  /\ Owned(purging) = {}
  /\ purging' = NoContext
  /\ UNCHANGED <<up, subVars, dispatchVars, queueVars>>

-----------------------------------------------------------------------------
(* Publishing and the queue.                                               *)

(* Mutant of Coalesces: forgets to compare the panels.                     *)
CoalescesAnyPanel(old, new) == new.event = Selection /\ old.event = Selection

(* The pending selection event of the same panel, which a newer one        *)
(* replaces where it stands in the queue.                                  *)
Coalesces(old, new) ==
  /\ new.event = Selection
  /\ old.event = Selection
  /\ old.panel = new.panel

(* Mutant of Enqueue: looks at the last pending event only.                *)
EnqueueLast(q, s) ==
  IF q # <<>> /\ Coalesces(Last(q), s) THEN Append(Front(q), s) ELSE Append(q, s)

Enqueue(q, s) ==
  IF \E i \in DOMAIN q : Coalesces(q[i], s)
  THEN [q EXCEPT ![CHOOSE i \in DOMAIN q : /\ Coalesces(q[i], s)
                                           /\ \A j \in 1 .. i - 1 : ~Coalesces(q[j], s)] = s]
  ELSE Append(q, s)

(* The head of mc_runtime_event_dispatch: copy the subscriber list, taking *)
(* a reference to each, and enter the dispatch.                            *)
DispatchList(e) == subscriptions[e]

(* Mutant of BeginDispatch: copies the list without taking references.     *)
BeginDispatchUnreferenced(s, drained) ==
  /\ stack' = Append(stack, [snapshot |-> s, list |-> DispatchList(s.event), pos |-> 1,
                             running |-> FALSE, drained |-> drained])
  /\ dispatch_depth' = dispatch_depth + 1
  /\ event_dispatch_depth' = [event_dispatch_depth EXCEPT ![s.event] = @ + 1]
  /\ audit' = Append(audit, [listed |-> Range(subscriptions[s.event]), calls |-> <<>>])
  /\ UNCHANGED ref_count

BeginDispatch(s, drained) ==
  LET list == DispatchList(s.event)
  IN /\ stack' = Append(stack, [snapshot |-> s, list |-> list, pos |-> 1,
                                running |-> FALSE, drained |-> drained])
     /\ ref_count' = [t \in Token |->
                        IF t \in Range(list) THEN ref_count[t] + 1 ELSE ref_count[t]]
     /\ dispatch_depth' = dispatch_depth + 1
     /\ event_dispatch_depth' = [event_dispatch_depth EXCEPT ![s.event] = @ + 1]
     /\ audit' = Append(audit, [listed |-> Range(subscriptions[s.event]), calls |-> <<>>])

(* Mutant of MustQueue: lets one nested dispatch of the same kind through. *)
MustQueueFromTwo(e) == event_dispatch_depth[e] > 1

(* dispatch_or_queue: an event whose own kind is being dispatched waits.   *)
MustQueue(e) == event_dispatch_depth[e] # 0

Panels(e) == IF e = Selection THEN Panel ELSE {NoPanel}

mc_runtime_event_publish(e, p) ==
  /\ CodeRuns
  /\ published < MaxPublish
  /\ p \in Panels(e)
  /\ published' = published + 1
  /\ LET s == [id |-> published + 1, event |-> e, panel |-> p, consumed |-> FALSE]
     IN \/ /\ MustQueue(e)
           /\ pending' = Enqueue(pending, s)
           /\ UNCHANGED <<ref_count, dispatchVars>>
        \/ /\ ~MustQueue(e)
           /\ BeginDispatch(s, FALSE)
           /\ UNCHANGED pending
  /\ UNCHANGED <<up, next_token, sub, subscriptions, active, errors, destroyed, draining, purging>>

-----------------------------------------------------------------------------
(* Dispatching.                                                            *)

(* Mutants of NextCall: calls inactive subscriptions too; ends the loop at *)
(* an inactive subscription.                                               *)
NextCallUnchecked(f) == f.pos
NextCallStops(f) ==
  IF f.pos \in DOMAIN f.list /\ f.list[f.pos] \in active THEN f.pos ELSE Len(f.list) + 1

(* The index of the next subscription the loop will call, past the         *)
(* inactive ones; Len(list) + 1 when there is none.                        *)
NextCall(f) ==
  IF \E i \in f.pos .. Len(f.list) : f.list[i] \in active
  THEN CHOOSE i \in f.pos .. Len(f.list) :
         f.list[i] \in active /\ \A j \in f.pos .. i - 1 : f.list[j] \notin active
  ELSE Len(f.list) + 1

Entered(i) == [Top EXCEPT !.running = TRUE, !.pos = i]

Call ==
  /\ DispatchRuns
  /\ LET i == NextCall(Top)
     IN /\ i <= Len(Top.list)
        /\ stack' = [stack EXCEPT ![Depth] = Entered(i)]
        /\ audit' = [audit EXCEPT ![Depth].calls = Append(@, Top.list[i])]
  /\ UNCHANGED <<up, subVars, dispatch_depth, event_dispatch_depth, queueVars, purging>>

Pass == [Top EXCEPT !.running = FALSE, !.pos = @ + 1]
Consumed == [Top EXCEPT !.running = FALSE, !.pos = Len(Top.list) + 1, !.snapshot.consumed = TRUE]

(* The callback returns PASS, or CONSUME for an event that ignores it.     *)
ReturnPass ==
  /\ CodeRuns
  /\ stack # <<>>
  /\ stack' = [stack EXCEPT ![Depth] = Pass]
  /\ UNCHANGED <<up, subVars, dispatch_depth, event_dispatch_depth, audit, queueVars, purging>>

(* The callback of an editor key returns CONSUME: the dispatch is over.    *)
ReturnConsume ==
  /\ CodeRuns
  /\ stack # <<>>
  /\ Top.snapshot.event = Key
  /\ stack' = [stack EXCEPT ![Depth] = Consumed]
  /\ UNCHANGED <<up, subVars, dispatch_depth, event_dispatch_depth, audit, queueVars, purging>>

(* The callback returns ERROR; the MAX_ERRORS-th one disables it.          *)
ReturnError ==
  /\ CodeRuns
  /\ stack # <<>>
  /\ LET t == Top.list[Top.pos]
     IN /\ errors' = [errors EXCEPT ![t] = @ + 1]
        /\ IF errors[t] + 1 >= MAX_ERRORS /\ t \in active
           THEN Deactivate(t)
           ELSE UNCHANGED <<subscriptions, active, ref_count, destroyed>>
  /\ stack' = [stack EXCEPT ![Depth] = Pass]
  /\ UNCHANGED <<up, next_token, sub, dispatch_depth, event_dispatch_depth, audit, queueVars,
                 purging>>

(* Whether the queue is being drained once the innermost dispatch is over: *)
(* mc_runtime_event_drain_queue does nothing inside a dispatch.  Its       *)
(* mutant looks at the depth before the dispatch left it.                  *)
DrainsAfterTooSoon == draining \/ (~Top.drained /\ dispatch_depth = 0)
DrainsAfter == draining \/ (~Top.drained /\ dispatch_depth' = 0)

(* The tail of mc_runtime_event_dispatch; a publisher then drains.         *)
EndDispatch ==
  /\ DispatchRuns
  /\ NextCall(Top) > Len(Top.list)
  /\ stack' = Front(stack)
  /\ audit' = Front(audit)
  /\ dispatch_depth' = dispatch_depth - 1
  /\ event_dispatch_depth' = [event_dispatch_depth EXCEPT ![Top.snapshot.event] = @ - 1]
  /\ Unref(Range(Top.list))
  /\ draining' = DrainsAfter
  /\ UNCHANGED <<up, next_token, sub, subscriptions, active, errors, pending, published, purging>>

DrainRuns == draining /\ dispatch_depth = 0

DrainNext ==
  /\ DrainRuns
  /\ pending # <<>>
  /\ BeginDispatch(Head(pending), TRUE)
  /\ pending' = Tail(pending)
  /\ UNCHANGED <<up, next_token, sub, subscriptions, active, errors, destroyed, draining,
                 published, purging>>

(* Mutant of DrainEnd: an if where the code has a while.                   *)
DrainEndAfterOne ==
  /\ DrainRuns
  /\ draining' = FALSE
  /\ UNCHANGED <<up, subVars, dispatchVars, pending, published, purging>>

DrainEnd ==
  /\ DrainRuns
  /\ pending = <<>>
  /\ draining' = FALSE
  /\ UNCHANGED <<up, subVars, dispatchVars, pending, published, purging>>

-----------------------------------------------------------------------------
(* mc_runtime_events_deinit, from events_deinit at the end of main.        *)
mc_runtime_events_deinit ==
  /\ CodeRuns
  /\ stack = <<>>
  /\ up' = FALSE
  /\ subscriptions' = [e \in Event |-> <<>>]
  /\ active' = active \ Listed
  /\ Unref(Listed)
  /\ pending' = <<>>
  /\ UNCHANGED <<next_token, sub, errors, dispatchVars, draining, published, purging>>

Code ==
  \/ \E c \in Context, e \in Event, p \in Priority : mc_runtime_events_subscribe(c, e, p)
  \/ \E c \in Context, t \in Token : mc_runtime_events_unsubscribe(c, t)
  \/ \E c \in Context : UnsubscribeAllBegin(c)
  \/ \E e \in Event, p \in Panel \cup {NoPanel} : mc_runtime_event_publish(e, p)
  \/ mc_runtime_events_deinit

Return == ReturnPass \/ ReturnConsume \/ ReturnError

Bus ==
  \/ \E t \in Token : UnsubscribeAllStep(t)
  \/ UnsubscribeAllEnd
  \/ Call
  \/ EndDispatch
  \/ DrainNext
  \/ DrainEnd

Next == Code \/ Return \/ Bus

Spec == Init /\ [][Next]_vars

(* A callback returns some time, whatever bus operations it does before    *)
(* (mc would hang otherwise), and the bus code itself never blocks.        *)
FairSpec == Spec /\ SF_vars(Return) /\ WF_vars(Bus)

-----------------------------------------------------------------------------
(* Properties.                                                             *)

(* The frames whose subscriber list holds a reference to t.                *)
Holders(t) == {i \in DOMAIN stack : t \in Range(stack[i].list)}

(* A subscription structure lives exactly as long as the list or a running *)
(* dispatch refers to it, and its user_data is destroyed exactly once,     *)
(* when the last of them lets go: whatever callbacks unsubscribe, disable  *)
(* or re-enter in between, nothing is used after its release or leaked.    *)
Ownership ==
  \A t \in Token :
    /\ ref_count[t] = Cardinality(Holders(t)) + (IF t \in Listed THEN 1 ELSE 0)
    /\ t \in Listed <=> t \in active
    /\ destroyed[t] = IF t < next_token /\ ref_count[t] = 0 THEN 1 ELSE 0

(* t is called before u: higher priority, then earlier registration.       *)
Before(t, u) ==
  \/ sub[t].priority > sub[u].priority
  \/ sub[t].priority = sub[u].priority /\ t < u

Ordered(s) == \A i, j \in DOMAIN s : i < j => Before(s[i], s[j])

(* In each dispatch the callbacks run so far are of subscriptions that     *)
(* existed when it began, each at most once, by descending priority and    *)
(* then in registration order, through any change made meanwhile.          *)
CalledInOrder ==
  \A k \in DOMAIN audit : /\ Ordered(audit[k].calls)
                          /\ Range(audit[k].calls) \subseteq audit[k].listed

(* A dispatch that nobody consumed ends only after calling every           *)
(* subscription that was there at its start and is still active: changes   *)
(* to the list in the middle make it skip nobody.                          *)
EveryoneServed ==
  [][(stack # <<>> /\ stack' = Front(stack) /\ ~Top.snapshot.consumed)
       => audit[Depth].listed \cap active \subseteq Range(audit[Depth].calls)]_vars

(* Nested dispatches are of different kinds, so no callback is entered     *)
(* again before it has returned, however deeply callbacks publish.         *)
NeverReentered ==
  /\ \A i, j \in DOMAIN stack : i # j => stack[i].snapshot.event # stack[j].snapshot.event
  /\ \A i, j \in DOMAIN stack :
       (i # j /\ stack[i].running /\ stack[j].running)
         => stack[i].list[stack[i].pos] # stack[j].list[stack[j].pos]

(* The depth counters, which decide between dispatching and queueing, say  *)
(* what is on the C stack.                                                 *)
DepthCounters ==
  /\ dispatch_depth = Depth
  /\ \A e \in Event : event_dispatch_depth[e]
                        = Cardinality({i \in DOMAIN stack : stack[i].snapshot.event = e})

(* Once the main loop has control again no event waits in the queue: a     *)
(* queued event needs no later publication to be delivered.                *)
NothingStuck == pending # <<>> => (stack # <<>> \/ draining)

(* A panel has at most one selection event waiting, and the others wait in *)
(* the order they were published.                                          *)
QueueDiscipline ==
  \A i, j \in DOMAIN pending : i < j =>
    IF pending[i].event = Selection /\ pending[j].event = Selection
    THEN pending[i].panel # pending[j].panel
    ELSE (pending[i].event # Selection /\ pending[j].event # Selection)
           => pending[i].id < pending[j].id

(* The number of activations of t's callback on the stack.                 *)
Running(t, stk) == {i \in DOMAIN stk : stk[i].running /\ stk[i].list[stk[i].pos] = t}

(* Unsubscribed or disabled, a subscription is never active again and its  *)
(* callback is never entered again, not even by the dispatch that was      *)
(* under way and still holds it.                                           *)
GoneForGood ==
  [][\A t \in Token : (t < next_token /\ t \notin active)
       => (t \notin active' /\ Running(t, stack') \subseteq Running(t, stack))]_vars

(* The bus the publishers see.                                             *)
Seen(s) == [id |-> s.id, event |-> s.event, panel |-> s.panel]

Promise == INSTANCE EventBus WITH
  issued <- published,
  waiting <- {Seen(s) : s \in Range(pending)},
  dispatching <- {Seen(f.snapshot) : f \in Range(stack)}

(* The bus implements its promise, liveness included: nothing published is *)
(* lost, dispatched twice, or left waiting for ever.                       *)
ImplementsEventBus == Promise!BusSpec
DeliversEverything == Promise!BusFairSpec
=============================================================================
