------------------------ MODULE RuntimeEvents_proofs ------------------------
(***************************************************************************)
(* Theorems about the event bus, for any sets of events, panels, contexts  *)
(* and priorities and any bounds.                                          *)
(*                                                                         *)
(* The first part is about ownership and nesting: references, the depth    *)
(* counters, re-entry and the empty queue, all from IInv.                  *)
(*                                                                         *)
(* The second part is about what the bus delivers: who is called and in    *)
(* which order (CalledInOrder, EveryoneServed, GoneForGood), how events    *)
(* wait (QueueDiscipline), and that the bus implements EventBus.           *)
(* OrderInv strengthens IInv with what ties a dispatch to its history: the *)
(* copied list is in calling order, the calls made are of entries the loop *)
(* has reached, and every active entry it has reached was called.          *)
(* QueueInv adds that pending events have different identities, which      *)
(* makes the set of waiting events of the refinement change by one element *)
(* where the queue changes at one place.                                   *)
(***************************************************************************)
EXTENDS RuntimeEvents, SequenceLemmas

(* Each list holds distinct tokens, already given out, of its own event.   *)
ListInv ==
  \A e \in Event :
    /\ \A i, j \in 1 .. Len(subscriptions[e]) :
         i # j => subscriptions[e][i] # subscriptions[e][j]
    /\ \A i \in 1 .. Len(subscriptions[e]) :
         subscriptions[e][i] < next_token /\ sub[subscriptions[e][i]].event = e

(* Every frame but the innermost waits for its callback; a frame's list is *)
(* of its own event; only the drain loop calls drained frames.             *)
FrameInv ==
  /\ Len(audit) = Len(stack)
  /\ \A k \in 1 .. Len(stack) :
       /\ stack[k].pos >= 1
       /\ stack[k].running => stack[k].pos \in 1 .. Len(stack[k].list)
       /\ k < Len(stack) => stack[k].running
       /\ stack[k].drained => draining
       /\ \A i \in 1 .. Len(stack[k].list) :
            /\ stack[k].list[i] < next_token
            /\ sub[stack[k].list[i]].event = stack[k].snapshot.event

DepthInv ==
  /\ dispatch_depth = Len(stack)
  /\ \A i, j \in 1 .. Len(stack) : i # j => stack[i].snapshot.event # stack[j].snapshot.event
  /\ \A e \in Event : event_dispatch_depth[e]
       = IF \E k \in 1 .. Len(stack) : stack[k].snapshot.event = e THEN 1 ELSE 0

IInv == TypeOK /\ ListInv /\ FrameInv /\ DepthInv /\ Ownership /\ NothingStuck

-----------------------------------------------------------------------------
(* Facts about one state.                                                  *)

(* The frames that hold a subscription can be counted.                     *)
LEMMA HoldersFinite ==
  ASSUME TypeOK, NEW t
  PROVE  /\ Holders(t) \subseteq 1 .. Len(stack)
         /\ IsFiniteSet(Holders(t))
         /\ Cardinality(Holders(t)) \in Nat
<1>1. stack \in Seq(Frame)
  BY DEF TypeOK
<1>2. Len(stack) \in Nat /\ DOMAIN stack = 1 .. Len(stack)
  BY <1>1, LenProperties
<1>3. Holders(t) \subseteq 1 .. Len(stack)
  BY <1>2 DEF Holders
<1>4. IsFiniteSet(1 .. Len(stack))
  BY <1>2, FS_Interval
<1> QED BY <1>3, <1>4, FS_Subset, FS_CardinalityType

(* Only a subscription that was made has references.                       *)
LEMMA UnusedTokens ==
  ASSUME IInv, NEW t \in Token, t >= next_token
  PROVE  /\ t \notin Listed
         /\ t \notin active
         /\ Holders(t) = {}
         /\ ref_count[t] = 0
         /\ destroyed[t] = 0
<1> USE DEF IInv
<1>0. next_token \in Int /\ t \in Int
  BY DEF TypeOK, Token
<1>1. t \notin Listed
  <2>1. ASSUME NEW e \in Event, t \in Range(subscriptions[e]) PROVE FALSE
    <3>1. DOMAIN subscriptions[e] = 1 .. Len(subscriptions[e])
      BY LenProperties DEF TypeOK
    <3>2. PICK i \in 1 .. Len(subscriptions[e]) : t = subscriptions[e][i]
      BY <2>1, <3>1 DEF Range
    <3> QED BY <3>2, <1>0 DEF ListInv
  <2> QED BY <2>1 DEF Listed
<1>2. Holders(t) = {}
  <2>1. ASSUME NEW k \in Holders(t) PROVE FALSE
    <3>1. k \in 1 .. Len(stack) /\ t \in Range(stack[k].list)
      BY HoldersFinite DEF Holders
    <3>2. stack[k] \in Frame
      BY <3>1, ElementOfSeq DEF TypeOK
    <3>3. DOMAIN stack[k].list = 1 .. Len(stack[k].list)
      BY <3>2, LenProperties DEF Frame
    <3>4. PICK i \in 1 .. Len(stack[k].list) : t = stack[k].list[i]
      BY <3>1, <3>3 DEF Range
    <3> QED BY <3>1, <3>4, <1>0 DEF FrameInv
  <2> QED BY <2>1
<1>3. Cardinality(Holders(t)) = 0
  BY <1>2, FS_EmptySet
<1>4. ~(t < next_token)
  BY <1>0
<1> QED BY <1>1, <1>2, <1>3, <1>4 DEF Ownership

(* The place of a listed token: in the list of its own event, and nowhere  *)
(* else.                                                                   *)
LEMMA ListedPlace ==
  ASSUME TypeOK, ListInv, NEW t \in Listed
  PROVE  /\ t \in Token
         /\ sub[t].event \in Event
         /\ \A e \in Event : t \in Range(subscriptions[e]) => e = sub[t].event
         /\ \E i \in 1 .. Len(subscriptions[sub[t].event]) : subscriptions[sub[t].event][i] = t
<1>1. \A e \in Event : /\ DOMAIN subscriptions[e] = 1 .. Len(subscriptions[e])
                       /\ subscriptions[e] \in Seq(Token)
  BY LenProperties DEF TypeOK
<1>2. \A e \in Event : t \in Range(subscriptions[e]) =>
        /\ e = sub[t].event
        /\ t \in Token
        /\ \E i \in 1 .. Len(subscriptions[e]) : subscriptions[e][i] = t
  <2> TAKE e \in Event
  <2> HAVE t \in Range(subscriptions[e])
  <2>1. PICK i \in 1 .. Len(subscriptions[e]) : t = subscriptions[e][i]
    BY <1>1 DEF Range
  <2>2. t \in Token
    BY <1>1, <2>1, ElementOfSeq
  <2> QED BY <2>1, <2>2 DEF ListInv
<1>3. \E e \in Event : t \in Range(subscriptions[e])
  BY DEF Listed
<1> QED BY <1>2, <1>3

(* What deactivating a subscription does to the lists and the references.  *)
LEMMA DeactivateLemma ==
  ASSUME IInv, NEW t \in Listed, Deactivate(t), sub' = sub, next_token' = next_token
  PROVE  /\ subscriptions' \in [Event -> Seq(Token)]
         /\ active' \subseteq Token
         /\ ListInv'
         /\ Listed' = Listed \ {t}
         /\ ref_count' \in [Token -> Nat]
         /\ destroyed' \in [Token -> Nat]
         /\ ref_count[t] \in Nat \ {0}
         /\ t < next_token
<1> USE DEF IInv
<1> DEFINE e == sub[t].event
           s == subscriptions[e]
           i == CHOOSE j \in DOMAIN s : s[j] = t
           r == RemoveAt(s, i)
<1>1. t \in Token /\ e \in Event /\ s \in Seq(Token) /\ DOMAIN s = 1 .. Len(s) /\ Len(s) \in Nat
  BY ListedPlace, LenProperties DEF TypeOK
<1>2. i \in 1 .. Len(s) /\ s[i] = t
  BY <1>1, ListedPlace
<1>3. \A j, k \in 1 .. Len(s) : j # k => s[j] # s[k]
  BY <1>1 DEF ListInv
<1>4. /\ r \in Seq(Token)
      /\ Len(r) = Len(s) - 1
      /\ DOMAIN r = 1 .. Len(s) - 1
      /\ \A j \in 1 .. Len(s) - 1 : r[j] = IF j < i THEN s[j] ELSE s[j + 1]
  BY <1>1, <1>2, RemoveAtProperties
<1>5. /\ Range(r) = Range(s) \ {t}
      /\ \A j, k \in 1 .. Len(s) - 1 : j # k => r[j] # r[k]
  BY <1>1, <1>2, <1>3, RangeRemoveAt
<1>6. subscriptions' = [subscriptions EXCEPT ![e] = r]
  BY DEF Deactivate, Without
<1>7. /\ subscriptions' \in [Event -> Seq(Token)]
      /\ subscriptions'[e] = r
      /\ \A f \in Event : f # e => subscriptions'[f] = subscriptions[f]
  <2> HIDE DEF e, s, i, r
  <2> QED BY <1>1, <1>4, <1>6 DEF TypeOK
<1>8. ListInv'
  <2> SUFFICES ASSUME NEW f \in Event
               PROVE  /\ \A j, k \in 1 .. Len(subscriptions'[f]) :
                           j # k => subscriptions'[f][j] # subscriptions'[f][k]
                      /\ \A j \in 1 .. Len(subscriptions'[f]) :
                           /\ subscriptions'[f][j] < next_token
                           /\ sub[subscriptions'[f][j]].event = f
    BY DEF ListInv
  <2>1. CASE f # e
    BY <2>1, <1>7 DEF ListInv
  <2>2. CASE f = e
    <3>1. \A j \in 1 .. Len(s) : s[j] < next_token /\ sub[s[j]].event = e
      BY <1>1 DEF ListInv
    <3>2. \A j \in 1 .. Len(s) - 1 : j \in 1 .. Len(s) /\ j + 1 \in 1 .. Len(s)
      BY <1>1
    <3>3. \A j \in 1 .. Len(s) - 1 : r[j] < next_token /\ sub[r[j]].event = e
      <4> HIDE DEF e, s, i, r
      <4> QED BY <1>4, <3>1, <3>2
    <3> HIDE DEF e, s, i, r
    <3> QED BY <2>2, <1>4, <1>5, <1>7, <3>3
  <2> QED BY <2>1, <2>2
<1>9. Listed' = Listed \ {t}
  <2>1. \A f \in Event : f # e => t \notin Range(subscriptions[f])
    BY ListedPlace
  <2>2. \A f \in Event : Range(subscriptions'[f]) = Range(subscriptions[f]) \ {t}
    <3> HIDE DEF r
    <3> QED BY <2>1, <1>5, <1>7
  <2> QED BY <2>2 DEF Listed
<1>10. ref_count[t] \in Nat \ {0}
  <2>1. Cardinality(Holders(t)) \in Nat
    BY HoldersFinite
  <2>2. ref_count[t] = Cardinality(Holders(t)) + 1
    BY <1>1 DEF Ownership
  <2> QED BY <2>1, <2>2
<1>11. t < next_token
  BY <1>1, <1>2 DEF ListInv
<1>12. ref_count' \in [Token -> Nat] /\ destroyed' \in [Token -> Nat]
  BY <1>10 DEF Deactivate, Unref, TypeOK
<1>13. active' \subseteq Token
  BY DEF Deactivate, TypeOK
<1> HIDE DEF e, s, i, r
<1> QED BY <1>7, <1>8, <1>9, <1>10, <1>11, <1>12, <1>13

(* Entering a dispatch: every listed subscription of the event gets one    *)
(* more reference, held by the new frame.                                  *)
LEMMA PushLemma ==
  ASSUME IInv, NEW s \in Snapshot, NEW d \in BOOLEAN, BeginDispatch(s, d),
         event_dispatch_depth[s.event] = 0,
         stack # <<>> => Top.running,
         d => draining,
         UNCHANGED <<next_token, sub, subscriptions, active, destroyed, draining>>
  PROVE  /\ stack' \in Seq(Frame)
         /\ Len(stack') = Len(stack) + 1
         /\ dispatch_depth' \in Nat
         /\ event_dispatch_depth' \in [Event -> Nat]
         /\ audit' \in Seq([listed : SUBSET Token, calls : Seq(Token)])
         /\ ref_count' \in [Token -> Nat]
         /\ FrameInv'
         /\ DepthInv'
         /\ Ownership'
<1> USE DEF IInv
<1> DEFINE n == Len(stack)
           list == subscriptions[s.event]
           f == [snapshot |-> s, list |-> list, pos |-> 1, running |-> FALSE, drained |-> d]
           a == [listed |-> Range(list), calls |-> <<>>]
<1>1. /\ s.event \in Event
      /\ list \in Seq(Token) /\ DOMAIN list = 1 .. Len(list) /\ Len(list) \in Nat
      /\ \A i \in 1 .. Len(list) : list[i] \in Token
  BY LenProperties, ElementOfSeq DEF TypeOK, Snapshot
<1>2. f \in Frame
  <2> HIDE DEF list
  <2> QED BY <1>1 DEF Frame
<1>3. Range(list) \subseteq Token
  BY <1>1 DEF Range
<1>4. a \in [listed : SUBSET Token, calls : Seq(Token)]
  <2> HIDE DEF list
  <2> QED BY <1>3
<1>5. stack' = Append(stack, f) /\ audit' = Append(audit, a)
  BY DEF BeginDispatch, DispatchList
<1>6. n \in Nat /\ DOMAIN stack = 1 .. n /\ Len(audit) = n
  BY LenProperties DEF TypeOK, FrameInv
<1> HIDE DEF f, a, list
<1>7. /\ stack' \in Seq(Frame)
      /\ Len(stack') = n + 1
      /\ DOMAIN stack' = 1 .. n + 1
      /\ stack'[n + 1] = f
      /\ \A k \in 1 .. n : stack'[k] = stack[k]
  BY <1>2, <1>5, AppendLemma DEF TypeOK
<1>8. audit' \in Seq([listed : SUBSET Token, calls : Seq(Token)]) /\ Len(audit') = n + 1
  BY <1>4, <1>5, <1>6, AppendLemma DEF TypeOK
<1>9. /\ f.snapshot = s /\ f.list = list /\ f.pos = 1 /\ ~f.running /\ f.drained = d
  BY DEF f
<1>10. \A k \in 1 .. n + 1 : k \in 1 .. n \/ k = n + 1
  BY <1>6
<1>11. \A i \in 1 .. Len(list) : list[i] < next_token /\ sub[list[i]].event = s.event
  BY <1>1 DEF list, ListInv
<1>12. \A k \in 1 .. n : stack[k].running
  <2> TAKE k \in 1 .. n
  <2>1. CASE k < n
    BY <2>1 DEF FrameInv
  <2>2. CASE k = n
    BY <2>2, <1>6, EmptySeq DEF Top
  <2>3. k < n \/ k = n
    <3> HIDE DEF n
    <3> QED BY <1>6
  <2> QED BY <2>1, <2>2, <2>3
<1>13. FrameInv'
  <2>1. ASSUME NEW k \in 1 .. n + 1
        PROVE  /\ stack'[k].pos >= 1
               /\ stack'[k].running => stack'[k].pos \in 1 .. Len(stack'[k].list)
               /\ k < n + 1 => stack'[k].running
               /\ stack'[k].drained => draining'
               /\ \A i \in 1 .. Len(stack'[k].list) :
                    /\ stack'[k].list[i] < next_token'
                    /\ sub'[stack'[k].list[i]].event = stack'[k].snapshot.event
    <3>1. CASE k \in 1 .. n
      BY <3>1, <1>7, <1>12 DEF FrameInv
    <3>2. CASE k = n + 1
      BY <3>2, <1>6, <1>7, <1>9, <1>11
    <3> QED BY <3>1, <3>2, <1>10
  <2> QED BY <2>1, <1>7, <1>8 DEF FrameInv
<1>14. \A k \in 1 .. n : stack[k].snapshot.event # s.event
  BY <1>1 DEF DepthInv
<1>15. DepthInv' /\ dispatch_depth' \in Nat /\ event_dispatch_depth' \in [Event -> Nat]
  <2>1. dispatch_depth' = n + 1
    BY <1>6 DEF BeginDispatch, DepthInv
  <2>2. \A i, j \in 1 .. n + 1 :
          i # j => stack'[i].snapshot.event # stack'[j].snapshot.event
    BY <1>7, <1>9, <1>10, <1>14 DEF DepthInv
  <2>3. event_dispatch_depth' = [event_dispatch_depth EXCEPT ![s.event] = 1]
    BY <1>1 DEF BeginDispatch, TypeOK
  <2>4. \A e \in Event : event_dispatch_depth'[e]
          = IF \E k \in 1 .. n + 1 : stack'[k].snapshot.event = e THEN 1 ELSE 0
    <3> TAKE e \in Event
    <3>1. CASE e = s.event
      <4>1. n + 1 \in 1 .. n + 1 /\ stack'[n + 1].snapshot.event = e
        BY <3>1, <1>6, <1>7, <1>9
      <4> QED BY <4>1, <2>3, <3>1 DEF TypeOK
    <3>2. CASE e # s.event
      <4>1. (\E k \in 1 .. n + 1 : stack'[k].snapshot.event = e)
              <=> (\E k \in 1 .. n : stack[k].snapshot.event = e)
        BY <3>2, <1>6, <1>7, <1>9, <1>10
      <4>2. event_dispatch_depth'[e] = event_dispatch_depth[e]
        BY <2>3, <3>2 DEF TypeOK
      <4> QED BY <4>1, <4>2 DEF DepthInv
    <3> QED BY <3>1, <3>2
  <2>5. event_dispatch_depth' \in [Event -> Nat]
    BY <2>3 DEF TypeOK
  <2>6. DepthInv'
    BY <1>7, <2>1, <2>2, <2>4 DEF DepthInv
  <2> QED BY <1>6, <2>1, <2>5, <2>6
<1>16. ref_count' = [t \in Token |-> IF t \in Range(list) THEN ref_count[t] + 1 ELSE ref_count[t]]
  BY DEF BeginDispatch, DispatchList, list
<1>17. Range(list) \subseteq Listed
  BY <1>1 DEF Listed, list
<1>18. Listed' = Listed
  BY DEF Listed
<1>19. Ownership'
  <2> SUFFICES ASSUME NEW t \in Token
               PROVE  /\ ref_count'[t] = Cardinality(Holders(t)') + (IF t \in Listed THEN 1 ELSE 0)
                      /\ t \in Listed <=> t \in active
                      /\ destroyed[t] = IF t < next_token /\ ref_count'[t] = 0 THEN 1 ELSE 0
    BY <1>18 DEF Ownership
  <2>0. IsFiniteSet(Holders(t)) /\ Cardinality(Holders(t)) \in Nat /\ n + 1 \notin Holders(t)
    BY <1>6, HoldersFinite
  <2>1. CASE t \in Range(list)
    <3>1. Holders(t)' = Holders(t) \cup {n + 1}
      BY <2>1, <1>6, <1>7, <1>9, <1>10 DEF Holders
    <3>2. Cardinality(Holders(t)') = Cardinality(Holders(t)) + 1
      BY <3>1, <2>0, FS_AddElement
    <3> QED BY <3>2, <2>0, <2>1, <1>16, <1>17 DEF Ownership
  <2>2. CASE t \notin Range(list)
    <3>1. Holders(t)' = Holders(t)
      BY <2>2, <1>6, <1>7, <1>9, <1>10 DEF Holders
    <3> QED BY <3>1, <2>2, <1>16 DEF Ownership
  <2> QED BY <2>1, <2>2
<1>20. ref_count' \in [Token -> Nat]
  BY <1>16 DEF TypeOK
<1> QED BY <1>7, <1>8, <1>13, <1>15, <1>19, <1>20

(* Leaving a dispatch: the frame gives up its references, and a queue that *)
(* the last dispatch leaves behind is taken up by a drain.                 *)
LEMMA EndDispatchLemma ==
  ASSUME IInv, EndDispatch
  PROVE  IInv'
<1> USE DEF IInv
<1> DEFINE n == Len(stack)
           list == stack[n].list
           e0 == stack[n].snapshot.event
<1>1. /\ n \in Nat \ {0} /\ DOMAIN stack = 1 .. n /\ n \in 1 .. n
      /\ stack # <<>> /\ Top = stack[n] /\ stack[n] \in Frame
  BY LenProperties, EmptySeq, ElementOfSeq DEF TypeOK, EndDispatch, DispatchRuns, Top
<1>2. /\ stack' = Front(stack) /\ audit' = Front(audit)
      /\ dispatch_depth' = dispatch_depth - 1
      /\ event_dispatch_depth' = [event_dispatch_depth EXCEPT ![e0] = @ - 1]
      /\ Unref(Range(list))
      /\ draining' = (draining \/ (~stack[n].drained /\ dispatch_depth' = 0))
      /\ UNCHANGED <<up, next_token, sub, subscriptions, active, errors, pending, published,
                     purging>>
  BY <1>1 DEF EndDispatch, DrainsAfter
<1>3. list \in Seq(Token) /\ e0 \in Event
  BY <1>1 DEF Frame, Snapshot
<1> HIDE DEF list, e0
<1>4. /\ stack' \in Seq(Frame) /\ Len(stack') = n - 1 /\ DOMAIN stack' = 1 .. n - 1
      /\ \A k \in 1 .. n - 1 : stack'[k] = stack[k]
  BY <1>1, <1>2, FrontProperties DEF TypeOK
<1>5. audit' \in Seq([listed : SUBSET Token, calls : Seq(Token)]) /\ Len(audit') = n - 1
  <2>1. Len(audit) = n
    BY DEF FrameInv
  <2>2. audit # <<>>
    BY <1>1, <2>1, EmptySeq
  <2> QED BY <1>2, <2>1, <2>2, FrontProperties DEF TypeOK
<1> HIDE DEF n
<1>6. \A k \in 1 .. n - 1 : k \in 1 .. n /\ k < n /\ k # n
  BY <1>1
<1>23. /\ draining => draining'
       /\ (~stack[n].drained /\ dispatch_depth' = 0) => draining'
  BY <1>2
<1>7. FrameInv'
  <2>1. ASSUME NEW k \in 1 .. n - 1
        PROVE  /\ stack'[k].pos >= 1
               /\ stack'[k].running => stack'[k].pos \in 1 .. Len(stack'[k].list)
               /\ k < n - 1 => stack'[k].running
               /\ stack'[k].drained => draining'
               /\ \A i \in 1 .. Len(stack'[k].list) :
                    /\ stack'[k].list[i] < next_token'
                    /\ sub'[stack'[k].list[i]].event = stack'[k].snapshot.event
    <3>1. k \in 1 .. Len(stack) /\ k < Len(stack) /\ stack'[k] = stack[k]
      BY <1>4, <1>6 DEF n
    <3>2. next_token' = next_token /\ sub' = sub
      BY <1>2
    <3> QED BY <3>1, <3>2, <1>23 DEF FrameInv
  <2> QED BY <2>1, <1>4, <1>5 DEF FrameInv
<1>8. draining' \in BOOLEAN
  BY <1>2, <1>1 DEF TypeOK, Frame
<1>9. dispatch_depth' = n - 1 /\ dispatch_depth' \in Nat
  BY <1>1, <1>2 DEF DepthInv, n
<1>10. \A k \in 1 .. n - 1 : stack[k].snapshot.event # e0
  BY <1>1, <1>6 DEF DepthInv, n, e0
<1>11. event_dispatch_depth' = [event_dispatch_depth EXCEPT ![e0] = 0]
  <2>1. event_dispatch_depth[e0] = 1
    BY <1>1, <1>3 DEF DepthInv, n, e0
  <2> QED BY <1>2, <1>3, <2>1 DEF TypeOK
<1>12. \A e \in Event : event_dispatch_depth'[e]
         = IF \E k \in 1 .. n - 1 : stack'[k].snapshot.event = e THEN 1 ELSE 0
  <2> TAKE e \in Event
  <2>1. CASE e = e0
    BY <2>1, <1>4, <1>10, <1>11 DEF TypeOK
  <2>2. CASE e # e0
    <3>1. (\E k \in 1 .. n - 1 : stack'[k].snapshot.event = e)
            <=> (\E k \in 1 .. n : stack[k].snapshot.event = e)
      <4>1. \A k \in 1 .. n : k \in 1 .. n - 1 \/ k = n
        BY <1>1
      <4> QED BY <2>2, <1>4, <1>6, <4>1 DEF e0
    <3>2. event_dispatch_depth'[e] = event_dispatch_depth[e]
      BY <2>2, <1>11 DEF TypeOK
    <3> QED BY <3>1, <3>2 DEF DepthInv, n
  <2> QED BY <2>1, <2>2
<1>13. DepthInv'
  <2>1. \A i, j \in 1 .. n - 1 : i # j => stack'[i].snapshot.event # stack'[j].snapshot.event
    <3> TAKE i, j \in 1 .. n - 1
    <3>1. i \in 1 .. n /\ j \in 1 .. n /\ stack'[i] = stack[i] /\ stack'[j] = stack[j]
      BY <1>4, <1>6
    <3> QED BY <3>1 DEF DepthInv, n
  <2> QED BY <2>1, <1>4, <1>9, <1>12 DEF DepthInv
<1>14. /\ Listed' = Listed
       /\ \A t : Holders(t)' = Holders(t) \ {n}
       /\ \A t : t \in Range(list) <=> n \in Holders(t)
  <2>1. \A k : k \in 1 .. n - 1 <=> k \in 1 .. n /\ k # n
    BY <1>1
  <2> QED BY <2>1, <1>1, <1>2, <1>4 DEF Listed, Holders, list
<1>15. \A t \in Token :
         /\ Cardinality(Holders(t)) \in Nat
         /\ t \in Range(list) => /\ Cardinality(Holders(t)') = Cardinality(Holders(t)) - 1
                                 /\ Cardinality(Holders(t)) # 0
         /\ t \notin Range(list) => Holders(t)' = Holders(t)
  <2> TAKE t \in Token
  <2>1. IsFiniteSet(Holders(t)) /\ Cardinality(Holders(t)) \in Nat
    BY HoldersFinite
  <2>2. CASE t \in Range(list)
    <3>1. Cardinality(Holders(t) \ {n}) = Cardinality(Holders(t)) - 1
      BY <2>1, <2>2, <1>14, FS_RemoveElement
    <3>2. Cardinality(Holders(t)) # 0
      BY <2>1, <2>2, <1>14, FS_EmptySet
    <3> QED BY <2>1, <2>2, <3>1, <3>2, <1>14
  <2>3. CASE t \notin Range(list)
    BY <2>1, <2>3, <1>14
  <2> QED BY <2>2, <2>3
<1>16. \A t \in Range(list) : t \in Token => t < next_token
  BY <1>15, UnusedTokens, <1>14 DEF TypeOK, Token
<1>17. /\ ref_count' = [t \in Token |-> IF t \in Range(list) THEN ref_count[t] - 1 ELSE ref_count[t]]
       /\ destroyed' = [t \in Token |-> IF t \in Range(list) /\ ref_count[t] = 1
                                        THEN destroyed[t] + 1 ELSE destroyed[t]]
  BY <1>2 DEF Unref
<1>18. Ownership'
  <2> SUFFICES ASSUME NEW t \in Token
               PROVE  /\ ref_count'[t] = Cardinality(Holders(t)') + (IF t \in Listed THEN 1 ELSE 0)
                      /\ t \in Listed <=> t \in active
                      /\ destroyed'[t] = IF t < next_token /\ ref_count'[t] = 0 THEN 1 ELSE 0
    BY <1>2, <1>14 DEF Ownership
  <2>1. /\ ref_count[t] = Cardinality(Holders(t)) + (IF t \in Listed THEN 1 ELSE 0)
        /\ t \in Listed <=> t \in active
        /\ destroyed[t] = IF t < next_token /\ ref_count[t] = 0 THEN 1 ELSE 0
    BY DEF Ownership
  <2>2. CASE t \in Range(list)
    BY <2>1, <2>2, <1>15, <1>16, <1>17
  <2>3. CASE t \notin Range(list)
    BY <2>1, <2>3, <1>15, <1>17
  <2> QED BY <2>2, <2>3
<1>19. ref_count' \in [Token -> Nat] /\ destroyed' \in [Token -> Nat]
  <2>1. \A t \in Token : t \in Range(list) => ref_count[t] - 1 \in Nat
    BY <1>15 DEF Ownership
  <2> QED BY <2>1, <1>17 DEF TypeOK
<1>20. NothingStuck'
  <2>1. CASE n = 1
    <3>1. draining'
      <4>1. dispatch_depth' = 0
        BY <2>1, <1>9
      <4>2. stack[n].drained => draining
        BY <1>1 DEF FrameInv, n
      <4> QED BY <4>1, <4>2, <1>23
    <3> QED BY <3>1 DEF NothingStuck
  <2>2. CASE n # 1
    <3>1. Len(stack') # 0
      BY <2>2, <1>1, <1>4
    <3> QED BY <3>1, EmptySeq DEF NothingStuck
  <2> QED BY <2>1, <2>2
<1>21. ListInv'
  BY <1>2 DEF ListInv
<1>22. TypeOK'
  <2>1. event_dispatch_depth' \in [Event -> Nat]
    BY <1>11 DEF TypeOK
  <2>2. UNCHANGED <<up, next_token, sub, subscriptions, active, errors, pending, published, purging>>
    BY <1>2
  <2> QED BY <2>1, <2>2, <1>4, <1>5, <1>8, <1>9, <1>19 DEF TypeOK
<1> QED BY <1>7, <1>13, <1>18, <1>20, <1>21, <1>22

(* Changing the innermost frame without touching its list or its event.    *)
LEMMA TopLemma ==
  ASSUME IInv, stack # <<>>, NEW f \in Frame, stack' = [stack EXCEPT ![Len(stack)] = f],
         f.list = Top.list, f.snapshot.event = Top.snapshot.event, f.drained = Top.drained,
         f.pos >= 1, f.running => f.pos \in 1 .. Len(f.list),
         Len(audit') = Len(audit),
         UNCHANGED <<next_token, sub, draining, dispatch_depth, event_dispatch_depth>>
  PROVE  /\ stack' \in Seq(Frame)
         /\ stack' # <<>>
         /\ FrameInv'
         /\ DepthInv'
         /\ \A t : Holders(t)' = Holders(t)
<1> USE DEF IInv
<1> DEFINE n == Len(stack)
<1>1. /\ n \in Nat \ {0} /\ DOMAIN stack = 1 .. n /\ n \in 1 .. n /\ Top = stack[n]
  BY LenProperties, EmptySeq DEF TypeOK, Top
<1>2. /\ stack' \in Seq(Frame) /\ Len(stack') = n
      /\ \A k \in 1 .. n : stack'[k] = IF k = n THEN f ELSE stack[k]
  BY <1>1, ExceptSeq DEF TypeOK
<1>3. DOMAIN stack' = 1 .. n
  BY <1>2, LenProperties
<1>4. \A k \in 1 .. n : /\ stack'[k].list = stack[k].list
                        /\ stack'[k].snapshot.event = stack[k].snapshot.event
                        /\ stack'[k].drained = stack[k].drained
  <2> TAKE k \in 1 .. n
  <2>1. CASE k = n
    BY <2>1, <1>1, <1>2
  <2>2. CASE k # n
    BY <2>2, <1>2
  <2> QED BY <2>1, <2>2
<1>5. \A t : Holders(t)' = Holders(t)
  BY <1>1, <1>3, <1>4 DEF Holders
<1>6. DepthInv'
  BY <1>2, <1>4 DEF DepthInv
<1>7. FrameInv'
  <2> SUFFICES ASSUME NEW k \in 1 .. n
               PROVE  /\ stack'[k].pos >= 1
                      /\ stack'[k].running => stack'[k].pos \in 1 .. Len(stack'[k].list)
                      /\ k < n => stack'[k].running
                      /\ stack'[k].drained => draining
                      /\ \A i \in 1 .. Len(stack'[k].list) :
                           /\ stack'[k].list[i] < next_token
                           /\ sub[stack'[k].list[i]].event = stack'[k].snapshot.event
    BY <1>2 DEF FrameInv
  <2>1. CASE k = n
    <3>1. /\ stack[n].drained => draining
          /\ \A i \in 1 .. Len(stack[n].list) :
               /\ stack[n].list[i] < next_token
               /\ sub[stack[n].list[i]].event = stack[n].snapshot.event
      BY <1>1 DEF FrameInv
    <3>2. stack'[k] = f /\ ~(k < n)
      BY <2>1, <1>1, <1>2
    <3> QED BY <3>1, <3>2, <1>1
  <2>2. CASE k # n
    BY <2>2, <1>2 DEF FrameInv
  <2> QED BY <2>1, <2>2
<1>8. stack' # <<>>
  BY <1>1, <1>2, EmptySeq
<1> QED BY <1>2, <1>5, <1>6, <1>7, <1>8

(* Deactivating takes away the reference of the list.                      *)
LEMMA DeactivateOwnership ==
  ASSUME IInv, NEW t \in Listed, Deactivate(t), sub' = sub, next_token' = next_token,
         \A u : Holders(u)' = Holders(u)
  PROVE  Ownership'
<1> USE DEF IInv
<1>1. Listed' = Listed \ {t} /\ ref_count[t] \in Nat \ {0} /\ t < next_token /\ t \in Token
  BY DeactivateLemma, ListedPlace
<1>2. /\ active' = active \ {t}
      /\ ref_count' = [u \in Token |-> IF u = t THEN ref_count[u] - 1 ELSE ref_count[u]]
      /\ destroyed' = [u \in Token |-> IF u = t /\ ref_count[u] = 1
                                       THEN destroyed[u] + 1 ELSE destroyed[u]]
  BY DEF Deactivate, Unref
<1> SUFFICES ASSUME NEW u \in Token
             PROVE  /\ ref_count'[u] = Cardinality(Holders(u)) + (IF u \in Listed' THEN 1 ELSE 0)
                    /\ u \in Listed' <=> u \in active'
                    /\ destroyed'[u] = IF u < next_token /\ ref_count'[u] = 0 THEN 1 ELSE 0
  BY DEF Ownership
<1>3. /\ ref_count[u] = Cardinality(Holders(u)) + (IF u \in Listed THEN 1 ELSE 0)
      /\ u \in Listed <=> u \in active
      /\ destroyed[u] = IF u < next_token /\ ref_count[u] = 0 THEN 1 ELSE 0
      /\ Cardinality(Holders(u)) \in Nat
  BY HoldersFinite DEF Ownership
<1>4. CASE u = t
  <2>1. u \notin Listed' /\ u \notin active' /\ u \in Listed
    BY <1>1, <1>2, <1>4
  <2>2. ref_count'[u] = ref_count[u] - 1 /\ ref_count[u] \in Nat \ {0} /\ u < next_token
    BY <1>1, <1>2, <1>4
  <2>3. destroyed[u] = 0
    BY <2>2, <1>3
  <2>4. destroyed'[u] = IF ref_count[u] = 1 THEN 1 ELSE 0
    BY <2>3, <1>2, <1>4
  <2>5. ref_count'[u] = 0 <=> ref_count[u] = 1
    BY <2>2
  <2>6. ref_count'[u] = Cardinality(Holders(u))
    BY <2>1, <2>2, <1>3
  <2> QED BY <2>1, <2>2, <2>4, <2>5, <2>6
<1>5. CASE u # t
  BY <1>1, <1>2, <1>3, <1>5
<1> QED BY <1>4, <1>5

(* A step that only deactivates one listed subscription.                   *)
LEMMA DeactivateStep ==
  ASSUME IInv, NEW t \in Listed, Deactivate(t), purging' = purging,
         UNCHANGED <<up, next_token, sub, errors, dispatchVars, queueVars>>
  PROVE  IInv'
<1> USE DEF IInv
<1>1. UNCHANGED <<up, next_token, sub, errors, stack, dispatch_depth, event_dispatch_depth, audit,
                  pending, draining, published, purging>>
  BY DEF dispatchVars, queueVars
<1>2. \A u : Holders(u)' = Holders(u)
  BY <1>1 DEF Holders
<1>3. Ownership'
  BY <1>1, <1>2, DeactivateOwnership
<1>4. /\ subscriptions' \in [Event -> Seq(Token)] /\ active' \subseteq Token /\ ListInv'
      /\ ref_count' \in [Token -> Nat] /\ destroyed' \in [Token -> Nat]
  BY <1>1, DeactivateLemma
<1>5. TypeOK'
  BY <1>1, <1>4 DEF TypeOK
<1>6. FrameInv' /\ DepthInv' /\ NothingStuck'
  BY <1>1 DEF FrameInv, DepthInv, NothingStuck
<1> QED BY <1>3, <1>4, <1>5, <1>6

(* The place mc_runtime_events_subscribe inserts at is one of the list.    *)
LEMMA InsertPositionRange ==
  ASSUME TypeOK, NEW s \in Seq(Token), NEW p \in Priority
  PROVE  InsertPosition(s, p) \in 1 .. Len(s) + 1
<1> DEFINE Low == {i \in 1 .. Len(s) : p > sub[s[i]].priority}
           First(i) == /\ p > sub[s[i]].priority
                       /\ \A j \in 1 .. i - 1 : p <= sub[s[j]].priority
<1>1. Len(s) \in Nat /\ DOMAIN s = 1 .. Len(s)
  BY LenProperties
<1>2. CASE Low = {}
  <2>1. ~ \E i \in DOMAIN s : p > sub[s[i]].priority
    BY <1>1, <1>2
  <2> QED BY <1>1, <2>1 DEF InsertPosition
<1>3. CASE Low # {}
  <2>1. Low \subseteq Nat
    BY <1>1
  <2>2. PICK m \in Low : \A k \in Low : m <= k
    <3> HIDE DEF Low
    <3> QED BY <1>3, <2>1, LeastNatural
  <2>3. \A j \in 1 .. m - 1 : p <= sub[s[j]].priority
    <3> TAKE j \in 1 .. m - 1
    <3>1. j \in 1 .. Len(s) /\ ~(m <= j)
      BY <1>1
    <3>2. ~(p > sub[s[j]].priority)
      BY <3>1, <2>2
    <3>3. s[j] \in Token
      BY <3>1, ElementOfSeq
    <3>4. sub[s[j]].priority \in Priority
      BY <3>3 DEF TypeOK, Subscription
    <3>5. p \in Int /\ sub[s[j]].priority \in Int
      BY <3>4, PriorityAssumption
    <3> HIDE DEF Low, First
    <3> QED BY <3>2, <3>5
  <2>4. \E i \in DOMAIN s : First(i)
    BY <1>1, <2>3
  <2>5. \E i \in DOMAIN s : p > sub[s[i]].priority
    BY <2>4
  <2>6. (CHOOSE i \in DOMAIN s : First(i)) \in DOMAIN s
    <3> HIDE DEF First
    <3> QED BY <2>4
  <2>7. InsertPosition(s, p) = CHOOSE i \in DOMAIN s : First(i)
    BY <2>5 DEF InsertPosition
  <2> QED BY <1>1, <2>6, <2>7
<1> QED BY <1>2, <1>3

(* A subscription the dispatch loop calls is in its list and active.       *)
LEMMA NextCallRange ==
  ASSUME NEW f \in Frame, f.pos >= 1, NextCall(f) <= Len(f.list)
  PROVE  NextCall(f) \in 1 .. Len(f.list) /\ f.list[NextCall(f)] \in active
<1> DEFINE Ready == {i \in f.pos .. Len(f.list) : f.list[i] \in active}
           First(i) == f.list[i] \in active /\ \A j \in f.pos .. i - 1 : f.list[j] \notin active
<1>1. f.pos \in Nat /\ Len(f.list) \in Nat
  BY LenProperties DEF Frame
<1>2. Ready # {}
  BY <1>1 DEF NextCall
<1>3. Ready \subseteq Nat
  BY <1>1
<1>4. PICK m \in Ready : \A k \in Ready : m <= k
  <2> HIDE DEF Ready
  <2> QED BY <1>2, <1>3, LeastNatural
<1>5. \A j \in f.pos .. m - 1 : f.list[j] \notin active
  <2> TAKE j \in f.pos .. m - 1
  <2>1. j \in f.pos .. Len(f.list) /\ ~(m <= j)
    BY <1>1
  <2> QED BY <2>1, <1>4
<1>6. \E i \in f.pos .. Len(f.list) : First(i)
  BY <1>5
<1>7. NextCall(f) = CHOOSE i \in f.pos .. Len(f.list) : First(i)
  BY <1>2 DEF NextCall
<1>8. NextCall(f) \in f.pos .. Len(f.list) /\ First(NextCall(f))
  <2> HIDE DEF First
  <2> QED BY <1>6, <1>7
<1> QED BY <1>1, <1>8

(* Queueing keeps the queue a sequence of snapshots.                       *)
LEMMA EnqueueType ==
  ASSUME NEW q \in Seq(Snapshot), NEW s \in Snapshot
  PROVE  Enqueue(q, s) \in Seq(Snapshot)
<1> DEFINE Old == {i \in 1 .. Len(q) : Coalesces(q[i], s)}
           First(i) == Coalesces(q[i], s) /\ \A j \in 1 .. i - 1 : ~Coalesces(q[j], s)
<1>1. Len(q) \in Nat /\ DOMAIN q = 1 .. Len(q)
  BY LenProperties
<1>2. CASE Old = {}
  <2>1. Enqueue(q, s) = Append(q, s)
    BY <1>1, <1>2 DEF Enqueue
  <2> QED BY <2>1, AppendLemma
<1>3. CASE Old # {}
  <2>1. Old \subseteq Nat
    BY <1>1
  <2>2. PICK m \in Old : \A k \in Old : m <= k
    <3> HIDE DEF Old
    <3> QED BY <1>3, <2>1, LeastNatural
  <2>3. \A j \in 1 .. m - 1 : ~Coalesces(q[j], s)
    <3> TAKE j \in 1 .. m - 1
    <3>1. j \in 1 .. Len(q) /\ ~(m <= j)
      BY <1>1
    <3> QED BY <3>1, <2>2
  <2>4. \E i \in DOMAIN q : First(i)
    BY <2>3, <1>1
  <2>5. (CHOOSE i \in DOMAIN q : First(i)) \in DOMAIN q
    <3> HIDE DEF First
    <3> QED BY <2>4
  <2>6. \E i \in DOMAIN q : Coalesces(q[i], s)
    BY <1>1, <1>3
  <2>7. Enqueue(q, s) = [q EXCEPT ![CHOOSE i \in DOMAIN q : First(i)] = s]
    BY <2>6 DEF Enqueue
  <2> HIDE DEF First
  <2> QED BY <1>1, <2>5, <2>7, ExceptSeq
<1> QED BY <1>2, <1>3

-----------------------------------------------------------------------------
(* The inductive step, action by action.                                   *)

(* A subscription gets a number nobody has and becomes the last.           *)
LEMMA SubscribeStep ==
  ASSUME IInv, NEW c \in Context, NEW e \in Event, NEW p \in Priority,
         mc_runtime_events_subscribe(c, e, p)
  PROVE  IInv'
<1> USE DEF IInv
<1> DEFINE t == next_token
           s == subscriptions[e]
           i == InsertPosition(s, p)
           r == InsertAt(s, i, t)
<1>1. /\ t \in Token /\ t \in Nat /\ t + 1 \in 1 .. MaxTokens + 1
      /\ s \in Seq(Token) /\ DOMAIN s = 1 .. Len(s) /\ Len(s) \in Nat
  BY BoundsAssumption, LenProperties DEF TypeOK, mc_runtime_events_subscribe, Token
<1>2. /\ next_token' = t + 1
      /\ sub' = [sub EXCEPT ![t] = [event |-> e, priority |-> p, context |-> c]]
      /\ subscriptions' = [subscriptions EXCEPT ![e] = r]
      /\ active' = active \cup {t}
      /\ ref_count' = [ref_count EXCEPT ![t] = 1]
      /\ UNCHANGED <<up, errors, destroyed, stack, dispatch_depth, event_dispatch_depth, audit,
                     pending, draining, published, purging>>
  BY DEF mc_runtime_events_subscribe, dispatchVars, queueVars
<1>3. /\ t \notin Listed /\ t \notin active /\ Holders(t) = {} /\ ref_count[t] = 0
      /\ destroyed[t] = 0
  <2>1. t >= next_token
    BY <1>1
  <2>2. next_token \in Token
    BY <1>1
  <2> HIDE DEF IInv
  <2> QED BY <2>1, <2>2, UnusedTokens
<1>4. i \in 1 .. Len(s) + 1
  BY <1>1, InsertPositionRange
<1>5. /\ r \in Seq(Token) /\ Len(r) = Len(s) + 1 /\ DOMAIN r = 1 .. Len(s) + 1
      /\ \A j \in 1 .. Len(s) + 1 : r[j] = IF j < i THEN s[j] ELSE IF j = i THEN t ELSE s[j - 1]
      /\ Range(r) = Range(s) \cup {t}
  <2> HIDE DEF i, s, t
  <2>1. /\ r \in Seq(Token) /\ Len(r) = Len(s) + 1 /\ DOMAIN r = 1 .. Len(s) + 1
        /\ \A j \in 1 .. Len(s) + 1 : r[j] = IF j < i THEN s[j] ELSE IF j = i THEN t ELSE s[j - 1]
    BY <1>1, <1>4, InsertAtProperties
  <2>2. Range(r) = Range(s) \cup {t}
    BY <1>1, <1>4, RangeInsertAt
  <2> QED BY <2>1, <2>2
<1>6. \A j \in 1 .. Len(s) : /\ s[j] # t /\ s[j] < t /\ s[j] \in Token
                             /\ sub[s[j]].event = e
  <2>1. \A j \in 1 .. Len(s) : s[j] < t /\ sub[s[j]].event = e
    BY DEF ListInv
  <2>2. \A j \in 1 .. Len(s) : s[j] \in Token
    BY <1>1, ElementOfSeq
  <2> QED BY <2>1, <2>2, <1>1 DEF Token
<1> HIDE DEF i, r
<1>7. /\ subscriptions' \in [Event -> Seq(Token)]
      /\ subscriptions'[e] = r
      /\ \A f \in Event : f # e => subscriptions'[f] = subscriptions[f]
  BY <1>2, <1>5 DEF TypeOK
<1>8. /\ sub' \in [Token -> Subscription]
      /\ sub'[t].event = e
      /\ \A u \in Token : u # t => sub'[u] = sub[u]
  BY <1>1, <1>2 DEF TypeOK, Subscription
<1>9. \A j \in 1 .. Len(s) + 1 :
        /\ r[j] < t + 1
        /\ sub'[r[j]].event = e
        /\ \A k \in 1 .. Len(s) + 1 : j # k => r[j] # r[k]
  <2> TAKE j \in 1 .. Len(s) + 1
  <2>0. \A k \in 1 .. Len(s) + 1 : /\ k < i => k \in 1 .. Len(s)
                                   /\ k > i => k - 1 \in 1 .. Len(s)
                                   /\ k < i \/ k = i \/ k > i
                                   /\ k \in Int
    BY <1>1, <1>4
  <2>1. \A k \in 1 .. Len(s) + 1 : /\ k < i => r[k] = s[k]
                                   /\ k = i => r[k] = t
                                   /\ k > i => r[k] = s[k - 1]
    BY <1>4, <1>5, <1>1
  <2>2. sub'[r[j]].event = e
    BY <2>0, <2>1, <1>6, <1>8
  <2>3. r[j] < t + 1
    <3>1. \A u \in Token : u < t => u < t + 1
      BY <1>1 DEF Token
    <3>2. t < t + 1
      BY <1>1
    <3> HIDE DEF s, t
    <3> QED BY <2>0, <2>1, <1>6, <3>1, <3>2
  <2>4. ASSUME NEW k \in 1 .. Len(s) + 1, j # k PROVE r[j] # r[k]
    <3>1. \A x, y \in 1 .. Len(s) : x # y => s[x] # s[y]
      BY DEF ListInv
    <3>2. /\ (j < i /\ k > i) => j # k - 1
          /\ (j > i /\ k < i) => j - 1 # k
          /\ (j > i /\ k > i) => j - 1 # k - 1
      BY <2>0, <2>4, <1>4, <1>1
    <3>3. CASE j = i
      <4>1. r[j] = t /\ r[k] # t
        BY <3>3, <2>0, <2>1, <2>4, <1>6
      <4> QED BY <4>1
    <3>4. CASE j # i /\ k = i
      <4>1. r[k] = t /\ r[j] # t
        BY <3>4, <2>0, <2>1, <1>6
      <4> QED BY <4>1
    <3>5. CASE j # i /\ k # i
      <4> HIDE DEF s
      <4> QED BY <3>5, <2>0, <2>1, <2>4, <3>1, <3>2
    <3> QED BY <3>3, <3>4, <3>5
  <2> QED BY <2>2, <2>3, <2>4
<1>10. ListInv'
  <2> SUFFICES ASSUME NEW f \in Event
               PROVE  /\ \A j, k \in 1 .. Len(subscriptions'[f]) :
                           j # k => subscriptions'[f][j] # subscriptions'[f][k]
                      /\ \A j \in 1 .. Len(subscriptions'[f]) :
                           /\ subscriptions'[f][j] < t + 1
                           /\ sub'[subscriptions'[f][j]].event = f
    BY <1>2 DEF ListInv
  <2>1. CASE f = e
    <3> HIDE DEF s, t
    <3> QED BY <2>1, <1>5, <1>7, <1>9
  <2>2. CASE f # e
    <3>1. \A j \in 1 .. Len(subscriptions[f]) :
            /\ subscriptions[f][j] \in Token /\ subscriptions[f][j] < t
            /\ sub[subscriptions[f][j]].event = f
      BY ElementOfSeq DEF ListInv, TypeOK
    <3>2. \A u \in Token : u < t => u < t + 1 /\ u # t
      BY <1>1 DEF Token
    <3>3. subscriptions'[f] = subscriptions[f]
      BY <2>2, <1>7
    <3>4. \A j, k \in 1 .. Len(subscriptions[f]) :
            j # k => subscriptions[f][j] # subscriptions[f][k]
      BY DEF ListInv
    <3>5. \A j \in 1 .. Len(subscriptions[f]) : sub'[subscriptions[f][j]] = sub[subscriptions[f][j]]
      <4> HIDE DEF s, t
      <4> QED BY <3>1, <3>2, <1>8
    <3> HIDE DEF s, t
    <3> QED BY <3>1, <3>2, <3>3, <3>4, <3>5
  <2> QED BY <2>1, <2>2
<1>11. Listed' = Listed \cup {t}
  <2>1. \A f \in Event : Range(subscriptions'[f])
                           = IF f = e THEN Range(subscriptions[f]) \cup {t} ELSE Range(subscriptions[f])
    BY <1>5, <1>7
  <2> QED BY <2>1 DEF Listed
<1>12. \A u : Holders(u)' = Holders(u)
  BY <1>2 DEF Holders
<1>13. Ownership'
  <2> SUFFICES ASSUME NEW u \in Token
               PROVE  /\ ref_count'[u] = Cardinality(Holders(u)) + (IF u \in Listed' THEN 1 ELSE 0)
                      /\ u \in Listed' <=> u \in active'
                      /\ destroyed[u] = IF u < t + 1 /\ ref_count'[u] = 0 THEN 1 ELSE 0
    BY <1>2, <1>12 DEF Ownership
  <2>1. CASE u = t
    <3>1. Cardinality(Holders(u)) = 0
      BY <2>1, <1>3, FS_EmptySet
    <3>2. ref_count'[u] = 1
      BY <2>1, <1>1, <1>2 DEF TypeOK
    <3> QED BY <2>1, <3>1, <3>2, <1>2, <1>3, <1>11
  <2>2. CASE u # t
    <3>1. ref_count'[u] = ref_count[u] /\ (u < t + 1 <=> u < t)
      BY <2>2, <1>1, <1>2 DEF TypeOK, Token
    <3>2. (u \in Listed' <=> u \in Listed) /\ (u \in active' <=> u \in active)
      BY <2>2, <1>2, <1>11
    <3> QED BY <3>1, <3>2 DEF Ownership
  <2> QED BY <2>1, <2>2
<1>14. FrameInv'
  <2>1. ASSUME NEW k \in 1 .. Len(stack), NEW j \in 1 .. Len(stack[k].list)
        PROVE  /\ stack[k].list[j] < t + 1
               /\ sub'[stack[k].list[j]].event = stack[k].snapshot.event
    <3>0. stack[k] \in Frame
      BY ElementOfSeq DEF TypeOK
    <3>1. stack[k].list[j] \in Token
      <4>1. stack[k].list \in Seq(Token)
        BY <3>0 DEF Frame
      <4> QED BY <4>1, ElementOfSeq
    <3>2. stack[k].list[j] < t /\ sub[stack[k].list[j]].event = stack[k].snapshot.event
      BY DEF FrameInv
    <3>3. stack[k].list[j] < t + 1 /\ stack[k].list[j] # t
      BY <3>1, <3>2, <1>1 DEF Token
    <3> QED BY <3>1, <3>2, <3>3, <1>8
  <2> QED BY <2>1, <1>2 DEF FrameInv
<1>15. DepthInv' /\ NothingStuck'
  BY <1>2 DEF DepthInv, NothingStuck
<1>16. TypeOK'
  <2>1. active' \subseteq Token /\ ref_count' \in [Token -> Nat]
    BY <1>1, <1>2 DEF TypeOK
  <2> QED BY <2>1, <1>1, <1>2, <1>7, <1>8 DEF TypeOK
<1> QED BY <1>10, <1>13, <1>14, <1>15, <1>16

(* One subscription is made inactive, or removed.                          *)
LEMMA UnsubscribeStep ==
  ASSUME IInv, NEW c \in Context, NEW t \in Token, mc_runtime_events_unsubscribe(c, t)
  PROVE  IInv'
<1>1. t \in Listed /\ Deactivate(t)
  BY DEF mc_runtime_events_unsubscribe
<1>2. purging' = purging /\ UNCHANGED <<up, next_token, sub, errors, dispatchVars, queueVars>>
  BY DEF mc_runtime_events_unsubscribe
<1> QED BY <1>1, <1>2, DeactivateStep

(* The same, for the next subscription of a context.                       *)
LEMMA UnsubscribeAllStepStep ==
  ASSUME IInv, NEW t \in Token, UnsubscribeAllStep(t)
  PROVE  IInv'
<1>1. t \in Listed /\ Deactivate(t)
  BY DEF UnsubscribeAllStep, Owned
<1>2. purging' = purging /\ UNCHANGED <<up, next_token, sub, errors, dispatchVars, queueVars>>
  BY DEF UnsubscribeAllStep
<1> QED BY <1>1, <1>2, DeactivateStep

(* A step that changes nothing but purging or the draining flag of an idle *)
(* bus.                                                                    *)
LEMMA QuietStep ==
  ASSUME IInv, UNCHANGED <<up, subVars, dispatchVars, pending, published>>,
         purging' \in Context \cup {NoContext}, draining' \in BOOLEAN,
         \/ draining' = draining
         \/ stack = <<>> /\ pending = <<>>
  PROVE  IInv'
<1> USE DEF IInv
<1>1. UNCHANGED <<up, next_token, sub, subscriptions, active, ref_count, errors, destroyed, stack,
                  dispatch_depth, event_dispatch_depth, audit, pending, published>>
  BY DEF subVars, dispatchVars
<1>2. TypeOK'
  BY <1>1 DEF TypeOK
<1>3. ListInv'
  BY <1>1 DEF ListInv
<1>4. FrameInv'
  <2>1. CASE draining' = draining
    BY <1>1, <2>1 DEF FrameInv
  <2>2. CASE stack = <<>>
    <3>1. Len(stack) = 0
      BY <2>2
    <3> QED BY <1>1, <3>1 DEF FrameInv
  <2> QED BY <2>1, <2>2
<1>5. DepthInv'
  BY <1>1 DEF DepthInv
<1>6. Ownership'
  <2>1. \A t : Holders(t)' = Holders(t)
    BY <1>1 DEF Holders
  <2>2. Listed' = Listed
    BY <1>1 DEF Listed
  <2> QED BY <1>1, <2>1, <2>2 DEF Ownership
<1>7. NothingStuck'
  BY <1>1 DEF NothingStuck
<1> QED BY <1>2, <1>3, <1>4, <1>5, <1>6, <1>7

(* The beginning and the end of an unsubscribe_all.                        *)
LEMMA UnsubscribeAllBounds ==
  ASSUME IInv, (\E c \in Context : UnsubscribeAllBegin(c)) \/ UnsubscribeAllEnd
  PROVE  IInv'
<1>1. UNCHANGED <<up, subVars, dispatchVars, pending, published>> /\ draining' = draining
  BY DEF UnsubscribeAllBegin, UnsubscribeAllEnd, queueVars
<1>2. purging' \in Context \cup {NoContext}
  BY DEF UnsubscribeAllBegin, UnsubscribeAllEnd
<1>3. draining' \in BOOLEAN
  BY <1>1 DEF IInv, TypeOK
<1> QED BY <1>1, <1>2, <1>3, QuietStep

(* The drain ends when nothing is pending.                                 *)
LEMMA DrainEndStep ==
  ASSUME IInv, DrainEnd
  PROVE  IInv'
<1>1. Len(stack) = 0 /\ stack \in Seq(Frame)
  BY DEF IInv, TypeOK, DepthInv, DrainEnd, DrainRuns
<1>2. stack = <<>>
  BY <1>1, EmptySeq
<1>3. /\ UNCHANGED <<up, subVars, dispatchVars, pending, published>>
      /\ pending = <<>> /\ draining' = FALSE /\ purging' = purging
  BY DEF DrainEnd
<1>4. purging' \in Context \cup {NoContext} /\ draining' \in BOOLEAN
  BY <1>3 DEF IInv, TypeOK
<1> QED BY <1>2, <1>3, <1>4, QuietStep

(* An event is published: a frame is pushed, or the event is queued.       *)
LEMMA PublishStep ==
  ASSUME IInv, NEW e \in Event, NEW p \in Panel \cup {NoPanel}, mc_runtime_event_publish(e, p)
  PROVE  IInv'
<1> DEFINE s == [id |-> published + 1, event |-> e, panel |-> p, consumed |-> FALSE]
<1>1. /\ CodeRuns
      /\ published' = published + 1 /\ published < MaxPublish
      /\ UNCHANGED <<up, next_token, sub, subscriptions, active, errors, destroyed, draining, purging>>
  BY DEF mc_runtime_event_publish
<1>2. published \in Nat /\ published + 1 \in 0 .. MaxPublish /\ s \in Snapshot
  BY <1>1, BoundsAssumption DEF IInv, TypeOK, Snapshot
<1>3. stack # <<>> => Top.running
  BY <1>1 DEF CodeRuns
<1>4. ListInv'
  BY <1>1 DEF IInv, ListInv
<1>5. CASE MustQueue(e) /\ pending' = Enqueue(pending, s) /\ UNCHANGED <<ref_count, dispatchVars>>
  <2>1. pending' \in Seq(Snapshot)
    <3> HIDE DEF s
    <3> QED BY <1>2, <1>5, EnqueueType DEF IInv, TypeOK
  <2>2. UNCHANGED <<ref_count, stack, dispatch_depth, event_dispatch_depth, audit>>
    BY <1>5 DEF dispatchVars
  <2>3. TypeOK'
    BY <1>1, <1>2, <2>1, <2>2 DEF IInv, TypeOK
  <2>4. FrameInv' /\ DepthInv'
    BY <1>1, <2>2 DEF IInv, FrameInv, DepthInv
  <2>5. Ownership'
    <3>1. \A t : Holders(t)' = Holders(t)
      BY <2>2 DEF Holders
    <3>2. Listed' = Listed
      BY <1>1 DEF Listed
    <3> QED BY <1>1, <2>2, <3>1, <3>2 DEF IInv, Ownership
  <2>6. stack # <<>>
    <3>1. event_dispatch_depth[e] # 0
      BY <1>5 DEF MustQueue
    <3>2. PICK k \in 1 .. Len(stack) : stack[k].snapshot.event = e
      BY <3>1 DEF IInv, DepthInv
    <3> QED BY <3>2
  <2>7. NothingStuck'
    BY <2>2, <2>6 DEF NothingStuck
  <2> QED BY <1>4, <2>3, <2>4, <2>5, <2>7 DEF IInv
<1>6. CASE ~MustQueue(e) /\ BeginDispatch(s, FALSE) /\ UNCHANGED pending
  <2>1. event_dispatch_depth[s.event] = 0
    BY <1>6 DEF MustQueue
  <2>2. /\ stack' \in Seq(Frame)
        /\ Len(stack') = Len(stack) + 1
        /\ dispatch_depth' \in Nat
        /\ event_dispatch_depth' \in [Event -> Nat]
        /\ audit' \in Seq([listed : SUBSET Token, calls : Seq(Token)])
        /\ ref_count' \in [Token -> Nat]
        /\ FrameInv'
        /\ DepthInv'
        /\ Ownership'
    <3> HIDE DEF s
    <3> QED BY <1>1, <1>2, <1>3, <1>6, <2>1, PushLemma
  <2>3. TypeOK'
    BY <1>1, <1>2, <1>6, <2>2 DEF IInv, TypeOK
  <2>4. NothingStuck'
    <3>1. Len(stack) \in Nat
      BY LenProperties DEF IInv, TypeOK
    <3>2. stack' # <<>>
      BY <2>2, <3>1
    <3> QED BY <3>2 DEF NothingStuck
  <2> QED BY <1>4, <2>2, <2>3, <2>4 DEF IInv
<1>7. \/ MustQueue(e) /\ pending' = Enqueue(pending, s) /\ UNCHANGED <<ref_count, dispatchVars>>
      \/ ~MustQueue(e) /\ BeginDispatch(s, FALSE) /\ UNCHANGED pending
  BY DEF mc_runtime_event_publish
<1> QED BY <1>5, <1>6, <1>7

(* What the innermost dispatch is, when there is one.                      *)
LEMMA TopFrame ==
  ASSUME IInv, stack # <<>>
  PROVE  /\ Top \in Frame
         /\ Top = stack[Len(stack)]
         /\ Len(stack) \in 1 .. Len(stack)
         /\ Top.pos \in Nat /\ Top.pos >= 1
         /\ Top.running => Top.pos \in 1 .. Len(Top.list)
         /\ Top.list \in Seq(Token)
         /\ Top.snapshot \in Snapshot
         /\ Len(Top.list) \in Nat
<1>1. stack \in Seq(Frame) /\ Len(stack) \in 1 .. Len(stack)
  <2>1. stack \in Seq(Frame)
    BY DEF IInv, TypeOK
  <2>2. Len(stack) \in Nat /\ Len(stack) # 0
    BY <2>1, EmptySeq, LenProperties
  <2> QED BY <2>1, <2>2
<1>2. stack[Len(stack)] \in Frame
  BY <1>1, ElementOfSeq
<1>3. /\ stack[Len(stack)].pos >= 1
      /\ stack[Len(stack)].running => stack[Len(stack)].pos \in 1 .. Len(stack[Len(stack)].list)
  BY <1>1 DEF IInv, FrameInv
<1>4. Top = stack[Len(stack)]
  BY DEF Top
<1>5. /\ Top.list \in Seq(Token) /\ Top.snapshot \in Snapshot /\ Top.pos \in Nat
  BY <1>2, <1>4 DEF Frame
<1>6. Len(Top.list) \in Nat
  BY <1>5, LenProperties
<1> QED BY <1>1, <1>2, <1>3, <1>4, <1>5, <1>6

(* The three ways the innermost frame moves.                               *)
LEMMA EnteredFields ==
  ASSUME NEW i \in Nat, Top \in Frame
  PROVE  /\ Entered(i) \in Frame /\ Entered(i).list = Top.list
         /\ Entered(i).snapshot = Top.snapshot /\ Entered(i).drained = Top.drained
         /\ Entered(i).pos = i /\ Entered(i).running = TRUE
<1> DEFINE g == [Top EXCEPT !.running = TRUE]
<1>1. /\ g \in Frame /\ g.list = Top.list /\ g.snapshot = Top.snapshot /\ g.drained = Top.drained
      /\ g.running = TRUE
  BY DEF Frame
<1>2. Entered(i) = [g EXCEPT !.pos = i]
  BY DEF Entered
<1> HIDE DEF g
<1> QED BY <1>1, <1>2 DEF Frame

(* What a callback that returns leaves as it was in its frame.             *)
LEMMA ReturnFields ==
  ASSUME Top \in Frame, Top.pos >= 1, NEW f \in {Pass, Consumed}
  PROVE  /\ f \in Frame /\ f.list = Top.list /\ f.snapshot.event = Top.snapshot.event
         /\ f.drained = Top.drained /\ f.pos >= 1 /\ f.running = FALSE
<1> DEFINE g == [Top EXCEPT !.running = FALSE]
           h == [g EXCEPT !.pos = Len(Top.list) + 1]
<1>0. Len(Top.list) \in Nat /\ Top.pos \in Nat
  BY LenProperties DEF Frame
<1>1. /\ g \in Frame /\ g.list = Top.list /\ g.snapshot = Top.snapshot /\ g.drained = Top.drained
      /\ g.running = FALSE /\ g.pos = Top.pos
  BY DEF Frame
<1>2. Pass = [g EXCEPT !.pos = Top.pos + 1]
  BY DEF Pass
<1>3. Consumed = [h EXCEPT !.snapshot.consumed = TRUE]
  BY DEF Consumed
<1> HIDE DEF g
<1>4. /\ h \in Frame /\ h.list = Top.list /\ h.snapshot = Top.snapshot /\ h.drained = Top.drained
      /\ h.running = FALSE /\ h.pos = Len(Top.list) + 1
  BY <1>0, <1>1 DEF Frame
<1> HIDE DEF h
<1>5. CASE f = Pass
  BY <1>0, <1>1, <1>2, <1>5 DEF Frame
<1>6. CASE f = Consumed
  <2> DEFINE sn == [h.snapshot EXCEPT !.consumed = TRUE]
  <2>1. sn \in Snapshot /\ sn.event = Top.snapshot.event
    BY <1>4 DEF Frame, Snapshot
  <2>2. f = [h EXCEPT !.snapshot = sn]
    BY <1>3, <1>6
  <2> HIDE DEF sn
  <2> QED BY <1>0, <1>4, <2>1, <2>2 DEF Frame
<1> QED BY <1>5, <1>6

(* A callback is called.                                                   *)
LEMMA CallStep ==
  ASSUME IInv, Call
  PROVE  IInv'
<1> DEFINE i == NextCall(Top)
           f == Entered(i)
<1>1. /\ stack # <<>>
      /\ i <= Len(Top.list)
      /\ stack' = [stack EXCEPT ![Len(stack)] = f]
      /\ audit' = [audit EXCEPT ![Len(stack)].calls = Append(@, Top.list[i])]
      /\ UNCHANGED <<up, next_token, sub, subscriptions, active, ref_count, errors, destroyed,
                     dispatch_depth, event_dispatch_depth, pending, draining, published, purging>>
  BY DEF Call, DispatchRuns, Depth, subVars, queueVars
<1>2. i \in 1 .. Len(Top.list)
  BY <1>1, TopFrame, NextCallRange
<1>3. /\ f \in Frame /\ f.list = Top.list /\ f.snapshot = Top.snapshot /\ f.drained = Top.drained
      /\ f.pos = i /\ f.running = TRUE
  <2>1. i \in Nat
    BY <1>1, <1>2, TopFrame
  <2> HIDE DEF i
  <2> QED BY <2>1, <1>1, TopFrame, EnteredFields
<1>4. /\ Len(stack) \in 1 .. Len(audit) /\ audit \in Seq([listed : SUBSET Token, calls : Seq(Token)])
  BY <1>1, TopFrame DEF IInv, FrameInv, TypeOK
<1>5. /\ audit' \in Seq([listed : SUBSET Token, calls : Seq(Token)]) /\ Len(audit') = Len(audit)
  <2> DEFINE a == audit[Len(stack)]
             b == [a EXCEPT !.calls = Append(@, Top.list[i])]
  <2>1. a \in [listed : SUBSET Token, calls : Seq(Token)]
    BY <1>4, ElementOfSeq
  <2>2. Top.list[i] \in Token
    <3> HIDE DEF i
    <3> QED BY <1>1, <1>2, TopFrame, ElementOfSeq
  <2>3. b \in [listed : SUBSET Token, calls : Seq(Token)]
    <3> HIDE DEF i, a
    <3>1. a.calls \in Seq(Token)
      BY <2>1
    <3>2. Append(a.calls, Top.list[i]) \in Seq(Token)
      BY <2>2, <3>1, AppendLemma
    <3> QED BY <2>1, <3>2
  <2>4. audit' = [audit EXCEPT ![Len(stack)] = b]
    <3> HIDE DEF i
    <3> QED BY <1>1
  <2> HIDE DEF a, b
  <2> QED BY <1>4, <2>3, <2>4, ExceptSeq
<1>6. /\ stack' \in Seq(Frame) /\ stack' # <<>> /\ FrameInv' /\ DepthInv'
      /\ \A t : Holders(t)' = Holders(t)
  <2> HIDE DEF i, f
  <2>1. f.pos >= 1 /\ (f.running => f.pos \in 1 .. Len(f.list)) /\ f.snapshot.event = Top.snapshot.event
    BY <1>1, <1>2, <1>3, TopFrame
  <2>2. UNCHANGED <<next_token, sub, draining, dispatch_depth, event_dispatch_depth>>
    BY <1>1
  <2> QED BY <1>1, <1>3, <1>5, <2>1, <2>2, TopLemma
<1>7. TypeOK'
  BY <1>1, <1>5, <1>6 DEF IInv, TypeOK
<1>8. ListInv'
  BY <1>1 DEF IInv, ListInv
<1>9. Ownership'
  <2>1. Listed' = Listed
    BY <1>1 DEF Listed
  <2> QED BY <1>1, <1>6, <2>1 DEF IInv, Ownership
<1>10. NothingStuck'
  BY <1>6 DEF NothingStuck
<1> QED BY <1>6, <1>7, <1>8, <1>9, <1>10 DEF IInv

(* What every return of a callback does to the stack.                      *)
LEMMA ReturnLemma ==
  ASSUME IInv, CodeRuns, stack # <<>>, NEW f \in {Pass, Consumed},
         stack' = [stack EXCEPT ![Depth] = f],
         UNCHANGED <<next_token, sub, draining, dispatch_depth, event_dispatch_depth, audit>>
  PROVE  /\ Top.list[Top.pos] \in Token
         /\ stack' \in Seq(Frame)
         /\ stack' # <<>>
         /\ FrameInv'
         /\ DepthInv'
         /\ \A t : Holders(t)' = Holders(t)
<1>1. /\ f \in Frame /\ f.list = Top.list /\ f.snapshot.event = Top.snapshot.event
      /\ f.drained = Top.drained /\ f.pos >= 1 /\ f.running = FALSE
  BY TopFrame, ReturnFields
<1>2. stack' = [stack EXCEPT ![Len(stack)] = f] /\ Len(audit') = Len(audit)
  BY DEF Depth
<1>3. Top.list[Top.pos] \in Token
  <2>1. Top.running
    BY DEF CodeRuns
  <2> QED BY <2>1, TopFrame, ElementOfSeq
<1> HIDE DEF Pass, Consumed
<1> QED BY <1>1, <1>2, <1>3, TopLemma

(* A return that leaves the subscriptions alone.                           *)
LEMMA PlainReturnStep ==
  ASSUME IInv, ReturnPass \/ ReturnConsume
  PROVE  IInv'
<1>1. PICK f \in {Pass, Consumed} : stack' = [stack EXCEPT ![Depth] = f]
  BY DEF ReturnPass, ReturnConsume
<1>2. /\ CodeRuns /\ stack # <<>>
      /\ UNCHANGED <<up, next_token, sub, subscriptions, active, ref_count, errors, destroyed,
                     dispatch_depth, event_dispatch_depth, audit, pending, draining, published,
                     purging>>
  BY DEF ReturnPass, ReturnConsume, subVars, queueVars
<1>3. /\ stack' \in Seq(Frame) /\ stack' # <<>> /\ FrameInv' /\ DepthInv'
      /\ \A t : Holders(t)' = Holders(t)
  BY <1>1, <1>2, ReturnLemma
<1>4. TypeOK'
  BY <1>2, <1>3 DEF IInv, TypeOK
<1>5. ListInv'
  BY <1>2 DEF IInv, ListInv
<1>6. Ownership'
  <2>1. Listed' = Listed
    BY <1>2 DEF Listed
  <2> QED BY <1>2, <1>3, <2>1 DEF IInv, Ownership
<1>7. NothingStuck'
  BY <1>3 DEF NothingStuck
<1> QED BY <1>3, <1>4, <1>5, <1>6, <1>7 DEF IInv

(* A callback fails, and may be turned off for it.                         *)
LEMMA ReturnErrorStep ==
  ASSUME IInv, ReturnError
  PROVE  IInv'
<1> DEFINE t == Top.list[Top.pos]
<1>1. /\ CodeRuns /\ stack # <<>> /\ stack' = [stack EXCEPT ![Depth] = Pass]
      /\ errors' = [errors EXCEPT ![t] = @ + 1]
      /\ UNCHANGED <<up, next_token, sub, dispatch_depth, event_dispatch_depth, audit, pending,
                     draining, published, purging>>
      /\ \/ t \in active /\ Deactivate(t)
         \/ UNCHANGED <<subscriptions, active, ref_count, destroyed>>
  BY DEF ReturnError, queueVars
<1>2. /\ t \in Token /\ stack' \in Seq(Frame) /\ stack' # <<>> /\ FrameInv' /\ DepthInv'
      /\ \A u : Holders(u)' = Holders(u)
  <2>1. Pass \in {Pass, Consumed}
    OBVIOUS
  <2> QED BY <1>1, <2>1, ReturnLemma
<1> HIDE DEF t
<1>3. errors' \in [Token -> Nat]
  BY <1>1, <1>2 DEF IInv, TypeOK
<1>4. /\ ListInv' /\ Ownership'
      /\ subscriptions' \in [Event -> Seq(Token)] /\ active' \subseteq Token
      /\ ref_count' \in [Token -> Nat] /\ destroyed' \in [Token -> Nat]
  <2>1. CASE t \in active /\ Deactivate(t)
    <3>1. t \in Listed
      BY <1>2, <2>1 DEF IInv, Ownership
    <3> QED BY <1>1, <1>2, <2>1, <3>1, DeactivateLemma, DeactivateOwnership
  <2>2. CASE UNCHANGED <<subscriptions, active, ref_count, destroyed>>
    <3>1. Listed' = Listed
      BY <2>2 DEF Listed
    <3>2. Ownership'
      BY <1>1, <1>2, <2>2, <3>1 DEF IInv, Ownership
    <3>3. ListInv'
      BY <1>1, <2>2 DEF IInv, ListInv
    <3> QED BY <2>2, <3>2, <3>3 DEF IInv, TypeOK
  <2> QED BY <1>1, <2>1, <2>2
<1>5. TypeOK'
  BY <1>1, <1>2, <1>3, <1>4 DEF IInv, TypeOK
<1>6. NothingStuck'
  BY <1>2 DEF NothingStuck
<1> QED BY <1>2, <1>4, <1>5, <1>6 DEF IInv

(* The first pending event is taken from the queue.                        *)
LEMMA DrainNextStep ==
  ASSUME IInv, DrainNext
  PROVE  IInv'
<1> DEFINE s == Head(pending)
<1>1. /\ draining /\ dispatch_depth = 0 /\ pending # <<>>
      /\ BeginDispatch(s, TRUE)
      /\ pending' = Tail(pending)
      /\ UNCHANGED <<up, next_token, sub, subscriptions, active, errors, destroyed, draining,
                     published, purging>>
  BY DEF DrainNext, DrainRuns
<1>2. Len(stack) = 0 /\ stack \in Seq(Frame) /\ stack = <<>>
  <2>1. Len(stack) = 0 /\ stack \in Seq(Frame)
    BY <1>1 DEF IInv, TypeOK, DepthInv
  <2> QED BY <2>1, EmptySeq
<1>3. s \in Snapshot /\ Tail(pending) \in Seq(Snapshot)
  BY <1>1, HeadTailProperties DEF IInv, TypeOK
<1>4. event_dispatch_depth[s.event] = 0
  <2>1. s.event \in Event
    BY <1>3 DEF Snapshot
  <2> HIDE DEF s
  <2> QED BY <2>1, <1>2 DEF IInv, DepthInv
<1>5. /\ stack' \in Seq(Frame)
      /\ Len(stack') = Len(stack) + 1
      /\ dispatch_depth' \in Nat
      /\ event_dispatch_depth' \in [Event -> Nat]
      /\ audit' \in Seq([listed : SUBSET Token, calls : Seq(Token)])
      /\ ref_count' \in [Token -> Nat]
      /\ FrameInv'
      /\ DepthInv'
      /\ Ownership'
  <2> HIDE DEF s
  <2> QED BY <1>1, <1>2, <1>3, <1>4, PushLemma
<1>6. TypeOK'
  BY <1>1, <1>3, <1>5 DEF IInv, TypeOK
<1>7. ListInv'
  BY <1>1 DEF IInv, ListInv
<1>8. NothingStuck'
  BY <1>1 DEF NothingStuck
<1> QED BY <1>5, <1>6, <1>7, <1>8 DEF IInv

(* The bus is freed, and nothing is left of it.                            *)
LEMMA DeinitStep ==
  ASSUME IInv, mc_runtime_events_deinit
  PROVE  IInv'
<1>1. /\ stack = <<>>
      /\ up' = FALSE
      /\ subscriptions' = [e \in Event |-> <<>>]
      /\ active' = active \ Listed
      /\ Unref(Listed)
      /\ pending' = <<>>
      /\ UNCHANGED <<next_token, sub, errors, stack, dispatch_depth, event_dispatch_depth, audit,
                     draining, published, purging>>
  BY DEF mc_runtime_events_deinit, dispatchVars
<1>2. \A e \in Event : subscriptions'[e] = <<>> /\ Len(subscriptions'[e]) = 0
  BY <1>1
<1>3. Listed' = {}
  <2>1. \A e \in Event : Range(subscriptions'[e]) = {}
    BY <1>2 DEF Range
  <2> QED BY <2>1 DEF Listed
<1>4. \A t : Holders(t) = {} /\ Holders(t)' = {} /\ Cardinality(Holders(t)) = 0
  <2>1. \A t : Holders(t) = {} /\ Holders(t)' = {}
    BY <1>1 DEF Holders
  <2> QED BY <2>1, FS_EmptySet
<1>5. \A t \in Token : ref_count[t] = IF t \in Listed THEN 1 ELSE 0
  BY <1>4 DEF IInv, Ownership
<1>6. \A t \in Token : ref_count'[t] = 0
  BY <1>1, <1>5 DEF Unref
<1>7. \A t \in Token : destroyed'[t] = IF t < next_token THEN 1 ELSE 0
  <2> SUFFICES ASSUME NEW t \in Token
               PROVE  destroyed'[t] = IF t < next_token THEN 1 ELSE 0
    OBVIOUS
  <2>1. destroyed[t] = IF t < next_token /\ ref_count[t] = 0 THEN 1 ELSE 0
    BY DEF IInv, Ownership
  <2>2. t \in Listed => t < next_token
    <3>1. CASE t >= next_token
      BY <3>1, UnusedTokens
    <3>2. t >= next_token \/ t < next_token
      BY DEF IInv, TypeOK, Token
    <3> QED BY <3>1, <3>2
  <2> QED BY <2>1, <2>2, <1>1, <1>5 DEF Unref
<1>8. TypeOK'
  <2>1. subscriptions' \in [Event -> Seq(Token)] /\ active' \subseteq Token /\ pending' \in Seq(Snapshot)
    BY <1>1 DEF IInv, TypeOK
  <2>2. ref_count' \in [Token -> Nat] /\ destroyed' \in [Token -> Nat]
    BY <1>1, <1>5, <1>6, <1>7 DEF Unref, IInv, TypeOK
  <2> QED BY <1>1, <2>1, <2>2 DEF IInv, TypeOK
<1>9. ListInv'
  BY <1>2 DEF ListInv
<1>10. FrameInv' /\ DepthInv'
  BY <1>1 DEF IInv, FrameInv, DepthInv
<1>11. Ownership'
  <2>1. active' = {}
    BY <1>1 DEF IInv, TypeOK, Ownership
  <2>2. \A t \in Token : Cardinality(Holders(t)') = 0
    BY <1>4, FS_EmptySet
  <2> QED BY <1>1, <1>3, <1>6, <1>7, <2>1, <2>2 DEF Ownership
<1>12. NothingStuck'
  BY <1>1 DEF NothingStuck
<1> QED BY <1>8, <1>9, <1>10, <1>11, <1>12 DEF IInv

(* The invariant holds at first.                                           *)
LEMMA InitInv ==
  ASSUME Init
  PROVE  IInv
<1> USE DEF Init
<1>1. \A e \in Event : subscriptions[e] = <<>> /\ Len(subscriptions[e]) = 0
  OBVIOUS
<1>2. Listed = {}
  <2>1. \A e \in Event : Range(subscriptions[e]) = {}
    BY <1>1 DEF Range
  <2> QED BY <2>1 DEF Listed
<1>3. \A t : Cardinality(Holders(t)) = 0
  <2>1. \A t : Holders(t) = {}
    BY DEF Holders
  <2> QED BY <2>1, FS_EmptySet
<1>4. Subscription # {}
  <2>1. PICK q \in Priority, c \in Context : TRUE
    BY PriorityAssumption, ContextAssumption
  <2>2. [event |-> Selection, priority |-> q, context |-> c] \in Subscription
    BY EventAssumption DEF Subscription
  <2> QED BY <2>2
<1>5. TypeOK
  <2>1. sub \in [Token -> Subscription]
    <3>1. (CHOOSE s \in Subscription : TRUE) \in Subscription
      BY <1>4
    <3> QED BY <3>1
  <2>2. next_token \in 1 .. MaxTokens + 1 /\ published \in 0 .. MaxPublish
    BY BoundsAssumption
  <2>3. /\ up \in BOOLEAN /\ draining \in BOOLEAN /\ purging \in Context \cup {NoContext}
        /\ subscriptions \in [Event -> Seq(Token)] /\ active \subseteq Token
        /\ ref_count \in [Token -> Nat] /\ errors \in [Token -> Nat]
        /\ destroyed \in [Token -> Nat] /\ stack \in Seq(Frame) /\ dispatch_depth \in Nat
        /\ event_dispatch_depth \in [Event -> Nat] /\ pending \in Seq(Snapshot)
        /\ audit \in Seq([listed : SUBSET Token, calls : Seq(Token)])
    <3> HIDE DEF Init
    <3>1. /\ subscriptions = [e \in Event |-> <<>>] /\ stack = <<>> /\ pending = <<>> /\ audit = <<>>
      BY DEF Init
    <3>2. /\ subscriptions \in [Event -> Seq(Token)] /\ stack \in Seq(Frame)
          /\ pending \in Seq(Snapshot)
          /\ audit \in Seq([listed : SUBSET Token, calls : Seq(Token)])
      BY <3>1
    <3>3. /\ up \in BOOLEAN /\ draining \in BOOLEAN /\ purging \in Context \cup {NoContext}
          /\ active \subseteq Token /\ dispatch_depth \in Nat
      BY DEF Init
    <3>4. /\ ref_count \in [Token -> Nat] /\ errors \in [Token -> Nat]
          /\ destroyed \in [Token -> Nat] /\ event_dispatch_depth \in [Event -> Nat]
      BY DEF Init
    <3> QED BY <3>2, <3>3, <3>4
  <2> HIDE DEF Init
  <2> QED BY <2>1, <2>2, <2>3 DEF TypeOK
<1>6. ListInv
  BY <1>1 DEF ListInv
<1>7. FrameInv /\ DepthInv /\ NothingStuck
  BY DEF FrameInv, DepthInv, NothingStuck
<1>8. Ownership
  <2>1. \A t \in Token : ~(t < next_token)
    BY DEF Token
  <2> QED BY <1>2, <1>3, <2>1 DEF Ownership
<1> QED BY <1>5, <1>6, <1>7, <1>8 DEF IInv

-----------------------------------------------------------------------------
(* The inductive invariant, and what follows from it.                      *)

(* Every step keeps the invariant.                                         *)
LEMMA StepInv ==
  ASSUME IInv, [Next]_vars
  PROVE  IInv'
<1>1. CASE Code
  <2>1. ASSUME NEW c \in Context, NEW e \in Event, NEW p \in Priority,
               mc_runtime_events_subscribe(c, e, p)
        PROVE  IInv'
    BY <2>1, SubscribeStep
  <2>2. ASSUME NEW c \in Context, NEW t \in Token, mc_runtime_events_unsubscribe(c, t)
        PROVE  IInv'
    BY <2>2, UnsubscribeStep
  <2>3. ASSUME NEW c \in Context, UnsubscribeAllBegin(c)
        PROVE  IInv'
    BY <2>3, UnsubscribeAllBounds
  <2>4. ASSUME NEW e \in Event, NEW p \in Panel \cup {NoPanel}, mc_runtime_event_publish(e, p)
        PROVE  IInv'
    BY <2>4, PublishStep
  <2>5. CASE mc_runtime_events_deinit
    BY <2>5, DeinitStep
  <2> QED BY <1>1, <2>1, <2>2, <2>3, <2>4, <2>5 DEF Code
<1>2. CASE Return
  BY <1>2, PlainReturnStep, ReturnErrorStep DEF Return
<1>3. CASE Bus
  <2>1. ASSUME NEW t \in Token, UnsubscribeAllStep(t)
        PROVE  IInv'
    BY <2>1, UnsubscribeAllStepStep
  <2>2. CASE UnsubscribeAllEnd
    BY <2>2, UnsubscribeAllBounds
  <2>3. CASE Call
    BY <2>3, CallStep
  <2>4. CASE EndDispatch
    BY <2>4, EndDispatchLemma
  <2>5. CASE DrainNext
    BY <2>5, DrainNextStep
  <2>6. CASE DrainEnd
    BY <2>6, DrainEndStep
  <2> QED BY <1>3, <2>1, <2>2, <2>3, <2>4, <2>5, <2>6 DEF Bus
<1>4. CASE UNCHANGED vars
  <2>1. /\ UNCHANGED <<up, subVars, dispatchVars, pending, published>>
        /\ purging' = purging /\ draining' = draining
    BY <1>4 DEF vars, queueVars
  <2>2. purging' \in Context \cup {NoContext} /\ draining' \in BOOLEAN
    BY <2>1 DEF IInv, TypeOK
  <2> QED BY <2>1, <2>2, QuietStep
<1> QED BY <1>1, <1>2, <1>3, <1>4 DEF Next

(* Every reachable state of the bus satisfies the inductive invariant.     *)
THEOREM InductiveInvariant == Spec => []IInv
<1>1. Init => IInv
  BY InitInv
<1>2. IInv /\ [Next]_vars => IInv'
  BY StepInv
<1> QED BY <1>1, <1>2, PTL DEF Spec

(* The state of the bus keeps its types: positions stay inside the copied  *)
(* lists, reference counts and depths never go below zero.                 *)
THEOREM TypeCorrect == Spec => []TypeOK
<1>1. IInv => TypeOK
  BY DEF IInv
<1> QED BY <1>1, InductiveInvariant, PTL

(* mc_runtime_event_subscription_unref frees a subscription exactly when   *)
(* neither the list nor a dispatch on the stack holds it, and its user     *)
(* data is destroyed exactly once.                                         *)
THEOREM OwnershipHolds == Spec => []Ownership
<1>1. IInv => Ownership
  BY DEF IInv
<1> QED BY <1>1, InductiveInvariant, PTL

(* The drain loop never leaves an event in the queue when it gives control *)
(* back to the main loop.                                                  *)
THEOREM NothingStuckHolds == Spec => []NothingStuck
<1>1. IInv => NothingStuck
  BY DEF IInv
<1> QED BY <1>1, InductiveInvariant, PTL

(* Queueing an event of a kind in dispatch keeps every callback of the bus *)
(* from being entered again before it has returned.                        *)
THEOREM NeverReenteredHolds == Spec => []NeverReentered
<1>1. ASSUME IInv PROVE NeverReentered
  <2>1. stack \in Seq(Frame) /\ DOMAIN stack = 1 .. Len(stack)
    BY <1>1, LenProperties DEF IInv, TypeOK
  <2>2. \A i, j \in DOMAIN stack : i # j => stack[i].snapshot.event # stack[j].snapshot.event
    BY <1>1, <2>1 DEF IInv, DepthInv
  <2>3. ASSUME NEW i \in DOMAIN stack, NEW j \in DOMAIN stack, i # j,
               stack[i].running, stack[j].running
        PROVE  stack[i].list[stack[i].pos] # stack[j].list[stack[j].pos]
    <3>1. ASSUME NEW k \in DOMAIN stack, stack[k].running
          PROVE  sub[stack[k].list[stack[k].pos]].event = stack[k].snapshot.event
      <4>1. stack[k].pos \in 1 .. Len(stack[k].list)
        BY <1>1, <2>1, <3>1 DEF IInv, FrameInv
      <4> QED BY <1>1, <2>1, <4>1 DEF IInv, FrameInv
    <3>2. sub[stack[i].list[stack[i].pos]].event # sub[stack[j].list[stack[j].pos]].event
      BY <2>2, <2>3, <3>1
    <3> QED BY <3>2
  <2> QED BY <2>2, <2>3 DEF NeverReentered
<1>2. IInv => NeverReentered
  BY <1>1
<1> QED BY <1>2, InductiveInvariant, PTL

(* event_dispatch_depth and dispatch_depth count the dispatches on the C   *)
(* stack, so dispatch_or_queue decides by what is really running.          *)
THEOREM DepthCountersHolds == Spec => []DepthCounters
<1>1. ASSUME IInv PROVE DepthCounters
  <2>1. Len(stack) \in Nat /\ DOMAIN stack = 1 .. Len(stack)
    BY <1>1, LenProperties DEF IInv, TypeOK
  <2>2. dispatch_depth = Depth
    BY <1>1 DEF IInv, DepthInv, Depth
  <2>3. ASSUME NEW e \in Event
        PROVE  event_dispatch_depth[e] = Cardinality({i \in DOMAIN stack : stack[i].snapshot.event = e})
    <3> DEFINE T == {i \in DOMAIN stack : stack[i].snapshot.event = e}
    <3>1. CASE \E k \in 1 .. Len(stack) : stack[k].snapshot.event = e
      <4>1. PICK k \in 1 .. Len(stack) : stack[k].snapshot.event = e
        BY <3>1
      <4>2. \A i \in 1 .. Len(stack) : stack[i].snapshot.event = e => i = k
        BY <1>1, <4>1 DEF IInv, DepthInv
      <4>3. T = {k}
        BY <2>1, <4>1, <4>2
      <4>4. Cardinality(T) = 1
        BY <4>3, FS_Singleton
      <4>5. event_dispatch_depth[e] = 1
        BY <1>1, <3>1 DEF IInv, DepthInv
      <4> QED BY <4>4, <4>5
    <3>2. CASE ~ \E k \in 1 .. Len(stack) : stack[k].snapshot.event = e
      <4>1. T = {}
        BY <2>1, <3>2
      <4>2. Cardinality(T) = 0
        BY <4>1, FS_EmptySet
      <4>3. event_dispatch_depth[e] = 0
        BY <1>1, <3>2 DEF IInv, DepthInv
      <4> QED BY <4>2, <4>3
    <3> QED BY <3>1, <3>2
  <2> QED BY <2>2, <2>3 DEF DepthCounters
<1>2. IInv => DepthCounters
  BY <1>1
<1> QED BY <1>2, InductiveInvariant, PTL

-----------------------------------------------------------------------------
(* Second part: what is delivered.                                         *)

(* Ordered, with the subscriptions as a parameter.                         *)
InOrder(p, s) ==
  \A i, j \in DOMAIN s : i < j =>
    \/ p[s[i]].priority > p[s[j]].priority
    \/ p[s[i]].priority = p[s[j]].priority /\ s[i] < s[j]

(* The frame's dispatch is past the i-th entry of its list: it called it,  *)
(* is calling it, or skipped it.                                           *)
Reached(f, i) == i < f.pos \/ (i = f.pos /\ f.running)

(* A dispatch works on an ordered copy of the list it was given, has       *)
(* called only entries it reached, in the order of the list, and every     *)
(* active one of them unless the event was consumed.  p stands for sub and *)
(* on for active.                                                          *)
ServiceOf(p, on, f, a) ==
  /\ InOrder(p, f.list)
  /\ a.listed = Range(f.list)
  /\ InOrder(p, a.calls)
  /\ \A m \in 1 .. Len(a.calls) :
       \E i \in 1 .. Len(f.list) : a.calls[m] = f.list[i] /\ Reached(f, i)
  /\ ~f.snapshot.consumed =>
       \A i \in 1 .. Len(f.list) :
         (Reached(f, i) /\ f.list[i] \in on) => f.list[i] \in Range(a.calls)

ServiceInv == \A k \in 1 .. Len(stack) : ServiceOf(sub, active, stack[k], audit[k])

ListOrder == \A e \in Event : InOrder(sub, subscriptions[e])

OrderInv == ListOrder /\ ServiceInv

Record == [listed : SUBSET Token, calls : Seq(Token)]

-----------------------------------------------------------------------------
(* Sequences in calling order.                                             *)

(* The parameterised order is the one the property speaks of.              *)
LEMMA OrderedInOrder ==
  ASSUME NEW s
  PROVE  Ordered(s) <=> InOrder(sub, s)
BY DEF Ordered, InOrder, Before

(* Taking an entry away leaves the others in order.                        *)
LEMMA InOrderRemove ==
  ASSUME NEW p, NEW s \in Seq(Token), NEW i \in 1 .. Len(s), InOrder(p, s)
  PROVE  InOrder(p, RemoveAt(s, i))
<1> DEFINE r == RemoveAt(s, i)
<1>1. /\ DOMAIN r = 1 .. Len(s) - 1
      /\ \A j \in 1 .. Len(s) - 1 : r[j] = IF j < i THEN s[j] ELSE s[j + 1]
  BY RemoveAtProperties
<1>2. Len(s) \in Nat /\ DOMAIN s = 1 .. Len(s)
  BY LenProperties
<1>3. \A j \in 1 .. Len(s) - 1 : /\ j \in 1 .. Len(s) /\ j + 1 \in 1 .. Len(s)
                                 /\ r[j] \in {s[j], s[j + 1]}
  BY <1>1, <1>2
<1> HIDE DEF r
<1>4. ASSUME NEW j \in DOMAIN r, NEW k \in DOMAIN r, j < k
      PROVE  \E m, n \in DOMAIN s : m < n /\ r[j] = s[m] /\ r[k] = s[n]
  <2>1. /\ j \in 1 .. Len(s) /\ j + 1 \in 1 .. Len(s) /\ k \in 1 .. Len(s) /\ k + 1 \in 1 .. Len(s)
        /\ j < k + 1 /\ j + 1 < k + 1 /\ (k < i => j < i)
    BY <1>1, <1>2, <1>4
  <2>2. /\ r[j] = IF j < i THEN s[j] ELSE s[j + 1]
        /\ r[k] = IF k < i THEN s[k] ELSE s[k + 1]
    BY <1>1, <1>4
  <2>3. CASE j < i /\ k < i
    BY <2>1, <2>2, <2>3, <1>2, <1>4
  <2>4. CASE j < i /\ ~(k < i)
    BY <2>1, <2>2, <2>4, <1>2
  <2>5. CASE ~(j < i)
    <3>1. ~(k < i)
      BY <2>1, <2>5
    <3> QED BY <2>1, <2>2, <2>5, <3>1, <1>2
  <2> QED BY <2>3, <2>4, <2>5
<1> QED BY <1>4 DEF InOrder, r

(* Whether a sequence is in order depends on its own entries only.         *)
LEMMA InOrderKept ==
  ASSUME NEW p, NEW q, NEW s, InOrder(p, s), \A i \in DOMAIN s : q[s[i]] = p[s[i]]
  PROVE  InOrder(q, s)
BY DEF InOrder

(* Appending an entry that comes after all the others.                     *)
LEMMA InOrderAppend ==
  ASSUME NEW p, NEW s \in Seq(Token), NEW x \in Token, InOrder(p, s),
         \A m \in 1 .. Len(s) :
           \/ p[s[m]].priority > p[x].priority
           \/ p[s[m]].priority = p[x].priority /\ s[m] < x
  PROVE  InOrder(p, Append(s, x))
<1> DEFINE r == Append(s, x)
<1>1. /\ DOMAIN r = 1 .. Len(s) + 1
      /\ r[Len(s) + 1] = x
      /\ \A j \in 1 .. Len(s) : r[j] = s[j]
  BY AppendLemma
<1>2. Len(s) \in Nat /\ DOMAIN s = 1 .. Len(s)
  BY LenProperties
<1> HIDE DEF r
<1> SUFFICES ASSUME NEW i \in 1 .. Len(s) + 1, NEW j \in 1 .. Len(s) + 1, i < j
             PROVE  \/ p[r[i]].priority > p[r[j]].priority
                    \/ p[r[i]].priority = p[r[j]].priority /\ r[i] < r[j]
  BY <1>1 DEF InOrder, r
<1>3. i \in 1 .. Len(s) /\ (j \in 1 .. Len(s) \/ j = Len(s) + 1)
  BY <1>2
<1>4. CASE j \in 1 .. Len(s)
  BY <1>1, <1>2, <1>3, <1>4 DEF InOrder
<1>5. CASE j = Len(s) + 1
  BY <1>1, <1>3, <1>5
<1> QED BY <1>3, <1>4, <1>5

(* InsertPosition finds the place of a newcomer: after every entry of its  *)
(* priority or a higher one, before the first of a lower one.              *)
LEMMA InsertPositionPlace ==
  ASSUME TypeOK, NEW s \in Seq(Token), NEW p \in Priority
  PROVE  /\ InsertPosition(s, p) \in 1 .. Len(s) + 1
         /\ \A j \in 1 .. Len(s) : j < InsertPosition(s, p) => sub[s[j]].priority >= p
         /\ InsertPosition(s, p) <= Len(s) => p > sub[s[InsertPosition(s, p)]].priority
<1> DEFINE Low == {i \in DOMAIN s : p > sub[s[i]].priority}
           Best(i) == /\ p > sub[s[i]].priority
                      /\ \A j \in 1 .. i - 1 : p <= sub[s[j]].priority
           c == CHOOSE i \in DOMAIN s : Best(i)
<1>1. Len(s) \in Nat /\ DOMAIN s = 1 .. Len(s) /\ \A j \in 1 .. Len(s) : s[j] \in Token
  BY LenProperties, ElementOfSeq
<1>2. \A j \in 1 .. Len(s) : sub[s[j]].priority \in Int
  BY <1>1, PriorityAssumption DEF TypeOK, Subscription
<1>3. p \in Int
  BY PriorityAssumption
<1>4. CASE Low # {}
  <2>1. Low \in SUBSET Nat
    BY <1>1
  <2>2. PICK m \in Low : \A k \in Low : m <= k
    BY <1>4, <2>1, LeastNatural
  <2>3. m \in DOMAIN s /\ p > sub[s[m]].priority
    BY <2>2
  <2>4. \A j \in 1 .. m - 1 : p <= sub[s[j]].priority
    <3> TAKE j \in 1 .. m - 1
    <3>1. j \in 1 .. Len(s) /\ ~(m <= j)
      BY <1>1, <2>3
    <3>2. j \notin Low
      BY <2>2, <3>1
    <3> QED BY <3>1, <3>2, <1>1, <1>2, <1>3
  <2>5. Best(m)
    BY <2>3, <2>4
  <2>6. c \in DOMAIN s /\ Best(c)
    <3> HIDE DEF Best
    <3> QED BY <2>3, <2>5
  <2>7. InsertPosition(s, p) = c
    BY <1>4 DEF InsertPosition
  <2> HIDE DEF c
  <2> QED BY <1>1, <1>2, <1>3, <2>6, <2>7
<1>5. CASE Low = {}
  <2>1. \A j \in 1 .. Len(s) : ~(p > sub[s[j]].priority)
    BY <1>1, <1>5
  <2>2. InsertPosition(s, p) = Len(s) + 1
    BY <1>5 DEF InsertPosition
  <2> QED BY <1>1, <1>2, <1>3, <2>1, <2>2
<1> QED BY <1>4, <1>5

(* A newcomer, of the highest token so far, inserted at its place.         *)
LEMMA InOrderInsert ==
  ASSUME NEW q \in [Token -> Subscription], NEW s \in Seq(Token), NEW t \in Token,
         NEW i \in 1 .. Len(s) + 1, InOrder(q, s),
         \A j \in 1 .. Len(s) : s[j] < t,
         \A j \in 1 .. Len(s) : j < i => q[s[j]].priority >= q[t].priority,
         i <= Len(s) => q[t].priority > q[s[i]].priority
  PROVE  InOrder(q, InsertAt(s, i, t))
<1> DEFINE r == InsertAt(s, i, t)
<1>1. /\ DOMAIN r = 1 .. Len(s) + 1
      /\ \A j \in 1 .. Len(s) + 1 : r[j] = IF j < i THEN s[j] ELSE IF j = i THEN t ELSE s[j - 1]
  BY InsertAtProperties
<1>2. Len(s) \in Nat /\ DOMAIN s = 1 .. Len(s) /\ \A j \in 1 .. Len(s) : s[j] \in Token
  BY LenProperties, ElementOfSeq
<1>3. \A x \in Token : q[x].priority \in Int
  BY PriorityAssumption DEF Subscription
<1>4. ASSUME NEW j \in 1 .. Len(s), NEW k \in 1 .. Len(s), j < k
      PROVE  q[s[j]].priority >= q[s[k]].priority
  <2>1. q[s[j]].priority \in Int /\ q[s[k]].priority \in Int
    BY <1>2, <1>3
  <2>2. q[s[j]].priority > q[s[k]].priority \/ q[s[j]].priority = q[s[k]].priority
    BY <1>2, <1>4 DEF InOrder
  <2> QED BY <2>1, <2>2
<1>5. \A k \in 1 .. Len(s) : k >= i => q[t].priority > q[s[k]].priority
  <2> TAKE k \in 1 .. Len(s)
  <2> HAVE k >= i
  <2>1. i \in 1 .. Len(s)
    BY <1>2
  <2>2. k = i \/ i < k
    BY <1>2
  <2>3. q[s[i]].priority >= q[s[k]].priority
    BY <1>2, <1>3, <1>4, <2>1, <2>2
  <2> QED BY <1>2, <1>3, <2>1, <2>3
<1> HIDE DEF r
<1> SUFFICES ASSUME NEW j \in 1 .. Len(s) + 1, NEW k \in 1 .. Len(s) + 1, j < k
             PROVE  \/ q[r[j]].priority > q[r[k]].priority
                    \/ q[r[j]].priority = q[r[k]].priority /\ r[j] < r[k]
  BY <1>1 DEF InOrder, r
<1>6. CASE k < i
  <2>1. j \in 1 .. Len(s) /\ k \in 1 .. Len(s) /\ r[j] = s[j] /\ r[k] = s[k]
    BY <1>1, <1>2, <1>6
  <2> QED BY <2>1, <1>2 DEF InOrder
<1>7. CASE k = i
  <2>1. j \in 1 .. Len(s) /\ j < i /\ r[j] = s[j] /\ r[k] = t
    BY <1>1, <1>2, <1>7
  <2>2. q[s[j]].priority >= q[t].priority /\ s[j] < t
    BY <2>1
  <2> QED BY <2>1, <2>2, <1>2, <1>3
<1>8. CASE k > i
  <2>1. k - 1 \in 1 .. Len(s) /\ k - 1 >= i /\ r[k] = s[k - 1]
    BY <1>1, <1>2, <1>8
  <2>2. CASE j < i
    <3>1. j \in 1 .. Len(s) /\ r[j] = s[j] /\ j < k - 1
      BY <1>1, <1>2, <1>8, <2>2
    <3> QED BY <3>1, <2>1, <1>2 DEF InOrder
  <2>3. CASE j = i
    BY <2>1, <2>3, <1>1, <1>5
  <2>4. CASE j > i
    <3>1. j - 1 \in 1 .. Len(s) /\ r[j] = s[j - 1] /\ j - 1 < k - 1
      BY <1>1, <1>2, <2>4
    <3> QED BY <3>1, <2>1, <1>2 DEF InOrder
  <2> QED BY <1>2, <2>2, <2>3, <2>4
<1> QED BY <1>2, <1>6, <1>7, <1>8

-----------------------------------------------------------------------------
(* One dispatch.                                                           *)

(* Changes elsewhere leave a dispatch's record as it is.                   *)
LEMMA ServiceKept ==
  ASSUME NEW p, NEW q, NEW on, NEW on2, NEW f \in Frame, NEW a \in Record,
         ServiceOf(p, on, f, a),
         \A i \in 1 .. Len(f.list) : /\ q[f.list[i]] = p[f.list[i]]
                                     /\ f.list[i] \in on2 => f.list[i] \in on
  PROVE  ServiceOf(q, on2, f, a)
<1>1. DOMAIN f.list = 1 .. Len(f.list) /\ DOMAIN a.calls = 1 .. Len(a.calls)
  BY LenProperties DEF Frame, Record
<1>2. InOrder(q, f.list)
  BY <1>1, InOrderKept DEF ServiceOf
<1>3. ASSUME NEW m \in 1 .. Len(a.calls) PROVE q[a.calls[m]] = p[a.calls[m]]
  <2>1. PICK i \in 1 .. Len(f.list) : a.calls[m] = f.list[i]
    BY DEF ServiceOf
  <2> QED BY <2>1
<1>4. InOrder(q, a.calls)
  BY <1>1, <1>3, InOrderKept DEF ServiceOf
<1> QED BY <1>2, <1>4 DEF ServiceOf

(* A dispatch begins: nothing called, nothing reached.                     *)
LEMMA ServiceBegins ==
  ASSUME NEW p, NEW on, NEW f \in Frame, NEW a \in Record,
         InOrder(p, f.list), f.pos = 1, ~f.running, a.listed = Range(f.list), a.calls = <<>>
  PROVE  ServiceOf(p, on, f, a)
<1>1. ~\E i \in 1 .. Len(f.list) : Reached(f, i)
  BY LenProperties DEF Reached, Frame
<1>2. Len(a.calls) = 0 /\ InOrder(p, a.calls)
  BY DEF InOrder
<1> QED BY <1>1, <1>2 DEF ServiceOf

(* The dispatch calls the next active entry.                               *)
LEMMA ServiceCalls ==
  ASSUME NEW p, NEW on, NEW f \in Frame, NEW a \in Record, NEW g \in Frame, NEW b \in Record,
         NEW i \in 1 .. Len(f.list), ServiceOf(p, on, f, a), ~f.running, f.pos <= i,
         \A j \in f.pos .. i - 1 : f.list[j] \notin on,
         g.list = f.list, g.snapshot = f.snapshot, g.pos = i, g.running,
         b.listed = a.listed, b.calls = Append(a.calls, f.list[i])
  PROVE  ServiceOf(p, on, g, b)
<1> DEFINE x == f.list[i]
<1>1. /\ f.list \in Seq(Token) /\ a.calls \in Seq(Token) /\ f.pos \in Nat
      /\ DOMAIN f.list = 1 .. Len(f.list) /\ Len(f.list) \in Nat
      /\ Len(a.calls) \in Nat /\ DOMAIN a.calls = 1 .. Len(a.calls)
  BY LenProperties DEF Frame, Record
<1>2. x \in Token
  BY <1>1, ElementOfSeq
<1> HIDE DEF x
<1>3. /\ DOMAIN b.calls = 1 .. Len(a.calls) + 1
      /\ Len(b.calls) = Len(a.calls) + 1
      /\ b.calls[Len(a.calls) + 1] = x
      /\ \A m \in 1 .. Len(a.calls) : b.calls[m] = a.calls[m]
  BY <1>1, <1>2, AppendLemma DEF x
<1>4. \A k \in 1 .. Len(f.list) : Reached(f, k) => k < i
  BY <1>1 DEF Reached
<1>5. \A k \in 1 .. Len(f.list) : Reached(f, k) => Reached(g, k)
  BY <1>4 DEF Reached
<1>6. InOrder(p, b.calls)
  <2>1. ASSUME NEW m \in 1 .. Len(a.calls)
        PROVE  \/ p[a.calls[m]].priority > p[x].priority
               \/ p[a.calls[m]].priority = p[x].priority /\ a.calls[m] < x
    <3>1. PICK k \in 1 .. Len(f.list) : a.calls[m] = f.list[k] /\ Reached(f, k)
      BY DEF ServiceOf
    <3>2. k \in DOMAIN f.list /\ i \in DOMAIN f.list /\ k < i
      BY <3>1, <1>1, <1>4
    <3>3. InOrder(p, f.list)
      BY DEF ServiceOf
    <3> QED BY <3>1, <3>2, <3>3 DEF InOrder, x
  <2>2. InOrder(p, a.calls)
    BY DEF ServiceOf
  <2> QED BY <2>1, <2>2, <1>1, <1>2, InOrderAppend DEF x
<1>7. ASSUME NEW m \in 1 .. Len(b.calls)
      PROVE  \E k \in 1 .. Len(g.list) : b.calls[m] = g.list[k] /\ Reached(g, k)
  <2>1. CASE m \in 1 .. Len(a.calls)
    <3>1. PICK k \in 1 .. Len(f.list) : a.calls[m] = f.list[k] /\ Reached(f, k)
      BY <2>1 DEF ServiceOf
    <3> QED BY <3>1, <2>1, <1>3, <1>5
  <2>2. CASE m = Len(a.calls) + 1
    BY <2>2, <1>3 DEF Reached, x
  <2> QED BY <1>1, <1>3, <2>1, <2>2
<1>8. Range(a.calls) \subseteq Range(b.calls) /\ x \in Range(b.calls)
  BY <1>1, <1>3 DEF Range
<1>9. ASSUME ~g.snapshot.consumed, NEW k \in 1 .. Len(g.list), Reached(g, k), g.list[k] \in on
      PROVE  g.list[k] \in Range(b.calls)
  <2>1. k < f.pos \/ k \in f.pos .. i - 1 \/ k = i
    BY <1>1, <1>9 DEF Reached
  <2>2. CASE k < f.pos
    BY <2>2, <1>8, <1>9 DEF ServiceOf, Reached
  <2>3. CASE k \in f.pos .. i - 1
    BY <2>3, <1>9
  <2>4. CASE k = i
    BY <2>4, <1>8 DEF x
  <2> QED BY <2>1, <2>2, <2>3, <2>4
<1> QED BY <1>6, <1>7, <1>9 DEF ServiceOf

(* The callback returns, and the dispatch goes on or is over.              *)
LEMMA ServiceReturns ==
  ASSUME NEW p, NEW on, NEW f \in Frame, NEW a \in Record, NEW g \in Frame,
         ServiceOf(p, on, f, a), f.running, f.pos \in 1 .. Len(f.list),
         g.list = f.list, ~g.running,
         \/ g.pos = f.pos + 1 /\ g.snapshot = f.snapshot
         \/ g.pos = Len(f.list) + 1 /\ g.snapshot.consumed
  PROVE  ServiceOf(p, on, g, a)
<1>1. f.pos \in Nat /\ Len(f.list) \in Nat
  BY LenProperties DEF Frame
<1>2. \A k \in 1 .. Len(f.list) : Reached(f, k) => Reached(g, k)
  BY <1>1 DEF Reached
<1>3. ~g.snapshot.consumed => \A k \in 1 .. Len(f.list) : Reached(g, k) => Reached(f, k)
  BY <1>1 DEF Reached
<1>4. ~g.snapshot.consumed => ~f.snapshot.consumed
  OBVIOUS
<1>5. \A m \in 1 .. Len(a.calls) :
        \E k \in 1 .. Len(g.list) : a.calls[m] = g.list[k] /\ Reached(g, k)
  BY <1>2 DEF ServiceOf
<1> QED BY <1>3, <1>4, <1>5 DEF ServiceOf

-----------------------------------------------------------------------------
(* The steps of the bus, by what they do to the lists and to the stack.    *)

(* The subscriptions change by a subscription, by turning one off, or when *)
(* the bus is freed.                                                       *)
LEMMA SubscriptionMoves ==
  ASSUME IInv, [Next]_vars
  PROVE  \/ UNCHANGED <<sub, subscriptions, active, next_token>>
         \/ \E t \in Listed : Deactivate(t) /\ UNCHANGED <<sub, next_token>>
         \/ \E c \in Context, e \in Event, p \in Priority : mc_runtime_events_subscribe(c, e, p)
         \/ mc_runtime_events_deinit
<1>1. CASE Code
  <2>1. ASSUME NEW c \in Context, NEW t \in Token, mc_runtime_events_unsubscribe(c, t)
        PROVE  \E u \in Listed : Deactivate(u) /\ UNCHANGED <<sub, next_token>>
    BY <2>1 DEF mc_runtime_events_unsubscribe
  <2>2. ASSUME NEW c \in Context, UnsubscribeAllBegin(c)
        PROVE  UNCHANGED <<sub, subscriptions, active, next_token>>
    BY <2>2 DEF UnsubscribeAllBegin, subVars
  <2>3. ASSUME NEW e \in Event, NEW p \in Panel \cup {NoPanel}, mc_runtime_event_publish(e, p)
        PROVE  UNCHANGED <<sub, subscriptions, active, next_token>>
    BY <2>3 DEF mc_runtime_event_publish
  <2> QED BY <1>1, <2>1, <2>2, <2>3 DEF Code
<1>2. CASE Return
  <2>1. CASE ReturnPass \/ ReturnConsume
    BY <2>1 DEF ReturnPass, ReturnConsume, subVars
  <2>2. CASE ReturnError
    <3> DEFINE t == Top.list[Top.pos]
    <3>1. /\ CodeRuns /\ stack # <<>> /\ UNCHANGED <<sub, next_token>>
          /\ \/ t \in active /\ Deactivate(t)
             \/ UNCHANGED <<subscriptions, active, ref_count, destroyed>>
      BY <2>2 DEF ReturnError
    <3>2. t \in Token
      <4>1. Top.running
        BY <3>1 DEF CodeRuns
      <4> QED BY <3>1, <4>1, TopFrame, ElementOfSeq
    <3>3. t \in active => t \in Listed
      BY <3>2 DEF IInv, Ownership
    <3> HIDE DEF t
    <3> QED BY <3>1, <3>3
  <2> QED BY <1>2, <2>1, <2>2 DEF Return
<1>3. CASE Bus
  <2>1. ASSUME NEW t \in Token, UnsubscribeAllStep(t)
        PROVE  \E u \in Listed : Deactivate(u) /\ UNCHANGED <<sub, next_token>>
    BY <2>1 DEF UnsubscribeAllStep, Owned
  <2>2. CASE UnsubscribeAllEnd \/ DrainEnd
    BY <2>2 DEF UnsubscribeAllEnd, DrainEnd, subVars
  <2>3. CASE Call
    BY <2>3 DEF Call, subVars
  <2>4. CASE EndDispatch
    BY <2>4 DEF EndDispatch
  <2>5. CASE DrainNext
    BY <2>5 DEF DrainNext
  <2> QED BY <1>3, <2>1, <2>2, <2>3, <2>4, <2>5 DEF Bus
<1>4. CASE UNCHANGED vars
  BY <1>4 DEF vars, subVars
<1> QED BY <1>1, <1>2, <1>3, <1>4 DEF Next

(* A subscription never changes, and one that is off stays off.            *)
LEMMA SubscriptionsKept ==
  ASSUME IInv, [Next]_vars, NEW t \in Token, t < next_token
  PROVE  sub'[t] = sub[t] /\ (t \in active' => t \in active)
<1>1. CASE UNCHANGED <<sub, subscriptions, active, next_token>>
  BY <1>1
<1>2. CASE \E u \in Listed : Deactivate(u) /\ UNCHANGED <<sub, next_token>>
  BY <1>2 DEF Deactivate
<1>3. ASSUME NEW c \in Context, NEW e \in Event, NEW p \in Priority,
             mc_runtime_events_subscribe(c, e, p)
      PROVE  sub'[t] = sub[t] /\ (t \in active' => t \in active)
  <2>1. /\ sub' = [sub EXCEPT ![next_token] = [event |-> e, priority |-> p, context |-> c]]
        /\ active' = active \cup {next_token}
    BY <1>3 DEF mc_runtime_events_subscribe
  <2>2. t # next_token
    BY DEF IInv, TypeOK, Token
  <2> QED BY <2>1, <2>2 DEF IInv, TypeOK
<1>4. CASE mc_runtime_events_deinit
  BY <1>4 DEF mc_runtime_events_deinit
<1> QED BY <1>1, <1>2, <1>3, <1>4, SubscriptionMoves

(* The stack changes by a dispatch that begins, calls, is returned to, or  *)
(* ends.                                                                   *)
LEMMA StackMoves ==
  ASSUME IInv, [Next]_vars
  PROVE  \/ UNCHANGED <<stack, audit>>
         \/ /\ \E s \in Snapshot, d \in BOOLEAN : BeginDispatch(s, d)
            /\ UNCHANGED <<sub, subscriptions, active, next_token>>
         \/ Call
         \/ Return
         \/ EndDispatch
<1>1. CASE Code
  <2>1. ASSUME NEW c \in Context, NEW e \in Event, NEW p \in Priority,
               mc_runtime_events_subscribe(c, e, p)
        PROVE  UNCHANGED <<stack, audit>>
    BY <2>1 DEF mc_runtime_events_subscribe, dispatchVars
  <2>2. ASSUME NEW c \in Context, NEW t \in Token, mc_runtime_events_unsubscribe(c, t)
        PROVE  UNCHANGED <<stack, audit>>
    BY <2>2 DEF mc_runtime_events_unsubscribe, dispatchVars
  <2>3. ASSUME NEW c \in Context, UnsubscribeAllBegin(c)
        PROVE  UNCHANGED <<stack, audit>>
    BY <2>3 DEF UnsubscribeAllBegin, dispatchVars
  <2>4. ASSUME NEW e \in Event, NEW p \in Panel \cup {NoPanel}, mc_runtime_event_publish(e, p)
        PROVE  \/ UNCHANGED <<stack, audit>>
               \/ /\ \E s \in Snapshot, d \in BOOLEAN : BeginDispatch(s, d)
                  /\ UNCHANGED <<sub, subscriptions, active, next_token>>
    <3> DEFINE s == [id |-> published + 1, event |-> e, panel |-> p, consumed |-> FALSE]
    <3>1. s \in Snapshot
      BY DEF IInv, TypeOK, Snapshot
    <3>2. \/ UNCHANGED <<ref_count, dispatchVars>>
          \/ BeginDispatch(s, FALSE) /\ UNCHANGED <<sub, subscriptions, active, next_token>>
      BY <2>4 DEF mc_runtime_event_publish
    <3> HIDE DEF s
    <3> QED BY <3>1, <3>2 DEF dispatchVars
  <2>5. CASE mc_runtime_events_deinit
    BY <2>5 DEF mc_runtime_events_deinit, dispatchVars
  <2> QED BY <1>1, <2>1, <2>2, <2>3, <2>4, <2>5 DEF Code
<1>2. CASE Bus
  <2>1. ASSUME NEW t \in Token, UnsubscribeAllStep(t)
        PROVE  UNCHANGED <<stack, audit>>
    BY <2>1 DEF UnsubscribeAllStep, dispatchVars
  <2>2. CASE UnsubscribeAllEnd \/ DrainEnd
    BY <2>2 DEF UnsubscribeAllEnd, DrainEnd, dispatchVars
  <2>3. CASE DrainNext
    <3>1. Head(pending) \in Snapshot
      BY <2>3, HeadTailProperties DEF DrainNext, IInv, TypeOK
    <3> QED BY <2>3, <3>1 DEF DrainNext
  <2> QED BY <1>2, <2>1, <2>2, <2>3 DEF Bus
<1>3. CASE UNCHANGED vars
  BY <1>3 DEF vars, dispatchVars
<1> QED BY <1>1, <1>2, <1>3 DEF Next

(* Every return replaces the innermost frame by one that called the same   *)
(* entries of the same list and waits for no callback.                     *)
LEMMA ReturnMoves ==
  ASSUME IInv, Return
  PROVE  /\ stack # <<>> /\ Top.running
         /\ audit' = audit
         /\ \E f \in {Pass, Consumed} : stack' = [stack EXCEPT ![Len(stack)] = f]
BY DEF Return, ReturnPass, ReturnConsume, ReturnError, CodeRuns, Depth

-----------------------------------------------------------------------------
(* The lists stay in calling order.                                        *)
LEMMA ListOrderStep ==
  ASSUME IInv, ListOrder, [Next]_vars
  PROVE  ListOrder'
<1>1. \A e \in Event : subscriptions[e] \in Seq(Token)
  BY DEF IInv, TypeOK
<1>2. CASE UNCHANGED <<sub, subscriptions, active, next_token>>
  BY <1>2 DEF ListOrder
<1>3. ASSUME NEW t \in Listed, Deactivate(t), UNCHANGED <<sub, next_token>>
      PROVE  ListOrder'
  <2> DEFINE e == sub[t].event
             s == subscriptions[e]
             i == CHOOSE j \in DOMAIN s : s[j] = t
  <2>1. e \in Event /\ s \in Seq(Token) /\ DOMAIN s = 1 .. Len(s)
    BY <1>1, ListedPlace, LenProperties DEF IInv
  <2>2. i \in 1 .. Len(s)
    BY <2>1, ListedPlace DEF IInv
  <2>3. subscriptions' = [subscriptions EXCEPT ![e] = RemoveAt(s, i)]
    BY <1>3 DEF Deactivate, Without
  <2>4. InOrder(sub, s)
    BY <2>1 DEF ListOrder
  <2> HIDE DEF e, s, i
  <2>5. InOrder(sub, RemoveAt(s, i))
    BY <2>1, <2>2, <2>4, InOrderRemove
  <2> QED BY <1>3, <2>1, <2>3, <2>5 DEF ListOrder, IInv, TypeOK
<1>4. ASSUME NEW c \in Context, NEW e \in Event, NEW p \in Priority,
             mc_runtime_events_subscribe(c, e, p)
      PROVE  ListOrder'
  <2> DEFINE t == next_token
             s == subscriptions[e]
             i == InsertPosition(s, p)
  <2>1. /\ t <= MaxTokens
        /\ sub' = [sub EXCEPT ![t] = [event |-> e, priority |-> p, context |-> c]]
        /\ subscriptions' = [subscriptions EXCEPT ![e] = InsertAt(s, i, t)]
    BY <1>4 DEF mc_runtime_events_subscribe
  <2>2. t \in Token /\ s \in Seq(Token) /\ \A j \in 1 .. Len(s) : s[j] < t
    BY <2>1, <1>1 DEF IInv, TypeOK, Token, ListInv
  <2>3. sub' \in [Token -> Subscription] /\ sub'[t].priority = p
    <3>1. [event |-> e, priority |-> p, context |-> c] \in Subscription
      BY DEF Subscription
    <3> QED BY <2>1, <2>2, <3>1 DEF IInv, TypeOK
  <2>4. \A u \in Token : u # t => sub'[u] = sub[u]
    BY <2>1, <2>2 DEF IInv, TypeOK
  <2>5. \A f \in Event : InOrder(sub', subscriptions[f])
    <3> TAKE f \in Event
    <3>1. DOMAIN subscriptions[f] = 1 .. Len(subscriptions[f])
      BY <1>1, LenProperties
    <3>2. \A j \in DOMAIN subscriptions[f] : sub'[subscriptions[f][j]] = sub[subscriptions[f][j]]
      <4> TAKE j \in DOMAIN subscriptions[f]
      <4>1. subscriptions[f][j] \in Token /\ subscriptions[f][j] < t
        BY <1>1, <3>1, ElementOfSeq DEF IInv, ListInv
      <4>2. subscriptions[f][j] # t
        BY <4>1, <2>2 DEF Token
      <4> QED BY <4>1, <4>2, <2>4
    <3> QED BY <3>2, InOrderKept DEF ListOrder
  <2>6. /\ i \in 1 .. Len(s) + 1
        /\ \A j \in 1 .. Len(s) : j < i => sub[s[j]].priority >= p
        /\ i <= Len(s) => p > sub[s[i]].priority
    BY <2>2, InsertPositionPlace DEF IInv
  <2>7. \A j \in 1 .. Len(s) : sub'[s[j]] = sub[s[j]]
    <3> TAKE j \in 1 .. Len(s)
    <3>1. s[j] \in Token /\ s[j] < t
      BY <2>2, ElementOfSeq
    <3>2. s[j] # t
      BY <3>1, <2>2 DEF Token
    <3> QED BY <3>1, <3>2, <2>4
  <2> HIDE DEF i, t, s
  <2>8. InOrder(sub', InsertAt(s, i, t))
    <3>1. InOrder(sub', s)
      BY <2>5 DEF s
    <3>2. \A j \in 1 .. Len(s) : j < i => sub'[s[j]].priority >= sub'[t].priority
      BY <2>3, <2>6, <2>7
    <3>3. i <= Len(s) => i \in 1 .. Len(s)
      BY <2>2, <2>6, LenProperties
    <3>4. i <= Len(s) => sub'[t].priority > sub'[s[i]].priority
      BY <2>3, <2>6, <2>7, <3>3
    <3> QED BY <2>2, <2>3, <2>6, <3>1, <3>2, <3>4, InOrderInsert
  <2>9. \A f \in Event : subscriptions'[f] = IF f = e THEN InsertAt(s, i, t) ELSE subscriptions[f]
    BY <2>1 DEF IInv, TypeOK
  <2> QED BY <2>5, <2>8, <2>9 DEF ListOrder
<1>5. CASE mc_runtime_events_deinit
  <2>1. \A e \in Event : subscriptions'[e] = <<>>
    BY <1>5 DEF mc_runtime_events_deinit
  <2> QED BY <2>1 DEF ListOrder, InOrder
<1> QED BY <1>2, <1>3, <1>4, <1>5, SubscriptionMoves

(* What a dispatch that begins does to the stack.                          *)
LEMMA BeginLength ==
  ASSUME IInv, NEW s \in Snapshot, NEW d \in BOOLEAN, BeginDispatch(s, d)
  PROVE  /\ Len(stack') = Len(stack) + 1 /\ DOMAIN stack' = 1 .. Len(stack) + 1
         /\ ~stack'[Len(stack) + 1].running
         /\ stack'[Len(stack) + 1].snapshot = s
         /\ \A k \in 1 .. Len(stack) : stack'[k] = stack[k]
<1> DEFINE f == [snapshot |-> s, list |-> subscriptions[s.event], pos |-> 1,
                 running |-> FALSE, drained |-> d]
<1>1. subscriptions[s.event] \in Seq(Token)
  BY DEF IInv, TypeOK, Snapshot
<1>2. f \in Frame
  BY <1>1 DEF Frame
<1>3. stack' = Append(stack, f)
  BY DEF BeginDispatch, DispatchList
<1>4. ~f.running /\ f.snapshot = s
  OBVIOUS
<1> HIDE DEF f
<1> QED BY <1>2, <1>3, <1>4, AppendLemma DEF IInv, TypeOK

(* NextCall is the first active entry from the position on.                *)
LEMMA NextCallFirst ==
  ASSUME NEW f \in Frame, f.pos >= 1, NextCall(f) <= Len(f.list)
  PROVE  f.pos <= NextCall(f) /\ \A j \in f.pos .. NextCall(f) - 1 : f.list[j] \notin active
<1> DEFINE Live == {i \in f.pos .. Len(f.list) : f.list[i] \in active}
           First(i) == f.list[i] \in active /\ \A j \in f.pos .. i - 1 : f.list[j] \notin active
           c == CHOOSE i \in f.pos .. Len(f.list) : First(i)
<1>1. f.pos \in Nat /\ Len(f.list) \in Nat
  BY LenProperties DEF Frame
<1>2. Live # {}
  <2>1. CASE Live = {}
    <3>1. NextCall(f) = Len(f.list) + 1
      BY <2>1 DEF NextCall
    <3> QED BY <3>1, <1>1
  <2> QED BY <2>1
<1>3. NextCall(f) = c
  BY <1>2 DEF NextCall
<1>4. PICK m \in Live : \A k \in Live : m <= k
  <2>1. Live \in SUBSET Nat
    BY <1>1
  <2> HIDE DEF Live
  <2> QED BY <1>2, <2>1, LeastNatural
<1>5. First(m) /\ m \in f.pos .. Len(f.list)
  <2>1. \A j \in f.pos .. m - 1 : f.list[j] \notin active
    <3> TAKE j \in f.pos .. m - 1
    <3>1. j \in f.pos .. Len(f.list) /\ ~(m <= j)
      BY <1>1, <1>4
    <3> QED BY <3>1, <1>4
  <2> QED BY <2>1, <1>4
<1>6. c \in f.pos .. Len(f.list) /\ First(c)
  <2> HIDE DEF First
  <2> QED BY <1>5
<1> HIDE DEF c
<1> QED BY <1>1, <1>3, <1>6

(* Past the list, no entry from the position on is active.                 *)
LEMMA NextCallNone ==
  ASSUME NEW f \in Frame, NextCall(f) > Len(f.list)
  PROVE  \A i \in f.pos .. Len(f.list) : f.list[i] \notin active
<1>1. f.pos \in Nat /\ Len(f.list) \in Nat
  BY LenProperties DEF Frame
<1> SUFFICES ASSUME NEW i \in f.pos .. Len(f.list), f.list[i] \in active
             PROVE  FALSE
  OBVIOUS
<1> DEFINE Live == {k \in f.pos .. Len(f.list) : f.list[k] \in active}
           First(k) == f.list[k] \in active /\ \A j \in f.pos .. k - 1 : f.list[j] \notin active
           c == CHOOSE k \in f.pos .. Len(f.list) : First(k)
<1>2. NextCall(f) = c
  BY DEF NextCall
<1>3. PICK m \in Live : \A k \in Live : m <= k
  <2>1. Live \in SUBSET Nat /\ Live # {}
    BY <1>1
  <2> HIDE DEF Live
  <2> QED BY <2>1, LeastNatural
<1>4. First(m) /\ m \in f.pos .. Len(f.list)
  <2>1. \A j \in f.pos .. m - 1 : f.list[j] \notin active
    <3> TAKE j \in f.pos .. m - 1
    <3>1. j \in f.pos .. Len(f.list) /\ ~(m <= j)
      BY <1>1, <1>3
    <3> QED BY <3>1, <1>3
  <2> QED BY <2>1, <1>3
<1>5. c \in f.pos .. Len(f.list)
  <2> HIDE DEF First
  <2> QED BY <1>4
<1> HIDE DEF c
<1> QED BY <1>1, <1>2, <1>5

-----------------------------------------------------------------------------
(* Every dispatch on the stack serves its list.                            *)

(* The records of the frames, and what the frames below the innermost one  *)
(* keep through any step.                                                  *)
LEMMA Records ==
  ASSUME IInv
  PROVE  /\ Len(stack) \in Nat /\ Len(audit) = Len(stack)
         /\ DOMAIN stack = 1 .. Len(stack) /\ DOMAIN audit = 1 .. Len(stack)
         /\ \A k \in 1 .. Len(stack) : stack[k] \in Frame /\ audit[k] \in Record
BY LenProperties, ElementOfSeq DEF IInv, TypeOK, FrameInv, Record

(* A dispatch that is not touched by a step still serves its list.         *)
LEMMA UntouchedServed ==
  ASSUME IInv, ServiceInv, [Next]_vars, NEW k \in 1 .. Len(stack)
  PROVE  ServiceOf(sub', active', stack[k], audit[k])
<1>1. stack[k] \in Frame /\ audit[k] \in Record
  BY Records
<1>2. \A i \in 1 .. Len(stack[k].list) :
        stack[k].list[i] \in Token /\ stack[k].list[i] < next_token
  BY <1>1, ElementOfSeq DEF Frame, IInv, FrameInv
<1>3. \A i \in 1 .. Len(stack[k].list) :
        /\ sub'[stack[k].list[i]] = sub[stack[k].list[i]]
        /\ stack[k].list[i] \in active' => stack[k].list[i] \in active
  BY <1>2, SubscriptionsKept
<1>4. ServiceOf(sub, active, stack[k], audit[k])
  BY DEF ServiceInv
<1> QED BY <1>1, <1>3, <1>4, ServiceKept

(* A step that changes only the innermost frame and its record.            *)
LEMMA TopServed ==
  ASSUME IInv, ServiceInv, [Next]_vars, stack # <<>>, NEW g \in Frame, NEW b \in Record,
         stack' = [stack EXCEPT ![Len(stack)] = g],
         \/ audit' = [audit EXCEPT ![Len(stack)] = b]
         \/ audit' = audit /\ b = audit[Len(stack)],
         ServiceOf(sub', active', g, b)
  PROVE  ServiceInv'
<1>1. /\ Len(stack') = Len(stack) /\ Len(stack) \in 1 .. Len(stack)
      /\ \A k \in 1 .. Len(stack) :
           /\ stack'[k] = IF k = Len(stack) THEN g ELSE stack[k]
           /\ audit'[k] = IF k = Len(stack) THEN b ELSE audit[k]
  <2>1. stack \in Seq(Frame) /\ audit \in Seq(Record) /\ Len(audit) = Len(stack)
    BY Records DEF IInv, TypeOK, Record
  <2>2. Len(stack) \in 1 .. Len(stack)
    BY TopFrame
  <2>3. /\ Len(stack') = Len(stack)
        /\ \A k \in 1 .. Len(stack) : stack'[k] = IF k = Len(stack) THEN g ELSE stack[k]
    BY <2>1, <2>2, ExceptSeq
  <2>4. CASE audit' = [audit EXCEPT ![Len(stack)] = b]
    <3>1. \A k \in 1 .. Len(stack) : audit'[k] = IF k = Len(stack) THEN b ELSE audit[k]
      BY <2>1, <2>2, <2>4, ExceptSeq
    <3> QED BY <2>2, <2>3, <3>1
  <2>5. CASE audit' = audit /\ b = audit[Len(stack)]
    BY <2>2, <2>3, <2>5
  <2> QED BY <2>4, <2>5
<1>2. \A k \in 1 .. Len(stack) : ServiceOf(sub', active', stack'[k], audit'[k])
  BY <1>1, UntouchedServed
<1> QED BY <1>1, <1>2 DEF ServiceInv

(* Entering a dispatch.                                                    *)
LEMMA BeginServed ==
  ASSUME IInv, OrderInv, [Next]_vars, NEW s \in Snapshot, NEW d \in BOOLEAN, BeginDispatch(s, d),
         UNCHANGED <<sub, subscriptions, active, next_token>>
  PROVE  ServiceInv'
<1> DEFINE n == Len(stack)
           list == subscriptions[s.event]
           f == [snapshot |-> s, list |-> list, pos |-> 1, running |-> FALSE, drained |-> d]
           a == [listed |-> Range(list), calls |-> <<>>]
<1>1. /\ stack' = Append(stack, f) /\ audit' = Append(audit, a)
      /\ stack \in Seq(Frame) /\ audit \in Seq(Record)
  BY DEF BeginDispatch, DispatchList, IInv, TypeOK, Record
<1>2. s.event \in Event /\ list \in Seq(Token) /\ \A i \in 1 .. Len(list) : list[i] \in Token
  BY ElementOfSeq DEF IInv, TypeOK, Snapshot
<1>3. Range(list) \subseteq Token
  BY <1>2, LenProperties DEF Range
<1>4. InOrder(sub, list)
  BY <1>2 DEF OrderInv, ListOrder
<1> HIDE DEF list
<1>5. /\ f \in Frame /\ f.list = list /\ f.pos = 1 /\ ~f.running
      /\ a \in Record /\ a.listed = Range(list) /\ a.calls = <<>>
  BY <1>2, <1>3 DEF Frame, Record
<1> HIDE DEF f, a
<1>6. ServiceOf(sub', active', f, a)
  BY <1>4, <1>5, ServiceBegins
<1>7. /\ Len(stack') = n + 1
      /\ stack'[n + 1] = f /\ audit'[n + 1] = a
      /\ \A k \in 1 .. n : stack'[k] = stack[k] /\ audit'[k] = audit[k]
  BY <1>1, <1>5, Records, AppendLemma
<1>8. \A k \in 1 .. n + 1 : k \in 1 .. n \/ k = n + 1
  BY Records
<1>9. \A k \in 1 .. n + 1 : ServiceOf(sub', active', stack'[k], audit'[k])
  BY <1>6, <1>7, <1>8, UntouchedServed DEF OrderInv
<1> QED BY <1>7, <1>9 DEF ServiceInv

(* Calling the next active entry.                                          *)
LEMMA CallServed ==
  ASSUME IInv, OrderInv, [Next]_vars, Call
  PROVE  ServiceInv'
<1> DEFINE n == Len(stack)
           f == stack[n]
           a == audit[n]
           i == NextCall(f)
           g == Entered(i)
           b == [a EXCEPT !.calls = Append(@, f.list[i])]
<1>1. /\ stack # <<>> /\ ~Top.running /\ NextCall(Top) <= Len(Top.list)
      /\ stack' = [stack EXCEPT ![n] = Entered(NextCall(Top))]
      /\ audit' = [audit EXCEPT ![n].calls = Append(@, Top.list[NextCall(Top)])]
      /\ UNCHANGED <<sub, active>>
  BY DEF Call, DispatchRuns, Depth, subVars
<1>2. Top = f /\ f \in Frame /\ a \in Record /\ n \in 1 .. n /\ f.pos >= 1
  BY <1>1, TopFrame, Records
<1>3. i \in 1 .. Len(f.list) /\ f.list[i] \in active /\ i \in Nat
  <2> HIDE DEF n, f
  <2> QED BY <1>1, <1>2, NextCallRange
<1>4. f.pos <= i /\ \A j \in f.pos .. i - 1 : f.list[j] \notin active
  BY <1>1, <1>2, NextCallFirst
<1>5. stack' = [stack EXCEPT ![n] = g] /\ audit' = [audit EXCEPT ![n] = b]
  BY <1>1, <1>2
<1>6. /\ g \in Frame /\ g.list = f.list /\ g.snapshot = f.snapshot /\ g.pos = i /\ g.running
  <2> HIDE DEF i
  <2> QED BY <1>2, <1>3, EnteredFields
<1>7. b \in Record /\ b.listed = a.listed /\ b.calls = Append(a.calls, f.list[i])
  <2>1. f.list[i] \in Token
    BY <1>2, <1>3, ElementOfSeq DEF Frame
  <2> HIDE DEF f, a, i
  <2>2. a.calls \in Seq(Token) /\ Append(a.calls, f.list[i]) \in Seq(Token)
    BY <1>2, <2>1, AppendLemma DEF Record
  <2> QED BY <1>2, <2>2 DEF Record
<1>8. ServiceOf(sub, active, f, a) /\ ~f.running
  BY <1>1, <1>2 DEF OrderInv, ServiceInv
<1> HIDE DEF n, f, a, i, g, b
<1>9. ServiceOf(sub', active', g, b)
  BY <1>1, <1>2, <1>3, <1>4, <1>6, <1>7, <1>8, ServiceCalls
<1> QED BY <1>1, <1>5, <1>6, <1>7, <1>9, TopServed DEF n, OrderInv

(* Returning from a callback.                                              *)
LEMMA ReturnServed ==
  ASSUME IInv, OrderInv, [Next]_vars, Return
  PROVE  ServiceInv'
<1> DEFINE n == Len(stack)
<1>1. PICK g \in {Pass, Consumed} : stack' = [stack EXCEPT ![n] = g]
  BY ReturnMoves
<1>2. stack # <<>> /\ Top.running /\ audit' = audit
  BY ReturnMoves
<1>3. /\ Top = stack[n] /\ Top \in Frame /\ audit[n] \in Record /\ n \in 1 .. n
      /\ Top.pos \in 1 .. Len(Top.list) /\ Top.pos >= 1
  BY <1>2, TopFrame, Records
<1>4. g \in Frame /\ g.list = Top.list /\ ~g.running
  <2> HIDE DEF n
  <2> QED BY <1>3, ReturnFields
<1>5. \/ g.pos = Top.pos + 1 /\ g.snapshot = Top.snapshot
      \/ g.pos = Len(Top.list) + 1 /\ g.snapshot.consumed
  <2>1. CASE g = Pass
    BY <2>1, <1>3 DEF Pass, Frame
  <2>2. CASE g = Consumed
    BY <2>2, <1>3 DEF Consumed, Frame, Snapshot
  <2> QED BY <2>1, <2>2
<1>6. ServiceOf(sub', active', Top, audit[n])
  BY <1>3, UntouchedServed DEF OrderInv
<1>7. ServiceOf(sub', active', g, audit[n])
  BY <1>2, <1>3, <1>4, <1>5, <1>6, ServiceReturns
<1> QED BY <1>1, <1>2, <1>3, <1>4, <1>7, TopServed DEF OrderInv

(* Leaving a dispatch.                                                     *)
LEMMA EndServed ==
  ASSUME IInv, OrderInv, [Next]_vars, EndDispatch
  PROVE  ServiceInv'
<1>1. stack # <<>> /\ stack' = Front(stack) /\ audit' = Front(audit)
  BY DEF EndDispatch, DispatchRuns
<1>2. Len(stack') = Len(stack) - 1 /\ \A k \in 1 .. Len(stack) - 1 : stack'[k] = stack[k]
  BY <1>1, FrontProperties DEF IInv, TypeOK
<1>3. \A k \in 1 .. Len(stack) - 1 : audit'[k] = audit[k]
  <2>1. audit \in Seq(Record) /\ Len(audit) = Len(stack) /\ audit # <<>>
    BY <1>1, TopFrame, Records DEF IInv, TypeOK, Record
  <2> QED BY <1>1, <2>1, FrontProperties
<1>4. \A k \in 1 .. Len(stack) - 1 : k \in 1 .. Len(stack)
  BY Records
<1>5. \A k \in 1 .. Len(stack) - 1 : ServiceOf(sub', active', stack'[k], audit'[k])
  BY <1>2, <1>3, <1>4, UntouchedServed DEF OrderInv
<1> QED BY <1>2, <1>5 DEF ServiceInv

(* Every step keeps the lists and the dispatches in order.                 *)
LEMMA OrderStep ==
  ASSUME IInv, OrderInv, [Next]_vars
  PROVE  OrderInv'
<1>1. ListOrder'
  BY ListOrderStep DEF OrderInv
<1>2. CASE UNCHANGED <<stack, audit>>
  <2>1. \A k \in 1 .. Len(stack) : ServiceOf(sub', active', stack'[k], audit'[k])
    BY <1>2, UntouchedServed DEF OrderInv
  <2> QED BY <1>1, <1>2, <2>1 DEF OrderInv, ServiceInv
<1> QED BY <1>1, <1>2, StackMoves, BeginServed, CallServed, ReturnServed, EndServed DEF OrderInv

(* Nothing is listed or in dispatch at first.                              *)
LEMMA InitOrder ==
  ASSUME Init
  PROVE  OrderInv
BY DEF Init, OrderInv, ListOrder, ServiceInv, InOrder

(* Every reachable state of the bus keeps the calling order.               *)
THEOREM OrderInvariant == Spec => [](IInv /\ OrderInv)
<1>1. Init => IInv /\ OrderInv
  BY InitInv, InitOrder
<1>2. IInv /\ OrderInv /\ [Next]_vars => (IInv /\ OrderInv)'
  BY StepInv, OrderStep
<1> QED BY <1>1, <1>2, PTL DEF Spec

(* mc_runtime_event_dispatch runs the callbacks of the subscriptions it    *)
(* copied, each at most once, by priority and then by registration,        *)
(* whatever callbacks do to the lists meanwhile.                           *)
THEOREM CalledInOrderHolds == Spec => []CalledInOrder
<1>1. ASSUME IInv, OrderInv PROVE CalledInOrder
  <2> SUFFICES ASSUME NEW k \in DOMAIN audit
               PROVE  Ordered(audit[k].calls) /\ Range(audit[k].calls) \subseteq audit[k].listed
    BY DEF CalledInOrder
  <2>1. k \in 1 .. Len(stack) /\ stack[k] \in Frame /\ audit[k] \in Record
    BY <1>1, Records
  <2>2. ServiceOf(sub, active, stack[k], audit[k])
    BY <1>1, <2>1 DEF OrderInv, ServiceInv
  <2>3. Ordered(audit[k].calls)
    BY <2>2, OrderedInOrder DEF ServiceOf
  <2>4. /\ DOMAIN audit[k].calls = 1 .. Len(audit[k].calls)
        /\ DOMAIN stack[k].list = 1 .. Len(stack[k].list)
    BY <2>1, LenProperties DEF Frame, Record
  <2>5. ASSUME NEW x \in Range(audit[k].calls) PROVE x \in Range(stack[k].list)
    <3>1. PICK m \in 1 .. Len(audit[k].calls) : x = audit[k].calls[m]
      BY <2>4 DEF Range
    <3>2. PICK i \in 1 .. Len(stack[k].list) : audit[k].calls[m] = stack[k].list[i]
      BY <2>2 DEF ServiceOf
    <3> QED BY <2>4, <3>1, <3>2 DEF Range
  <2> QED BY <2>2, <2>3, <2>5 DEF ServiceOf
<1>2. IInv /\ OrderInv => CalledInOrder
  BY <1>1
<1> QED BY <1>2, OrderInvariant, PTL

(* A dispatch that was not consumed ends only when every subscription of   *)
(* its list that is still active has been called.                          *)
THEOREM EveryoneServedHolds == Spec => EveryoneServed
<1> DEFINE Leaves == stack # <<>> /\ stack' = Front(stack) /\ ~Top.snapshot.consumed
           Served == audit[Depth].listed \cap active \subseteq Range(audit[Depth].calls)
<1>1. ASSUME IInv, OrderInv, Next, Leaves PROVE Served
  <2> DEFINE n == Len(stack)
             f == stack[n]
             a == audit[n]
  <2>1. /\ n \in 1 .. n /\ Top = f /\ f \in Frame /\ a \in Record /\ Depth = n
        /\ Len(f.list) \in Nat /\ DOMAIN f.list = 1 .. Len(f.list) /\ f.pos \in Nat
    BY <1>1, TopFrame, Records, LenProperties DEF Depth, Frame
  <2>2. Len(stack') = n - 1
    BY <1>1, FrontProperties DEF IInv, TypeOK
  <2>3. EndDispatch
    <3>1. CASE UNCHANGED <<stack, audit>>
      BY <3>1, <2>1, <2>2
    <3>2. ASSUME NEW s \in Snapshot, NEW d \in BOOLEAN, BeginDispatch(s, d)
          PROVE  Len(stack') = n + 1
      BY <3>2, <1>1, BeginLength
    <3>3. CASE Call
      BY <3>3, <2>1, <2>2, Records, <1>1 DEF Call, Depth
    <3>4. CASE Return
      BY <3>4, <2>1, <2>2, Records, <1>1, ReturnMoves
    <3> QED BY <1>1, <2>1, <2>2, <3>1, <3>2, <3>3, <3>4, StackMoves
  <2>4. ~f.running /\ NextCall(f) > Len(f.list)
    BY <2>1, <2>3 DEF EndDispatch, DispatchRuns
  <2>5. \A i \in f.pos .. Len(f.list) : f.list[i] \notin active
    <3> HIDE DEF f
    <3> QED BY <2>1, <2>4, NextCallNone
  <2>6. ServiceOf(sub, active, f, a) /\ ~f.snapshot.consumed
    BY <1>1, <2>1 DEF OrderInv, ServiceInv
  <2> HIDE DEF f, a, n
  <2>7. ASSUME NEW x \in a.listed, x \in active PROVE x \in Range(a.calls)
    <3>1. PICK i \in 1 .. Len(f.list) : x = f.list[i]
      BY <2>1, <2>6 DEF ServiceOf, Range
    <3>2. i \notin f.pos .. Len(f.list)
      BY <2>5, <2>7, <3>1
    <3>3. Reached(f, i)
      BY <2>1, <3>2 DEF Reached
    <3> QED BY <2>6, <2>7, <3>1, <3>3 DEF ServiceOf
  <2> QED BY <2>1, <2>7 DEF a, n
<1>2. ASSUME IInv, OrderInv, [Next]_vars PROVE [Leaves => Served]_vars
  <2> HIDE DEF Leaves, Served
  <2> QED BY <1>1, <1>2
<1>3. IInv /\ OrderInv /\ [Next]_vars => [Leaves => Served]_vars
  <2> HIDE DEF Leaves, Served
  <2> QED BY <1>2
<1>4. Spec => [][Leaves => Served]_vars
  <2> HIDE DEF Leaves, Served
  <2> QED BY <1>3, OrderInvariant, PTL DEF Spec
<1> QED BY <1>4 DEF EveryoneServed

(* A stack on which every activation of t was there before.                *)
LEMMA RunningLess ==
  ASSUME NEW t, NEW s, NEW r,
         \A k \in DOMAIN r : \/ k \in DOMAIN s /\ r[k] = s[k]
                            \/ ~r[k].running
                            \/ r[k].list[r[k].pos] # t
  PROVE  Running(t, r) \subseteq Running(t, s)
BY DEF Running

(* Once unsubscribed or disabled, a subscription is not called again, not  *)
(* even by a dispatch that still holds it.                                 *)
THEOREM GoneForGoodHolds == Spec => GoneForGood
<1> DEFINE Gone == \A t \in Token : (t < next_token /\ t \notin active)
                     => (t \notin active' /\ Running(t, stack') \subseteq Running(t, stack))
<1>1. ASSUME IInv, [Next]_vars PROVE Gone
  <2> SUFFICES ASSUME NEW t \in Token, t < next_token, t \notin active
               PROVE  t \notin active' /\ Running(t, stack') \subseteq Running(t, stack)
    OBVIOUS
  <2>1. t \notin active'
    BY <1>1, SubscriptionsKept
  <2> DEFINE n == Len(stack)
  <2>2. n \in Nat /\ DOMAIN stack = 1 .. n /\ stack \in Seq(Frame)
    BY <1>1, Records DEF IInv, TypeOK
  <2>3. CASE UNCHANGED <<stack, audit>>
    BY <2>1, <2>2, <2>3, RunningLess
  <2>4. ASSUME NEW s \in Snapshot, NEW d \in BOOLEAN, BeginDispatch(s, d)
        PROVE  Running(t, stack') \subseteq Running(t, stack)
    <3>1. /\ DOMAIN stack' = 1 .. n + 1 /\ ~stack'[n + 1].running
          /\ \A k \in 1 .. n : stack'[k] = stack[k]
      BY <1>1, <2>4, BeginLength
    <3>2. \A k \in 1 .. n + 1 : k \in 1 .. n \/ k = n + 1
      BY <2>2
    <3> QED BY <2>2, <3>1, <3>2, RunningLess
  <2>5. CASE Call
    <3> DEFINE i == NextCall(Top)
    <3>1. /\ stack # <<>> /\ i <= Len(Top.list)
          /\ stack' = [stack EXCEPT ![n] = Entered(i)]
      BY <2>5 DEF Call, DispatchRuns, Depth
    <3>2. i \in 1 .. Len(Top.list) /\ Top.list[i] \in active /\ i \in Nat
      BY <1>1, <3>1, TopFrame, NextCallRange
    <3>3. Entered(i).list[Entered(i).pos] # t
      <4> HIDE DEF i
      <4> QED BY <1>1, <3>1, <3>2, TopFrame, EnteredFields
    <3> HIDE DEF i
    <3>4. /\ DOMAIN stack' = 1 .. n
          /\ \A k \in 1 .. n : stack'[k] = IF k = n THEN Entered(i) ELSE stack[k]
      BY <2>2, <3>1
    <3> QED BY <2>1, <2>2, <3>3, <3>4, RunningLess
  <2>6. CASE Return
    <3>1. stack # <<>> /\ \E f \in {Pass, Consumed} : stack' = [stack EXCEPT ![n] = f]
      BY <1>1, <2>6, ReturnMoves
    <3>2. PICK f \in {Pass, Consumed} : stack' = [stack EXCEPT ![n] = f]
      BY <3>1
    <3>3. f.running = FALSE
      BY <1>1, <3>1, TopFrame, ReturnFields
    <3>4. /\ DOMAIN stack' = 1 .. n
          /\ \A k \in 1 .. n : stack'[k] = IF k = n THEN f ELSE stack[k]
      BY <2>2, <3>2
    <3> QED BY <2>1, <2>2, <3>3, <3>4, RunningLess
  <2>7. CASE EndDispatch
    <3>1. /\ DOMAIN stack' = 1 .. n - 1
          /\ \A k \in 1 .. n - 1 : stack'[k] = stack[k]
      BY <2>2, <2>7, FrontProperties DEF EndDispatch, DispatchRuns
    <3>2. \A k \in 1 .. n - 1 : k \in 1 .. n
      BY <2>2
    <3> QED BY <2>1, <2>2, <3>1, <3>2, RunningLess
  <2> QED BY <1>1, <2>1, <2>3, <2>4, <2>5, <2>6, <2>7, StackMoves
<1>2. IInv /\ [Next]_vars => [Gone]_vars
  <2> HIDE DEF Gone
  <2> QED BY <1>1
<1>3. Spec => [][Gone]_vars
  <2> HIDE DEF Gone
  <2> QED BY <1>2, InductiveInvariant, PTL DEF Spec
<1> QED BY <1>3 DEF GoneForGood

-----------------------------------------------------------------------------
(* The queue.                                                              *)

(* The pending events are different ones; two selections are of different  *)
(* panels, the other kinds are in the order of their publication.          *)
QueueInv ==
  /\ \A i \in 1 .. Len(pending) : pending[i].id <= published
  /\ \A i, j \in 1 .. Len(pending) : i < j =>
       /\ pending[i].id # pending[j].id
       /\ (pending[i].event = Selection /\ pending[j].event = Selection)
            => pending[i].panel # pending[j].panel
       /\ (pending[i].event # Selection /\ pending[j].event # Selection)
            => pending[i].id < pending[j].id

(* What is in the queue.                                                   *)
LEMMA PendingEvents ==
  ASSUME TypeOK
  PROVE  /\ pending \in Seq(Snapshot) /\ Len(pending) \in Nat /\ published \in Nat
         /\ DOMAIN pending = 1 .. Len(pending)
         /\ \A i \in 1 .. Len(pending) : pending[i] \in Snapshot /\ pending[i].id \in Nat
<1>1. pending \in Seq(Snapshot) /\ published \in Nat
  BY DEF TypeOK
<1>2. \A i \in 1 .. Len(pending) : pending[i] \in Snapshot
  BY <1>1, ElementOfSeq
<1>3. \A s \in Snapshot : s.id \in Nat
  BY DEF Snapshot
<1> QED BY <1>1, <1>2, <1>3, LenProperties

(* Where Enqueue puts an event: in place of the only one it coalesces      *)
(* with, or at the end.                                                    *)
LEMMA EnqueuePlace ==
  ASSUME NEW q \in Seq(Snapshot), NEW s \in Snapshot
  PROVE  \/ /\ \A i \in 1 .. Len(q) : ~Coalesces(q[i], s)
            /\ Enqueue(q, s) = Append(q, s)
         \/ \E k \in 1 .. Len(q) : /\ Coalesces(q[k], s)
                                   /\ Enqueue(q, s) = [q EXCEPT ![k] = s]
<1> DEFINE C == {i \in DOMAIN q : Coalesces(q[i], s)}
           First(i) == Coalesces(q[i], s) /\ \A j \in 1 .. i - 1 : ~Coalesces(q[j], s)
           c == CHOOSE i \in DOMAIN q : First(i)
<1>1. Len(q) \in Nat /\ DOMAIN q = 1 .. Len(q)
  BY LenProperties
<1>2. CASE C = {}
  <2>1. \A i \in 1 .. Len(q) : ~Coalesces(q[i], s)
    BY <1>1, <1>2
  <2> QED BY <1>1, <2>1 DEF Enqueue
<1>3. CASE C # {}
  <2>1. PICK m \in C : \A k \in C : m <= k
    <3>1. C \in SUBSET Nat
      BY <1>1
    <3> HIDE DEF C
    <3> QED BY <1>3, <3>1, LeastNatural
  <2>2. m \in DOMAIN q /\ First(m)
    <3>1. \A j \in 1 .. m - 1 : ~Coalesces(q[j], s)
      <4> TAKE j \in 1 .. m - 1
      <4>1. j \in DOMAIN q /\ ~(m <= j)
        BY <1>1, <2>1
      <4> QED BY <4>1, <2>1
    <3> QED BY <3>1, <2>1
  <2>3. c \in DOMAIN q /\ First(c)
    <3> HIDE DEF First
    <3> QED BY <2>2
  <2>4. Enqueue(q, s) = [q EXCEPT ![c] = s]
    BY <1>3 DEF Enqueue
  <2>5. Coalesces(q[c], s)
    BY <2>3
  <2> HIDE DEF c
  <2> QED BY <1>1, <2>3, <2>4, <2>5
<1> QED BY <1>2, <1>3

(* The queue grows by a publication, loses its head to the drain, and is   *)
(* empty when the bus is freed.                                            *)
LEMMA QueueMoves ==
  ASSUME IInv, [Next]_vars
  PROVE  \/ UNCHANGED <<pending, published>>
         \/ published' = published + 1 /\ UNCHANGED pending
         \/ \E e \in Event, p \in Panel \cup {NoPanel} :
              LET s == [id |-> published + 1, event |-> e, panel |-> p, consumed |-> FALSE]
              IN published' = published + 1 /\ pending' = Enqueue(pending, s)
         \/ UNCHANGED published /\ pending # <<>> /\ pending' = Tail(pending)
         \/ UNCHANGED published /\ pending' = <<>>
<1>1. CASE Code
  <2>1. ASSUME NEW c \in Context, NEW e \in Event, NEW p \in Priority,
               mc_runtime_events_subscribe(c, e, p)
        PROVE  UNCHANGED <<pending, published>>
    BY <2>1 DEF mc_runtime_events_subscribe, queueVars
  <2>2. ASSUME NEW c \in Context, NEW t \in Token, mc_runtime_events_unsubscribe(c, t)
        PROVE  UNCHANGED <<pending, published>>
    BY <2>2 DEF mc_runtime_events_unsubscribe, queueVars
  <2>3. ASSUME NEW c \in Context, UnsubscribeAllBegin(c)
        PROVE  UNCHANGED <<pending, published>>
    BY <2>3 DEF UnsubscribeAllBegin, queueVars
  <2>4. ASSUME NEW e \in Event, NEW p \in Panel \cup {NoPanel}, mc_runtime_event_publish(e, p)
        PROVE  LET s == [id |-> published + 1, event |-> e, panel |-> p, consumed |-> FALSE]
               IN /\ published' = published + 1
                  /\ pending' = Enqueue(pending, s) \/ UNCHANGED pending
    BY <2>4 DEF mc_runtime_event_publish
  <2>5. CASE mc_runtime_events_deinit
    BY <2>5 DEF mc_runtime_events_deinit
  <2> QED BY <1>1, <2>1, <2>2, <2>3, <2>4, <2>5 DEF Code
<1>2. CASE Return
  BY <1>2 DEF Return, ReturnPass, ReturnConsume, ReturnError, queueVars
<1>3. CASE Bus
  <2>1. ASSUME NEW t \in Token, UnsubscribeAllStep(t)
        PROVE  UNCHANGED <<pending, published>>
    BY <2>1 DEF UnsubscribeAllStep, queueVars
  <2>2. CASE UnsubscribeAllEnd \/ DrainEnd
    BY <2>2 DEF UnsubscribeAllEnd, DrainEnd, queueVars
  <2>3. CASE Call \/ EndDispatch
    BY <2>3 DEF Call, EndDispatch, queueVars
  <2>4. CASE DrainNext
    BY <2>4 DEF DrainNext
  <2> QED BY <1>3, <2>1, <2>2, <2>3, <2>4 DEF Bus
<1>4. CASE UNCHANGED vars
  BY <1>4 DEF vars, queueVars
<1> QED BY <1>1, <1>2, <1>3, <1>4 DEF Next

(* Queueing a new event keeps the queue in order.                          *)
LEMMA EnqueueKeeps ==
  ASSUME TypeOK, QueueInv, NEW s \in Snapshot, s.id = published + 1,
         published' = published + 1, pending' = Enqueue(pending, s)
  PROVE  QueueInv'
<1> DEFINE n == Len(pending)
<1>1. /\ pending \in Seq(Snapshot) /\ n \in Nat /\ published \in Nat
      /\ \A i \in 1 .. n : pending[i] \in Snapshot /\ pending[i].id \in Nat
  BY PendingEvents
<1>2. CASE /\ \A i \in 1 .. n : ~Coalesces(pending[i], s)
           /\ pending' = Append(pending, s)
  <2>1. /\ Len(pending') = n + 1 /\ pending'[n + 1] = s
        /\ \A i \in 1 .. n : pending'[i] = pending[i]
    BY <1>1, <1>2, AppendLemma
  <2>2. \A i \in 1 .. n + 1 : i \in 1 .. n \/ i = n + 1
    BY <1>1
  <2>3. \A i \in 1 .. n + 1 : pending'[i].id <= published'
    <3> TAKE i \in 1 .. n + 1
    <3>1. CASE i \in 1 .. n
      BY <3>1, <1>1, <2>1 DEF QueueInv
    <3>2. CASE i = n + 1
      BY <3>2, <1>1, <2>1
    <3> QED BY <2>2, <3>1, <3>2
  <2>4. ASSUME NEW i \in 1 .. n + 1, NEW j \in 1 .. n + 1, i < j
        PROVE  /\ pending'[i].id # pending'[j].id
               /\ (pending'[i].event = Selection /\ pending'[j].event = Selection)
                    => pending'[i].panel # pending'[j].panel
               /\ (pending'[i].event # Selection /\ pending'[j].event # Selection)
                    => pending'[i].id < pending'[j].id
    <3>1. i \in 1 .. n /\ pending'[i] = pending[i]
      BY <1>1, <2>1, <2>4
    <3>2. CASE j \in 1 .. n
      BY <3>1, <3>2, <2>1, <2>4 DEF QueueInv
    <3>3. CASE j = n + 1
      <4>1. pending'[j] = s /\ pending[i].id < s.id
        BY <3>1, <3>3, <1>1, <2>1 DEF QueueInv
      <4> QED BY <4>1, <3>1, <1>1, <1>2 DEF Coalesces, Snapshot
    <3> QED BY <2>2, <3>2, <3>3
  <2> QED BY <2>1, <2>3, <2>4 DEF QueueInv
<1>3. ASSUME NEW k \in 1 .. n, Coalesces(pending[k], s), pending' = [pending EXCEPT ![k] = s]
      PROVE  QueueInv'
  <2>1. /\ Len(pending') = n
        /\ \A i \in 1 .. n : pending'[i] = IF i = k THEN s ELSE pending[i]
    BY <1>1, <1>3, ExceptSeq
  <2>2. s.event = Selection /\ pending[k].event = Selection /\ pending[k].panel = s.panel
    BY <1>3 DEF Coalesces
  <2>3. \A i \in 1 .. n : pending'[i].id <= published'
    <3> TAKE i \in 1 .. n
    <3>1. CASE i = k
      BY <3>1, <1>1, <2>1
    <3>2. CASE i # k
      BY <3>2, <1>1, <2>1 DEF QueueInv
    <3> QED BY <3>1, <3>2
  <2>4. \A i \in 1 .. n : pending[i].id < s.id
    BY <1>1 DEF QueueInv
  <2>5. ASSUME NEW i \in 1 .. n, NEW j \in 1 .. n, i < j
        PROVE  /\ pending'[i].id # pending'[j].id
               /\ (pending'[i].event = Selection /\ pending'[j].event = Selection)
                    => pending'[i].panel # pending'[j].panel
               /\ (pending'[i].event # Selection /\ pending'[j].event # Selection)
                    => pending'[i].id < pending'[j].id
    <3>1. CASE i # k /\ j # k
      BY <3>1, <2>1, <2>5 DEF QueueInv
    <3>2. CASE i = k
      <4>1. j # k /\ pending'[i] = s /\ pending'[j] = pending[j]
        BY <3>2, <2>1, <2>5
      <4>2. s.id # pending[j].id
        BY <1>1, <2>4
      <4> QED BY <4>1, <4>2, <3>2, <2>2, <2>5 DEF QueueInv
    <3>3. CASE j = k
      <4>1. i # k /\ pending'[j] = s /\ pending'[i] = pending[i]
        BY <3>3, <2>1, <2>5
      <4>2. s.id # pending[i].id
        BY <1>1, <2>4
      <4> QED BY <4>1, <4>2, <3>3, <2>2, <2>5 DEF QueueInv
    <3> QED BY <3>1, <3>2, <3>3
  <2> QED BY <2>1, <2>3, <2>5 DEF QueueInv
<1> QED BY <1>1, <1>2, <1>3, EnqueuePlace

(* Every step keeps the queue in order.                                    *)
LEMMA QueueStep ==
  ASSUME IInv, QueueInv, [Next]_vars
  PROVE  QueueInv'
<1>1. /\ pending \in Seq(Snapshot) /\ Len(pending) \in Nat /\ published \in Nat
      /\ \A i \in 1 .. Len(pending) : pending[i].id \in Nat
  BY PendingEvents DEF IInv
<1>2. CASE UNCHANGED <<pending, published>>
  BY <1>2 DEF QueueInv
<1>3. CASE published' = published + 1 /\ UNCHANGED pending
  BY <1>1, <1>3 DEF QueueInv
<1>4. ASSUME NEW e \in Event, NEW p \in Panel \cup {NoPanel},
             published' = published + 1,
             pending' = Enqueue(pending, [id |-> published + 1, event |-> e, panel |-> p,
                                          consumed |-> FALSE])
      PROVE  QueueInv'
  <2> DEFINE s == [id |-> published + 1, event |-> e, panel |-> p, consumed |-> FALSE]
  <2>1. s \in Snapshot /\ s.id = published + 1
    BY <1>1 DEF Snapshot
  <2>2. pending' = Enqueue(pending, s)
    BY <1>4
  <2> HIDE DEF s
  <2> QED BY <1>4, <2>1, <2>2, EnqueueKeeps DEF IInv
<1>5. CASE UNCHANGED published /\ pending # <<>> /\ pending' = Tail(pending)
  <2>1. /\ Len(pending') = Len(pending) - 1
        /\ \A i \in 1 .. Len(pending) - 1 : pending'[i] = pending[i + 1]
    BY <1>1, <1>5, HeadTailProperties
  <2>2. \A i \in 1 .. Len(pending) - 1 : i + 1 \in 1 .. Len(pending)
    BY <1>1
  <2>3. \A i, j \in 1 .. Len(pending) - 1 : i < j => i + 1 < j + 1
    BY <1>1
  <2> QED BY <1>5, <2>1, <2>2, <2>3 DEF QueueInv
<1>6. CASE UNCHANGED published /\ pending' = <<>>
  BY <1>6 DEF QueueInv
<1> QED BY <1>2, <1>3, <1>4, <1>5, <1>6, QueueMoves

(* Every reachable queue is in order.                                      *)
THEOREM QueueInvariant == Spec => [](IInv /\ QueueInv)
<1>1. Init => IInv /\ QueueInv
  <2>1. Init => QueueInv
    BY DEF Init, QueueInv
  <2> QED BY <2>1, InitInv
<1>2. IInv /\ QueueInv /\ [Next]_vars => (IInv /\ QueueInv)'
  BY StepInv, QueueStep
<1> QED BY <1>1, <1>2, PTL DEF Spec

(* mc_runtime_event_enqueue leaves at most one selection per panel in the  *)
(* queue, and the other events in the order of their publication.          *)
THEOREM QueueDisciplineHolds == Spec => []QueueDiscipline
<1>1. IInv /\ QueueInv => QueueDiscipline
  <2>1. IInv => DOMAIN pending = 1 .. Len(pending)
    BY LenProperties DEF IInv, TypeOK
  <2> QED BY <2>1 DEF QueueInv, QueueDiscipline
<1> QED BY <1>1, QueueInvariant, PTL

-----------------------------------------------------------------------------
(* The bus implements what it promises its publishers.                     *)

Waiting == {Seen(s) : s \in Range(pending)}
Dispatching == {Seen(f.snapshot) : f \in Range(stack)}

(* The events waiting and in dispatch, by their positions.                 *)
LEMMA SeenEvents ==
  ASSUME IInv
  PROVE  /\ \A x : x \in Waiting <=> \E i \in 1 .. Len(pending) : x = Seen(pending[i])
         /\ \A x : x \in Dispatching <=> \E k \in 1 .. Len(stack) : x = Seen(stack[k].snapshot)
<1>1. DOMAIN pending = 1 .. Len(pending)
  BY PendingEvents DEF IInv
<1>2. DOMAIN stack = 1 .. Len(stack)
  BY Records
<1>3. \A x : x \in Waiting <=> \E i \in 1 .. Len(pending) : x = Seen(pending[i])
  BY <1>1 DEF Waiting, Range
<1>4. \A x : x \in Dispatching <=> \E k \in 1 .. Len(stack) : x = Seen(stack[k].snapshot)
  BY <1>2 DEF Dispatching, Range
<1> QED BY <1>3, <1>4

(* The same in the next state.                                             *)
LEMMA SeenPrimed ==
  ASSUME IInv'
  PROVE  /\ \A x : x \in Waiting' <=> \E i \in 1 .. Len(pending') : x = Seen(pending'[i])
         /\ \A x : x \in Dispatching' <=> \E k \in 1 .. Len(stack') : x = Seen(stack'[k].snapshot)
<1>1. pending' \in Seq(Snapshot) /\ stack' \in Seq(Frame)
  BY DEF IInv, TypeOK
<1>2. DOMAIN pending' = 1 .. Len(pending') /\ DOMAIN stack' = 1 .. Len(stack')
  BY <1>1, LenProperties
<1>3. \A x : x \in Waiting' <=> \E i \in 1 .. Len(pending') : x = Seen(pending'[i])
  BY <1>2 DEF Waiting, Range, Seen
<1>4. \A x : x \in Dispatching' <=> \E k \in 1 .. Len(stack') : x = Seen(stack'[k].snapshot)
  BY <1>2 DEF Dispatching, Range, Seen
<1> QED BY <1>3, <1>4

(* Only a publication, the drain, the end of a dispatch and the end of the *)
(* bus are steps its publishers may see.                                   *)
LEMMA BusMoves ==
  ASSUME IInv, [Next]_vars
  PROVE  \/ \E e \in Event, p \in Panel \cup {NoPanel} : mc_runtime_event_publish(e, p)
         \/ DrainNext
         \/ EndDispatch
         \/ mc_runtime_events_deinit
         \/ (UNCHANGED stack \/ Call \/ Return) /\ UNCHANGED <<pending, published>>
<1>1. CASE Code
  <2>1. ASSUME NEW c \in Context, NEW e \in Event, NEW p \in Priority,
               mc_runtime_events_subscribe(c, e, p)
        PROVE  UNCHANGED <<stack, pending, published>>
    BY <2>1 DEF mc_runtime_events_subscribe, dispatchVars, queueVars
  <2>2. ASSUME NEW c \in Context, NEW t \in Token, mc_runtime_events_unsubscribe(c, t)
        PROVE  UNCHANGED <<stack, pending, published>>
    BY <2>2 DEF mc_runtime_events_unsubscribe, dispatchVars, queueVars
  <2>3. ASSUME NEW c \in Context, UnsubscribeAllBegin(c)
        PROVE  UNCHANGED <<stack, pending, published>>
    BY <2>3 DEF UnsubscribeAllBegin, dispatchVars, queueVars
  <2> QED BY <1>1, <2>1, <2>2, <2>3 DEF Code
<1>2. CASE Return
  BY <1>2 DEF Return, ReturnPass, ReturnConsume, ReturnError, queueVars
<1>3. CASE Bus
  <2>1. ASSUME NEW t \in Token, UnsubscribeAllStep(t)
        PROVE  UNCHANGED <<stack, pending, published>>
    BY <2>1 DEF UnsubscribeAllStep, dispatchVars, queueVars
  <2>2. CASE UnsubscribeAllEnd \/ DrainEnd
    BY <2>2 DEF UnsubscribeAllEnd, DrainEnd, dispatchVars, queueVars
  <2>3. CASE Call
    BY <2>3 DEF Call, queueVars
  <2> QED BY <1>3, <2>1, <2>2, <2>3 DEF Bus
<1>4. CASE UNCHANGED vars
  BY <1>4 DEF vars, dispatchVars, queueVars
<1> QED BY <1>1, <1>2, <1>3, <1>4 DEF Next

(* Calling a callback and returning from it show the publishers nothing.   *)
LEMMA CallsUnseen ==
  ASSUME IInv, [Next]_vars, Call \/ Return
  PROVE  Dispatching' = Dispatching
<1>1. PICK g \in Frame : /\ stack # <<>> /\ stack' = [stack EXCEPT ![Len(stack)] = g]
                         /\ Seen(g.snapshot) = Seen(Top.snapshot)
  <2>1. CASE Call
    <3> DEFINE i == NextCall(Top)
    <3>1. /\ stack # <<>> /\ i <= Len(Top.list)
          /\ stack' = [stack EXCEPT ![Len(stack)] = Entered(i)]
      BY <2>1 DEF Call, DispatchRuns, Depth
    <3>2. i \in Nat
      BY <3>1, TopFrame, NextCallRange
    <3> HIDE DEF i
    <3>3. Entered(i) \in Frame /\ Entered(i).snapshot = Top.snapshot
      BY <3>1, <3>2, TopFrame, EnteredFields
    <3> QED BY <3>1, <3>3
  <2>2. CASE Return
    <3>1. stack # <<>> /\ \E f \in {Pass, Consumed} : stack' = [stack EXCEPT ![Len(stack)] = f]
      BY <2>2, ReturnMoves
    <3>2. PICK f \in {Pass, Consumed} : stack' = [stack EXCEPT ![Len(stack)] = f]
      BY <3>1
    <3>3. f \in Frame /\ Top \in Frame
      BY <3>1, TopFrame, ReturnFields
    <3>4. Seen(f.snapshot) = Seen(Top.snapshot)
      <4>1. CASE f = Pass
        BY <4>1, <3>3 DEF Pass, Frame
      <4>2. CASE f = Consumed
        BY <4>2, <3>3 DEF Consumed, Seen, Frame, Snapshot
      <4> QED BY <4>1, <4>2
    <3> QED BY <3>1, <3>2, <3>3, <3>4
  <2> QED BY <2>1, <2>2
<1>2. /\ Len(stack) \in 1 .. Len(stack) /\ Top = stack[Len(stack)] /\ stack \in Seq(Frame)
      /\ Len(stack') = Len(stack)
      /\ \A k \in 1 .. Len(stack) : stack'[k] = IF k = Len(stack) THEN g ELSE stack[k]
  BY <1>1, TopFrame, ExceptSeq DEF IInv, TypeOK
<1>3. \A k \in 1 .. Len(stack) : Seen(stack'[k].snapshot) = Seen(stack[k].snapshot)
  BY <1>1, <1>2
<1>4. IInv'
  BY StepInv
<1>5. \A x : x \in Dispatching' <=> \E k \in 1 .. Len(stack') : x = Seen(stack'[k].snapshot)
  BY <1>4, SeenPrimed
<1>6. \A x : x \in Dispatching' <=> x \in Dispatching
  BY <1>2, <1>3, <1>5, SeenEvents
<1> QED BY <1>6

(* Publishing an event whose kind is not in dispatch dispatches it.        *)
LEMMA PublishNow ==
  ASSUME IInv, [Next]_vars, NEW e \in Event, NEW p \in Panel \cup {NoPanel},
         mc_runtime_event_publish(e, p), ~MustQueue(e)
  PROVE  Promise!Publish(e, p)
<1> DEFINE s == [id |-> published + 1, event |-> e, panel |-> p, consumed |-> FALSE]
           x == [id |-> published + 1, event |-> e, panel |-> p]
<1>1. published' = published + 1 /\ pending' = pending /\ BeginDispatch(s, FALSE)
  BY DEF mc_runtime_event_publish
<1>2. s \in Snapshot /\ Seen(s) = x
  BY PendingEvents DEF IInv, Snapshot, Seen
<1> HIDE DEF s
<1>3. /\ Len(stack) \in Nat /\ Len(stack') = Len(stack) + 1
      /\ stack'[Len(stack) + 1].snapshot = s
      /\ \A k \in 1 .. Len(stack) : stack'[k] = stack[k]
  BY <1>1, <1>2, BeginLength, Records
<1>4. \A y : y \in Dispatching' <=> \E k \in 1 .. Len(stack) + 1 : y = Seen(stack'[k].snapshot)
  BY <1>3, StepInv, SeenPrimed
<1>5. \A k \in 1 .. Len(stack) + 1 : k \in 1 .. Len(stack) \/ k = Len(stack) + 1
  BY <1>3
<1>6. Dispatching' = Dispatching \cup {x}
  <2>1. \A k \in 1 .. Len(stack) : k \in 1 .. Len(stack) + 1
    BY <1>3
  <2>2. Len(stack) + 1 \in 1 .. Len(stack) + 1
    BY <1>3
  <2>3. \A y : y \in Dispatching' <=> (y \in Dispatching \/ y = x)
    BY <1>2, <1>3, <1>4, <1>5, <2>1, <2>2, SeenEvents
  <2> QED BY <2>3
<1>7. \A y \in Dispatching : y.event # e
  <2> TAKE y \in Dispatching
  <2>1. PICK k \in 1 .. Len(stack) : y = Seen(stack[k].snapshot)
    BY SeenEvents
  <2>2. event_dispatch_depth[e] = 0
    BY DEF MustQueue
  <2>3. stack[k].snapshot.event # e
    BY <2>2 DEF IInv, DepthInv
  <2> QED BY <2>1, <2>3 DEF Seen
<1>8. Waiting' = Waiting
  BY <1>1 DEF Waiting
<1> QED BY <1>1, <1>6, <1>7, <1>8
        DEF Promise!Publish, Promise!DispatchNow, Promise!New, Promise!Busy, Waiting, Dispatching

(* Publishing an event whose kind is in dispatch makes it wait, alone or   *)
(* in place of the panel's older selection.                                *)
LEMMA PublishLater ==
  ASSUME IInv, QueueInv, [Next]_vars, NEW e \in Event, NEW p \in Panel \cup {NoPanel},
         mc_runtime_event_publish(e, p), MustQueue(e)
  PROVE  Promise!Publish(e, p)
<1> DEFINE s == [id |-> published + 1, event |-> e, panel |-> p, consumed |-> FALSE]
           x == [id |-> published + 1, event |-> e, panel |-> p]
           n == Len(pending)
<1>1. published' = published + 1 /\ stack' = stack /\ pending' = Enqueue(pending, s)
  BY DEF mc_runtime_event_publish, dispatchVars
<1>2. s \in Snapshot /\ Seen(s) = x
  BY PendingEvents DEF IInv, Snapshot, Seen
<1>3. s.event = e /\ s.panel = p
  OBVIOUS
<1>4. Dispatching' = Dispatching
  BY <1>1 DEF Dispatching
<1>5. \E d \in Dispatching : d.event = e
  <2>1. event_dispatch_depth[e] # 0
    BY DEF MustQueue
  <2>2. PICK k \in 1 .. Len(stack) : stack[k].snapshot.event = e
    BY <2>1 DEF IInv, DepthInv
  <2>3. Seen(stack[k].snapshot) \in Dispatching /\ Seen(stack[k].snapshot).event = e
    BY <2>2, SeenEvents DEF Seen
  <2> QED BY <2>3
<1> HIDE DEF s
<1>6. /\ pending \in Seq(Snapshot) /\ n \in Nat
      /\ \A y : y \in Waiting <=> \E i \in 1 .. n : y = Seen(pending[i])
      /\ \A y : y \in Waiting' <=> \E i \in 1 .. Len(pending') : y = Seen(pending'[i])
  BY PendingEvents, SeenEvents, StepInv, SeenPrimed DEF IInv
<1>7. CASE pending' = Append(pending, s)
  <2>1. /\ Len(pending') = n + 1 /\ pending'[n + 1] = s
        /\ \A i \in 1 .. n : pending'[i] = pending[i]
    BY <1>2, <1>6, <1>7, AppendLemma
  <2>2. /\ \A i \in 1 .. n : i \in 1 .. n + 1
        /\ n + 1 \in 1 .. n + 1
        /\ \A i \in 1 .. n + 1 : i \in 1 .. n \/ i = n + 1
    BY <1>6
  <2>3. \A y : y \in Waiting' <=> (y \in Waiting \/ y = x)
    BY <1>2, <1>6, <2>1, <2>2
  <2>4. Waiting' = Waiting \cup {x}
    BY <2>3
  <2> QED BY <1>1, <1>4, <1>5, <2>4
          DEF Promise!Publish, Promise!Wait, Promise!New, Promise!Busy, Waiting, Dispatching
<1>8. ASSUME NEW k \in 1 .. n, Coalesces(pending[k], s), pending' = [pending EXCEPT ![k] = s]
      PROVE  Promise!Publish(e, p)
  <2> DEFINE old == Seen(pending[k])
  <2>1. /\ Len(pending') = n
        /\ \A i \in 1 .. n : pending'[i] = IF i = k THEN s ELSE pending[i]
    BY <1>2, <1>6, <1>8, ExceptSeq
  <2>2. \A i \in 1 .. n : i # k => Seen(pending[i]) # old
    <3> TAKE i \in 1 .. n
    <3> HAVE i # k
    <3>1. i < k \/ k < i
      BY <1>6
    <3>2. pending[i].id # pending[k].id
      BY <3>1 DEF QueueInv
    <3> QED BY <3>2 DEF Seen
  <2>3. old # x
    <3>1. pending[k].id <= published /\ pending[k].id \in Nat /\ published \in Nat
      BY PendingEvents DEF QueueInv, IInv
    <3>2. pending[k].id # published + 1
      BY <3>1
    <3> QED BY <3>2 DEF Seen
  <2>4. \A y : y \in Waiting' <=> ((y \in Waiting /\ y # old) \/ y = x)
    BY <1>2, <1>6, <2>1, <2>2, <2>3
  <2>5. Waiting' = (Waiting \ {old}) \cup {x}
    BY <2>4
  <2>6. old \in Waiting
    BY <1>6
  <2>7. old.event = Selection /\ e = Selection /\ old.panel = p
    BY <1>3, <1>8 DEF Coalesces, Seen
  <2> HIDE DEF old
  <2>8. Promise!Supersede(old, x)
    BY <1>1, <1>4, <1>5, <2>5, <2>7
       DEF Promise!Supersede, Promise!New, Promise!Busy, Waiting, Dispatching
  <2> QED BY <2>6, <2>8 DEF Promise!Publish, Waiting
<1> QED BY <1>1, <1>2, <1>6, <1>7, <1>8, EnqueuePlace

(* The drain starts a waiting event when nothing is in dispatch.           *)
LEMMA DrainStarts ==
  ASSUME IInv, QueueInv, [Next]_vars, DrainNext
  PROVE  Promise!StartAny
<1> DEFINE s == Head(pending)
           n == Len(pending)
<1>1. /\ dispatch_depth = 0 /\ pending # <<>> /\ pending' = Tail(pending) /\ published' = published
      /\ BeginDispatch(s, TRUE)
  BY DEF DrainNext, DrainRuns
<1>2. /\ pending \in Seq(Snapshot) /\ n \in Nat \ {0} /\ s = pending[1] /\ s \in Snapshot
      /\ Len(pending') = n - 1
      /\ \A i \in 1 .. n - 1 : pending'[i] = pending[i + 1]
  BY <1>1, PendingEvents, HeadTailProperties, EmptySeq DEF IInv
<1> HIDE DEF s
<1>3. Len(stack) = 0
  BY <1>1 DEF IInv, DepthInv
<1>4. Dispatching = {}
  BY <1>3, SeenEvents
<1>5. Dispatching' = {Seen(s)}
  <2>1. Len(stack') = 1 /\ stack'[1].snapshot = s
    <3>1. Len(stack') = Len(stack) + 1 /\ stack'[Len(stack) + 1].snapshot = s
      BY <1>1, <1>2, BeginLength
    <3>2. Len(stack) + 1 = 1
      BY <1>3
    <3> QED BY <3>1, <3>2
  <2>2. \A y : y \in Dispatching' <=> \E k \in 1 .. Len(stack') : y = Seen(stack'[k].snapshot)
    BY StepInv, SeenPrimed
  <2>3. \A y : y \in Dispatching' <=> y = Seen(s)
    BY <2>1, <2>2
  <2> QED BY <2>3
<1>6. Waiting' = Waiting \ {Seen(s)}
  <2>1. /\ \A y : y \in Waiting <=> \E i \in 1 .. n : y = Seen(pending[i])
        /\ \A y : y \in Waiting' <=> \E i \in 1 .. n - 1 : y = Seen(pending[i + 1])
    BY <1>2, SeenEvents, StepInv, SeenPrimed
  <2>2. \A i \in 1 .. n : i # 1 => Seen(pending[i]) # Seen(s)
    <3> TAKE i \in 1 .. n
    <3> HAVE i # 1
    <3>1. 1 \in 1 .. n /\ 1 < i
      BY <1>2
    <3>2. pending[1].id # pending[i].id
      BY <3>1 DEF QueueInv
    <3> QED BY <3>2, <1>2 DEF Seen
  <2>3. /\ \A i \in 1 .. n - 1 : i + 1 \in 1 .. n /\ i + 1 # 1
        /\ \A i \in 1 .. n : i # 1 => i - 1 \in 1 .. n - 1 /\ (i - 1) + 1 = i
    BY <1>2
  <2>4. ASSUME NEW y \in Waiting' PROVE y \in Waiting /\ y # Seen(s)
    <3>1. PICK i \in 1 .. n - 1 : y = Seen(pending[i + 1])
      BY <2>1
    <3> QED BY <3>1, <2>1, <2>2, <2>3
  <2>5. ASSUME NEW y \in Waiting, y # Seen(s) PROVE y \in Waiting'
    <3>1. PICK i \in 1 .. n : y = Seen(pending[i])
      BY <2>1
    <3>2. i # 1
      BY <2>5, <3>1, <1>2
    <3>3. y = Seen(pending[(i - 1) + 1]) /\ i - 1 \in 1 .. n - 1
      BY <2>3, <3>1, <3>2
    <3> QED BY <3>3, <2>1
  <2> QED BY <2>4, <2>5
<1>7. Seen(s) \in Waiting
  BY <1>2, SeenEvents
<1> QED BY <1>1, <1>4, <1>5, <1>6, <1>7
        DEF Promise!StartAny, Promise!Start, Waiting, Dispatching

(* The end of a dispatch finishes its event.                               *)
LEMMA EndFinishes ==
  ASSUME IInv, [Next]_vars, EndDispatch
  PROVE  Promise!FinishAny
<1> DEFINE n == Len(stack)
           x == Seen(stack[n].snapshot)
<1>1. stack # <<>> /\ stack' = Front(stack) /\ UNCHANGED <<pending, published>>
  BY DEF EndDispatch, DispatchRuns
<1>2. /\ n \in Nat /\ n \in 1 .. n /\ Len(stack') = n - 1
      /\ \A k \in 1 .. n - 1 : stack'[k] = stack[k]
  BY <1>1, TopFrame, Records, FrontProperties DEF IInv, TypeOK
<1>3. \A y : y \in Dispatching' <=> \E k \in 1 .. n - 1 : y = Seen(stack[k].snapshot)
  BY <1>2, StepInv, SeenPrimed
<1>4. \A k \in 1 .. n - 1 : Seen(stack[k].snapshot) # x
  <2> TAKE k \in 1 .. n - 1
  <2>1. k \in 1 .. n /\ k # n
    BY <1>2
  <2>2. stack[k].snapshot.event # stack[n].snapshot.event
    BY <1>2, <2>1 DEF IInv, DepthInv
  <2> QED BY <2>2 DEF Seen
<1>5. \A k \in 1 .. n : k = n \/ k \in 1 .. n - 1
  BY <1>2
<1>6. \A k \in 1 .. n - 1 : k \in 1 .. n
  BY <1>2
<1>7. \A y : y \in Dispatching <=> \E k \in 1 .. n : y = Seen(stack[k].snapshot)
  BY SeenEvents
<1> HIDE DEF n
<1>8. \A y : y \in Dispatching' <=> (y \in Dispatching /\ y # x)
  BY <1>3, <1>4, <1>5, <1>6, <1>7
<1>9. Dispatching' = Dispatching \ {x} /\ x \in Dispatching
  BY <1>2, <1>7, <1>8
<1>10. Waiting' = Waiting
  BY <1>1 DEF Waiting
<1> HIDE DEF x
<1> QED BY <1>1, <1>9, <1>10 DEF Promise!FinishAny, Promise!Finish, Waiting, Dispatching

(* Every step of the bus is a step of its promise, or changes nothing the  *)
(* publishers see.                                                         *)
LEMMA BusStep ==
  ASSUME IInv, QueueInv, [Next]_vars
  PROVE  [Promise!BusNext]_(Promise!busVars)
<1>1. ASSUME NEW e \in Event, NEW p \in Panel \cup {NoPanel}, mc_runtime_event_publish(e, p)
      PROVE  Promise!BusNext
  <2>1. Promise!Publish(e, p)
    BY <1>1, PublishNow, PublishLater
  <2> QED BY <2>1 DEF Promise!BusNext
<1>2. CASE DrainNext
  BY <1>2, DrainStarts DEF Promise!BusNext
<1>3. CASE EndDispatch
  BY <1>3, EndFinishes DEF Promise!BusNext
<1>4. CASE mc_runtime_events_deinit
  <2>1. /\ CodeRuns /\ stack = <<>> /\ pending' = <<>> /\ UNCHANGED <<stack, published>>
    BY <1>4 DEF mc_runtime_events_deinit, dispatchVars
  <2>2. pending = <<>>
    BY <2>1 DEF CodeRuns, IInv, NothingStuck
  <2>3. Waiting' = Waiting /\ Dispatching' = Dispatching
    BY <2>1, <2>2 DEF Waiting, Dispatching
  <2> QED BY <2>1, <2>3 DEF Promise!busVars, Waiting, Dispatching
<1>5. CASE (UNCHANGED stack \/ Call \/ Return) /\ UNCHANGED <<pending, published>>
  <2>1. Dispatching' = Dispatching
    <3>1. CASE UNCHANGED stack
      BY <3>1 DEF Dispatching
    <3> QED BY <1>5, <3>1, CallsUnseen
  <2>2. Waiting' = Waiting
    BY <1>5 DEF Waiting
  <2> QED BY <1>5, <2>1, <2>2 DEF Promise!busVars, Waiting, Dispatching
<1> QED BY <1>1, <1>2, <1>3, <1>4, <1>5, BusMoves

(* The queue, the copied lists and the C stack of dispatches together do   *)
(* what EventBus promises: no published event is lost or dispatched twice, *)
(* and no two of one kind are in dispatch together.                        *)
THEOREM BusImplemented == Spec => ImplementsEventBus
<1>1. Init => Promise!BusInit
  <2> SUFFICES ASSUME Init PROVE Promise!BusInit
    OBVIOUS
  <2>1. Range(pending) = {} /\ Range(stack) = {} /\ published = 0
    BY DEF Init, Range
  <2> QED BY <2>1 DEF Promise!BusInit
<1>2. IInv /\ QueueInv /\ [Next]_vars => [Promise!BusNext]_(Promise!busVars)
  BY BusStep
<1>3. Spec => Promise!BusSpec
  BY <1>1, <1>2, QueueInvariant, PTL DEF Spec, Promise!BusSpec
<1> QED BY <1>3 DEF ImplementsEventBus
=============================================================================
