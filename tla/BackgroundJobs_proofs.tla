------------------------ MODULE BackgroundJobs_proofs ------------------------
(***************************************************************************)
(* Proofs about BackgroundJobs: an answer reaches the question it belongs  *)
(* to, and no job is forgotten, for any number of jobs and requests.       *)
(*                                                                         *)
(* A request is in one place at a time: in the pipe, half read by the      *)
(* innermost loop, in a dialog somewhere on the stack, answered in the     *)
(* other pipe, or none.  Stage says so of every living job, which is what  *)
(* the stale select sets could break: a loop may read from a pipe that an  *)
(* inner loop has emptied, but what comes next through it is a head again. *)
(***************************************************************************)
EXTENDS BackgroundJobs, SequenceLemmas

(* A loop of s has read the head of a request of j; the loops that show a  *)
(* question of j.                                                          *)
Rest(s, j) == \E i \in DOMAIN s : s[i].job = j /\ s[i].phase = "rest"
Asked(s, j) == {i \in DOMAIN s : s[i].job = j /\ s[i].phase = "asked"}

(* Only dialogs are below the innermost loop.                              *)
StackInv ==
  /\ stack # <<>>
  /\ \A i \in DOMAIN stack :
       /\ stack[i].phase = "idle" <=> stack[i].job = NoJob
       /\ i < Len(stack) => stack[i].phase \in {"asked", "notice"}
       /\ stack[i].job # NoJob => proc[stack[i].job] # "none"
  /\ mc # "running" => stack = <<IdleLoop>>

(* Where the request of j is.  p, u, d, c and s stand for pc[j], up[j],    *)
(* down[j], calls[j] and stack.                                            *)
Stage(j, p, u, d, c, s) ==
  \/ /\ p \in {"work", "leaving"} /\ u = <<>> /\ d = <<>>
     /\ ~Rest(s, j) /\ Asked(s, j) = {}
  \/ /\ p = "sending" /\ d = <<>> /\ Asked(s, j) = {}
     /\ Rest(s, j) => u = <<>>
     /\ ~Rest(s, j) => u = <<"head">>
  \/ /\ p = "asking" /\ d = <<>> /\ Asked(s, j) = {}
     /\ Rest(s, j) => u = <<"rest">>
     /\ ~Rest(s, j) => u = <<"head", "rest">>
  \/ /\ p = "asking" /\ d = <<>> /\ u = <<>> /\ ~Rest(s, j)
     /\ \E i \in DOMAIN s : Asked(s, j) = {i} /\ s[i].call = c
  \/ /\ p = "asking" /\ d = <<c>> /\ u = <<>> /\ ~Rest(s, j) /\ Asked(s, j) = {}

(* A living job is watched and in the task list, unless it was killed or   *)
(* has had the answer to its goodbye.                                      *)
Kept(j) ==
  \/ task[j] = "killed"
  \/ Watched(j) /\ Listed(j)
  \/ request[j] = "bye" /\ up[j] = <<>> /\ pc[j] \in {"asking", "leaving"}

JobOf(j) ==
  /\ proc[j] = "none" => /\ pc[j] = "work" /\ up[j] = <<>> /\ down[j] = <<>>
                         /\ request[j] = "none" /\ ~Watched(j)
  /\ request[j] = "bye" \/ calls[j] <= MaxCalls
  /\ Alive(j) =>
       /\ pc[j] = "work" => request[j] # "bye"
       /\ down[j] # <<>> => down[j] = <<calls[j]>> /\ pc[j] = "asking"
       /\ mc = "running" => Stage(j, pc[j], up[j], down[j], calls[j], stack) /\ Kept(j)

JobInv == \A j \in Job : JobOf(j)

IInv == TypeOK /\ StackInv /\ JobInv

-----------------------------------------------------------------------------
(* Sequences and loops.                                                    *)

(* What delete_select_channel leaves: the others are watched as before.    *)
LEMMA RemoveFirstProperties ==
  ASSUME NEW S, NEW s \in Seq(S), NEW e
  PROVE  /\ RemoveFirst(s, e) \in Seq(S)
         /\ \A x : Contains(RemoveFirst(s, e), x) => Contains(s, x)
         /\ \A x : x # e /\ Contains(s, x) => Contains(RemoveFirst(s, e), x)
<1>1. CASE ~\E i \in 1 .. Len(s) : s[i] = e
  <2>1. RemoveFirst(s, e) = s
    BY <1>1 DEF RemoveFirst
  <2> QED BY <2>1
<1>2. CASE \E i \in 1 .. Len(s) : s[i] = e
  <2> DEFINE I == {i \in 1 .. Len(s) : s[i] = e}
             m == Min(I)
             r == RemoveAt(s, m)
  <2>1. Len(s) \in Nat /\ I \in SUBSET Nat /\ I # {}
    BY <1>2, LenProperties
  <2>2. \E i \in I : \A k \in I : i <= k
    <3> HIDE DEF I
    <3> QED BY <2>1, LeastNatural
  <2>3. m \in I
    <3> HIDE DEF I
    <3> QED BY <2>2 DEF Min
  <2>4. RemoveFirst(s, e) = r
    BY <1>2, <2>1 DEF RemoveFirst, SelectInSeq
  <2> HIDE DEF m
  <2>5. m \in 1 .. Len(s) /\ s[m] = e
    BY <2>3
  <2>6. /\ r \in Seq(S) /\ Len(r) = Len(s) - 1
        /\ \A j \in 1 .. Len(s) - 1 : r[j] = IF j < m THEN s[j] ELSE s[j + 1]
    BY <2>5, RemoveAtProperties
  <2> HIDE DEF r, I
  <2>7. ASSUME NEW x, Contains(r, x)
        PROVE  Contains(s, x)
    <3>1. PICK j \in 1 .. Len(s) - 1 : r[j] = x
      BY <2>6, <2>7 DEF Contains
    <3>2. j \in 1 .. Len(s) /\ j + 1 \in 1 .. Len(s) /\ (r[j] = s[j] \/ r[j] = s[j + 1])
      BY <2>1, <2>6
    <3> QED BY <3>1, <3>2 DEF Contains
  <2>8. ASSUME NEW x, x # e, Contains(s, x)
        PROVE  Contains(r, x)
    <3>1. PICK j \in 1 .. Len(s) : s[j] = x
      BY <2>8 DEF Contains
    <3>2. j < m \/ j > m
      BY <2>1, <2>5, <2>8, <3>1
    <3>3. CASE j < m
      <4>1. j \in 1 .. Len(s) - 1
        BY <2>1, <2>5, <3>3
      <4> QED BY <2>6, <3>1, <3>3, <4>1 DEF Contains
    <3>4. CASE j > m
      <4>1. j - 1 \in 1 .. Len(s) - 1 /\ ~(j - 1 < m) /\ (j - 1) + 1 = j
        BY <2>1, <2>5, <3>4
      <4>2. r[j - 1] = s[j]
        BY <2>6, <4>1
      <4> QED BY <2>6, <3>1, <4>1, <4>2 DEF Contains
    <3> QED BY <3>2, <3>3, <3>4
  <2> QED BY <2>4, <2>6, <2>7, <2>8
<1> QED BY <1>1, <1>2

(* Loops.                                                                  *)
LEMMA Loops ==
  /\ IdleLoop \in Loop /\ IdleLoop.phase = "idle" /\ IdleLoop.job = NoJob
  /\ \A l \in Loop : Returned(l) \in Loop /\ Returned(l).phase = "idle" /\ Returned(l).job = NoJob
  /\ \A l \in Loop : \A p \in {"rest", "notice"} :
       LET m == [l EXCEPT !.phase = p]
       IN m \in Loop /\ m.phase = p /\ m.job = l.job
  /\ \A l \in Loop : \A p \in {"asked", "notice"} : \A c \in Nat :
       LET m == [l EXCEPT !.phase = p, !.call = c]
       IN m \in Loop /\ m.phase = p /\ m.job = l.job /\ m.call = c
  /\ \A l \in Loop : \A r \in SUBSET Job :
       LET m == [l EXCEPT !.ready = r]
       IN m \in Loop /\ m.phase = l.phase /\ m.job = l.job
BY DEF Loop, IdleLoop, Returned

(* The innermost loop is replaced.                                         *)
LEMMA TopReplaced ==
  ASSUME IInv, NEW l \in Loop
  PROVE  LET t == WithTop(l) n == Len(stack)
         IN /\ t \in Seq(Loop) /\ Len(t) = n /\ DOMAIN t = 1 .. n /\ t # <<>> /\ t[n] = l
            /\ \A i \in 1 .. n - 1 : t[i] = stack[i]
            /\ n \in Nat \ {0} /\ DOMAIN stack = 1 .. n /\ Top = stack[n] /\ Top \in Loop
<1>1. stack \in Seq(Loop) /\ stack # <<>>
  BY DEF IInv, TypeOK, StackInv
<1>2. /\ Front(stack) \in Seq(Loop) /\ Len(stack) \in Nat \ {0}
      /\ Len(Front(stack)) = Len(stack) - 1
      /\ \A i \in 1 .. Len(stack) - 1 : Front(stack)[i] = stack[i]
  BY <1>1, FrontProperties
<1>3. DOMAIN stack = 1 .. Len(stack) /\ Top = stack[Len(stack)] /\ Top \in Loop
  BY <1>1, <1>2, LenProperties, ElementOfSeq DEF Top, Last
<1> DEFINE t == Append(Front(stack), l)
<1>4. /\ t \in Seq(Loop) /\ Len(t) = Len(stack) /\ DOMAIN t = 1 .. Len(stack) /\ t[Len(stack)] = l
      /\ \A i \in 1 .. Len(stack) - 1 : t[i] = Front(stack)[i]
  <2>1. /\ t \in Seq(Loop) /\ DOMAIN t = 1 .. Len(Front(stack)) + 1
        /\ Len(t) = Len(Front(stack)) + 1 /\ t[Len(Front(stack)) + 1] = l
        /\ \A i \in 1 .. Len(Front(stack)) : t[i] = Front(stack)[i]
    BY <1>2, AppendLemma
  <2>2. Len(Front(stack)) + 1 = Len(stack)
    BY <1>2
  <2> HIDE DEF t
  <2> QED BY <1>2, <2>1, <2>2
<1>5. t # <<>>
  <2> HIDE DEF t
  <2> QED BY <1>2, <1>4, EmptySeq
<1> QED BY <1>2, <1>3, <1>4, <1>5 DEF WithTop

(* The innermost loop while it waits in a dialog.                          *)
Showing(p, c) == [Top EXCEPT !.phase = p, !.call = c]

(* A dialog is opened over the innermost loop.                             *)
LEMMA DialogOpened ==
  ASSUME IInv, NEW p \in {"asked", "notice"}, NEW c \in Nat
  PROVE  LET t == Modal(p, c) n == Len(stack)
         IN /\ t \in Seq(Loop) /\ Len(t) = n + 1 /\ DOMAIN t = 1 .. n + 1 /\ t # <<>>
            /\ t[n + 1] = IdleLoop /\ t[n] = Showing(p, c)
            /\ \A i \in 1 .. n - 1 : t[i] = stack[i]
            /\ n \in Nat \ {0} /\ DOMAIN stack = 1 .. n /\ Top = stack[n] /\ Top \in Loop
            /\ Showing(p, c) \in Loop /\ Showing(p, c).phase = p /\ Showing(p, c).call = c
            /\ Showing(p, c).job = Top.job
<1> DEFINE l == Showing(p, c)
           w == WithTop(l)
           n == Len(stack)
<1>1. stack \in Seq(Loop) /\ stack # <<>>
  BY DEF IInv, TypeOK, StackInv
<1>2. Top \in Loop
  BY <1>1, LenProperties, EmptySeq, ElementOfSeq DEF Top, Last
<1>3. l \in Loop /\ l.phase = p /\ l.call = c /\ l.job = Top.job
  BY <1>2 DEF Showing, Loop
<1> HIDE DEF l
<1>4. /\ w \in Seq(Loop) /\ Len(w) = n /\ w[n] = l
      /\ \A i \in 1 .. n - 1 : w[i] = stack[i]
      /\ n \in Nat \ {0} /\ DOMAIN stack = 1 .. n /\ Top = stack[n]
  BY <1>3, TopReplaced
<1> HIDE DEF w
<1>5. /\ w \o <<IdleLoop>> \in Seq(Loop) /\ Len(w \o <<IdleLoop>>) = n + 1
      /\ \A i \in 1 .. n + 1 :
           (w \o <<IdleLoop>>)[i] = IF i <= n THEN w[i] ELSE <<IdleLoop>>[i - n]
  <2>1. IdleLoop \in Loop
    BY Loops
  <2>2. <<IdleLoop>> \in Seq(Loop) /\ Len(<<IdleLoop>>) = 1
    BY <2>1
  <2> QED BY <1>4, <2>2, ConcatProperties
<1>6. <<IdleLoop>>[(n + 1) - n] = IdleLoop
  BY <1>4
<1>7. Modal(p, c) = w \o <<IdleLoop>>
  BY DEF Modal, w, l, Showing
<1> DEFINE t == Modal(p, c)
<1>8. /\ t \in Seq(Loop) /\ Len(t) = n + 1 /\ t[n + 1] = IdleLoop /\ t[n] = l
      /\ \A i \in 1 .. n - 1 : t[i] = stack[i]
  BY <1>4, <1>5, <1>6, <1>7
<1> HIDE DEF t
<1>9. DOMAIN t = 1 .. n + 1 /\ t # <<>>
  BY <1>4, <1>8, LenProperties, EmptySeq
<1> QED BY <1>2, <1>3, <1>4, <1>8, <1>9 DEF l, t

(* The innermost dialog is closed, and the loop below goes on as l.        *)
LEMMA DialogClosed ==
  ASSUME IInv, Len(stack) > 1, NEW l \in Loop
  PROVE  LET t == Append(Front(Front(stack)), l) n == Len(stack)
         IN /\ t \in Seq(Loop) /\ Len(t) = n - 1 /\ DOMAIN t = 1 .. n - 1 /\ t # <<>>
            /\ t[n - 1] = l
            /\ \A i \in 1 .. n - 2 : t[i] = stack[i]
            /\ n \in Nat /\ DOMAIN stack = 1 .. n /\ Last(Front(stack)) = stack[n - 1]
            /\ Last(Front(stack)) \in Loop
<1> DEFINE n == Len(stack)
           f == Front(stack)
           g == Front(f)
           t == Append(g, l)
<1>1. stack \in Seq(Loop) /\ stack # <<>>
  BY DEF IInv, TypeOK, StackInv
<1>2. /\ f \in Seq(Loop) /\ n \in Nat \ {0} /\ Len(f) = n - 1 /\ DOMAIN stack = 1 .. n
      /\ \A i \in 1 .. n - 1 : f[i] = stack[i]
  BY <1>1, FrontProperties, LenProperties
<1> HIDE DEF f
<1>3. f # <<>>
  BY <1>2, EmptySeq
<1>4. /\ g \in Seq(Loop) /\ Len(g) = Len(f) - 1
      /\ \A i \in 1 .. Len(f) - 1 : g[i] = f[i]
  BY <1>2, <1>3, FrontProperties
<1> HIDE DEF g
<1>5. /\ t \in Seq(Loop) /\ DOMAIN t = 1 .. Len(g) + 1 /\ Len(t) = Len(g) + 1
      /\ t[Len(g) + 1] = l /\ \A i \in 1 .. Len(g) : t[i] = g[i]
  BY <1>4, AppendLemma
<1> HIDE DEF t
<1>6. Len(g) = n - 2 /\ Len(g) + 1 = n - 1 /\ n - 1 \in 1 .. n - 1
  BY <1>2, <1>4
<1>7. \A i \in 1 .. n - 2 : t[i] = stack[i]
  <2> TAKE i \in 1 .. n - 2
  <2>1. i \in 1 .. n - 1
    BY <1>2
  <2> QED BY <1>2, <1>4, <1>5, <1>6, <2>1
<1>8. Last(f) = stack[n - 1] /\ stack[n - 1] \in Loop
  <2>1. n - 1 \in 1 .. n
    BY <1>2
  <2> QED BY <1>1, <1>2, <1>6, <2>1, ElementOfSeq DEF Last
<1>9. t # <<>>
  BY <1>2, <1>5, <1>6, EmptySeq
<1> QED BY <1>2, <1>5, <1>6, <1>7, <1>8, <1>9 DEF t, g, f

-----------------------------------------------------------------------------
(* What a step that does not concern a job keeps.                          *)

(* s and t have the same loops at work on requests of j.                   *)
Quiet(s, t, j) ==
  /\ \A i \in DOMAIN s : (s[i].job = j /\ s[i].phase \in {"rest", "asked"})
                           => i \in DOMAIN t /\ t[i] = s[i]
  /\ \A i \in DOMAIN t : (t[i].job = j /\ t[i].phase \in {"rest", "asked"})
                           => i \in DOMAIN s /\ s[i] = t[i]

(* Then the request is where it was.                                       *)
LEMMA QuietStage ==
  ASSUME NEW s, NEW t, NEW j, Quiet(s, t, j)
  PROVE  /\ Rest(t, j) <=> Rest(s, j)
         /\ Asked(t, j) = Asked(s, j)
         /\ \A p, u, d, c : Stage(j, p, u, d, c, s) => Stage(j, p, u, d, c, t)
<1>1. Rest(t, j) <=> Rest(s, j)
  BY DEF Rest, Quiet
<1>2. Asked(t, j) = Asked(s, j)
  BY DEF Asked, Quiet
<1>3. ASSUME NEW i \in DOMAIN s, Asked(s, j) = {i}
      PROVE  i \in DOMAIN t /\ t[i] = s[i]
  BY <1>3 DEF Asked, Quiet
<1>4. ASSUME NEW p, NEW u, NEW d, NEW c, Stage(j, p, u, d, c, s)
      PROVE  Stage(j, p, u, d, c, t)
  BY <1>1, <1>2, <1>3, <1>4 DEF Stage
<1> QED BY <1>1, <1>2, <1>4

(* Nothing of j is on the innermost loop.                                  *)
LEMMA QuietTop ==
  ASSUME IInv, NEW l \in Loop, NEW j \in Job, stack' = WithTop(l),
         Top.job # j \/ Top.phase \notin {"rest", "asked"},
         l.job # j \/ l.phase \notin {"rest", "asked"}
  PROVE  Quiet(stack, stack', j)
<1> DEFINE n == Len(stack)
<1>1. /\ DOMAIN stack' = 1 .. n /\ stack'[n] = l /\ \A i \in 1 .. n - 1 : stack'[i] = stack[i]
      /\ n \in Nat \ {0} /\ DOMAIN stack = 1 .. n /\ Top = stack[n]
  BY TopReplaced
<1>1a. n \in Nat \ {0}
  BY <1>1
<1> HIDE DEF n
<1>2. \A i \in 1 .. n : i = n \/ i \in 1 .. n - 1
  BY <1>1a
<1> HIDE DEF n
<1> QED BY <1>1, <1>2 DEF Quiet

(* Nor on one over which a dialog opens.                                   *)
LEMMA QuietOpened ==
  ASSUME IInv, NEW j \in Job, NEW p \in {"asked", "notice"}, NEW c \in Nat,
         stack' = Modal(p, c),
         Top.job # j \/ (p = "notice" /\ Top.phase # "rest" /\ Top.phase # "asked")
  PROVE  Quiet(stack, stack', j)
<1> DEFINE n == Len(stack)
           l == Showing(p, c)
<1> DEFINE m == Modal(p, c)
<1>0. /\ DOMAIN m = 1 .. n + 1 /\ m[n] = l /\ m[n + 1] = IdleLoop
      /\ \A i \in 1 .. n - 1 : m[i] = stack[i]
      /\ n \in Nat \ {0} /\ DOMAIN stack = 1 .. n /\ Top = stack[n] /\ Top \in Loop
  BY DialogOpened
<1> HIDE DEF m, n, l
<1>1. /\ DOMAIN stack' = 1 .. n + 1 /\ stack'[n] = l /\ stack'[n + 1] = IdleLoop
      /\ \A i \in 1 .. n - 1 : stack'[i] = stack[i]
      /\ n \in Nat \ {0} /\ DOMAIN stack = 1 .. n /\ Top = stack[n] /\ Top \in Loop
  BY <1>0 DEF m
<1>1a. n \in Nat \ {0}
  BY <1>1
<1> HIDE DEF n, l
<1>2. \A i \in 1 .. n + 1 : i = n + 1 \/ i = n \/ i \in 1 .. n - 1
  BY <1>1a
<1>3. \A i \in 1 .. n : i = n \/ i \in 1 .. n - 1
  BY <1>1a
<1>4. \A i \in 1 .. n - 1 : i \in 1 .. n /\ i \in 1 .. n + 1
  BY <1>1a
<1>5. l.job = Top.job /\ l.phase = p
  BY DialogOpened DEF l
<1>6. IdleLoop.phase = "idle"
  BY Loops
<1> HIDE DEF n, l
<1> QED BY <1>1, <1>2, <1>3, <1>4, <1>5, <1>6 DEF Quiet

(* Nor on one whose dialog is closed.                                      *)
LEMMA QuietClosed ==
  ASSUME IInv, NEW j \in Job, Len(stack) > 1, NEW l \in Loop, l.phase = "idle",
         stack' = Append(Front(Front(stack)), l), Top.phase = "idle",
         Last(Front(stack)).job # j \/ Last(Front(stack)).phase \notin {"rest", "asked"}
  PROVE  Quiet(stack, stack', j)
<1> DEFINE n == Len(stack)
<1>1. /\ DOMAIN stack' = 1 .. n - 1 /\ stack'[n - 1] = l
      /\ \A i \in 1 .. n - 2 : stack'[i] = stack[i]
      /\ n \in Nat /\ n > 1 /\ DOMAIN stack = 1 .. n /\ Last(Front(stack)) = stack[n - 1]
      /\ Top = stack[n]
  BY DialogClosed DEF Top, Last
<1>1a. n \in Nat /\ n > 1
  BY <1>1
<1> HIDE DEF n
<1>2. \A i \in 1 .. n : i = n \/ i = n - 1 \/ i \in 1 .. n - 2
  BY <1>1a
<1>3. \A i \in 1 .. n - 1 : i = n - 1 \/ i \in 1 .. n - 2
  BY <1>1a
<1>4. \A i \in 1 .. n - 2 : i \in 1 .. n /\ i \in 1 .. n - 1
  BY <1>1a
<1> HIDE DEF n
<1> QED BY <1>1, <1>2, <1>3, <1>4 DEF Quiet

(* What the invariant says of the loops by their number.                   *)
LEMMA StackFacts ==
  ASSUME IInv
  PROVE  LET n == Len(stack)
         IN /\ \A i \in 1 .. n : stack[i].phase = "idle" <=> stack[i].job = NoJob
            /\ \A i \in 1 .. n : i < n => stack[i].phase \in {"asked", "notice"}
            /\ \A i \in 1 .. n : stack[i].job # NoJob => proc[stack[i].job] # "none"
            /\ \A i \in 1 .. n : stack[i].job \in Job \cup {NoJob}
            /\ n \in Nat \ {0} /\ DOMAIN stack = 1 .. n /\ Top = stack[n] /\ Top \in Loop
<1>1. stack \in Seq(Loop) /\ stack # <<>>
  BY DEF IInv, TypeOK, StackInv
<1>2. DOMAIN stack = 1 .. Len(stack) /\ Len(stack) \in Nat \ {0}
  BY <1>1, LenProperties, EmptySeq
<1>3. \A i \in 1 .. Len(stack) : stack[i] \in Loop
  BY <1>1, ElementOfSeq
<1>4. \A i \in 1 .. Len(stack) : stack[i].job \in Job \cup {NoJob}
  BY <1>3 DEF Loop
<1>5. Top = stack[Len(stack)] /\ Top \in Loop
  BY <1>2, <1>3 DEF Top, Last
<1> QED BY <1>2, <1>4, <1>5 DEF IInv, StackInv

(* The stack stays one of dialogs with one loop on top.                    *)
LEMMA TopStack ==
  ASSUME IInv, mc = "running", mc' = "running", NEW l \in Loop, stack' = WithTop(l),
         l.phase = "idle" <=> l.job = NoJob,
         l.job # NoJob => proc'[l.job] # "none",
         \A k \in Job : proc[k] # "none" => proc'[k] # "none"
  PROVE  StackInv' /\ stack' \in Seq(Loop)
<1> DEFINE n == Len(stack)
<1>1. /\ DOMAIN stack' = 1 .. n /\ stack'[n] = l /\ \A i \in 1 .. n - 1 : stack'[i] = stack[i]
      /\ n \in Nat \ {0} /\ DOMAIN stack = 1 .. n /\ stack' # <<>> /\ Len(stack') = n
      /\ stack' \in Seq(Loop)
  BY TopReplaced
<1>1a. n \in Nat \ {0}
  BY <1>1
<1> HIDE DEF n
<1>2. \A i \in 1 .. n : i = n \/ (i \in 1 .. n - 1 /\ i < n)
  BY <1>1a
<1>3. ~(n < n)
  BY <1>1a
<1>4. /\ \A i \in 1 .. n : stack[i].phase = "idle" <=> stack[i].job = NoJob
      /\ \A i \in 1 .. n : i < n => stack[i].phase \in {"asked", "notice"}
      /\ \A i \in 1 .. n : stack[i].job # NoJob => proc[stack[i].job] # "none"
      /\ \A i \in 1 .. n : stack[i].job \in Job \cup {NoJob}
  BY StackFacts DEF n
<1> HIDE DEF n
<1>5. \A i \in 1 .. n : stack[i].job # NoJob => proc'[stack[i].job] # "none"
  BY <1>4
<1> QED BY <1>1, <1>2, <1>3, <1>4, <1>5 DEF StackInv

(* So it does when a dialog opens.                                         *)
LEMMA OpenedStack ==
  ASSUME IInv, mc = "running", mc' = "running", NEW p \in {"asked", "notice"}, NEW c \in Nat,
         stack' = Modal(p, c), Top.job # NoJob,
         \A k \in Job : proc[k] # "none" => proc'[k] # "none"
  PROVE  StackInv' /\ stack' \in Seq(Loop)
<1> DEFINE n == Len(stack)
           l == Showing(p, c)
<1> DEFINE m == Modal(p, c)
<1>0. /\ DOMAIN m = 1 .. n + 1 /\ m[n] = l /\ m[n + 1] = IdleLoop
      /\ \A i \in 1 .. n - 1 : m[i] = stack[i]
      /\ n \in Nat \ {0} /\ DOMAIN stack = 1 .. n /\ m # <<>> /\ Len(m) = n + 1
      /\ m \in Seq(Loop) /\ Top = stack[n] /\ Top \in Loop
  BY DialogOpened
<1> HIDE DEF m, n, l
<1>1. /\ DOMAIN stack' = 1 .. n + 1 /\ stack'[n] = l /\ stack'[n + 1] = IdleLoop
      /\ \A i \in 1 .. n - 1 : stack'[i] = stack[i]
      /\ n \in Nat \ {0} /\ DOMAIN stack = 1 .. n /\ stack' # <<>> /\ Len(stack') = n + 1
      /\ stack' \in Seq(Loop) /\ Top = stack[n] /\ Top \in Loop
  BY <1>0 DEF m
<1>1a. n \in Nat \ {0}
  BY <1>1
<1> HIDE DEF n
<1>2. l.job = stack[n].job /\ l.phase = p /\ IdleLoop.phase = "idle" /\ IdleLoop.job = NoJob
  <2>1. l.job = Top.job /\ l.phase = p
    BY DialogOpened DEF l
  <2>2. IdleLoop.phase = "idle" /\ IdleLoop.job = NoJob
    BY Loops
  <2>3. Top = stack[n]
    BY <1>1
  <2> QED BY <2>1, <2>2, <2>3
<1>3. \A i \in 1 .. n + 1 : i = n + 1 \/ i = n \/ (i \in 1 .. n - 1 /\ i \in 1 .. n /\ i < n)
  BY <1>1a
<1>4. /\ \A i \in 1 .. n : stack[i].phase = "idle" <=> stack[i].job = NoJob
      /\ \A i \in 1 .. n : i < n => stack[i].phase \in {"asked", "notice"}
      /\ \A i \in 1 .. n : stack[i].job # NoJob => proc[stack[i].job] # "none"
      /\ \A i \in 1 .. n : stack[i].job \in Job \cup {NoJob}
  BY StackFacts DEF n
<1>5. n \in 1 .. n /\ ~(n + 1 < n + 1)
  BY <1>1a
<1> HIDE DEF n, l
<1>6. \A i \in 1 .. n : stack[i].job # NoJob => proc'[stack[i].job] # "none"
  BY <1>4
<1> QED BY <1>1, <1>2, <1>3, <1>4, <1>5, <1>6 DEF StackInv

(* And when one is closed.                                                 *)
LEMMA ClosedStack ==
  ASSUME IInv, mc = "running", mc' = "running", Len(stack) > 1, NEW l \in Loop,
         l.phase = "idle", l.job = NoJob, stack' = Append(Front(Front(stack)), l),
         \A k \in Job : proc[k] # "none" => proc'[k] # "none"
  PROVE  StackInv' /\ stack' \in Seq(Loop)
<1> DEFINE n == Len(stack)
<1>1. /\ DOMAIN stack' = 1 .. n - 1 /\ stack'[n - 1] = l
      /\ \A i \in 1 .. n - 2 : stack'[i] = stack[i]
      /\ n \in Nat /\ n > 1 /\ DOMAIN stack = 1 .. n /\ stack' # <<>> /\ Len(stack') = n - 1
      /\ stack' \in Seq(Loop)
  BY DialogClosed
<1>1a. n \in Nat /\ n > 1
  BY <1>1
<1> HIDE DEF n
<1>2. \A i \in 1 .. n - 1 : i = n - 1 \/ (i \in 1 .. n - 2 /\ i \in 1 .. n /\ i < n)
  BY <1>1a
<1>3. /\ \A i \in 1 .. n : stack[i].phase = "idle" <=> stack[i].job = NoJob
      /\ \A i \in 1 .. n : i < n => stack[i].phase \in {"asked", "notice"}
      /\ \A i \in 1 .. n : stack[i].job # NoJob => proc[stack[i].job] # "none"
      /\ \A i \in 1 .. n : stack[i].job \in Job \cup {NoJob}
  BY StackFacts DEF n
<1>4. ~(n - 1 < n - 1)
  BY <1>1a
<1> HIDE DEF n
<1>5. \A i \in 1 .. n : stack[i].job # NoJob => proc'[stack[i].job] # "none"
  BY <1>3
<1> QED BY <1>1, <1>2, <1>3, <1>4, <1>5 DEF StackInv

(* mc is gone, and its loops with it.                                      *)
LEMMA NoStack ==
  ASSUME stack' = <<IdleLoop>>
  PROVE  StackInv' /\ stack' \in Seq(Loop)
<1>1. IdleLoop \in Loop /\ IdleLoop.phase = "idle" /\ IdleLoop.job = NoJob
  BY Loops
<1>2. /\ stack' # <<>> /\ DOMAIN stack' = {1} /\ Len(stack') = 1 /\ stack'[1] = IdleLoop
      /\ stack' \in Seq(Loop)
  BY <1>1
<1> QED BY <1>1, <1>2 DEF StackInv

(* The loops stay.                                                         *)
LEMMA StackKept ==
  ASSUME IInv, stack' = stack, mc' = mc,
         \A k \in Job : proc[k] # "none" => proc'[k] # "none"
  PROVE  StackInv' /\ stack' \in Seq(Loop) /\ \A j \in Job : Quiet(stack, stack', j)
<1>1. \A i \in DOMAIN stack : stack[i].job \in Job \cup {NoJob}
  <2>1. stack \in Seq(Loop)
    BY DEF IInv, TypeOK
  <2>2. \A i \in DOMAIN stack : stack[i] \in Loop
    BY <2>1, ElementOfSeq, LenProperties
  <2> QED BY <2>2 DEF Loop
<1>2. \A i \in DOMAIN stack : stack[i].job # NoJob => proc'[stack[i].job] # "none"
  BY <1>1 DEF IInv, StackInv
<1>3. StackInv'
  BY <1>2 DEF IInv, StackInv
<1>4. \A j \in Job : Quiet(stack, stack', j)
  BY DEF Quiet
<1> QED BY <1>3, <1>4 DEF IInv, TypeOK

(* What a job need not know of.                                            *)
LEMMA JobKept ==
  ASSUME IInv, NEW j \in Job, mc' = "running" => mc = "running",
         proc'[j] = "none" => proc[j] = "none", Alive(j)' => Alive(j),
         pc'[j] = pc[j], up'[j] = up[j], down'[j] = down[j], request'[j] = request[j],
         calls'[j] = calls[j],
         mc' = "running" /\ Alive(j)' =>
           /\ Quiet(stack, stack', j)
           /\ task'[j] = task[j] \/ task'[j] = "killed" \/ (Listed(j) /\ Listed(j)')
           /\ Watched(j) /\ task'[j] # "killed" => Watched(j)',
         proc'[j] = "none" /\ Watched(j)' => Watched(j)
  PROVE  JobOf(j)'
<1>1. JobOf(j)
  BY DEF IInv, JobInv
<1>2. Alive(j)' =>
       /\ pc'[j] = "work" => request'[j] # "bye"
       /\ down'[j] # <<>> => down'[j] = <<calls'[j]>> /\ pc'[j] = "asking"
  BY <1>1 DEF JobOf
<1>3. ASSUME Alive(j)', mc' = "running"
      PROVE  Stage(j, pc[j], up[j], down[j], calls[j], stack')
  BY <1>1, <1>3, QuietStage DEF JobOf
<1>4. ASSUME Alive(j)', mc' = "running"
      PROVE  Kept(j)'
  BY <1>1, <1>4 DEF JobOf, Kept, Listed
<1>5. proc'[j] = "none" => /\ pc'[j] = "work" /\ up'[j] = <<>> /\ down'[j] = <<>>
                           /\ request'[j] = "none" /\ ~Watched(j)'
  BY <1>1 DEF JobOf
<1> QED BY <1>1, <1>2, <1>3, <1>4, <1>5 DEF JobOf

-----------------------------------------------------------------------------
(* The user in the main window and in the Jobs dialog.                     *)

(* The types of what most steps leave alone, one by one.                   *)
LEMMA Types ==
  ASSUME IInv
  PROVE  /\ started \in Seq(Job) /\ select_list \in Seq(Job) /\ stack \in Seq(Loop)
         /\ up \in [Job -> Seq({"head", "rest"})] /\ down \in [Job -> Seq(Nat)]
         /\ calls \in [Job -> 0 .. MaxCalls + 1] /\ clean \in [Job -> BOOLEAN]
         /\ proc \in [Job -> {"none", "running", "stopped", "exiting", "zombie", "reaped"}]
         /\ pc \in [Job -> {"work", "sending", "asking", "leaving"}]
         /\ request \in [Job -> {"none", "message", "query", "bye"}]
         /\ task \in [Job -> {"none", "Running", "Stopped", "done", "killed"}]
         /\ pid \in [Job -> {"own", "zero"}]
         /\ mc \in {"running", "quit", "terminated", "broken_pipe"}
         /\ \A j \in Job : JobOf(j)
BY DEF IInv, TypeOK, JobInv

(* The lists stay.                                                         *)
LEMMA ListsKept ==
  ASSUME UNCHANGED <<task, select_list>>
  PROVE  \A j \in Job : (Watched(j)' <=> Watched(j)) /\ (Listed(j)' <=> Listed(j))
BY DEF Watched, Listed

(* A channel is deleted.                                                   *)
LEMMA ChannelDeleted ==
  ASSUME IInv, NEW j \in Job, select_list' = RemoveFirst(select_list, j)
  PROVE  /\ select_list' \in Seq(Job)
         /\ \A k \in Job : Watched(k)' => Watched(k)
         /\ \A k \in Job : k # j /\ Watched(k) => Watched(k)'
<1>1. select_list \in Seq(Job)
  BY Types
<1> QED BY <1>1, RemoveFirstProperties DEF Watched

(* mc is gone.                                                             *)
LEMMA McGone ==
  ASSUME IInv, NEW how \in {"quit", "terminated", "broken_pipe"}, McEnds(how)
  PROVE  /\ mc' = how /\ mc' # "running" /\ StackInv' /\ stack' \in Seq(Loop)
         /\ select_list' \in Seq(Job) /\ \A k \in Job : ~Watched(k)'
         /\ task' \in [Job -> {"none", "Running", "Stopped", "done", "killed"}]
<1>1. mc' = how /\ stack' = <<IdleLoop>> /\ select_list' = <<>>
      /\ task' = [j \in Job |-> IF Listed(j) THEN "done" ELSE task[j]]
  BY DEF McEnds
<1>2. StackInv' /\ stack' \in Seq(Loop)
  BY <1>1, NoStack
<1>3. task' \in [Job -> {"none", "Running", "Stopped", "done", "killed"}]
  BY <1>1, Types
<1>4. \A k \in Job : ~Watched(k)'
  BY <1>1 DEF Watched, Contains
<1> QED BY <1>1, <1>2, <1>3, <1>4

(* No loop is at work where mc waits in its main window.                   *)
LEMMA NothingOnMain ==
  ASSUME stack = <<IdleLoop>>, NEW j \in Job
  PROVE  ~Rest(stack, j) /\ Asked(stack, j) = {}
<1>1. DOMAIN stack = {1} /\ stack[1] = IdleLoop
  OBVIOUS
<1>2. IdleLoop.phase = "idle"
  BY Loops
<1>3. \A i \in DOMAIN stack : stack[i].phase = "idle"
  BY <1>1, <1>2
<1> QED BY <1>3 DEF Rest, Asked

(* A job is started.                                                       *)
LEMMA StartStep ==
  ASSUME IInv, NEW j \in Job, Start(j)
  PROVE  IInv'
<1>1. /\ mc = "running" /\ stack = <<IdleLoop>> /\ proc[j] = "none"
      /\ started' = Append(started, j) /\ proc' = [proc EXCEPT ![j] = "running"]
      /\ task' = [task EXCEPT ![j] = "Running"] /\ select_list' = <<j>> \o select_list
      /\ pid' = [pid EXCEPT ![j] = "own"]
      /\ UNCHANGED <<mc, clean, pc, request, calls, up, down, stack>>
  BY DEF Start, AtMain, pipeVars
<1>2. /\ select_list' \in Seq(Job) /\ Watched(j)'
      /\ \A k \in Job : k # j => (Watched(k)' <=> Watched(k))
  <2> DEFINE n == Len(select_list)
  <2>1. <<j>> \in Seq(Job) /\ Len(<<j>>) = 1 /\ <<j>>[1] = j
    OBVIOUS
  <2>2. /\ select_list' \in Seq(Job) /\ Len(select_list') = 1 + n /\ n \in Nat
        /\ \A i \in 1 .. 1 + n :
             select_list'[i] = IF i <= 1 THEN <<j>>[i] ELSE select_list[i - 1]
    BY <1>1, <2>1, Types, ConcatProperties, LenProperties
  <2>3. 1 \in 1 .. 1 + n /\ select_list'[1] = j
    BY <2>1, <2>2
  <2>4. ASSUME NEW k \in Job, k # j, Watched(k)'
        PROVE  Watched(k)
    <3>1. PICK i \in 1 .. 1 + n : select_list'[i] = k
      BY <2>2, <2>4 DEF Watched, Contains
    <3>2. i # 1
      BY <2>3, <2>4, <3>1
    <3>3. i - 1 \in 1 .. n /\ select_list[i - 1] = k
      BY <2>2, <3>1, <3>2
    <3> QED BY <3>3 DEF Watched, Contains
  <2>5. ASSUME NEW k \in Job, Watched(k)
        PROVE  Watched(k)'
    <3>1. PICK i \in 1 .. n : select_list[i] = k
      BY <2>5 DEF Watched, Contains
    <3>2. i + 1 \in 1 .. 1 + n /\ ~(i + 1 <= 1) /\ (i + 1) - 1 = i
      BY <2>2, <3>1
    <3>3. select_list'[i + 1] = k
      BY <2>2, <3>1, <3>2
    <3> QED BY <2>2, <3>2, <3>3 DEF Watched, Contains
  <2> QED BY <2>2, <2>3, <2>4, <2>5 DEF Watched, Contains
<1>3. \A k \in Job : proc[k] # "none" => proc'[k] # "none"
  BY <1>1, Types
<1>4. StackInv' /\ stack' \in Seq(Loop) /\ \A k \in Job : Quiet(stack, stack', k)
  BY <1>1, <1>3, StackKept
<1>5. TypeOK'
  <2>1. started' \in Seq(Job)
    BY <1>1, Types
  <2>2. /\ proc' \in [Job -> {"none", "running", "stopped", "exiting", "zombie", "reaped"}]
        /\ task' \in [Job -> {"none", "Running", "Stopped", "done", "killed"}]
        /\ pid' \in [Job -> {"own", "zero"}]
    BY <1>1, Types
  <2> QED BY <1>1, <1>2, <1>4, <2>1, <2>2, Types DEF TypeOK
<1>6. ASSUME NEW k \in Job, k # j
      PROVE  JobOf(k)'
  <2>1. proc'[k] = proc[k] /\ task'[k] = task[k] /\ (Watched(k)' <=> Watched(k))
    BY <1>1, <1>2, <1>6, Types
  <2>2. Alive(k)' => Alive(k)
    BY <2>1 DEF Alive
  <2> QED BY <1>1, <1>4, <2>1, <2>2, JobKept
<1>7. JobOf(j)'
  <2>1. /\ proc'[j] = "running" /\ task'[j] = "Running" /\ pc'[j] = "work" /\ up'[j] = <<>>
        /\ down'[j] = <<>> /\ request'[j] = "none" /\ calls'[j] <= MaxCalls
    BY <1>1, Types DEF JobOf
  <2>2. ~Rest(stack', j) /\ Asked(stack', j) = {}
    BY <1>1, NothingOnMain
  <2>3. Stage(j, pc'[j], up'[j], down'[j], calls'[j], stack')
    BY <2>1, <2>2 DEF Stage
  <2>4. Kept(j)'
    BY <1>2, <2>1 DEF Kept, Listed
  <2> QED BY <2>1, <2>3, <2>4 DEF JobOf, Alive
<1> QED BY <1>4, <1>5, <1>6, <1>7 DEF IInv, JobInv

(* A job is stopped or goes on.                                            *)
LEMMA StopStep ==
  ASSUME IInv, NEW j \in Job, Stop(j) \/ Resume(j)
  PROVE  IInv'
<1>1. /\ Listed(j)
      /\ proc' \in [Job -> {"none", "running", "stopped", "exiting", "zombie", "reaped"}]
      /\ task' \in [Job -> {"none", "Running", "Stopped", "done", "killed"}]
      /\ task'[j] \in {"Running", "Stopped"}
      /\ \A k \in Job : k # j => task'[k] = task[k]
      /\ \A k \in Job : proc'[k] = proc[k] \/ {proc[k], proc'[k]} \subseteq {"running", "stopped"}
      /\ UNCHANGED <<mc, started, clean, pc, request, calls, up, down, select_list, pid, stack>>
  BY Types DEF Stop, Resume, pipeVars
<1>2. \A k \in Job : (proc[k] # "none" <=> proc'[k] # "none") /\ (Alive(k)' <=> Alive(k))
  BY <1>1 DEF Alive
<1>3. StackInv' /\ stack' \in Seq(Loop) /\ \A k \in Job : Quiet(stack, stack', k)
  BY <1>1, <1>2, StackKept
<1>4. TypeOK'
  BY <1>1, <1>3, Types DEF TypeOK
<1>5. ASSUME NEW k \in Job
      PROVE  JobOf(k)'
  <2>1. task'[k] = task[k] \/ (Listed(k) /\ Listed(k)')
    BY <1>1 DEF Listed
  <2>2. Watched(k)' <=> Watched(k)
    BY <1>1 DEF Watched
  <2> QED BY <1>1, <1>2, <1>3, <2>1, <2>2, JobKept
<1> QED BY <1>3, <1>4, <1>5 DEF IInv, JobInv

(* A job is killed.                                                        *)
LEMMA KillStep ==
  ASSUME IInv, NEW j \in Job, Kill(j)
  PROVE  IInv'
<1>1. /\ task' = [task EXCEPT ![j] = "killed"] /\ select_list' = RemoveFirst(select_list, j)
      /\ proc' = [proc EXCEPT ![j] = IF Alive(j) THEN "exiting" ELSE @] \/ proc' = proc
      /\ UNCHANGED <<mc, started, clean, pc, request, calls, up, down, pid, stack>>
  BY DEF Kill, pipeVars
<1>2. /\ proc' \in [Job -> {"none", "running", "stopped", "exiting", "zombie", "reaped"}]
      /\ \A k \in Job : /\ proc[k] # "none" <=> proc'[k] # "none"
                        /\ Alive(k)' => Alive(k)
  BY <1>1, Types DEF Alive
<1>3. StackInv' /\ stack' \in Seq(Loop) /\ \A k \in Job : Quiet(stack, stack', k)
  BY <1>1, <1>2, StackKept
<1>4. /\ select_list' \in Seq(Job)
      /\ \A k \in Job : Watched(k)' => Watched(k)
      /\ \A k \in Job : k # j /\ Watched(k) => Watched(k)'
  BY <1>1, ChannelDeleted
<1>5. TypeOK'
  <2>1. task' \in [Job -> {"none", "Running", "Stopped", "done", "killed"}]
    BY <1>1, Types
  <2> QED BY <1>1, <1>2, <1>3, <1>4, <2>1, Types DEF TypeOK
<1>6. ASSUME NEW k \in Job
      PROVE  JobOf(k)'
  <2>1. task'[k] = (IF k = j THEN "killed" ELSE task[k])
    BY <1>1, Types
  <2> QED BY <1>1, <1>2, <1>3, <1>4, <2>1, JobKept
<1> QED BY <1>3, <1>5, <1>6 DEF IInv, JobInv

(* mc quits.                                                               *)
LEMMA QuitStep ==
  ASSUME IInv, Quit
  PROVE  IInv'
<1>1. McEnds("quit") /\ UNCHANGED <<started, proc, clean, pc, request, calls, up, down, pid>>
  BY DEF Quit, childVars, pipeVars
<1>2. /\ mc' = "quit" /\ mc' # "running" /\ StackInv' /\ stack' \in Seq(Loop)
      /\ select_list' \in Seq(Job) /\ \A k \in Job : ~Watched(k)'
      /\ task' \in [Job -> {"none", "Running", "Stopped", "done", "killed"}]
  BY <1>1, McGone
<1>3. TypeOK'
  BY <1>1, <1>2, Types DEF TypeOK
<1>4. ASSUME NEW k \in Job
      PROVE  JobOf(k)'
  <2>1. Alive(k)' <=> Alive(k)
    BY <1>1 DEF Alive
  <2> QED BY <1>1, <1>2, <2>1, JobKept
<1> QED BY <1>2, <1>3, <1>4 DEF IInv, JobInv

-----------------------------------------------------------------------------
(* mc: the event loop and background_attention.                            *)

(* What mc is at when its innermost loop serves a job.                     *)
LEMMA AtWork ==
  ASSUME IInv
  PROVE  /\ Top \in Loop /\ (Top.phase = "idle" <=> Top.job = NoJob)
         /\ Top.job # NoJob => Top.job \in Job /\ proc[Top.job] # "none"
<1> DEFINE n == Len(stack)
<1>1. n \in Nat \ {0} /\ Top = stack[n] /\ Top \in Loop
  BY StackFacts
<1>2. n \in 1 .. n
  BY <1>1
<1>3. /\ stack[n].phase = "idle" <=> stack[n].job = NoJob
      /\ stack[n].job # NoJob => proc[stack[n].job] # "none"
      /\ stack[n].job \in Job \cup {NoJob}
  BY <1>2, StackFacts
<1> HIDE DEF n
<1> QED BY <1>1, <1>3

(* Only the stack changes, and nothing on it that a request is in.         *)
LEMMA OnlyStack ==
  ASSUME IInv, StackInv', stack' \in Seq(Loop),
         \A j \in Job : Alive(j) => Quiet(stack, stack', j),
         UNCHANGED <<mc, started, proc, clean, pc, request, calls, up, down, task, select_list,
                     pid>>
  PROVE  IInv'
<1>1. TypeOK'
  BY Types DEF TypeOK
<1>2. ASSUME NEW k \in Job
      PROVE  JobOf(k)'
  <2>1. (Alive(k)' <=> Alive(k)) /\ (Watched(k)' <=> Watched(k))
    BY DEF Alive, Watched
  <2> QED BY <2>1, JobKept
<1> QED BY <1>1, <1>2 DEF IInv, JobInv

(* select finds pipes to read.                                             *)
LEMMA SelectStep ==
  ASSUME IInv, Select
  PROVE  IInv'
<1> DEFINE ready == {j \in ToSet(select_list) : Readable(j)}
           l == [Top EXCEPT !.ready = ready]
<1>1. /\ mc = "running" /\ Top = IdleLoop /\ stack' = WithTop(l)
      /\ UNCHANGED <<mc, started, proc, clean, pc, request, calls, up, down, task, select_list,
                     pid>>
  BY DEF Select, childVars, pipeVars, listVars
<1>2. ready \in SUBSET Job
  <2>1. \A i \in DOMAIN select_list : select_list[i] \in Job
    BY Types, ElementOfSeq, LenProperties
  <2> QED BY <2>1 DEF ToSet
<1>3. l \in Loop /\ l.phase = "idle" /\ l.job = NoJob
  <2> HIDE DEF ready
  <2> QED BY <1>1, <1>2 DEF Loop, IdleLoop
<1>4. Top.phase = "idle"
  BY <1>1, Loops
<1> HIDE DEF l
<1>5. StackInv' /\ stack' \in Seq(Loop)
  BY <1>1, <1>3, TopStack
<1>6. \A j \in Job : Quiet(stack, stack', j)
  BY <1>1, <1>3, <1>4, QuietTop
<1> QED BY <1>1, <1>5, <1>6, OnlyStack

(* A loop goes on to the next pipe of its set, or waits again.             *)
LEMMA CheckStep ==
  ASSUME IInv, Check
  PROVE  IInv'
<1>1. /\ mc = "running" /\ Top.phase = "idle"
      /\ UNCHANGED <<mc, started, proc, clean, pc, request, calls, up, down, task, select_list,
                     pid>>
  BY DEF Check, childVars, pipeVars, listVars
<1>2. ASSUME NEW l \in Loop, stack' = WithTop(l), l.phase \in {"idle", "head"},
             l.phase = "idle" <=> l.job = NoJob,
             l.job # NoJob => proc[l.job] # "none"
      PROVE  IInv'
  <2>1. StackInv' /\ stack' \in Seq(Loop)
    BY <1>1, <1>2, TopStack
  <2>2. \A j \in Job : Quiet(stack, stack', j)
    BY <1>1, <1>2, QuietTop
  <2> QED BY <1>1, <2>1, <2>2, OnlyStack
<1>3. CASE stack' = WithTop(IdleLoop)
  BY <1>2, <1>3, Loops
<1>4. CASE \E j \in Job : FirstReady(j) /\ stack' = WithTop(Serving(j))
  <2>1. PICK j \in Job : FirstReady(j) /\ stack' = WithTop(Serving(j))
    BY <1>4
  <2>2. Watched(j)
    <3>1. PICK i \in DOMAIN select_list : select_list[i] = j
      BY <2>1 DEF FirstReady
    <3>2. i \in 1 .. Len(select_list)
      BY <3>1, Types, LenProperties
    <3> QED BY <3>1, <3>2 DEF Watched, Contains
  <2>3. proc[j] # "none"
    BY <2>2, Types DEF JobOf
  <2>4. Serving(j) \in Loop /\ Serving(j).phase = "head" /\ Serving(j).job = j /\ j # NoJob
    BY AtWork, NoJobAssumption DEF Serving, Loop
  <2> QED BY <1>2, <2>1, <2>3, <2>4
<1> QED BY <1>3, <1>4 DEF Check

(* Only the innermost loop can have read half a request.                   *)
LEMMA RestOnTop ==
  ASSUME IInv, NEW j \in Job
  PROVE  Rest(stack, j) <=> (Top.job = j /\ Top.phase = "rest")
<1> DEFINE n == Len(stack)
<1>1. /\ \A i \in 1 .. n : i < n => stack[i].phase \in {"asked", "notice"}
      /\ n \in Nat \ {0} /\ DOMAIN stack = 1 .. n /\ Top = stack[n]
  BY StackFacts
<1>2. n \in Nat \ {0}
  BY <1>1
<1> HIDE DEF n
<1>3. n \in 1 .. n /\ \A i \in 1 .. n : i = n \/ i < n
  BY <1>2
<1> QED BY <1>1, <1>3 DEF Rest

(* The innermost loop reads on, or is done, and no dialog comes or goes.   *)
LEMMA TopAtWork ==
  ASSUME IInv, NEW j \in Job, NEW l \in Loop, stack' = WithTop(l),
         Top.phase # "asked", l.phase # "asked"
  PROVE  /\ Asked(stack', j) = Asked(stack, j)
         /\ Rest(stack', j) <=> (l.job = j /\ l.phase = "rest")
<1> DEFINE n == Len(stack)
<1>1. /\ DOMAIN stack' = 1 .. n /\ stack'[n] = l /\ \A i \in 1 .. n - 1 : stack'[i] = stack[i]
      /\ n \in Nat \ {0} /\ DOMAIN stack = 1 .. n /\ Top = stack[n]
  BY TopReplaced
<1>2. \A i \in 1 .. n : i < n => stack[i].phase \in {"asked", "notice"}
  BY StackFacts
<1>3. n \in Nat \ {0}
  BY <1>1
<1> HIDE DEF n
<1>4. n \in 1 .. n /\ \A i \in 1 .. n : i = n \/ (i \in 1 .. n - 1 /\ i < n)
  BY <1>3
<1>5. Asked(stack', j) = Asked(stack, j)
  BY <1>1, <1>4 DEF Asked
<1>6. Rest(stack', j) <=> (l.job = j /\ l.phase = "rest")
  BY <1>1, <1>2, <1>4 DEF Rest
<1> QED BY <1>5, <1>6

(* The head of a request is read.                                          *)
LEMMA ReadHeadStep ==
  ASSUME IInv, ReadHead
  PROVE  IInv'
<1> DEFINE l == [Top EXCEPT !.phase = "rest"]
<1>1. PICK j \in Job :
        /\ j = Top.job /\ proc[j] # "none" /\ j # NoJob /\ Top \in Loop
        /\ mc = "running" /\ Top.phase = "head" /\ up[j] # <<>>
        /\ up' = [up EXCEPT ![j] = Tail(up[j])] /\ stack' = WithTop(l)
        /\ UNCHANGED <<mc, started, proc, clean, pc, request, calls, down, task, select_list, pid>>
  BY AtWork DEF ReadHead, childVars, listVars
<1>2. l \in Loop /\ l.phase = "rest" /\ l.job = j
  BY <1>1 DEF Loop
<1> HIDE DEF l
<1>3. StackInv' /\ stack' \in Seq(Loop)
  BY <1>1, <1>2, TopStack
<1>4. up'[j] = Tail(up[j]) /\ \A k \in Job : k # j => up'[k] = up[k]
  BY <1>1, Types
<1>5. TypeOK'
  <2>1. Tail(up[j]) \in Seq({"head", "rest"})
    BY <1>1, Types
  <2>2. up' \in [Job -> Seq({"head", "rest"})]
    BY <1>1, <2>1, Types
  <2> QED BY <1>1, <1>3, <2>2, Types DEF TypeOK
<1>6. \A k \in Job : (Alive(k)' <=> Alive(k)) /\ (Watched(k)' <=> Watched(k))
  BY <1>1 DEF Alive, Watched
<1>7. ASSUME NEW k \in Job, k # j
      PROVE  JobOf(k)'
  <2>1. Quiet(stack, stack', k)
    BY <1>1, <1>2, <1>7, QuietTop
  <2> QED BY <1>1, <1>4, <1>6, <1>7, <2>1, JobKept
<1>8. ASSUME Alive(j)
      PROVE  Stage(j, pc[j], up'[j], down[j], calls[j], stack') /\ Kept(j)'
  <2>1. Stage(j, pc[j], up[j], down[j], calls[j], stack) /\ Kept(j)
    BY <1>1, <1>8, Types DEF JobOf
  <2>2. ~Rest(stack, j)
    BY <1>1, RestOnTop
  <2>3. /\ Asked(stack, j) = {} /\ down[j] = <<>>
        /\ \/ pc[j] = "sending" /\ up[j] = <<"head">>
           \/ pc[j] = "asking" /\ up[j] = <<"head", "rest">>
    BY <1>1, <2>1, <2>2 DEF Stage
  <2>4. Rest(stack', j) /\ Asked(stack', j) = {}
    BY <1>1, <1>2, <2>3, TopAtWork
  <2>5. \/ pc[j] = "sending" /\ up'[j] = <<>>
        \/ pc[j] = "asking" /\ up'[j] = <<"rest">>
    <3>1. Tail(<<"head">>) = <<>> /\ Tail(<<"head", "rest">>) = <<"rest">>
      OBVIOUS
    <3> QED BY <1>4, <2>3, <3>1
  <2>6. Stage(j, pc[j], up'[j], down[j], calls[j], stack')
    BY <2>3, <2>4, <2>5 DEF Stage
  <2>7. Kept(j)'
    BY <1>1, <1>6, <2>1 DEF Kept, Listed
  <2> QED BY <2>6, <2>7
<1>9. JobOf(j)'
  <2>1. JobOf(j)
    BY Types
  <2> QED BY <1>1, <1>6, <1>8, <2>1 DEF JobOf
<1> QED BY <1>3, <1>5, <1>7, <1>9 DEF IInv, JobInv

(* A dialog is opened over the request of j.                               *)
LEMMA Questioned ==
  ASSUME IInv, NEW j \in Job, NEW c \in Nat, stack' = Modal("asked", c),
         Top.job = j, Top.phase = "rest", Asked(stack, j) = {}
  PROVE  /\ ~Rest(stack', j)
         /\ \E i \in DOMAIN stack' : Asked(stack', j) = {i} /\ stack'[i].call = c
<1> DEFINE n == Len(stack)
           l == Showing("asked", c)
<1>1. /\ DOMAIN stack' = 1 .. n + 1 /\ stack'[n] = l /\ stack'[n + 1] = IdleLoop
      /\ \A i \in 1 .. n - 1 : stack'[i] = stack[i]
      /\ n \in Nat \ {0} /\ DOMAIN stack = 1 .. n /\ Top = stack[n] /\ Top \in Loop
      /\ l.phase = "asked" /\ l.call = c /\ l.job = Top.job
  BY DialogOpened
<1>2. \A i \in 1 .. n : i < n => stack[i].phase \in {"asked", "notice"}
  BY StackFacts
<1>3. n \in Nat \ {0}
  BY <1>1
<1> HIDE DEF n, l
<1>4. /\ n \in 1 .. n + 1
      /\ \A i \in 1 .. n + 1 :
           i = n + 1 \/ i = n \/ (i \in 1 .. n - 1 /\ i \in 1 .. n /\ i < n)
  BY <1>3
<1>5. IdleLoop.phase = "idle"
  BY Loops
<1>6. ~Rest(stack', j)
  BY <1>1, <1>2, <1>4, <1>5 DEF Rest
<1>7. \A i \in DOMAIN stack' : (stack'[i].job = j /\ stack'[i].phase = "asked") <=> i = n
  BY <1>1, <1>4, <1>5 DEF Asked
<1>8. Asked(stack', j) = {n}
  BY <1>1, <1>4, <1>7 DEF Asked
<1> QED BY <1>1, <1>4, <1>6, <1>8

(* A question is shown.                                                    *)
LEMMA ReadQuestionStep ==
  ASSUME IInv, ReadQuestion
  PROVE  IInv'
<1>1. PICK j \in Job :
        /\ j = Top.job /\ proc[j] # "none" /\ j # NoJob /\ Top \in Loop
        /\ mc = "running" /\ Top.phase = "rest" /\ up[j] # <<>>
        /\ request[j] \in {"message", "query"}
        /\ up' = [up EXCEPT ![j] = Tail(up[j])] /\ pid' = [pid EXCEPT ![j] = PidRead(j)]
        /\ stack' = Modal("asked", calls[j])
        /\ UNCHANGED <<mc, started, proc, clean, pc, request, calls, down, task, select_list>>
  BY AtWork DEF ReadQuestion, childVars
<1>2. calls[j] \in Nat
  BY Types, CallsAssumption
<1>3. StackInv' /\ stack' \in Seq(Loop)
  BY <1>1, <1>2, OpenedStack
<1>4. up'[j] = Tail(up[j]) /\ \A k \in Job : k # j => up'[k] = up[k]
  BY <1>1, Types
<1>5. TypeOK'
  <2>1. Tail(up[j]) \in Seq({"head", "rest"}) /\ PidRead(j) \in {"own", "zero"}
    BY <1>1, Types DEF PidRead
  <2>2. up' \in [Job -> Seq({"head", "rest"})] /\ pid' \in [Job -> {"own", "zero"}]
    BY <1>1, <2>1, Types
  <2> QED BY <1>1, <1>3, <2>2, Types DEF TypeOK
<1>6. \A k \in Job : (Alive(k)' <=> Alive(k)) /\ (Watched(k)' <=> Watched(k))
  BY <1>1 DEF Alive, Watched
<1>7. ASSUME NEW k \in Job, k # j
      PROVE  JobOf(k)'
  <2>1. Quiet(stack, stack', k)
    BY <1>1, <1>2, <1>7, QuietOpened
  <2> QED BY <1>1, <1>4, <1>6, <1>7, <2>1, JobKept
<1>8. ASSUME Alive(j)
      PROVE  Stage(j, pc[j], up'[j], down[j], calls[j], stack') /\ Kept(j)'
  <2>1. Stage(j, pc[j], up[j], down[j], calls[j], stack) /\ Kept(j)
    BY <1>1, <1>8, Types DEF JobOf
  <2>2. Rest(stack, j)
    BY <1>1, RestOnTop
  <2>3. Asked(stack, j) = {} /\ down[j] = <<>> /\ pc[j] = "asking" /\ up[j] = <<"rest">>
    BY <1>1, <2>1, <2>2 DEF Stage
  <2>4. up'[j] = <<>>
    BY <1>4, <2>3
  <2>5. Stage(j, pc[j], up'[j], down[j], calls[j], stack')
    BY <1>1, <1>2, <2>3, <2>4, Questioned DEF Stage
  <2>6. Kept(j)'
    BY <1>1, <1>6, <2>1 DEF Kept, Listed
  <2> QED BY <2>5, <2>6
<1>9. JobOf(j)'
  <2>1. JobOf(j)
    BY Types
  <2> QED BY <1>1, <1>6, <1>8, <2>1 DEF JobOf
<1> QED BY <1>3, <1>5, <1>7, <1>9 DEF IInv, JobInv

(* The dialog of the question of j is closed: it was the only one.         *)
LEMMA QuestionClosed ==
  ASSUME IInv, NEW j \in Job, Len(stack) > 1, Top.phase = "idle", NEW l \in Loop,
         l.phase = "idle", stack' = Append(Front(Front(stack)), l),
         Last(Front(stack)).job = j, Last(Front(stack)).phase = "asked",
         Stage(j, pc[j], up[j], down[j], calls[j], stack)
  PROVE  /\ Last(Front(stack)).call = calls[j] /\ pc[j] = "asking"
         /\ up[j] = <<>> /\ down[j] = <<>>
         /\ ~Rest(stack', j) /\ Asked(stack', j) = {}
<1> DEFINE n == Len(stack)
<1>1. /\ DOMAIN stack' = 1 .. n - 1 /\ stack'[n - 1] = l
      /\ \A i \in 1 .. n - 2 : stack'[i] = stack[i]
      /\ n \in Nat /\ n > 1 /\ DOMAIN stack = 1 .. n /\ Last(Front(stack)) = stack[n - 1]
      /\ Top = stack[n]
  BY DialogClosed DEF Top, Last
<1>2. n \in Nat /\ n > 1
  BY <1>1
<1>3. \A i \in 1 .. n : i < n => stack[i].phase \in {"asked", "notice"}
  BY StackFacts
<1> HIDE DEF n
<1>4. /\ n - 1 \in 1 .. n
      /\ \A i \in 1 .. n - 1 :
           i = n - 1 \/ (i \in 1 .. n - 2 /\ i \in 1 .. n /\ i # n - 1 /\ i < n)
  BY <1>2
<1>5. n - 1 \in Asked(stack, j)
  BY <1>1, <1>4 DEF Asked
<1>6. /\ pc[j] = "asking" /\ down[j] = <<>> /\ up[j] = <<>>
      /\ \E i \in DOMAIN stack : Asked(stack, j) = {i} /\ stack[i].call = calls[j]
  BY <1>5 DEF Stage
<1>7. Asked(stack, j) = {n - 1} /\ stack[n - 1].call = calls[j]
  BY <1>5, <1>6
<1>8. \A i \in DOMAIN stack' : ~(stack'[i].job = j /\ stack'[i].phase \in {"rest", "asked"})
  <2>1. \A i \in 1 .. n - 2 : ~(stack[i].job = j /\ stack[i].phase = "asked")
    BY <1>1, <1>2, <1>4, <1>7 DEF Asked
  <2> QED BY <1>1, <1>3, <1>4, <2>1
<1> QED BY <1>1, <1>6, <1>7, <1>8 DEF Rest, Asked

(* mc dies of an answer nobody can read, or of its own signal.             *)
LEMMA McDies ==
  ASSUME IInv, NEW how \in {"quit", "terminated", "broken_pipe"}, McEnds(how),
         UNCHANGED <<started, clean, pc, request, calls, down>>,
         up' \in [Job -> Seq({"head", "rest"})], pid' \in [Job -> {"own", "zero"}],
         proc' \in [Job -> {"none", "running", "stopped", "exiting", "zombie", "reaped"}],
         \A k \in Job : /\ Alive(k)' => Alive(k)
                        /\ proc[k] = "none" <=> proc'[k] = "none"
                        /\ Alive(k) \/ proc[k] = "none" => up'[k] = up[k]
  PROVE  IInv'
<1>1. /\ mc' = how /\ mc' # "running" /\ StackInv' /\ stack' \in Seq(Loop)
      /\ select_list' \in Seq(Job) /\ \A k \in Job : ~Watched(k)'
      /\ task' \in [Job -> {"none", "Running", "Stopped", "done", "killed"}]
  BY McGone
<1>2. TypeOK'
  BY <1>1, Types DEF TypeOK
<1>3. ASSUME NEW k \in Job
      PROVE  JobOf(k)'
  <2>1. JobOf(k)
    BY Types
  <2> QED BY <1>1, <2>1 DEF JobOf
<1> QED BY <1>1, <1>2, <1>3 DEF IInv, JobInv

(* A question is answered.                                                 *)
LEMMA CloseQuestionStep ==
  ASSUME IInv, CloseQuestion
  PROVE  IInv'
<1> DEFINE asking == Last(Front(stack))
           l == Returned(asking)
<1>1. /\ mc = "running" /\ Len(stack) > 1 /\ Top = IdleLoop /\ asking.phase = "asked"
      /\ UNCHANGED <<started, proc, clean, pc, request, calls, up, pid>>
  BY DEF CloseQuestion, childVars
<1>2. PICK j \in Job : j = asking.job
  <2> DEFINE n == Len(stack)
  <2>1. IdleLoop \in Loop
    BY Loops
  <2>2. n \in Nat /\ n > 1 /\ asking = stack[n - 1]
    BY <1>1, <2>1, DialogClosed
  <2>3. /\ \A i \in 1 .. n : stack[i].phase = "idle" <=> stack[i].job = NoJob
        /\ \A i \in 1 .. n : stack[i].job \in Job \cup {NoJob}
    BY StackFacts
  <2> HIDE DEF n
  <2>4. n - 1 \in 1 .. n
    BY <2>2
  <2>5. asking.job \in Job \cup {NoJob} /\ asking.job # NoJob
    BY <1>1, <2>2, <2>3, <2>4
  <2> QED BY <2>5
<1>3. asking \in Loop /\ Top.phase = "idle"
  BY <1>1, Loops, DialogClosed
<1>4. l \in Loop /\ l.phase = "idle" /\ l.job = NoJob
  BY <1>3, Loops
<1> HIDE DEF l
<1>5. CASE ~Alive(j)
  <2>1. McEnds("broken_pipe") /\ UNCHANGED down
    BY <1>2, <1>5 DEF CloseQuestion
  <2>2. \A k \in Job : Alive(k)' <=> Alive(k)
    BY <1>1 DEF Alive
  <2> QED BY <1>1, <2>1, <2>2, McDies, Types
<1>6. CASE Alive(j)
  <2>1. /\ down' = [down EXCEPT ![j] = Append(down[j], asking.call)]
        /\ stack' = Append(Front(Front(stack)), l)
        /\ UNCHANGED <<mc, task, select_list>>
    BY <1>2, <1>6 DEF CloseQuestion, Answered, l
  <2>2. Stage(j, pc[j], up[j], down[j], calls[j], stack) /\ Kept(j) /\ JobOf(j)
    BY <1>1, <1>6, Types DEF JobOf
  <2>3. /\ asking.call = calls[j] /\ pc[j] = "asking" /\ up[j] = <<>> /\ down[j] = <<>>
        /\ ~Rest(stack', j) /\ Asked(stack', j) = {}
    BY <1>1, <1>2, <1>3, <1>4, <2>1, <2>2, QuestionClosed
  <2>4. down'[j] = <<calls[j]>> /\ \A k \in Job : k # j => down'[k] = down[k]
    BY <2>1, <2>3, Types
  <2>5. StackInv' /\ stack' \in Seq(Loop)
    BY <1>1, <1>4, <2>1, ClosedStack
  <2>6. TypeOK'
    <3>1. down' \in [Job -> Seq(Nat)]
      <4>1. calls[j] \in Nat
        BY Types, CallsAssumption
      <4>2. Append(down[j], calls[j]) \in Seq(Nat)
        BY <4>1, Types
      <4> QED BY <2>1, <2>3, <4>2, Types
    <3> QED BY <1>1, <2>1, <2>5, <3>1, Types DEF TypeOK
  <2>7. \A k \in Job : (Alive(k)' <=> Alive(k)) /\ (Watched(k)' <=> Watched(k))
    BY <1>1, <2>1 DEF Alive, Watched
  <2>8. ASSUME NEW k \in Job, k # j
        PROVE  JobOf(k)'
    <3>1. Quiet(stack, stack', k)
      BY <1>1, <1>2, <1>3, <1>4, <2>1, <2>8, QuietClosed
    <3> QED BY <1>1, <2>1, <2>4, <2>7, <2>8, <3>1, JobKept
  <2>9. JobOf(j)'
    <3>1. Stage(j, pc'[j], up'[j], down'[j], calls'[j], stack')
      BY <1>1, <2>3, <2>4 DEF Stage
    <3>2. Kept(j)'
      BY <1>1, <2>1, <2>2, <2>7 DEF Kept, Listed
    <3> QED BY <1>1, <1>6, <2>1, <2>2, <2>3, <2>4, <2>7, <3>1, <3>2 DEF JobOf, Alive
  <2> QED BY <2>5, <2>6, <2>8, <2>9 DEF IInv, JobInv
<1> QED BY <1>5, <1>6

(* A notice is closed.                                                     *)
LEMMA CloseNoticeStep ==
  ASSUME IInv, CloseNotice
  PROVE  IInv'
<1> DEFINE noticed == Last(Front(stack))
           l == Returned(noticed)
<1>1. /\ mc = "running" /\ Len(stack) > 1 /\ Top = IdleLoop /\ noticed.phase = "notice"
      /\ stack' = Append(Front(Front(stack)), l)
      /\ UNCHANGED <<mc, started, proc, clean, pc, request, calls, up, down, task, select_list,
                     pid>>
  BY DEF CloseNotice, childVars, pipeVars, listVars
<1>2. noticed \in Loop /\ Top.phase = "idle"
  BY <1>1, Loops, DialogClosed
<1>3. l \in Loop /\ l.phase = "idle" /\ l.job = NoJob
  BY <1>2, Loops
<1> HIDE DEF l
<1>4. StackInv' /\ stack' \in Seq(Loop)
  BY <1>1, <1>3, ClosedStack
<1>5. \A k \in Job : Quiet(stack, stack', k)
  BY <1>1, <1>2, <1>3, QuietClosed
<1> QED BY <1>1, <1>4, <1>5, OnlyStack

(* A goodbye is taken and answered.                                        *)
LEMMA ReadGoodbyeStep ==
  ASSUME IInv, ReadGoodbye
  PROVE  IInv'
<1> DEFINE l == Returned(Top)
<1>1. PICK j \in Job :
        /\ j = Top.job /\ proc[j] # "none" /\ j # NoJob /\ Top \in Loop
        /\ mc = "running" /\ Top.phase = "rest" /\ up[j] # <<>> /\ request[j] = "bye"
        /\ up' = [up EXCEPT ![j] = Tail(up[j])] /\ pid' = [pid EXCEPT ![j] = "zero"]
        /\ UNCHANGED <<started, proc, clean, pc, request, calls>>
  BY AtWork DEF ReadGoodbye, childVars
<1>2. up'[j] = Tail(up[j]) /\ \A k \in Job : k # j => up'[k] = up[k]
  BY <1>1, Types
<1>3. up' \in [Job -> Seq({"head", "rest"})] /\ pid' \in [Job -> {"own", "zero"}]
  <2>1. Tail(up[j]) \in Seq({"head", "rest"})
    BY <1>1, Types
  <2> QED BY <1>1, <2>1, Types
<1>4. \A k \in Job : Alive(k)' <=> Alive(k)
  BY <1>1 DEF Alive
<1>5. CASE ~Alive(j)
  <2>1. McEnds("broken_pipe") /\ UNCHANGED down
    BY <1>1, <1>5 DEF ReadGoodbye
  <2>2. \A k \in Job : Alive(k) \/ proc[k] = "none" => up'[k] = up[k]
    BY <1>1, <1>2, <1>5
  <2> QED BY <1>1, <1>3, <1>4, <2>1, <2>2, McDies, Types
<1>6. CASE Alive(j)
  <2>1. /\ task' = [task EXCEPT ![j] = IF Listed(j) THEN "done" ELSE task[j]]
        /\ select_list' = RemoveFirst(select_list, j)
        /\ down' = [down EXCEPT ![j] = Append(down[j], calls[j])]
        /\ stack' = WithTop(l) /\ mc' = mc
    BY <1>1, <1>6 DEF ReadGoodbye, Answered
  <2>2. l \in Loop /\ l.phase = "idle" /\ l.job = NoJob
    BY <1>1, Loops
  <2> HIDE DEF l
  <2>3. StackInv' /\ stack' \in Seq(Loop)
    BY <1>1, <2>1, <2>2, TopStack
  <2>4. /\ select_list' \in Seq(Job)
        /\ \A k \in Job : Watched(k)' => Watched(k)
        /\ \A k \in Job : k # j /\ Watched(k) => Watched(k)'
    BY <2>1, ChannelDeleted
  <2>5. calls[j] \in Nat
    BY Types, CallsAssumption
  <2>6. /\ task' \in [Job -> {"none", "Running", "Stopped", "done", "killed"}]
        /\ \A k \in Job : k # j => task'[k] = task[k]
    BY <2>1, Types
  <2>7. /\ down' \in [Job -> Seq(Nat)] /\ down'[j] = Append(down[j], calls[j])
        /\ \A k \in Job : k # j => down'[k] = down[k]
    <3>1. Append(down[j], calls[j]) \in Seq(Nat)
      BY <2>5, Types
    <3> QED BY <2>1, <3>1, Types
  <2>8. TypeOK'
    BY <1>1, <1>3, <2>1, <2>3, <2>4, <2>6, <2>7, Types DEF TypeOK
  <2>9. ASSUME NEW k \in Job, k # j
        PROVE  JobOf(k)'
    <3>1. Quiet(stack, stack', k)
      BY <1>1, <2>1, <2>2, <2>9, QuietTop
    <3> QED BY <1>1, <1>2, <1>4, <2>1, <2>4, <2>6, <2>7, <2>9, <3>1, JobKept
  <2>10. JobOf(j)'
    <3>1. Stage(j, pc[j], up[j], down[j], calls[j], stack) /\ JobOf(j)
      BY <1>1, <1>6, Types DEF JobOf
    <3>2. Rest(stack, j)
      BY <1>1, RestOnTop
    <3>3. Asked(stack, j) = {} /\ down[j] = <<>> /\ pc[j] = "asking" /\ up[j] = <<"rest">>
      BY <1>1, <3>1, <3>2 DEF Stage
    <3>4. up'[j] = <<>> /\ down'[j] = <<calls[j]>>
      BY <1>2, <2>7, <3>3
    <3>5. ~Rest(stack', j) /\ Asked(stack', j) = {}
      BY <1>1, <2>1, <2>2, <3>3, TopAtWork
    <3>6. Stage(j, pc'[j], up'[j], down'[j], calls'[j], stack')
      BY <1>1, <3>3, <3>4, <3>5 DEF Stage
    <3>7. Kept(j)'
      BY <1>1, <3>3, <3>4 DEF Kept
    <3> QED BY <1>1, <1>4, <1>6, <3>1, <3>3, <3>4, <3>6, <3>7 DEF JobOf
  <2> QED BY <2>3, <2>8, <2>9, <2>10 DEF IInv, JobInv
<1> QED BY <1>5, <1>6

(* The rest of a request does not come.                                    *)
LEMMA ReadFailsStep ==
  ASSUME IInv, ReadFails
  PROVE  IInv'
<1>1. PICK j \in Job :
        /\ j = Top.job /\ proc[j] # "none" /\ j # NoJob /\ Top \in Loop
        /\ mc = "running" /\ Top.phase = "rest" /\ ~Alive(j) /\ stack' = Modal("notice", 0)
        /\ UNCHANGED <<mc, started, proc, clean, pc, request, calls, up, down, task, select_list,
                       pid>>
  BY AtWork DEF ReadFails, Eof, childVars, pipeVars, listVars
<1>2. StackInv' /\ stack' \in Seq(Loop)
  BY <1>1, OpenedStack
<1>3. \A k \in Job : Alive(k) => Quiet(stack, stack', k)
  BY <1>1, QuietOpened
<1> QED BY <1>1, <1>2, <1>3, OnlyStack

(* A job that has ended is unregistered: no living job loses anything.     *)
LEMMA EndOfPipe ==
  ASSUME IInv, NEW j \in Job, mc = "running", mc' = mc, Top.job = j, Top.phase = "head",
         ~Alive(j), Unregistered(j),
         stack' = WithTop(Returned(Top)) \/ stack' = Modal("notice", 0),
         proc' \in [Job -> {"none", "running", "stopped", "exiting", "zombie", "reaped"}],
         \A k \in Job : /\ Alive(k)' => Alive(k)
                        /\ proc[k] = "none" <=> proc'[k] = "none",
         UNCHANGED <<started, clean, pc, request, calls, up, down, pid>>
  PROVE  IInv'
<1>1. Top \in Loop /\ Top.job # NoJob
  BY AtWork, NoJobAssumption
<1>2. /\ select_list' = RemoveFirst(select_list, j)
      /\ task' \in [Job -> {"none", "Running", "Stopped", "done", "killed"}]
      /\ \A k \in Job : k # j => task'[k] = task[k]
  BY Types DEF Unregistered
<1>3. /\ select_list' \in Seq(Job)
      /\ \A k \in Job : Watched(k)' => Watched(k)
      /\ \A k \in Job : k # j /\ Watched(k) => Watched(k)'
  BY <1>2, ChannelDeleted
<1>4. StackInv' /\ stack' \in Seq(Loop) /\ \A k \in Job : Quiet(stack, stack', k)
  <2>1. CASE stack' = WithTop(Returned(Top))
    <3> DEFINE l == Returned(Top)
    <3>1. l \in Loop /\ l.phase = "idle" /\ l.job = NoJob
      BY <1>1, Loops
    <3>2. stack' = WithTop(l)
      BY <2>1
    <3> HIDE DEF l
    <3>3. StackInv' /\ stack' \in Seq(Loop)
      BY <3>1, <3>2, TopStack
    <3>4. \A k \in Job : Quiet(stack, stack', k)
      BY <3>1, <3>2, QuietTop
    <3> QED BY <3>3, <3>4
  <2>2. CASE stack' = Modal("notice", 0)
    <3>1. StackInv' /\ stack' \in Seq(Loop)
      BY <1>1, <2>2, OpenedStack
    <3>2. \A k \in Job : Quiet(stack, stack', k)
      BY <2>2, QuietOpened
    <3> QED BY <3>1, <3>2
  <2> QED BY <2>1, <2>2
<1>5. TypeOK'
  BY <1>2, <1>3, <1>4, Types DEF TypeOK
<1>6. ASSUME NEW k \in Job
      PROVE  JobOf(k)'
  <2>1. Alive(k)' => k # j
    OBVIOUS
  <2> QED BY <1>2, <1>3, <1>4, <2>1, JobKept
<1> QED BY <1>4, <1>5, <1>6 DEF IInv, JobInv

(* mc has waited for the job, or for one that ended before it.             *)
LEMMA BuryStep ==
  ASSUME IInv, NEW j \in Job, Bury(j)
  PROVE  IInv'
<1>1. /\ mc = "running" /\ mc' = mc /\ Top.job = j /\ Top.phase = "head" /\ ~Alive(j)
      /\ Unregistered(j) /\ UNCHANGED <<started, clean, pc, request, calls, up, down, pid>>
  BY DEF Bury, Eof, pipeVars
<1>2. PICK k \in Target(j) :
        /\ proc[k] = "zombie" /\ proc' = [proc EXCEPT ![k] = "reaped"]
        /\ stack' = IF clean[k] THEN WithTop(Returned(Top)) ELSE Modal("notice", 0)
  BY DEF Bury
<1>3. proc' \in [Job -> {"none", "running", "stopped", "exiting", "zombie", "reaped"}]
  BY <1>2, Types
<1>4. \A i \in Job : /\ Alive(i)' => Alive(i)
                     /\ proc[i] = "none" <=> proc'[i] = "none"
  BY <1>2, Types DEF Alive
<1> QED BY <1>1, <1>2, <1>3, <1>4, EndOfPipe

(* mc kills the job whose end it cannot wait for, or everything.           *)
LEMMA MisbehavesStep ==
  ASSUME IInv, NEW j \in Job, Misbehaves(j)
  PROVE  IInv'
<1>1. /\ mc = "running" /\ Top.job = j /\ Top.phase = "head" /\ ~Alive(j)
      /\ UNCHANGED <<started, clean, pc, request, calls, up, down, pid>>
  BY DEF Misbehaves, Eof, pipeVars
<1>2. CASE pid[j] = "own"
  <2>1. Unregistered(j) /\ stack' = Modal("notice", 0) /\ UNCHANGED <<mc, proc>>
    BY <1>2 DEF Misbehaves
  <2>2. \A k \in Job : (Alive(k)' <=> Alive(k)) /\ (proc[k] = "none" <=> proc'[k] = "none")
    BY <2>1 DEF Alive
  <2> QED BY <1>1, <2>1, <2>2, EndOfPipe, Types
<1>3. CASE pid[j] # "own"
  <2>1. /\ McEnds("terminated")
        /\ proc' = [k \in Job |-> IF proc[k] = "running" THEN "exiting" ELSE proc[k]]
    BY <1>3 DEF Misbehaves
  <2>2. /\ proc' \in [Job -> {"none", "running", "stopped", "exiting", "zombie", "reaped"}]
        /\ \A k \in Job : (Alive(k)' => Alive(k)) /\ (proc[k] = "none" <=> proc'[k] = "none")
    BY <2>1, Types DEF Alive
  <2> QED BY <1>1, <2>1, <2>2, McDies, Types
<1> QED BY <1>2, <1>3

(* Another end of pipe has taken the child.                                *)
LEMMA NobodyToBuryStep ==
  ASSUME IInv, NEW j \in Job, NobodyToBury(j)
  PROVE  IInv'
<1>1. /\ mc = "running" /\ mc' = mc /\ Top.job = j /\ Top.phase = "head" /\ ~Alive(j)
      /\ Unregistered(j) /\ stack' \in {WithTop(Returned(Top)), Modal("notice", 0)}
      /\ UNCHANGED <<started, proc, clean, pc, request, calls, up, down, pid>>
  BY DEF NobodyToBury, Eof, childVars, pipeVars
<1>2. \A k \in Job : (Alive(k)' <=> Alive(k)) /\ (proc[k] = "none" <=> proc'[k] = "none")
  BY <1>1 DEF Alive
<1> QED BY <1>1, <1>2, EndOfPipe, Types

-----------------------------------------------------------------------------
(* The job.                                                                *)

(* A step of j itself leaves the lists of mc and the other jobs alone.     *)
LEMMA OwnStep ==
  ASSUME IInv, NEW j \in Job, TypeOK', JobOf(j)', UNCHANGED <<mc, task, select_list, stack>>,
         proc[j] # "none", proc'[j] # "none",
         \A k \in Job : k # j =>
           /\ proc'[k] = proc[k] /\ pc'[k] = pc[k] /\ up'[k] = up[k] /\ down'[k] = down[k]
           /\ request'[k] = request[k] /\ calls'[k] = calls[k]
  PROVE  IInv'
<1>1. StackInv' /\ \A k \in Job : Quiet(stack, stack', k)
  BY StackKept
<1>2. ASSUME NEW k \in Job, k # j
      PROVE  JobOf(k)'
  <2>1. (Alive(k)' <=> Alive(k)) /\ (Watched(k)' <=> Watched(k))
    BY <1>2 DEF Alive, Watched
  <2> QED BY <1>1, <1>2, <2>1, JobKept
<1> QED BY <1>1, <1>2 DEF IInv, JobInv

(* A job ends, or its status can be waited for.                            *)
LEMMA EndStep ==
  ASSUME IInv, NEW j \in Job, proc[j] # "none",
         proc' = [proc EXCEPT ![j] = "exiting"] \/ proc' = [proc EXCEPT ![j] = "zombie"],
         clean' \in [Job -> BOOLEAN], pc' \in [Job -> {"work", "sending", "asking", "leaving"}],
         up' \in [Job -> Seq({"head", "rest"})],
         request' \in [Job -> {"none", "message", "query", "bye"}],
         calls' \in [Job -> 0 .. MaxCalls + 1], request'[j] = "bye" \/ calls'[j] <= MaxCalls,
         \A k \in Job : k # j => /\ pc'[k] = pc[k] /\ up'[k] = up[k]
                                 /\ request'[k] = request[k] /\ calls'[k] = calls[k],
         UNCHANGED <<mc, started, down, task, select_list, pid, stack>>
  PROVE  IInv'
<1>1. /\ proc' \in [Job -> {"none", "running", "stopped", "exiting", "zombie", "reaped"}]
      /\ proc'[j] \in {"exiting", "zombie"} /\ \A k \in Job : k # j => proc'[k] = proc[k]
  <2>1. proc \in [Job -> {"none", "running", "stopped", "exiting", "zombie", "reaped"}]
    BY Types
  <2>2. CASE proc' = [proc EXCEPT ![j] = "exiting"]
    BY <2>1, <2>2
  <2>3. CASE proc' = [proc EXCEPT ![j] = "zombie"]
    BY <2>1, <2>3
  <2> QED BY <2>2, <2>3
<1>2. TypeOK'
  BY <1>1, Types DEF TypeOK
<1>3. JobOf(j)'
  BY <1>1 DEF JobOf, Alive
<1> QED BY <1>1, <1>2, <1>3, OwnStep

(* A job begins a request.                                                 *)
LEMMA AskStep ==
  ASSUME IInv, NEW j \in Job, NEW kind \in {"message", "query", "bye"}, Ask(j, kind)
  PROVE  IInv'
<1>1. /\ proc[j] = "running" /\ pc[j] = "work" /\ (kind = "bye" \/ calls[j] < MaxCalls)
      /\ request' = [request EXCEPT ![j] = kind] /\ calls' = [calls EXCEPT ![j] = calls[j] + 1]
      /\ UNCHANGED <<mc, started, clean, down, task, select_list, pid, stack>>
  BY DEF Ask, Runs, listVars
<1>2. JobOf(j) /\ Alive(j)
  BY <1>1, Types DEF Alive
<1>3. calls[j] <= MaxCalls /\ request[j] # "bye" /\ calls[j] \in 0 .. MaxCalls + 1
  BY <1>1, <1>2, Types DEF JobOf
<1>4. calls[j] + 1 \in 0 .. MaxCalls + 1 /\ (kind = "bye" \/ calls[j] + 1 <= MaxCalls)
  BY <1>1, <1>3, CallsAssumption
<1>5. /\ request' \in [Job -> {"none", "message", "query", "bye"}] /\ request'[j] = kind
      /\ calls' \in [Job -> 0 .. MaxCalls + 1] /\ calls'[j] = calls[j] + 1
      /\ \A k \in Job : k # j => request'[k] = request[k] /\ calls'[k] = calls[k]
  BY <1>1, <1>4, Types
<1>6. CASE ~Held(j)
  <2>1. proc' = [proc EXCEPT ![j] = "exiting"] /\ UNCHANGED <<up, pc>>
    BY <1>6 DEF Ask, Writes
  <2> QED BY <1>1, <1>4, <1>5, <2>1, EndStep, Types
<1>7. CASE Held(j)
  <2>1. /\ up' = [up EXCEPT ![j] = Append(up[j], "head")] /\ pc' = [pc EXCEPT ![j] = "sending"]
        /\ proc' = proc
    BY <1>7 DEF Ask, Writes
  <2>2. /\ up'[j] = Append(up[j], "head") /\ pc'[j] = "sending"
        /\ \A k \in Job : k # j => up'[k] = up[k] /\ pc'[k] = pc[k]
    BY <2>1, Types
  <2>3. TypeOK'
    <3>1. Append(up[j], "head") \in Seq({"head", "rest"})
      BY Types
    <3>2. /\ up' \in [Job -> Seq({"head", "rest"})]
          /\ pc' \in [Job -> {"work", "sending", "asking", "leaving"}]
      BY <2>1, <3>1, Types
    <3> QED BY <1>1, <1>5, <2>1, <3>2, Types DEF TypeOK
  <2>4. down[j] = <<>>
    BY <1>1, <1>2 DEF JobOf
  <2>5. ASSUME mc = "running"
        PROVE  Stage(j, pc'[j], up'[j], down'[j], calls'[j], stack') /\ Kept(j)'
    <3>1. Stage(j, pc[j], up[j], down[j], calls[j], stack) /\ Kept(j)
      BY <1>2, <2>5 DEF JobOf
    <3>2. up[j] = <<>> /\ ~Rest(stack, j) /\ Asked(stack, j) = {}
      BY <1>1, <3>1 DEF Stage
    <3>3. up'[j] = <<"head">>
      BY <2>2, <3>2
    <3>4. Stage(j, pc'[j], up'[j], down'[j], calls'[j], stack')
      BY <1>1, <2>2, <2>4, <3>2, <3>3 DEF Stage
    <3>5. Kept(j)'
      BY <1>1, <1>3, <3>1 DEF Kept, Watched, Listed
    <3> QED BY <3>4, <3>5
  <2>6. JobOf(j)'
    BY <1>1, <1>4, <1>5, <2>1, <2>2, <2>4, <2>5 DEF JobOf
  <2> QED BY <1>1, <1>5, <2>1, <2>2, <2>3, <2>6, OwnStep
<1> QED BY <1>6, <1>7

(* A job ends its request.                                                 *)
LEMMA AskRestStep ==
  ASSUME IInv, NEW j \in Job, AskRest(j)
  PROVE  IInv'
<1>1. /\ proc[j] = "running" /\ pc[j] = "sending"
      /\ UNCHANGED <<mc, started, clean, request, calls, down, task, select_list, pid, stack>>
  BY DEF AskRest, Runs, listVars
<1>2. JobOf(j) /\ Alive(j)
  BY <1>1, Types DEF Alive
<1>3. request[j] = "bye" \/ calls[j] <= MaxCalls
  BY <1>2 DEF JobOf
<1>4. CASE ~Held(j)
  <2>1. proc' = [proc EXCEPT ![j] = "exiting"] /\ UNCHANGED <<up, pc>>
    BY <1>4 DEF AskRest, Writes
  <2> QED BY <1>1, <1>3, <2>1, EndStep, Types
<1>5. CASE Held(j)
  <2>1. /\ up' = [up EXCEPT ![j] = Append(up[j], "rest")] /\ pc' = [pc EXCEPT ![j] = "asking"]
        /\ proc' = proc
    BY <1>5 DEF AskRest, Writes
  <2>2. /\ up'[j] = Append(up[j], "rest") /\ pc'[j] = "asking"
        /\ \A k \in Job : k # j => up'[k] = up[k] /\ pc'[k] = pc[k]
    BY <2>1, Types
  <2>3. TypeOK'
    <3>1. Append(up[j], "rest") \in Seq({"head", "rest"})
      BY Types
    <3>2. /\ up' \in [Job -> Seq({"head", "rest"})]
          /\ pc' \in [Job -> {"work", "sending", "asking", "leaving"}]
      BY <2>1, <3>1, Types
    <3> QED BY <1>1, <2>1, <3>2, Types DEF TypeOK
  <2>4. down[j] = <<>>
    BY <1>1, <1>2 DEF JobOf
  <2>5. ASSUME mc = "running"
        PROVE  Stage(j, pc'[j], up'[j], down'[j], calls'[j], stack') /\ Kept(j)'
    <3>1. Stage(j, pc[j], up[j], down[j], calls[j], stack) /\ Kept(j)
      BY <1>2, <2>5 DEF JobOf
    <3>2. /\ Asked(stack, j) = {}
          /\ Rest(stack, j) => up[j] = <<>>
          /\ ~Rest(stack, j) => up[j] = <<"head">>
      BY <1>1, <3>1 DEF Stage
    <3>3. Append(<<>>, "rest") = <<"rest">>
      OBVIOUS
    <3>3a. Append(<<"head">>, "rest") = <<"head", "rest">>
      <4> DEFINE t == Append(<<"head">>, "rest")
      <4>1. t \in Seq({"head", "rest"}) /\ Len(t) = 2 /\ t[1] = "head" /\ t[2] = "rest"
        OBVIOUS
      <4> HIDE DEF t
      <4> DEFINE u == <<"head", "rest">>
      <4>2. u \in Seq({"head", "rest"}) /\ Len(u) = 2 /\ u[1] = "head" /\ u[2] = "rest"
        OBVIOUS
      <4> HIDE DEF u
      <4>3. \A i \in 1 .. Len(t) : t[i] = u[i]
        BY <4>1, <4>2
      <4>4. t = u
        BY <4>1, <4>2, <4>3, SeqEqual
      <4> QED BY <4>4 DEF t, u
    <3>4. /\ Rest(stack, j) => up'[j] = <<"rest">>
          /\ ~Rest(stack, j) => up'[j] = <<"head", "rest">>
      BY <2>2, <3>2, <3>3, <3>3a
    <3>5. Stage(j, pc'[j], up'[j], down'[j], calls'[j], stack')
      BY <1>1, <2>2, <2>4, <3>2, <3>4 DEF Stage
    <3>6. Kept(j)'
      BY <1>1, <3>1 DEF Kept, Watched, Listed
    <3> QED BY <3>5, <3>6
  <2>6. JobOf(j)'
    BY <1>1, <1>3, <2>1, <2>2, <2>4, <2>5 DEF JobOf
  <2> QED BY <1>1, <2>1, <2>2, <2>3, <2>6, OwnStep
<1> QED BY <1>4, <1>5

(* A job goes on, with the answer or with the end of the pipe for one.     *)
LEMMA GoOnStep ==
  ASSUME IInv, NEW j \in Job, proc[j] = "running", pc[j] = "asking", GoOn(j),
         down' \in [Job -> Seq(Nat)], down'[j] = <<>>, \A k \in Job : k # j => down'[k] = down[k],
         mc = "running" => down[j] # <<>>,
         UNCHANGED <<mc, started, proc, clean, request, calls, up, task, select_list, pid, stack>>
  PROVE  IInv'
<1>1. JobOf(j) /\ Alive(j)
  BY Types DEF Alive
<1>2. /\ pc' \in [Job -> {"work", "sending", "asking", "leaving"}]
      /\ pc'[j] = IF request[j] = "bye" THEN "leaving" ELSE "work"
      /\ \A k \in Job : k # j => pc'[k] = pc[k]
  BY Types DEF GoOn
<1>3. TypeOK'
  BY <1>2, Types DEF TypeOK
<1>4. ASSUME mc = "running"
      PROVE  Stage(j, pc'[j], up'[j], down'[j], calls'[j], stack') /\ Kept(j)'
  <2>1. Stage(j, pc[j], up[j], down[j], calls[j], stack) /\ Kept(j)
    BY <1>1, <1>4 DEF JobOf
  <2>2. up[j] = <<>> /\ ~Rest(stack, j) /\ Asked(stack, j) = {}
    BY <1>4, <2>1 DEF Stage
  <2>3. Stage(j, pc'[j], up'[j], down'[j], calls'[j], stack')
    BY <1>2, <2>2 DEF Stage
  <2>4. Kept(j)'
    BY <1>2, <2>1, <2>2 DEF Kept, Watched, Listed
  <2> QED BY <2>3, <2>4
<1>5. JobOf(j)'
  BY <1>1, <1>2, <1>4 DEF JobOf
<1> QED BY <1>2, <1>3, <1>5, OwnStep

(* A job has the answer: to the call it waits with.                        *)
LEMMA ReceiveStep ==
  ASSUME IInv, NEW j \in Job, Receive(j)
  PROVE  IInv'
<1>1. /\ proc[j] = "running" /\ pc[j] = "asking" /\ down[j] # <<>> /\ GoOn(j)
      /\ down' = [down EXCEPT ![j] = Tail(down[j])]
      /\ UNCHANGED <<mc, started, proc, clean, request, calls, up, task, select_list, pid, stack>>
  BY DEF Receive, Runs, listVars
<1>2. down[j] = <<calls[j]>>
  BY <1>1, Types DEF JobOf, Alive
<1>3. Tail(down[j]) = <<>>
  BY <1>2
<1>4. down' \in [Job -> Seq(Nat)] /\ down'[j] = <<>> /\ \A k \in Job : k # j => down'[k] = down[k]
  BY <1>1, <1>3, Types
<1> QED BY <1>1, <1>4, GoOnStep

(* A job has no answer: mc is gone.                                        *)
LEMMA ReceiveNothingStep ==
  ASSUME IInv, NEW j \in Job, ReceiveNothing(j)
  PROVE  IInv'
<1>1. /\ proc[j] = "running" /\ pc[j] = "asking" /\ down[j] = <<>> /\ mc # "running" /\ GoOn(j)
      /\ UNCHANGED <<mc, started, proc, clean, request, calls, up, down, task, select_list, pid,
                     stack>>
  BY DEF ReceiveNothing, Runs, Held, listVars, pipeVars
<1> QED BY <1>1, GoOnStep, Types

(* A job leaves, crashes or has ended.                                     *)
LEMMA LeaveStep ==
  ASSUME IInv, NEW j \in Job, Leave(j) \/ Die(j) \/ Ended(j)
  PROVE  IInv'
<1>1. /\ proc[j] # "none" /\ clean' \in [Job -> BOOLEAN]
      /\ proc' = [proc EXCEPT ![j] = "exiting"] \/ proc' = [proc EXCEPT ![j] = "zombie"]
      /\ UNCHANGED <<mc, started, pc, request, calls, up, down, task, select_list, pid, stack>>
  BY Types DEF Leave, Die, Ended, Runs, Alive, pipeVars, listVars
<1>2. request[j] = "bye" \/ calls[j] <= MaxCalls
  BY Types DEF JobOf
<1> QED BY <1>1, <1>2, EndStep, Types

-----------------------------------------------------------------------------
(* The invariant.                                                          *)

(* It holds before the first job is started.                               *)
LEMMA InitInv ==
  ASSUME Init
  PROVE  IInv
<1>1. IdleLoop \in Loop /\ IdleLoop.phase = "idle" /\ IdleLoop.job = NoJob
  BY Loops
<1>2. DOMAIN stack = {1} /\ Len(stack) = 1 /\ stack[1] = IdleLoop /\ stack # <<>>
  BY DEF Init
<1>3. StackInv
  BY <1>1, <1>2 DEF StackInv, Init
<1>4. TypeOK
  <2>1. 0 \in 0 .. MaxCalls + 1
    BY CallsAssumption
  <2>2. stack \in Seq(Loop)
    BY <1>1 DEF Init
  <2>3. /\ up \in [Job -> Seq({"head", "rest"})] /\ down \in [Job -> Seq(Nat)]
        /\ calls \in [Job -> 0 .. MaxCalls + 1]
    BY <2>1 DEF Init
  <2> QED BY <2>2, <2>3 DEF Init, TypeOK
<1>5. ASSUME NEW j \in Job
      PROVE  JobOf(j)
  <2>1. /\ proc[j] = "none" /\ pc[j] = "work" /\ up[j] = <<>> /\ down[j] = <<>>
        /\ request[j] = "none" /\ calls[j] = 0 /\ select_list = <<>>
    BY DEF Init
  <2>2. ~Watched(j)
    BY <2>1 DEF Watched, Contains
  <2> QED BY <2>1, <2>2, CallsAssumption DEF JobOf, Alive
<1> QED BY <1>3, <1>4, <1>5 DEF IInv, JobInv

(* Nothing happens.                                                        *)
LEMMA StutterStep ==
  ASSUME IInv, UNCHANGED vars
  PROVE  IInv'
<1>1. UNCHANGED <<mc, started, proc, clean, pc, request, calls, up, down, task, select_list, pid,
                  stack>>
  BY DEF vars, childVars, pipeVars, listVars
<1>2. StackInv' /\ stack' \in Seq(Loop) /\ \A j \in Job : Quiet(stack, stack', j)
  BY <1>1, StackKept
<1> QED BY <1>1, <1>2, OnlyStack

(* Every step keeps it.                                                    *)
LEMMA StepInv ==
  ASSUME IInv, [Next]_vars
  PROVE  IInv'
<1>1. CASE Attention
  <2>1. CASE Select
    BY <2>1, SelectStep
  <2>2. CASE Check
    BY <2>2, CheckStep
  <2>3. CASE ReadHead
    BY <2>3, ReadHeadStep
  <2>4. CASE ReadQuestion
    BY <2>4, ReadQuestionStep
  <2>5. CASE ReadGoodbye
    BY <2>5, ReadGoodbyeStep
  <2>6. CASE ReadFails
    BY <2>6, ReadFailsStep
  <2>7. CASE \E j \in Job : Bury(j) \/ Misbehaves(j) \/ NobodyToBury(j)
    BY <2>7, BuryStep, MisbehavesStep, NobodyToBuryStep
  <2> QED BY <1>1, <2>1, <2>2, <2>3, <2>4, <2>5, <2>6, <2>7 DEF Attention
<1>2. CASE Close
  BY <1>2, CloseQuestionStep, CloseNoticeStep DEF Close
<1>3. CASE Quit
  BY <1>3, QuitStep
<1>4. ASSUME NEW j \in Job, Start(j) \/ Button(j)
      PROVE  IInv'
  BY <1>4, StartStep, StopStep, KillStep DEF Button
<1>5. ASSUME NEW j \in Job, Work(j) \/ Die(j) \/ Ended(j)
      PROVE  IInv'
  <2>1. CASE \E kind \in {"message", "query", "bye"} : Ask(j, kind)
    BY <2>1, AskStep
  <2>2. CASE AskRest(j) \/ Receive(j) \/ ReceiveNothing(j)
    BY <2>2, AskRestStep, ReceiveStep, ReceiveNothingStep
  <2>3. CASE Leave(j) \/ Die(j) \/ Ended(j)
    BY <2>3, LeaveStep
  <2> QED BY <1>5, <2>1, <2>2, <2>3 DEF Work
<1>6. CASE UNCHANGED vars
  BY <1>6, StutterStep
<1> QED BY <1>1, <1>2, <1>3, <1>4, <1>5, <1>6 DEF Next

(* The request of every living job is in one place, and the job is watched *)
(* until its goodbye has been answered.                                    *)
THEOREM InductiveInvariant == Spec => []IInv
<1>1. Init => IInv
  BY InitInv
<1>2. IInv /\ [Next]_vars => IInv'
  BY StepInv
<1> QED BY <1>1, <1>2, PTL DEF Spec

(* The state has the types of the declarations, the stack included.        *)
THEOREM TypeCorrect == Spec => []TypeOK
<1>1. IInv => TypeOK
  BY DEF IInv
<1> QED BY <1>1, InductiveInvariant, PTL

(* A living job finds at most one answer in its pipe, and it is that of    *)
(* the call it waits with, however the dialogs of mc are stacked.          *)
THEOREM AnswersMatchHolds == Spec => []AnswersMatch
<1>1. IInv => AnswersMatch
  BY DEF IInv, JobInv, JobOf, AnswersMatch
<1> QED BY <1>1, InductiveInvariant, PTL

(* While mc runs, a living job that may still ask, or has asked, is        *)
(* watched and listed, unless the user has killed it.                      *)
THEOREM NotForgottenHolds == Spec => []NotForgotten
<1>1. IInv => NotForgotten
  BY DEF IInv, JobInv, JobOf, Kept, NotForgotten
<1> QED BY <1>1, InductiveInvariant, PTL
=============================================================================
