-------------------------- MODULE VfsStamps_proofs --------------------------
(***************************************************************************)
(* Proofs about VfsStamps, for any archives nested in any way, any expiry  *)
(* age and any bound on kept copies: types, that stamps refer to what is   *)
(* there, that no timeout frees what is in use, that use counts are exact, *)
(* and that no stamp is lost while nobody uses its archive.                *)
(*                                                                         *)
(* None of them is inductive, because the list of stamps is swept while    *)
(* freeing an archive opens the outer one and so changes the list.  Books, *)
(* Sound and Held say what use counts, stamps and local copies are worth   *)
(* in the middle of an operation: x is the archive whose copy is out, y    *)
(* the one being freed at the sweep's stamp.  Idle says that a stamped     *)
(* archive is not in use, so that the sweep never has to read an outer     *)
(* archive again while mc runs.  At exit it frees by force; Leaves says    *)
(* that an outer archive whose stamp is lost then is the directory of a    *)
(* panel, which counts as using it, and Behind that no stamp is left.      *)
(*                                                                         *)
(* Load reads the archives of a path by recursion over a finite nesting;   *)
(* what it leads to is proved by descent over Depth, a rank which          *)
(* NestingAssumption gives.                                                *)
(***************************************************************************)
EXTENDS VfsStamps, SequenceLemmas, FiniteSetTheorems

(* Archives are ranked by the archives they lie in.                        *)
Ranks(depth) ==
  /\ depth \in [Place -> 0 .. Cardinality(Archive)]
  /\ \A a \in Archive : depth[Parent[a]] < depth[a]
Depth == CHOOSE depth : Ranks(depth)

(* An archive lies deeper than the one it lies in.                         *)
LEMMA DepthRanks == Ranks(Depth)
  BY NestingAssumption DEF Ranks, Depth

(* The body of the recursion in Load.                                      *)
LoadBody(load, v, env) ==
  [b \in Place |->
     IF b = Local THEN v
     ELSE IF b \in v.loaded THEN vfs_stamp(v, b)
     ELSE ReadArchive(Copied(load[Parent[b]], b, env), b, env)]

(* The recursion of Load has a solution, since Depth falls.                *)
LEMMA LoadsExist ==
  ASSUME NEW v, NEW env
  PROVE  \E load : load = LoadBody(load, v, env)
<1> DEFINE Upto(d) == \E f : /\ f = [b \in Place |-> f[b]]
                            /\ \A b \in Place : Depth[b] <= d => f[b] = LoadBody(f, v, env)[b]
           Bad == {d \in Nat : ~Upto(d)}
<1>1. Cardinality(Archive) \in Nat
  BY FS_CardinalityType, KindAssumption
<1>2. Depth \in [Place -> Nat] /\ \A b \in Place : Depth[b] <= Cardinality(Archive)
  BY <1>1, DepthRanks DEF Ranks
<1>3. \A a \in Archive : Depth[Parent[a]] < Depth[a] /\ a \in Place /\ Parent[a] \in Place
  BY DepthRanks, ParentAssumption DEF Ranks, Place
<1>4. Local \notin Archive /\ Place = Archive \cup {Local}
  BY KindAssumption DEF Place
<1>5. \A b \in Place : \A f, g : (b = Local \/ f[Parent[b]] = g[Parent[b]])
                               => LoadBody(f, v, env)[b] = LoadBody(g, v, env)[b]
  BY Zenon DEF LoadBody
<1>6. Upto(0)
  <2> DEFINE f == [b \in Place |-> v]
             g == LoadBody(f, v, env)
  <2>1. \A b \in Place : Depth[b] <= 0 => b = Local
    BY <1>2, <1>3, <1>4
  <2>2. g = [b \in Place |-> g[b]]
    BY DEF LoadBody
  <2>3. \A b \in Place : Depth[b] <= 0 => g[b] = LoadBody(g, v, env)[b]
    BY <1>5, <2>1
  <2> QED  BY <2>2, <2>3
<1>7. ASSUME NEW d \in Nat, Upto(d) PROVE Upto(d + 1)
  <2>1. PICK f : /\ f = [b \in Place |-> f[b]]
                 /\ \A b \in Place : Depth[b] <= d => f[b] = LoadBody(f, v, env)[b]
    BY <1>7
  <2> DEFINE g == LoadBody(f, v, env)
  <2>2. g = [b \in Place |-> g[b]]
    BY DEF LoadBody
  <2>3. ASSUME NEW b \in Place, Depth[b] <= d + 1 PROVE g[b] = LoadBody(g, v, env)[b]
    <3>1. b = Local \/ f[Parent[b]] = g[Parent[b]]
      <4> HIDE DEF g
      <4>1. CASE b \in Archive
        <5>1. Parent[b] \in Place /\ Depth[Parent[b]] <= d
          BY <1>2, <1>3, <2>3, <4>1
        <5> QED  BY <2>1, <5>1 DEF g
      <4> QED  BY <1>4, <4>1
    <3> QED  BY <1>5, <3>1
  <2> QED  BY <2>2, <2>3
<1>8. Bad = {}
  <2>1. SUFFICES ASSUME Bad # {} PROVE FALSE
    OBVIOUS
  <2>2. PICK d \in Bad : \A e \in Bad : d <= e
    BY <2>1, LeastNatural
  <2> HIDE DEF Upto
  <2>3. d # 0
    BY <1>6, <2>2
  <2>4. d - 1 \in Nat /\ d - 1 \notin Bad /\ (d - 1) + 1 = d
    BY <2>2, <2>3
  <2>5. Upto(d - 1)
    BY <2>4
  <2>6. Upto((d - 1) + 1)
    BY <1>7, <2>4, <2>5
  <2> QED  BY <2>2, <2>4, <2>6
<1>9. Upto(Cardinality(Archive))
  BY <1>1, <1>8
<1>10. PICK f : /\ f = [b \in Place |-> f[b]]
                /\ \A b \in Place :
                     Depth[b] <= Cardinality(Archive) => f[b] = LoadBody(f, v, env)[b]
  BY <1>9
<1>11. \A b \in Place : f[b] = LoadBody(f, v, env)[b]
  BY <1>2, <1>10
<1>12. LoadBody(f, v, env) = [b \in Place |-> LoadBody(f, v, env)[b]]
  BY DEF LoadBody
<1>13. f = LoadBody(f, v, env)
  BY <1>10, <1>11, <1>12, Zenon
<1> QED  BY <1>13

(* Load satisfies its own recursive equation.                              *)
LEMMA LoadIs ==
  ASSUME NEW v, NEW env
  PROVE  \E load : /\ load = LoadBody(load, v, env)
                   /\ \A a : Load(v, a, env) = load[a]
<1> DEFINE load == CHOOSE f : f = LoadBody(f, v, env)
<1>1. load = LoadBody(load, v, env)
  BY LoadsExist
<1>2. \A a : Load(v, a, env) = load[a]
  BY DEF Load, LoadBody
<1> QED  BY <1>1, <1>2, Zenon

-----------------------------------------------------------------------------
(* Stamps.                                                                 *)

Envs == [cwd : Dir, dir : [Panels -> Dir], view : [Panels -> Views],
         current : Panels, present : BOOLEAN]

(* y is Gone, or the archive that is being freed at the sweep's stamp.     *)
Sound(v, y) ==
  /\ v.at <= Len(v.stamps) + 1
  /\ \A k \in DOMAIN v.stamps : v.stamps[k].id \in v.loaded \cup {Gone, y}
  /\ \A k \in DOMAIN v.stamps : v.stamps[k].id = Gone => k < v.at
  /\ \A j, k \in DOMAIN v.stamps :
       v.stamps[j].id = v.stamps[k].id => j = k \/ v.stamps[j].id = Gone
  /\ y # Gone => v.at \in DOMAIN v.stamps /\ v.stamps[v.at].id = y
(* A sweep at exit leaves NULL behind it, and nothing else.                *)
Behind(v) == \A k \in DOMAIN v.stamps : k < v.at => v.stamps[k].id = Gone
(* Archives, use counts and copies are the same in v and w.                *)
SameBooks(v, w) ==
  w.loaded = v.loaded /\ w.fd_usage = v.fd_usage /\ w.copied = v.copied /\ w.kept = v.kept

(* From v to w only stamps have changed.                                   *)
Restamped(v, w, y) ==
  /\ w \in Vfs /\ SameBooks(v, w) /\ Sound(w, y)
  /\ w.at = 0 <=> v.at = 0
  /\ Behind(v) => Behind(w)

(* Facts about the kinds of archives and about stamps.                     *)
LEMMA StampFacts ==
  /\ Archive \cap {Local, Gone} = {} /\ Local # Gone
  /\ Dir \subseteq Place /\ Archive \subseteq Place
  /\ Extfs \subseteq Archive /\ Sfs \subseteq Archive
  /\ Old \in Nat \ {0}
  /\ \A s \in Stamp : s.id \in Archive \cup {Gone} /\ s.age \in 0 .. Old
  /\ \A i, n : i \in Archive \cup {Gone} /\ n \in 0 .. Old => [id |-> i, age |-> n] \in Stamp
<1>1. Old \in Nat \ {0}
  BY BoundAssumption
<1>2. \A i, n : i \in Archive \cup {Gone} /\ n \in 0 .. Old => [id |-> i, age |-> n] \in Stamp
  BY DEF Stamp
<1>3. \A s \in Stamp : s.id \in Archive \cup {Gone} /\ s.age \in 0 .. Old
  BY DEF Stamp
<1> QED  BY <1>1, <1>2, <1>3, KindAssumption DEF Dir, Place, Archive

(* What it is to be stamped.                                               *)
LEMMA StampedIs ==
  ASSUME NEW v \in Vfs
  PROVE  \A a : a \in Stamped(v) <=> a # Gone /\ \E k \in DOMAIN v.stamps : v.stamps[k].id = a
  BY DEF Stamped, Ids, Range

(* Stamps are of archives that are there.                                  *)
LEMMA SoundStamped ==
  ASSUME NEW v \in Vfs, NEW y, Sound(v, y)
  PROVE  Stamped(v) \subseteq v.loaded \cup {y} /\ Stamped(v) \subseteq Archive
<1> QED  BY StampedIs, StampFacts DEF Sound, Vfs

(* vfs_stamp_compare finds the first stamp that hits, if any.              *)
LEMMA FoundIs ==
  ASSUME NEW v \in Vfs, NEW a
  PROVE  \/ /\ Found(v, a) = 0
            /\ \A k \in DOMAIN v.stamps : v.stamps[k].id \notin {a, Gone}
         \/ /\ Found(v, a) \in DOMAIN v.stamps /\ Found(v, a) \in Nat \ {0}
            /\ v.stamps[Found(v, a)].id \in {a, Gone}
            /\ \A k \in DOMAIN v.stamps :
                 k < Found(v, a) => v.stamps[k].id \notin {a, Gone}
<1>1. DOMAIN v.stamps = 1 .. Len(v.stamps) /\ Len(v.stamps) \in Nat
  BY DEF Vfs
<1>2. CASE Hits(v, a) = {}
  BY <1>2 DEF Found, Hits
<1>3. CASE Hits(v, a) # {}
  <2>1. Hits(v, a) \in SUBSET Nat
    BY <1>1 DEF Hits
  <2>2. PICK k \in Hits(v, a) : \A j \in Hits(v, a) : k <= j
    BY <1>3, <2>1, LeastNatural
  <2>3. Min(Hits(v, a)) \in Hits(v, a) /\ \A j \in Hits(v, a) : Min(Hits(v, a)) <= j
    BY <2>2 DEF Min
  <2>4. Found(v, a) \in Hits(v, a) /\ \A j \in Hits(v, a) : Found(v, a) <= j
    BY <1>3, <2>3 DEF Found
  <2>5. \A k1 \in DOMAIN v.stamps : k1 < Found(v, a) => k1 \notin Hits(v, a)
    BY <1>1, <2>1, <2>4
  <2> QED  BY <1>1, <2>4, <2>5 DEF Hits
<1> QED  BY <1>2, <1>3

(* What does not move a stamp keeps the list sound.                        *)
LEMMA SameIds ==
  ASSUME NEW v \in Vfs, NEW w \in Vfs, NEW y, Sound(v, y), SameBooks(v, w),
         w.at = v.at, Len(w.stamps) = Len(v.stamps),
         \A k \in DOMAIN v.stamps : w.stamps[k].id = v.stamps[k].id
  PROVE  Restamped(v, w, y) /\ Stamped(w) = Stamped(v)
<1>1. DOMAIN w.stamps = DOMAIN v.stamps
  BY DEF Vfs
<1>2. Stamped(w) = Stamped(v)
  <2>1. \A a : a \in Stamped(w) <=> a \in Stamped(v)
    BY <1>1, StampedIs
  <2> QED  BY <2>1, Zenon DEF Stamped
<1>3. Sound(w, y)
  <2>1. w.at <= Len(w.stamps) + 1 /\ w.loaded = v.loaded
    BY DEF Sound, SameBooks
  <2>2. /\ \A k \in DOMAIN w.stamps : w.stamps[k].id \in w.loaded \cup {Gone, y}
        /\ \A k \in DOMAIN w.stamps : w.stamps[k].id = Gone => k < w.at
        /\ y # Gone => w.at \in DOMAIN w.stamps /\ w.stamps[w.at].id = y
    BY <1>1, <2>1 DEF Sound
  <2>3. \A j, k \in DOMAIN w.stamps :
          w.stamps[j].id = w.stamps[k].id => j = k \/ w.stamps[j].id = Gone
    BY <1>1 DEF Sound
  <2> QED  BY <2>1, <2>2, <2>3 DEF Sound
<1>4. Behind(v) => Behind(w)
  BY <1>1 DEF Behind
<1> QED  BY <1>2, <1>3, <1>4 DEF Restamped

(* Making a stamp young changes no list and no book.                       *)
LEMMA AgeIs ==
  ASSUME NEW v \in Vfs, NEW k \in DOMAIN v.stamps
  PROVE  LET w == [v EXCEPT !.stamps[k].age = 0] IN
         /\ w \in Vfs /\ SameBooks(v, w) /\ w.at = v.at /\ Len(w.stamps) = Len(v.stamps)
         /\ \A j \in DOMAIN v.stamps : w.stamps[j].id = v.stamps[j].id
<1> DEFINE w == [v EXCEPT !.stamps[k].age = 0]
           t == [v.stamps EXCEPT ![k].age = 0]
<1>1. v.stamps \in Seq(Stamp) /\ k \in 1 .. Len(v.stamps) /\ 0 \in 0 .. Old
  BY StampFacts DEF Vfs
<1> DEFINE r == v.stamps[k]
<1>2. [r EXCEPT !.age = 0] \in Stamp /\ [r EXCEPT !.age = 0].id = r.id
  <2>1. r \in Stamp
    BY <1>1
  <2> HIDE DEF r
  <2>2. r.id \in Archive \cup {Gone} /\ r = [id |-> r.id, age |-> r.age]
    BY <2>1 DEF Stamp
  <2>3. [r EXCEPT !.age = 0] = [id |-> r.id, age |-> 0]
    BY <2>2
  <2> QED  BY <2>2, <2>3, <1>1, StampFacts
<1>3. t \in Seq(Stamp) /\ Len(t) = Len(v.stamps)
      /\ \A j \in DOMAIN v.stamps : t[j].id = v.stamps[j].id
  BY <1>1, <1>2
<1> HIDE DEF t
<1>4. w = [v EXCEPT !.stamps = t]
  BY DEF t, Vfs
<1>5. w \in Vfs /\ SameBooks(v, w) /\ w.at = v.at /\ w.stamps = t
  BY <1>3, <1>4 DEF Vfs, SameBooks
<1> QED  BY <1>3, <1>5

(* A stamp refreshed keeps the list sound.                                 *)
LEMMA RefreshedIs ==
  ASSUME NEW v \in Vfs, NEW y, Sound(v, y), NEW a, NEW k \in (DOMAIN v.stamps) \cup {0}
  PROVE  Restamped(v, Refreshed(v, a, k), y) /\ Stamped(Refreshed(v, a, k)) = Stamped(v)
<1>1. CASE k = 0 \/ v.stamps[k].id # a
  <2>1. Refreshed(v, a, k) = v
    BY <1>1 DEF Refreshed
  <2> QED  BY <2>1, SameIds DEF SameBooks
<1>2. CASE ~(k = 0 \/ v.stamps[k].id # a)
  <2> DEFINE w == Refreshed(v, a, k)
  <2>1. w = [v EXCEPT !.stamps[k].age = 0] /\ k \in DOMAIN v.stamps
    BY <1>2 DEF Refreshed
  <2>2. /\ w \in Vfs /\ SameBooks(v, w) /\ w.at = v.at /\ Len(w.stamps) = Len(v.stamps)
        /\ \A j \in DOMAIN v.stamps : w.stamps[j].id = v.stamps[j].id
    BY <2>1, AgeIs
  <2> HIDE DEF w
  <2>3. Restamped(v, w, y) /\ Stamped(w) = Stamped(v)
    BY <2>2, SameIds
  <2> QED  BY <2>3 DEF w
<1> QED  BY <1>1, <1>2

(* vfs_stamp keeps the list sound.                                         *)
LEMMA StampIs ==
  ASSUME NEW v \in Vfs, NEW y, Sound(v, y), NEW a
  PROVE  Restamped(v, vfs_stamp(v, a), y) /\ Stamped(vfs_stamp(v, a)) = Stamped(v)
<1>1. Found(v, a) \in (DOMAIN v.stamps) \cup {0}
  BY FoundIs
<1> QED  BY <1>1, RefreshedIs DEF vfs_stamp

(* A stamp removed from the list, before or after the sweep.               *)
LEMMA WithoutIs ==
  ASSUME NEW v \in Vfs, NEW y, Sound(v, y), NEW k \in DOMAIN v.stamps,
         v.stamps[k].id # y \/ y = Gone
  PROVE  LET w == Without(v, k) IN
         /\ Restamped(v, w, y)
         /\ Stamped(w) = Stamped(v) \ {v.stamps[k].id}
         /\ Len(w.stamps) = Len(v.stamps) - 1
<1> DEFINE s == v.stamps
           n == Len(v.stamps)
           t == RemoveAt(v.stamps, k)
           at == IF k < v.at THEN v.at - 1 ELSE v.at
           w == Without(v, k)
<1>1. s \in Seq(Stamp) /\ n \in Nat /\ v.at \in Nat /\ DOMAIN s = 1 .. n /\ k \in 1 .. n
  BY DEF Vfs
<1>2. /\ t \in Seq(Stamp) /\ Len(t) = n - 1 /\ DOMAIN t = 1 .. n - 1
      /\ \A j \in 1 .. n - 1 : t[j] = IF j < k THEN s[j] ELSE s[j + 1]
  BY <1>1, RemoveAtProperties
<1> HIDE DEF t
<1>3. at \in Nat
  BY <1>1
<1> HIDE DEF at
<1>4. k # 0
  BY <1>1
<1>5. w = [v EXCEPT !.stamps = t, !.at = at]
  BY <1>4 DEF Without, t, at, Vfs
<1>6. w \in Vfs /\ SameBooks(v, w) /\ w.at = at /\ w.stamps = t
  BY <1>2, <1>3, <1>5 DEF Vfs, SameBooks
<1> HIDE DEF w
<1>7. \A j \in 1 .. n - 1 : \E i \in 1 .. n :
        i # k /\ t[j] = s[i] /\ i = IF j < k THEN j ELSE j + 1
  BY <1>1, <1>2
<1>8. \A i \in 1 .. n : i # k => \E j \in 1 .. n - 1 : t[j] = s[i]
  <2>1. ASSUME NEW i \in 1 .. n, i < k PROVE i \in 1 .. n - 1 /\ t[i] = s[i]
    BY <1>1, <1>2, <2>1
  <2>2. ASSUME NEW i \in 1 .. n, k < i PROVE i - 1 \in 1 .. n - 1 /\ t[i - 1] = s[i]
    BY <1>1, <1>2, <2>2
  <2> QED  BY <1>1, <2>1, <2>2
<1>9. Stamped(w) = Stamped(v) \ {s[k].id}
  <2>1. \A j \in 1 .. n : j # k /\ s[j].id # Gone => s[j].id # s[k].id
    BY <1>1 DEF Sound
  <2>2. ASSUME NEW a PROVE a \in Stamped(w) <=> a \in Stamped(v) \ {s[k].id}
    <3>1. a \in Stamped(w) <=> a # Gone /\ \E j \in 1 .. n - 1 : t[j].id = a
      BY <1>2, <1>6, StampedIs, SMTT(60)
    <3>2. a \in Stamped(v) <=> a # Gone /\ \E i \in 1 .. n : s[i].id = a
      BY <1>1, StampedIs
    <3>3. ASSUME NEW j \in 1 .. n - 1, t[j].id = a, a # Gone
          PROVE  a \in Stamped(v) \ {s[k].id}
      BY <1>7, <2>1, <3>2, <3>3
    <3>4. ASSUME NEW i \in 1 .. n, s[i].id = a, a # Gone, a # s[k].id
          PROVE  a \in Stamped(w)
      BY <1>8, <3>1, <3>4
    <3> QED  BY <3>1, <3>2, <3>3, <3>4
  <2> QED  BY <2>2, Zenon DEF Stamped
<1>10. Sound(w, y)
  <2>1. at <= (n - 1) + 1
    BY <1>1 DEF at, Sound
  <2>2. \A j \in 1 .. n - 1 : t[j].id \in v.loaded \cup {Gone, y}
    BY <1>1, <1>7 DEF Sound
  <2>3. \A j \in 1 .. n - 1 : t[j].id = Gone => j < at
    <3> SUFFICES ASSUME NEW j \in 1 .. n - 1, t[j].id = Gone PROVE j < at
      OBVIOUS
    <3>1. PICK i \in 1 .. n : i # k /\ t[j] = s[i] /\ i = IF j < k THEN j ELSE j + 1
      BY <1>7
    <3>2. i < v.at
      BY <1>1, <3>1 DEF Sound
    <3> QED  BY <1>1, <3>1, <3>2 DEF at
  <2>4. ASSUME NEW j \in 1 .. n - 1, NEW l \in 1 .. n - 1, t[j].id = t[l].id, t[j].id # Gone
        PROVE  j = l
    <3>1. PICK i \in 1 .. n : i # k /\ t[j] = s[i] /\ i = IF j < k THEN j ELSE j + 1
      BY <1>7
    <3>2. PICK m \in 1 .. n : m # k /\ t[l] = s[m] /\ m = IF l < k THEN l ELSE l + 1
      BY <1>7
    <3>3. i = m
      BY <1>1, <2>4, <3>1, <3>2 DEF Sound
    <3> QED  BY <1>1, <3>1, <3>2, <3>3
  <2>5. ASSUME y # Gone PROVE at \in 1 .. n - 1 /\ t[at].id = y
    <3>1. v.at \in 1 .. n /\ s[v.at].id = y /\ k # v.at
      BY <1>1, <2>5 DEF Sound
    <3>2. at \in 1 .. n - 1 /\ v.at = IF at < k THEN at ELSE at + 1
      BY <1>1, <3>1 DEF at
    <3> HIDE DEF s
    <3>3. t[at] = s[v.at]
      BY <1>2, <3>2
    <3> QED  BY <3>1, <3>2, <3>3
  <2> QED  BY <1>2, <1>6, <2>1, <2>2, <2>3, <2>4, <2>5 DEF Sound, SameBooks
<1>11. w.at = 0 <=> v.at = 0
  <2>1. v.at = 0 => at = 0
    BY <1>1 DEF at
  <2>2. v.at # 0 => at # 0
    BY <1>1 DEF at, Sound
  <2> QED  BY <1>6, <2>1, <2>2
<1>12. ASSUME Behind(v) PROVE Behind(w)
  <2> SUFFICES ASSUME NEW j \in 1 .. n - 1, j < at PROVE t[j].id = Gone
    BY <1>2, <1>6 DEF Behind
  <2>1. PICK i \in 1 .. n : i # k /\ t[j] = s[i] /\ i = IF j < k THEN j ELSE j + 1
    BY <1>7
  <2>2. i < v.at
    BY <1>1, <2>1 DEF at
  <2> QED  BY <1>1, <1>12, <2>1, <2>2 DEF Behind
<1> QED  BY <1>2, <1>6, <1>9, <1>10, <1>11, <1>12 DEF Restamped, w

(* vfs_rmstamp removes at most the stamp of its archive, or a NULL.        *)
LEMMA RmstampIs ==
  ASSUME NEW v \in Vfs, NEW y, Sound(v, y), NEW a \in Place, a # y
  PROVE  LET w == vfs_rmstamp(v, a) IN
         /\ Restamped(v, w, y)
         /\ Stamped(w) \subseteq Stamped(v) /\ Stamped(v) \subseteq Stamped(w) \cup {a}
         /\ v.at = 0 => a \notin Stamped(w)
<1> DEFINE k == Found(v, a)
           w == vfs_rmstamp(v, a)
<1>0. a # Gone
  BY StampFacts DEF Place
<1>1. CASE k = 0
  <2>1. w = v
    BY <1>1 DEF vfs_rmstamp, Without
  <2>2. a \notin Stamped(v)
    BY <1>0, <1>1, FoundIs, StampedIs
  <2> QED  BY <2>1, <2>2, SameIds DEF SameBooks
<1>2. CASE k # 0
  <2>1. k \in DOMAIN v.stamps /\ v.stamps[k].id \in {a, Gone}
    BY <1>2, FoundIs
  <2>2. w = Without(v, k)
    BY DEF vfs_rmstamp
  <2> HIDE DEF k
  <2>3. Restamped(v, w, y) /\ Stamped(w) = Stamped(v) \ {v.stamps[k].id}
    BY <2>1, <2>2, WithoutIs, Zenon
  <2>4. v.at = 0 => v.stamps[k].id = a
    BY <2>1 DEF Sound, Vfs
  <2>5. Gone \notin Stamped(v)
    BY DEF Stamped
  <2> QED  BY <2>1, <2>3, <2>4, <2>5
<1> QED  BY <1>1, <1>2

(* vfs_addstamp stamps an archive that is there, once.                     *)
LEMMA AddstampIs ==
  ASSUME NEW v \in Vfs, NEW y, Sound(v, y), NEW a, v.at = 0 \/ a \notin Stamped(v)
  PROVE  LET w == vfs_addstamp(v, a) IN
         /\ Restamped(v, w, y)
         /\ Stamped(w) = IF a \in v.loaded THEN Stamped(v) \cup {a} ELSE Stamped(v)
<1> DEFINE k == Found(v, a)
           n == Len(v.stamps)
           w == vfs_addstamp(v, a)
           x == [id |-> a, age |-> 0]
           t == Append(v.stamps, x)
<1>0. v.stamps \in Seq(Stamp) /\ n \in Nat /\ v.at \in Nat /\ DOMAIN v.stamps = 1 .. n
  BY DEF Vfs
<1>1. CASE a \notin v.loaded
  <2>1. w = v
    BY <1>1 DEF vfs_addstamp
  <2> QED  BY <1>1, <2>1, SameIds DEF SameBooks
<1>2. CASE a \in v.loaded /\ k # 0 /\ v.stamps[k].id = a
  <2>1. w = Refreshed(v, a, k) /\ k \in DOMAIN v.stamps
    BY <1>2, FoundIs DEF vfs_addstamp, Added
  <2>2. a \in Archive
    BY <1>2 DEF Vfs
  <2>3. a \in Stamped(v)
    BY <1>2, <2>1, <2>2, StampFacts, StampedIs
  <2> HIDE DEF k
  <2>4. Restamped(v, Refreshed(v, a, k), y) /\ Stamped(Refreshed(v, a, k)) = Stamped(v)
    BY <2>1, RefreshedIs
  <2>5. Restamped(v, w, y) /\ Stamped(w) = Stamped(v)
    BY <2>1, <2>4, Zenon
  <2> QED  BY <1>2, <2>3, <2>5
<1>3. CASE a \in v.loaded /\ (k = 0 \/ v.stamps[k].id # a)
  <2>1. a \in Archive /\ a # Gone
    BY <1>3, StampFacts DEF Vfs
  <2>2. w = [v EXCEPT !.stamps = t]
    BY <1>3 DEF vfs_addstamp, Added
  <2>3. x \in Stamp
    BY <2>1, StampFacts
  <2> HIDE DEF x
  <2>4. /\ t \in Seq(Stamp) /\ DOMAIN t = 1 .. n + 1 /\ Len(t) = n + 1
        /\ t[n + 1] = x /\ \A j \in 1 .. n : t[j] = v.stamps[j]
    BY <1>0, <2>3, AppendLemma
  <2> HIDE DEF t
  <2>5. w \in Vfs /\ SameBooks(v, w) /\ w.at = v.at /\ w.stamps = t
    BY <2>2, <2>4 DEF Vfs, SameBooks
  <2> HIDE DEF w
  <2>6. a \notin Stamped(v)
    <3>1. CASE k = 0
      BY <3>1, <2>1, FoundIs, StampedIs
    <3>2. CASE k # 0
      <4>1. k \in DOMAIN v.stamps /\ v.stamps[k].id = Gone
        BY <1>3, <3>2, FoundIs
      <4>2. v.at # 0
        BY <1>0, <4>1 DEF Sound
      <4> QED  BY <4>2
    <3> QED  BY <3>1, <3>2
  <2>7. x.id = a
    BY DEF x
  <2>8. Stamped(w) = Stamped(v) \cup {a}
    <3>1. ASSUME NEW b PROVE b \in Stamped(w) <=> b \in Stamped(v) \cup {a}
      <4>1. b \in Stamped(w) <=> b # Gone /\ \E j \in 1 .. n + 1 : t[j].id = b
        BY <2>4, <2>5, StampedIs
      <4>2. b \in Stamped(v) <=> b # Gone /\ \E j \in 1 .. n : v.stamps[j].id = b
        BY <1>0, StampedIs
      <4>3. (\E j \in 1 .. n + 1 : t[j].id = b) <=> (\E j \in 1 .. n : v.stamps[j].id = b) \/ b = a
        BY <1>0, <2>4, <2>7
      <4> QED  BY <2>1, <4>1, <4>2, <4>3
    <3> QED  BY <3>1
  <2>9. \A j \in 1 .. n : v.stamps[j].id # a
    BY <1>0, <2>1, <2>6, StampedIs
  <2>10. Sound(w, y)
    <3>1. w.at <= Len(w.stamps) + 1
      BY <1>0, <2>4, <2>5 DEF Sound
    <3>2. \A j \in 1 .. n + 1 : t[j].id \in w.loaded \cup {Gone, y}
      BY <1>0, <1>3, <2>4, <2>5, <2>7 DEF Sound, SameBooks
    <3>3. \A j \in 1 .. n + 1 : t[j].id = Gone => j < w.at
      BY <1>0, <2>1, <2>4, <2>5, <2>7 DEF Sound
    <3>4. \A i, j \in 1 .. n + 1 : t[i].id = t[j].id => i = j \/ t[i].id = Gone
      <4>1. \A i, j \in 1 .. n : t[i].id = t[j].id => i = j \/ t[i].id = Gone
        BY <1>0, <2>4 DEF Sound
      <4>2. \A j \in 1 .. n : t[j].id # t[n + 1].id
        BY <2>4, <2>7, <2>9
      <4> QED  BY <1>0, <4>1, <4>2, SMTT(60)
    <3>5. ASSUME y # Gone PROVE w.at \in 1 .. n + 1 /\ t[w.at].id = y
      <4>1. v.at \in 1 .. n /\ v.stamps[v.at].id = y
        BY <1>0, <3>5 DEF Sound
      <4>2. v.at \in 1 .. n + 1 /\ t[v.at] = v.stamps[v.at]
        BY <1>0, <2>4, <4>1
      <4> QED  BY <2>5, <4>1, <4>2
    <3> QED  BY <2>4, <2>5, <3>1, <3>2, <3>3, <3>4, <3>5 DEF Sound
  <2>11. Behind(v) => Behind(w)
    BY <1>0, <2>4, <2>5 DEF Behind, Sound
  <2>12. Restamped(v, w, y)
    BY <2>5, <2>10, <2>11 DEF Restamped
  <2> QED  BY <1>3, <2>8, <2>12 DEF w
<1> QED  BY <1>1, <1>2, <1>3

(* What follows from two changes in turn.                                  *)
LEMMA RestampedTwice ==
  ASSUME NEW v, NEW u, NEW w, NEW y, Restamped(v, u, y), Restamped(u, w, y)
  PROVE  Restamped(v, w, y)
BY DEF Restamped, SameBooks

(* Asking a panel moves ages only.                                         *)
LEMMA AskPanelIs ==
  ASSUME NEW v \in Vfs, NEW y, Sound(v, y), NEW a, NEW env, NEW p
  PROVE  Restamped(v, AskPanel(v, a, env, p), y) /\ Stamped(AskPanel(v, a, env, p)) = Stamped(v)
<1>1. Restamped(v, v, y)
  BY SameIds DEF SameBooks
<1> QED  BY <1>1, StampIs DEF AskPanel, Asked

(* Asking both panels moves ages only.                                     *)
LEMMA AskPanelsIs ==
  ASSUME NEW v \in Vfs, NEW y, Sound(v, y), NEW a, NEW env
  PROVE  Restamped(v, AskPanels(v, a, env), y) /\ Stamped(AskPanels(v, a, env)) = Stamped(v)
<1> DEFINE u == AskPanel(v, a, env, env.current)
           w == AskOther(u, a, env)
<1>1. Restamped(v, u, y) /\ Stamped(u) = Stamped(v)
  BY AskPanelIs
<1>2. u \in Vfs /\ Sound(u, y)
  BY <1>1 DEF Restamped
<1> HIDE DEF u
<1>3. Restamped(u, w, y) /\ Stamped(w) = Stamped(u)
  <2>1. Restamped(u, u, y)
    BY <1>2, SameIds DEF SameBooks
  <2> QED  BY <1>2, <2>1, AskPanelIs DEF AskOther
<1> HIDE DEF w
<1>4. Restamped(v, w, y) /\ Stamped(w) = Stamped(v)
  BY <1>1, <1>3, RestampedTwice, Zenon
<1> QED  BY <1>4 DEF w, u, AskPanels

(* vfs_stamp_create stamps an archive nobody uses.                         *)
Listing(env) == \A p \in Panels : env.view[p] = "view_listing"
Stampable(v, a, env) ==
  /\ env.present /\ Listing(env) /\ a # env.cwd /\ a \in v.loaded
  /\ a \in Extfs => v.fd_usage[a] = 0
  /\ \A p \in Panels : env.dir[p] # a

(* An archive is of extfs or of sfs.                                       *)
LEMMA ArchiveKinds == Archive = Extfs \cup Sfs
  BY DEF Archive

(* After the panels are asked only an unused archive is stamped.           *)
LEMMA StampUnusedIs ==
  ASSUME NEW v \in Vfs, NEW y, Sound(v, y), NEW a, NEW env,
         v.at = 0 \/ a \notin Stamped(v) \/ ~Listing(env)
  PROVE  LET w == StampUnused(v, a, env) IN
         /\ Restamped(v, w, y)
         /\ \/ Stamped(w) = Stamped(v)
            \/ /\ Stamped(w) = Stamped(v) \cup {a} /\ Listing(env) /\ a \in v.loaded
               /\ a \in Extfs => v.fd_usage[a] = 0
               /\ \A p \in Panels : env.dir[p] # a
         /\ Stampable(v, a, env) => a \in Stamped(w)
<1> DEFINE c == (\A p \in Panels : ~UsedBy(v, a, env, p)) /\ nothingisopen(v, a)
<1>1. CASE ~c
  <2>1. StampUnused(v, a, env) = v
    BY <1>1, Zenon DEF StampUnused
  <2>2. ~Stampable(v, a, env)
    <3> SUFFICES ASSUME Stampable(v, a, env) PROVE c
      BY <1>1
    <3>1. \A p \in Panels : ~UsedBy(v, a, env, p)
      BY DEF Stampable, Listing, UsedBy
    <3>2. nothingisopen(v, a)
      BY ArchiveKinds DEF Stampable, nothingisopen, Vfs
    <3> QED  BY <3>1, <3>2
  <2> QED  BY <2>1, <2>2, SameIds DEF SameBooks
<1>2. CASE c
  <2>1. StampUnused(v, a, env) = vfs_addstamp(v, a)
    BY <1>2, Zenon DEF StampUnused
  <2>2. Listing(env) /\ \A p \in Panels : env.dir[p] # a
    BY <1>2 DEF UsedBy, Listing
  <2>3. a \in Extfs => v.fd_usage[a] = 0
    <3>1. a \in Extfs => a \notin Sfs /\ v.fd_usage[a] \in Nat
      BY KindAssumption, StampFacts DEF Vfs
    <3> QED  BY <1>2, <3>1 DEF nothingisopen
  <2>4. LET w == vfs_addstamp(v, a) IN
         /\ Restamped(v, w, y)
         /\ Stamped(w) = IF a \in v.loaded THEN Stamped(v) \cup {a} ELSE Stamped(v)
    BY <2>2, AddstampIs, Zenon
  <2> QED  BY <2>1, <2>2, <2>3, <2>4 DEF Stampable
<1> QED  BY <1>1, <1>2

(* vfs_stamp_create takes the stamp of the current directory and adds one. *)
LEMMA CreateIs ==
  ASSUME NEW v \in Vfs, NEW y, Sound(v, y), y \notin v.loaded, y # Local,
         NEW a \in Place, NEW env \in Envs,
         v.at = 0 \/ ~env.present \/ a \notin Stamped(v) \/ ~Listing(env)
  PROVE  LET w == vfs_stamp_create(v, a, env) IN
         /\ Restamped(v, w, y)
         /\ Stamped(v) \subseteq Stamped(w) \cup {env.cwd}
         /\ \A b \in Stamped(w) : b \in Stamped(v) \/ (b = a /\ Stampable(v, a, env))
         /\ env.present /\ v.at = 0 /\ y = Gone => env.cwd \notin Stamped(w)
         /\ Stampable(v, a, env) => a \in Stamped(w)
<1> DEFINE w == vfs_stamp_create(v, a, env)
           i == Id(v, env.cwd)
           u == vfs_rmstamp(v, i)
<1>1. CASE ~env.present
  <2>1. w = v
    BY <1>1 DEF vfs_stamp_create
  <2> QED  BY <1>1, <2>1, SameIds DEF SameBooks, Stampable
<1>2. CASE env.present
  <2>1. i \in Place /\ i # y /\ i \in {env.cwd, Local} /\ (i = Local => env.cwd \notin v.loaded)
    BY StampFacts DEF Id, Vfs, Place, Envs
  <2>2. w = StampUnlessCurrent(u, a, env)
    BY <1>2 DEF vfs_stamp_create
  <2> HIDE DEF i
  <2>3. /\ Restamped(v, u, y)
        /\ Stamped(u) \subseteq Stamped(v) /\ Stamped(v) \subseteq Stamped(u) \cup {i}
        /\ v.at = 0 => i \notin Stamped(u)
    BY <2>1, RmstampIs, Zenon
  <2>4. Local \notin Stamped(v)
    BY SoundStamped, StampFacts
  <2>5. u \in Vfs /\ Sound(u, y) /\ SameBooks(v, u) /\ (u.at = 0 <=> v.at = 0)
    BY <2>3 DEF Restamped
  <2>6. v.at = 0 /\ y = Gone => env.cwd \notin Stamped(u)
    <3>1. Stamped(v) \subseteq v.loaded \cup {y} /\ Gone \notin Stamped(v)
      BY SoundStamped DEF Stamped
    <3> QED  BY <2>1, <2>3, <3>1
  <2> HIDE DEF u
  <2>7. CASE a \in {Local, env.cwd}
    <3>1. w = u
      BY <2>2, <2>7 DEF StampUnlessCurrent
    <3>2. ~Stampable(v, a, env)
      BY <2>7, StampFacts DEF Stampable, Vfs
    <3> QED  BY <2>1, <2>3, <2>4, <2>6, <3>1, <3>2
  <2>8. CASE a \notin {Local, env.cwd}
    <3> DEFINE q == AskPanels(u, a, env)
    <3>1. Restamped(u, q, y) /\ Stamped(q) = Stamped(u)
      BY <2>5, AskPanelsIs
    <3>2. w = StampUnused(q, a, env)
      BY <2>2, <2>8 DEF StampUnlessCurrent
    <3> HIDE DEF q
    <3>3. q \in Vfs /\ Sound(q, y) /\ SameBooks(v, q) /\ (q.at = 0 <=> v.at = 0)
      BY <2>5, <3>1 DEF Restamped, SameBooks
    <3>4. q.at = 0 \/ a \notin Stamped(q) \/ ~Listing(env)
      BY <1>2, <2>3, <3>1, <3>3
    <3>5. /\ Restamped(q, w, y)
          /\ \/ Stamped(w) = Stamped(q)
             \/ /\ Stamped(w) = Stamped(q) \cup {a} /\ Listing(env) /\ a \in q.loaded
                /\ a \in Extfs => q.fd_usage[a] = 0
                /\ \A p \in Panels : env.dir[p] # a
          /\ Stampable(q, a, env) => a \in Stamped(w)
      BY <3>2, <3>3, <3>4, StampUnusedIs
    <3>6. Restamped(v, w, y)
      BY <2>3, <3>1, <3>5, RestampedTwice, Zenon
    <3>7. Stamped(w) = Stamped(u) \/ (Stamped(w) = Stamped(u) \cup {a} /\ Stampable(v, a, env))
      BY <1>2, <2>8, <3>1, <3>3, <3>5 DEF Stampable, SameBooks
    <3>8. Stampable(v, a, env) => a \in Stamped(w)
      BY <3>3, <3>5 DEF Stampable, SameBooks
    <3> QED  BY <2>1, <2>3, <2>4, <2>6, <2>8, <3>6, <3>7, <3>8
  <2> QED  BY <2>7, <2>8
<1> QED  BY <1>1, <1>2

-----------------------------------------------------------------------------
(* Use counts and local copies.                                            *)

(* The copies taken out of a.                                              *)
Loans(S, a) == {n \in S : Parent[n] = a}

(* x is Gone, or an archive whose copy is out although it is not read.     *)
Books(v, open, x) ==
  /\ v.copied \subseteq v.loaded \cup {x}
  /\ \A n \in v.copied : Parent[n] \in Extfs
  /\ \A a \in Extfs :
       /\ v.fd_usage[a] =
            Cardinality(open \cap {a}) + v.kept[a] + Cardinality(Loans(v.copied, a))
       /\ a \notin v.loaded => v.fd_usage[a] = 0

(* An archive read from another holds its copy.                            *)
Held(v) == \A n \in v.loaded : Parent[n] \in Extfs => n \in v.copied
(* A panel without a listing has a; nobody asked before a was stamped.     *)
Spared(a, env) == \E p \in Panels : env.view[p] # "view_listing" /\ env.dir[p] = a
(* A stamped archive is not in use.                                        *)
Idle(v, env) == \A a \in Stamped(v) \cap Extfs : v.fd_usage[a] = 0 \/ Spared(a, env)
Outer(v) == {Parent[n] : n \in v.loaded}

(* C is what is read, with every archive it lies in, read or not.          *)
Closure(v, C) ==
  v.loaded \subseteq C /\ C \subseteq Archive /\ \A n \in C : Parent[n] \in C \cup {Local}
Roots(v, C) == \A n \in C : Parent[n] \in Extfs => n \in v.copied \/ v.kept[Parent[n]] > 0

(* Facts about nesting.                                                    *)
LEMMA ArchiveFacts ==
  /\ \A a \in Archive : Parent[a] \in Place /\ Depth[Parent[a]] < Depth[a] /\ Parent[a] # a
  /\ \A b \in Place : Depth[b] \in Nat
  /\ Extfs \cap Sfs = {} /\ Archive = Extfs \cup Sfs
<1>1. Cardinality(Archive) \in Nat
  BY FS_CardinalityType, KindAssumption
<1>2. \A b \in Place : Depth[b] \in Nat
  BY <1>1, DepthRanks DEF Ranks
<1>3. \A a \in Archive : Parent[a] \in Place /\ Depth[Parent[a]] < Depth[a]
  BY ParentAssumption, DepthRanks DEF Ranks
<1>4. ASSUME NEW a \in Archive PROVE Parent[a] # a
  BY <1>2, <1>3, StampFacts
<1> QED  BY <1>2, <1>3, <1>4, KindAssumption DEF Archive

(* How the number of copies out of an archive moves with one copy.         *)
LEMMA LoansCount ==
  ASSUME NEW S \in SUBSET Archive, NEW a
  PROVE  /\ Cardinality(Loans(S, a)) \in Nat
         /\ \A n \in Archive \ S : Cardinality(Loans(S \cup {n}, a)) =
              IF Parent[n] = a THEN Cardinality(Loans(S, a)) + 1 ELSE Cardinality(Loans(S, a))
         /\ \A n \in S : Cardinality(Loans(S \ {n}, a)) =
              IF Parent[n] = a THEN Cardinality(Loans(S, a)) - 1 ELSE Cardinality(Loans(S, a))
         /\ Cardinality(Loans(S, a)) = 0 <=> Loans(S, a) = {}
<1>1. IsFiniteSet(Loans(S, a))
  BY FS_Subset, KindAssumption DEF Loans
<1>2. ASSUME NEW n \in Archive \ S
      PROVE  Cardinality(Loans(S \cup {n}, a)) =
               IF Parent[n] = a THEN Cardinality(Loans(S, a)) + 1 ELSE Cardinality(Loans(S, a))
  <2>1. Loans(S \cup {n}, a) = IF Parent[n] = a THEN Loans(S, a) \cup {n} ELSE Loans(S, a)
    BY DEF Loans
  <2>2. n \notin Loans(S, a)
    BY DEF Loans
  <2> QED  BY <1>1, <2>1, <2>2, FS_AddElement
<1>3. ASSUME NEW n \in S
      PROVE  Cardinality(Loans(S \ {n}, a)) =
               IF Parent[n] = a THEN Cardinality(Loans(S, a)) - 1 ELSE Cardinality(Loans(S, a))
  <2>1. Loans(S \ {n}, a) = IF Parent[n] = a THEN Loans(S, a) \ {n} ELSE Loans(S, a)
    BY DEF Loans
  <2>2. Parent[n] = a => n \in Loans(S, a)
    BY DEF Loans
  <2> QED  BY <1>1, <2>1, <2>2, FS_RemoveElement
<1> QED  BY <1>1, <1>2, <1>3, FS_CardinalityType, FS_EmptySet

(* What is zero when a use count is.                                       *)
LEMMA Unused ==
  ASSUME NEW v \in Vfs, NEW open, NEW x, Books(v, open, x), NEW a \in Extfs, v.fd_usage[a] = 0
  PROVE  a \notin open /\ v.kept[a] = 0 /\ Loans(v.copied, a) = {}
<1>1. v.kept[a] \in Nat /\ v.copied \in SUBSET Archive
  BY StampFacts DEF Vfs
<1>2. Cardinality(Loans(v.copied, a)) \in Nat
  BY <1>1, LoansCount
<1>3. IsFiniteSet(open \cap {a})
  <2>1. IsFiniteSet({a})
    BY FS_Singleton
  <2>2. open \cap {a} \in SUBSET {a}
    OBVIOUS
  <2> QED  BY <2>1, <2>2, FS_Subset
<1>4. Cardinality(open \cap {a}) \in Nat
  BY <1>3, FS_CardinalityType
<1>5. v.kept[a] = 0 /\ Cardinality(Loans(v.copied, a)) = 0 /\ Cardinality(open \cap {a}) = 0
  BY <1>1, <1>2, <1>4 DEF Books
<1>6. Loans(v.copied, a) = {} /\ open \cap {a} = {}
  BY <1>1, <1>3, <1>5, LoansCount, FS_EmptySet
<1> QED  BY <1>5, <1>6

(* What depends on the books only.                                         *)
LEMMA SameBooksFacts ==
  ASSUME NEW v, NEW w, SameBooks(v, w)
  PROVE  /\ \A open, x : Books(v, open, x) <=> Books(w, open, x)
         /\ Held(v) <=> Held(w)
         /\ \A C : Closure(v, C) <=> Closure(w, C)
         /\ \A C : Roots(v, C) <=> Roots(w, C)
         /\ Outer(v) = Outer(w)
BY DEF SameBooks, Books, Held, Closure, Roots, Outer

(* Reading an archive leaves the list of stamps sound.                     *)
LEMMA SameStamps ==
  ASSUME NEW v \in Vfs, NEW w \in Vfs, NEW y, Sound(v, y),
         w.stamps = v.stamps, w.at = v.at, v.loaded \subseteq w.loaded
  PROVE  Sound(w, y) /\ Stamped(w) = Stamped(v) /\ (Behind(v) => Behind(w))
<1>1. Stamped(w) = Stamped(v)
  BY DEF Stamped, Ids
<1>2. Sound(w, y)
  BY DEF Sound
<1> QED  BY <1>1, <1>2 DEF Behind

(* A use count moves.                                                      *)
LEMMA CountMoves ==
  ASSUME NEW v \in Vfs, NEW p \in Archive, NEW d \in Int, v.fd_usage[p] + d \in Nat
  PROVE  LET w == [v EXCEPT !.fd_usage[p] = @ + d] IN
         /\ w \in Vfs /\ w.loaded = v.loaded /\ w.copied = v.copied /\ w.kept = v.kept
         /\ w.stamps = v.stamps /\ w.at = v.at
         /\ w.fd_usage = [v.fd_usage EXCEPT ![p] = @ + d]
         /\ w.fd_usage[p] = v.fd_usage[p] + d
<1> DEFINE f == [v.fd_usage EXCEPT ![p] = @ + d]
<1>1. f \in [Archive -> Nat] /\ f[p] = v.fd_usage[p] + d
  BY DEF Vfs
<1>2. [v EXCEPT !.fd_usage[p] = @ + d] = [v EXCEPT !.fd_usage = f]
  BY DEF Vfs
<1> HIDE DEF f
<1>3. LET w == [v EXCEPT !.fd_usage = f] IN
         /\ w \in Vfs /\ w.loaded = v.loaded /\ w.copied = v.copied /\ w.kept = v.kept
         /\ w.stamps = v.stamps /\ w.at = v.at /\ w.fd_usage = f
  BY <1>1 DEF Vfs
<1> QED  BY <1>1, <1>2, <1>3 DEF f

(* A use count goes up.                                                    *)
LEMMA CountUp ==
  ASSUME NEW v \in Vfs, NEW p \in Archive
  PROVE  LET w == [v EXCEPT !.fd_usage[p] = @ + 1] IN
         /\ w \in Vfs /\ w.loaded = v.loaded /\ w.copied = v.copied /\ w.kept = v.kept
         /\ w.stamps = v.stamps /\ w.at = v.at
         /\ w.fd_usage = [v.fd_usage EXCEPT ![p] = @ + 1]
         /\ w.fd_usage[p] = v.fd_usage[p] + 1
<1> DEFINE d == 1
<1>1. d \in Int /\ v.fd_usage[p] + d \in Nat
  BY DEF Vfs
<1> HIDE DEF d
<1>2. LET w == [v EXCEPT !.fd_usage[p] = @ + d] IN
         /\ w \in Vfs /\ w.loaded = v.loaded /\ w.copied = v.copied /\ w.kept = v.kept
         /\ w.stamps = v.stamps /\ w.at = v.at
         /\ w.fd_usage = [v.fd_usage EXCEPT ![p] = @ + d]
         /\ w.fd_usage[p] = v.fd_usage[p] + d
  BY <1>1, CountMoves
<1> QED  BY <1>2 DEF d

(* getlocalcopy: a copy and a use more, and no stamp of the outer archive. *)
LEMMA CopiedIs ==
  ASSUME NEW v \in Vfs, NEW y, Sound(v, y), NEW n \in Archive, Parent[n] \in Extfs,
         Parent[n] # y, NEW env
  PROVE  LET w == Copied(v, n, env)
             p == Parent[n] IN
         /\ w \in Vfs /\ w.loaded = v.loaded /\ w.kept = v.kept /\ w.copied = v.copied \cup {n}
         /\ w.fd_usage = [v.fd_usage EXCEPT ![p] = @ + 1]
         /\ Sound(w, y) /\ (w.at = 0 <=> v.at = 0) /\ (Behind(v) => Behind(w))
         /\ Stamped(w) \subseteq Stamped(v) /\ Stamped(v) \subseteq Stamped(w) \cup {p}
         /\ v.at = 0 => p \notin Stamped(w)
<1> DEFINE p == Parent[n]
           r == vfs_rmstamp(v, p)
           o == Opened(v, p)
           o2 == [o EXCEPT !.fd_usage[p] = @ + 1]
           c == [o EXCEPT !.fd_usage[p] = @ + 1, !.copied = @ \cup {n}]
           l == [c EXCEPT !.fd_usage[p] = @ - 1]
           w == Copied(v, n, env)
<1>1. p \in Place /\ p \in Archive
  BY StampFacts
<1>2. /\ Restamped(v, r, y)
      /\ Stamped(r) \subseteq Stamped(v) /\ Stamped(v) \subseteq Stamped(r) \cup {p}
      /\ v.at = 0 => p \notin Stamped(r)
  BY <1>1, RmstampIs
<1>3. r \in Vfs /\ SameBooks(v, r) /\ Sound(r, y)
  BY <1>2 DEF Restamped
<1>4. r.fd_usage[p] \in Nat /\ r.fd_usage \in [Archive -> Nat]
  BY <1>1, <1>3 DEF Vfs
<1>5. o = [r EXCEPT !.fd_usage[p] = @ + 1]
  BY DEF Opened
<1>6. w = Closed(c, p, env)
  BY DEF Copied
<1> HIDE DEF r, o, w
<1>7. /\ o \in Vfs /\ o.loaded = r.loaded /\ o.copied = r.copied /\ o.kept = r.kept
      /\ o.stamps = r.stamps /\ o.at = r.at
      /\ o.fd_usage = [r.fd_usage EXCEPT ![p] = @ + 1]
      /\ o.fd_usage[p] = r.fd_usage[p] + 1
  BY <1>1, <1>3, <1>5, CountUp
<1>8. /\ o2 \in Vfs /\ o2.loaded = r.loaded /\ o2.copied = r.copied /\ o2.kept = r.kept
      /\ o2.stamps = r.stamps /\ o2.at = r.at
      /\ o2.fd_usage = [o.fd_usage EXCEPT ![p] = @ + 1]
      /\ o2.fd_usage[p] = r.fd_usage[p] + 2
  <2>1. /\ o2 \in Vfs /\ o2.loaded = o.loaded /\ o2.copied = o.copied /\ o2.kept = o.kept
        /\ o2.stamps = o.stamps /\ o2.at = o.at
        /\ o2.fd_usage = [o.fd_usage EXCEPT ![p] = @ + 1]
        /\ o2.fd_usage[p] = o.fd_usage[p] + 1
    BY <1>1, <1>7, CountUp
  <2> QED  BY <1>4, <1>7, <2>1
<1>9. c = [o2 EXCEPT !.copied = @ \cup {n}]
  BY <1>7 DEF Vfs
<1> HIDE DEF o2, c
<1>10. /\ c \in Vfs /\ c.loaded = r.loaded /\ c.copied = r.copied \cup {n} /\ c.kept = r.kept
       /\ c.stamps = r.stamps /\ c.at = r.at
       /\ c.fd_usage = o2.fd_usage
  BY <1>8, <1>9 DEF Vfs
<1>11. l = [c EXCEPT !.fd_usage[p] = @ + (-1)]
  <2>1. c.fd_usage[p] - 1 = c.fd_usage[p] + (-1)
    BY <1>4, <1>8, <1>10
  <2> QED  BY <2>1
<1>12. /\ l \in Vfs /\ l.loaded = c.loaded /\ l.copied = c.copied /\ l.kept = c.kept
       /\ l.stamps = c.stamps /\ l.at = c.at
       /\ l.fd_usage = [c.fd_usage EXCEPT ![p] = @ + (-1)]
       /\ l.fd_usage[p] = r.fd_usage[p] + 1
  <2>1. c.fd_usage[p] = r.fd_usage[p] + 2 /\ c.fd_usage[p] + (-1) \in Nat /\ -1 \in Int
    BY <1>4, <1>8, <1>10
  <2> DEFINE d == -1
  <2>2. d \in Int /\ c.fd_usage[p] + d \in Nat
    BY <2>1
  <2>3. l = [c EXCEPT !.fd_usage[p] = @ + d]
    BY <1>11
  <2> DEFINE m == [c EXCEPT !.fd_usage[p] = @ + d]
  <2> HIDE DEF l, d
  <2>4. /\ m \in Vfs /\ m.loaded = c.loaded /\ m.copied = c.copied /\ m.kept = c.kept
        /\ m.stamps = c.stamps /\ m.at = c.at
        /\ m.fd_usage = [c.fd_usage EXCEPT ![p] = @ + d]
        /\ m.fd_usage[p] = c.fd_usage[p] + d
    BY <1>1, <1>10, <2>2, CountMoves
  <2> HIDE DEF m
  <2>5. l = m
    BY <2>3 DEF m
  <2>6. /\ l \in Vfs /\ l.loaded = c.loaded /\ l.copied = c.copied /\ l.kept = c.kept
        /\ l.stamps = c.stamps /\ l.at = c.at
        /\ l.fd_usage = [c.fd_usage EXCEPT ![p] = @ + d]
        /\ l.fd_usage[p] = c.fd_usage[p] + d
    BY <2>4, <2>5
  <2> QED  BY <1>4, <2>1, <2>6 DEF d
<1>13. w = l
  <2>1. l.fd_usage[p] # 0
    BY <1>4, <1>12
  <2> QED  BY <1>6, <2>1 DEF Closed
<1>14. l.fd_usage = [r.fd_usage EXCEPT ![p] = @ + 1]
  <2> HIDE DEF l
  <2>1. l.fd_usage \in [Archive -> Nat]
    BY <1>12 DEF Vfs
  <2>2. \A a \in Archive : l.fd_usage[a] = [r.fd_usage EXCEPT ![p] = @ + 1][a]
    BY <1>1, <1>4, <1>7, <1>8, <1>10, <1>12
  <2> QED  BY <1>4, <2>1, <2>2
<1> HIDE DEF l
<1>15. Sound(l, y) /\ Stamped(l) = Stamped(r) /\ (Behind(r) => Behind(l))
  BY <1>3, <1>10, <1>12, SameStamps
<1>16. (r.at = 0 <=> v.at = 0) /\ (Behind(v) => Behind(r))
  BY <1>2 DEF Restamped
<1> QED  BY <1>2, <1>3, <1>10, <1>12, <1>13, <1>14, <1>15, <1>16 DEF SameBooks, w

(* An archive a is read: the books of u become those of r.                 *)
LEMMA ReadBooks ==
  ASSUME NEW u \in Vfs, NEW r \in Vfs, NEW open, NEW x, NEW a \in Archive,
         Books(u, open, x), a \notin u.loaded, a # x, Parent[a] \in u.loaded \cup {Local},
         r.loaded = u.loaded \cup {a}, r.kept = u.kept,
         r.copied = IF Parent[a] \in Extfs THEN u.copied \cup {a} ELSE u.copied,
         \A e \in Extfs : r.fd_usage[e] =
           IF e = Parent[a] THEN u.fd_usage[e] + 1 ELSE u.fd_usage[e]
  PROVE  /\ Books(r, open, x)
         /\ Held(u) => Held(r)
         /\ \A C : Closure(u, C) /\ Roots(u, C) /\ Parent[a] \in C \cup {Local}
                     => Closure(r, C \cup {a}) /\ Roots(r, C \cup {a})
         /\ \A C : Closure(u, C) /\ a \in C => Closure(r, C)
<1>1. a \notin u.copied
  BY DEF Books
<1>2. u.copied \in SUBSET Archive /\ r.copied \in SUBSET Archive /\ Parent[a] # a
  BY ArchiveFacts DEF Vfs
<1>3. Books(r, open, x)
  <2>1. r.copied \subseteq r.loaded \cup {x}
    BY DEF Books
  <2>2. \A n \in r.copied : Parent[n] \in Extfs
    BY DEF Books
  <2>3. ASSUME NEW e \in Extfs
        PROVE  Cardinality(Loans(r.copied, e)) =
                 IF e = Parent[a] THEN Cardinality(Loans(u.copied, e)) + 1
                 ELSE Cardinality(Loans(u.copied, e))
    BY <1>1, <1>2, LoansCount
  <2>4. ASSUME NEW e \in Extfs
        PROVE  r.fd_usage[e] = Cardinality(open \cap {e}) + r.kept[e]
                               + Cardinality(Loans(r.copied, e))
    <3>1. u.fd_usage[e] = Cardinality(open \cap {e}) + u.kept[e] + Cardinality(Loans(u.copied, e))
      BY DEF Books
    <3>2. Cardinality(Loans(u.copied, e)) \in Nat /\ u.kept[e] \in Nat /\ u.fd_usage[e] \in Nat
      BY <1>2, LoansCount, StampFacts DEF Vfs
    <3>3. IsFiniteSet(open \cap {e})
      <4>1. IsFiniteSet({e}) /\ open \cap {e} \in SUBSET {e}
        BY FS_Singleton
      <4> QED  BY <4>1, FS_Subset
    <3>4. Cardinality(open \cap {e}) \in Nat
      BY <3>3, FS_CardinalityType
    <3>5. r.kept[e] = u.kept[e]
      OBVIOUS
    <3>6. CASE e = Parent[a]
      <4> DEFINE i == Cardinality(open \cap {e})
                 j == Cardinality(Loans(u.copied, e))
      <4>1. r.fd_usage[e] = u.fd_usage[e] + 1
        BY <3>6
      <4>2. Cardinality(Loans(r.copied, e)) = j + 1
        BY <2>3, <3>6
      <4>3. u.fd_usage[e] = (i + u.kept[e]) + j /\ i \in Nat /\ j \in Nat
        BY <3>1, <3>2, <3>4
      <4> DEFINE k == u.kept[e]
      <4>4. k \in Nat
        BY <3>2
      <4> HIDE DEF i, j, k
      <4>5. (i + k + j) + 1 = i + k + (j + 1)
        BY <4>3, <4>4
      <4> QED  BY <3>5, <4>1, <4>2, <4>3, <4>5 DEF i, k
    <3>7. CASE e # Parent[a]
      BY <2>3, <3>1, <3>2, <3>4, <3>5, <3>7
    <3> QED  BY <3>6, <3>7
  <2>5. ASSUME NEW e \in Extfs, e \notin r.loaded PROVE r.fd_usage[e] = 0
    <3>1. e \notin u.loaded /\ e # Parent[a]
      BY <2>5, StampFacts
    <3> QED  BY <3>1 DEF Books
  <2> QED  BY <2>1, <2>2, <2>4, <2>5 DEF Books
<1>4. Held(u) => Held(r)
  BY DEF Held
<1>5. ASSUME NEW C, Closure(u, C), Roots(u, C), Parent[a] \in C \cup {Local}
      PROVE  Closure(r, C \cup {a}) /\ Roots(r, C \cup {a})
  <2>1. Closure(r, C \cup {a})
    BY <1>5 DEF Closure
  <2>2. Roots(r, C \cup {a})
    BY <1>5 DEF Roots
  <2> QED  BY <2>1, <2>2
<1>6. ASSUME NEW C, Closure(u, C), a \in C PROVE Closure(r, C)
  BY <1>6 DEF Closure
<1> QED  BY <1>3, <1>4, <1>5, <1>6

(* What reading the archives of a path leads to.                           *)
LoadPost(v, w, a, x, y, open, env) ==
  /\ w \in Vfs /\ Books(w, open, x) /\ Sound(w, y)
  /\ (w.at = 0 <=> v.at = 0) /\ (Behind(v) => Behind(w))
  /\ v.loaded \subseteq w.loaded /\ a \in w.loaded \cup {Local}
  /\ \A b \in w.loaded : b \in v.loaded \/ Depth[b] <= Depth[a]
  /\ Held(v) => Held(w)
  /\ v.at = 0 /\ Idle(v, env) => Idle(w, env)
  /\ \A b \in Stamped(v) : b \in Stamped(w) \/ b = env.cwd \/ b \in Outer(w)
  /\ \A b \in Stamped(w) : b \in Stamped(v) \/ (env.present /\ Listing(env) /\ b # env.cwd)
  /\ \A C : Closure(v, C) /\ Roots(v, C)
              => \E D : Closure(w, D) /\ Roots(w, D) /\ a \in D \cup {Local}
  /\ \A C : Closure(v, C) /\ a \in C \cup {Local} => Closure(w, C)

(* A path whose archive is there already.                                  *)
LEMMA LoadSame ==
  ASSUME NEW v \in Vfs, NEW w, NEW a \in v.loaded \cup {Local}, NEW x, NEW y, NEW open, NEW env,
         Books(v, open, x), Restamped(v, w, y), Stamped(w) = Stamped(v)
  PROVE  LoadPost(v, w, a, x, y, open, env)
<1>1. w \in Vfs /\ SameBooks(v, w) /\ Sound(w, y) /\ (w.at = 0 <=> v.at = 0)
      /\ (Behind(v) => Behind(w))
  BY DEF Restamped
<1>2. Books(w, open, x) /\ (Held(v) => Held(w))
  BY <1>1, SameBooksFacts
<1>3. Idle(v, env) => Idle(w, env)
  BY <1>1 DEF Idle, SameBooks
<1>4. \A C : Closure(v, C) /\ Roots(v, C)
              => \E D : Closure(w, D) /\ Roots(w, D) /\ a \in D \cup {Local}
  <2>1. ASSUME NEW C, Closure(v, C), Roots(v, C)
        PROVE  Closure(w, C) /\ Roots(w, C) /\ a \in C \cup {Local}
    BY <1>1, <2>1, SameBooksFacts DEF Closure
  <2> QED  BY <2>1
<1>5. \A C : Closure(v, C) => Closure(w, C)
  BY <1>1, SameBooksFacts
<1>6. v.loaded \subseteq w.loaded /\ a \in w.loaded \cup {Local} /\ w.loaded \subseteq v.loaded
  BY <1>1 DEF SameBooks
<1> QED  BY <1>1, <1>2, <1>3, <1>4, <1>5, <1>6 DEF LoadPost

(* One archive of a path is read, the outer ones being there.              *)
LEMMA LoadStep ==
  ASSUME NEW v \in Vfs, NEW u, NEW a \in Archive, NEW x, NEW y, NEW open, NEW env \in Envs,
         a \notin v.loaded, LoadPost(v, u, Parent[a], x, y, open, env),
         y \notin v.loaded, y # Local,
         x \in Archive => Depth[a] < Depth[x], y \in Archive => Depth[a] < Depth[y],
         v.at = 0 \/ ~env.present
  PROVE  LoadPost(v, ReadArchive(Copied(u, a, env), a, env), a, x, y, open, env)
<1> DEFINE p == Parent[a]
           c == Copied(u, a, env)
           r == [c EXCEPT !.loaded = @ \cup {a}, !.fd_usage[a] = 0]
           w == ReadArchive(c, a, env)
<1>1. /\ p \in Place /\ Depth[p] \in Nat /\ Depth[a] \in Nat /\ Depth[p] < Depth[a] /\ p # a
      /\ a \in Place /\ a # Local
  BY ArchiveFacts, StampFacts
<1>2. a # x /\ a # y /\ p # y
  <2>1. a # x /\ a # y
    BY <1>1
  <2>2. ASSUME y = p PROVE FALSE
    <3>1. y \in Archive
      BY <1>1, <2>2 DEF Place
    <3> QED  BY <1>1, <2>2, <3>1
  <2> QED  BY <2>1, <2>2
<1>3. /\ u \in Vfs /\ Books(u, open, x) /\ Sound(u, y)
      /\ (u.at = 0 <=> v.at = 0) /\ (Behind(v) => Behind(u))
      /\ v.loaded \subseteq u.loaded /\ p \in u.loaded \cup {Local}
      /\ \A b \in u.loaded : b \in v.loaded \/ Depth[b] <= Depth[p]
  BY DEF LoadPost
<1>4. a \notin u.loaded
  BY <1>1, <1>3
<1>5. /\ c \in Vfs /\ c.loaded = u.loaded /\ c.kept = u.kept
      /\ c.copied = IF p \in Extfs THEN u.copied \cup {a} ELSE u.copied
      /\ \A e \in Archive :
           c.fd_usage[e] = IF p \in Extfs /\ e = p THEN u.fd_usage[e] + 1 ELSE u.fd_usage[e]
      /\ Sound(c, y) /\ (c.at = 0 <=> u.at = 0) /\ (Behind(u) => Behind(c))
      /\ Stamped(c) \subseteq Stamped(u) /\ Stamped(u) \subseteq Stamped(c) \cup {p}
      /\ u.at = 0 /\ p \in Extfs => p \notin Stamped(c)
  <2>1. CASE p \in Extfs
    <3>1. /\ c \in Vfs /\ c.loaded = u.loaded /\ c.kept = u.kept /\ c.copied = u.copied \cup {a}
          /\ c.fd_usage = [u.fd_usage EXCEPT ![p] = @ + 1]
          /\ Sound(c, y) /\ (c.at = 0 <=> u.at = 0) /\ (Behind(u) => Behind(c))
          /\ Stamped(c) \subseteq Stamped(u) /\ Stamped(u) \subseteq Stamped(c) \cup {p}
          /\ u.at = 0 => p \notin Stamped(c)
      BY <1>2, <1>3, <2>1, CopiedIs
    <3>2. \A e \in Archive : c.fd_usage[e] = IF e = p THEN u.fd_usage[e] + 1 ELSE u.fd_usage[e]
      BY <1>3, <3>1, SMTT(60) DEF Vfs
    <3> QED  BY <2>1, <3>1, <3>2
  <2>2. CASE p \notin Extfs
    <3>1. c = u
      BY <2>2 DEF Copied
    <3> QED  BY <1>3, <2>2, <3>1
  <2> QED  BY <2>1, <2>2
<1> HIDE DEF c
<1>6. /\ r \in Vfs /\ r.loaded = u.loaded \cup {a} /\ r.kept = u.kept /\ r.copied = c.copied
      /\ \A e \in Archive : r.fd_usage[e] = IF e = a THEN 0 ELSE c.fd_usage[e]
      /\ r.stamps = c.stamps /\ r.at = c.at
  <2> DEFINE f == [c.fd_usage EXCEPT ![a] = 0]
  <2>1. f \in [Archive -> Nat] /\ \A e \in Archive : f[e] = IF e = a THEN 0 ELSE c.fd_usage[e]
    BY <1>5 DEF Vfs
  <2> DEFINE l == c.loaded \cup {a}
             c1 == [c EXCEPT !.loaded = l]
  <2>2. r = [c1 EXCEPT !.fd_usage[a] = 0]
    BY <1>5 DEF Vfs
  <2>3. /\ c1.loaded = l /\ c1.fd_usage = c.fd_usage /\ c1.copied = c.copied
        /\ c1.kept = c.kept /\ c1.stamps = c.stamps /\ c1.at = c.at
        /\ c1 \in Vfs
    BY <1>5 DEF Vfs
  <2> HIDE DEF c1
  <2>4. r = [c1 EXCEPT !.fd_usage = f]
    BY <2>2, <2>3 DEF Vfs
  <2> HIDE DEF f, r
  <2> QED  BY <1>5, <2>1, <2>3, <2>4 DEF Vfs
<1> HIDE DEF r
<1>7. a \in Extfs => u.fd_usage[a] = 0
  BY <1>3, <1>4 DEF Books
<1>8. \A e \in Extfs : r.fd_usage[e] = IF e = p THEN u.fd_usage[e] + 1 ELSE u.fd_usage[e]
  BY <1>1, <1>5, <1>6, <1>7, StampFacts
<1>9. /\ Books(r, open, x)
      /\ Held(u) => Held(r)
      /\ \A C : Closure(u, C) /\ Roots(u, C) /\ p \in C \cup {Local}
                  => Closure(r, C \cup {a}) /\ Roots(r, C \cup {a})
      /\ \A C : Closure(u, C) /\ a \in C => Closure(r, C)
  BY <1>2, <1>3, <1>4, <1>5, <1>6, <1>8, ReadBooks
<1>10. Sound(r, y) /\ Stamped(r) = Stamped(c) /\ (Behind(c) => Behind(r))
  BY <1>5, <1>6, SameStamps
<1>11. /\ Restamped(r, w, y)
       /\ Stamped(r) \subseteq Stamped(w) \cup {env.cwd}
       /\ \A b \in Stamped(w) : b \in Stamped(r) \/ (b = a /\ Stampable(r, a, env))
  <2>1. CASE a \in Extfs
    <3>1. w = r
      BY <2>1 DEF ReadArchive, r
    <3> QED  BY <1>6, <1>10, <3>1, SameIds DEF SameBooks
  <2>2. CASE a \notin Extfs
    <3>1. w = vfs_stamp_create(r, a, env)
      BY <2>2 DEF ReadArchive, r
    <3>2. y \notin r.loaded
      <4>1. y \notin u.loaded
        <5> SUFFICES ASSUME y \in u.loaded PROVE FALSE
          OBVIOUS
        <5>1. y \in Archive
          BY <1>3 DEF Vfs
        <5>2. Depth[y] \in Nat /\ Depth[y] <= Depth[p]
          BY <1>3, <5>1, ArchiveFacts, StampFacts
        <5> QED  BY <1>1, <5>1, <5>2
      <4> QED  BY <1>2, <1>6, <4>1
    <3>3. r.at = 0 \/ ~env.present \/ a \notin Stamped(r) \/ ~Listing(env)
      BY <1>3, <1>5, <1>6
    <3> QED  BY <1>1, <1>6, <1>10, <3>1, <3>2, <3>3, CreateIs
  <2> QED  BY <2>1, <2>2
<1> HIDE DEF w
<1>12. w \in Vfs /\ SameBooks(r, w) /\ Sound(w, y) /\ (w.at = 0 <=> r.at = 0)
       /\ (Behind(r) => Behind(w))
  BY <1>11 DEF Restamped
<1>13. Books(w, open, x) /\ (Held(r) => Held(w)) /\ Outer(w) = Outer(r)
  BY <1>9, <1>12, SameBooksFacts
<1>14. w.loaded = u.loaded \cup {a} /\ w.fd_usage = r.fd_usage
  BY <1>6, <1>12 DEF SameBooks
<1>15. p \in Outer(w) /\ Outer(u) \subseteq Outer(w)
  BY <1>14 DEF Outer
<1>16. v.at = 0 /\ Idle(v, env) => Idle(w, env)
  <2> SUFFICES ASSUME v.at = 0, Idle(v, env), NEW b \in Stamped(w) \cap Extfs
               PROVE  w.fd_usage[b] = 0 \/ Spared(b, env)
    BY DEF Idle
  <2>1. Idle(u, env)
    BY DEF LoadPost
  <2>2. CASE b = a /\ Stampable(r, a, env)
    BY <1>14, <2>2 DEF Stampable
  <2>3. CASE b \in Stamped(r)
    <3>1. b \in Stamped(u) /\ b # p
      BY <1>3, <1>5, <1>10, <2>3
    <3>2. w.fd_usage[b] = u.fd_usage[b]
      BY <1>8, <1>14, <3>1
    <3> QED  BY <2>1, <3>1, <3>2 DEF Idle
  <2> QED  BY <1>11, <2>2, <2>3
<1>17. \A b \in Stamped(v) : b \in Stamped(w) \/ b = env.cwd \/ b \in Outer(w)
  <2>1. \A b \in Stamped(v) : b \in Stamped(u) \/ b = env.cwd \/ b \in Outer(u)
    BY DEF LoadPost
  <2> QED  BY <1>5, <1>10, <1>11, <1>15, <2>1
<1>18. \A b \in Stamped(w) : b \in Stamped(v) \/ (env.present /\ Listing(env) /\ b # env.cwd)
  <2>1. \A b \in Stamped(u) : b \in Stamped(v) \/ (env.present /\ Listing(env) /\ b # env.cwd)
    BY DEF LoadPost
  <2> QED  BY <1>5, <1>10, <1>11, <2>1 DEF Stampable
<1>19. \A C : Closure(v, C) /\ Roots(v, C)
              => \E D : Closure(w, D) /\ Roots(w, D) /\ a \in D \cup {Local}
  <2> SUFFICES ASSUME NEW C, Closure(v, C), Roots(v, C)
               PROVE  \E D : Closure(w, D) /\ Roots(w, D) /\ a \in D \cup {Local}
    OBVIOUS
  <2>1. PICK D : Closure(u, D) /\ Roots(u, D) /\ p \in D \cup {Local}
    BY DEF LoadPost
  <2>2. Closure(r, D \cup {a}) /\ Roots(r, D \cup {a})
    BY <1>9, <2>1
  <2>3. Closure(w, D \cup {a}) /\ Roots(w, D \cup {a})
    BY <1>12, <2>2, SameBooksFacts
  <2> QED  BY <2>3
<1>20. \A C : Closure(v, C) /\ a \in C \cup {Local} => Closure(w, C)
  <2> SUFFICES ASSUME NEW C, Closure(v, C), a \in C PROVE Closure(w, C)
    BY <1>1
  <2>1. p \in C \cup {Local}
    BY DEF Closure
  <2>2. Closure(u, C)
    BY <2>1 DEF LoadPost
  <2> QED  BY <1>9, <1>12, <2>2, SameBooksFacts
<1>21. Held(v) => Held(w)
  BY <1>9, <1>13 DEF LoadPost
<1>22. \A b \in w.loaded : b \in v.loaded \/ Depth[b] <= Depth[a]
  <2>1. \A b \in u.loaded : b \in Place
    BY <1>3, StampFacts DEF Vfs
  <2> QED  BY <1>1, <1>3, <1>14, <2>1, ArchiveFacts
<1> QED
  BY <1>3, <1>5, <1>6, <1>10, <1>12, <1>13, <1>14, <1>16, <1>17, <1>18, <1>19, <1>20,
     <1>21, <1>22 DEF LoadPost, w, c

(* Loading what is there moves ages only.                                  *)
LEMMA LoadLoaded ==
  ASSUME NEW v \in Vfs, NEW y, Sound(v, y), NEW a \in v.loaded \cup {Local}, NEW env
  PROVE  Restamped(v, Load(v, a, env), y) /\ Stamped(Load(v, a, env)) = Stamped(v)
<1>1. a \in Place
  BY StampFacts DEF Vfs, Place
<1>2. PICK load : load = LoadBody(load, v, env) /\ Load(v, a, env) = load[a]
  BY LoadIs
<1>3. load[a] = IF a = Local THEN v ELSE vfs_stamp(v, a)
  <2>1. LoadBody(load, v, env)[a] = IF a = Local THEN v ELSE vfs_stamp(v, a)
    BY <1>1 DEF LoadBody
  <2> QED  BY <1>2, <2>1, Zenon
<1>4. Restamped(v, v, y)
  BY SameIds DEF SameBooks
<1> QED  BY <1>2, <1>3, <1>4, StampIs

(* Reading the archives of a path, by induction on how deep it goes.       *)
LEMMA LoadLemma ==
  ASSUME NEW v \in Vfs, NEW x, NEW y, NEW open, NEW env \in Envs, NEW a \in Place,
         Books(v, open, x), Sound(v, y), y \notin v.loaded, y # Local,
         x \in Archive => Depth[a] < Depth[x], y \in Archive => Depth[a] < Depth[y],
         v.at = 0 \/ ~env.present
  PROVE  LoadPost(v, Load(v, a, env), a, x, y, open, env)
<1>1. PICK load : load = LoadBody(load, v, env) /\ \A b : Load(v, b, env) = load[b]
  BY LoadIs
<1> DEFINE Fine(b) == (x \in Archive => Depth[b] < Depth[x])
                      /\ (y \in Archive => Depth[b] < Depth[y])
           Good(b) == LoadPost(v, load[b], b, x, y, open, env)
           Bad == {d \in Nat : \E b \in Place : Fine(b) /\ ~Good(b) /\ Depth[b] = d}
<1>2. ASSUME NEW b \in Place, Fine(b), \A c \in Place : Fine(c) /\ Depth[c] < Depth[b] => Good(c)
      PROVE  Good(b)
  <2>1. CASE b \in v.loaded \cup {Local}
    BY <1>1, <2>1, LoadLoaded, LoadSame
  <2>2. CASE b \notin v.loaded \cup {Local}
    <3>1. b \in Archive /\ Parent[b] \in Place /\ Depth[Parent[b]] < Depth[b]
      BY <2>2, ArchiveFacts DEF Place
    <3>2. Fine(Parent[b])
      <4>1. Depth[Parent[b]] \in Nat /\ Depth[b] \in Nat
        BY <3>1, ArchiveFacts
      <4>2. \A c \in Archive : Depth[c] \in Nat
        BY ArchiveFacts, StampFacts
      <4> QED  BY <1>2, <3>1, <4>1, <4>2
    <3>3. Good(Parent[b])
      BY <1>2, <3>1, <3>2
    <3>4. load[b] = ReadArchive(Copied(load[Parent[b]], b, env), b, env)
      <4>1. LoadBody(load, v, env)[b] = ReadArchive(Copied(load[Parent[b]], b, env), b, env)
        BY <2>2 DEF LoadBody
      <4> QED  BY <1>1, <4>1, Zenon
    <3>5. LoadPost(v, ReadArchive(Copied(load[Parent[b]], b, env), b, env), b, x, y, open, env)
      BY <1>2, <2>2, <3>1, <3>3, LoadStep
    <3> QED  BY <3>4, <3>5
  <2> QED  BY <2>1, <2>2
<1> HIDE DEF Good
<1>3. Bad = {}
  <2>1. SUFFICES ASSUME Bad # {} PROVE FALSE
    OBVIOUS
  <2>2. PICK d \in Bad : \A e \in Bad : d <= e
    BY <2>1, LeastNatural
  <2>3. PICK b \in Place : Fine(b) /\ ~Good(b) /\ Depth[b] = d
    BY <2>2
  <2>4. \A c \in Place : Fine(c) /\ Depth[c] < Depth[b] => Good(c)
    BY <2>2, <2>3, ArchiveFacts
  <2> QED  BY <1>2, <2>3, <2>4
<1>4. Good(a)
  BY <1>3, ArchiveFacts
<1> QED  BY <1>1, <1>4 DEF Good

(* A copy n is given back: the books of u become those of l.               *)
LEMMA GiveBackBooks ==
  ASSUME NEW u \in Vfs, NEW l \in Vfs, NEW open, NEW n \in Archive, Books(u, open, n),
         n \notin u.loaded, Parent[n] \in u.loaded \cap Extfs,
         l.loaded = u.loaded, l.kept = u.kept, l.copied = u.copied \ {n},
         \A e \in Archive : l.fd_usage[e] =
           IF e = Parent[n] /\ n \in u.copied THEN u.fd_usage[e] - 1 ELSE u.fd_usage[e]
  PROVE  Books(l, open, Gone) /\ (Held(u) => Held(l))
<1>1. u.copied \in SUBSET Archive
  BY DEF Vfs
<1>2. l.copied \subseteq l.loaded \cup {Gone}
  BY DEF Books
<1>3. \A m \in l.copied : Parent[m] \in Extfs
  BY DEF Books
<1>4. ASSUME NEW e \in Extfs
      PROVE  Cardinality(Loans(l.copied, e)) =
               IF e = Parent[n] /\ n \in u.copied THEN Cardinality(Loans(u.copied, e)) - 1
               ELSE Cardinality(Loans(u.copied, e))
  <2>1. CASE n \in u.copied
    <3>1. Cardinality(Loans(u.copied \ {n}, e)) =
            IF Parent[n] = e THEN Cardinality(Loans(u.copied, e)) - 1
            ELSE Cardinality(Loans(u.copied, e))
      BY <1>1, <2>1, LoansCount
    <3>2. Loans(l.copied, e) = Loans(u.copied \ {n}, e)
      OBVIOUS
    <3> QED  BY <2>1, <3>1, <3>2
  <2>2. CASE n \notin u.copied
    <3>1. l.copied = u.copied
      BY <2>2
    <3> QED  BY <2>2, <3>1
  <2> QED  BY <2>1, <2>2
<1>5. ASSUME NEW e \in Extfs
      PROVE  l.fd_usage[e] = Cardinality(open \cap {e}) + l.kept[e]
                             + Cardinality(Loans(l.copied, e))
  <2> DEFINE i == Cardinality(open \cap {e})
             j == Cardinality(Loans(u.copied, e))
             k == u.kept[e]
  <2>1. u.fd_usage[e] = (i + k) + j /\ l.kept[e] = k
    BY DEF Books
  <2>2. i \in Nat /\ j \in Nat /\ k \in Nat
    <3>1. IsFiniteSet({e}) /\ open \cap {e} \in SUBSET {e}
      BY FS_Singleton
    <3>2. IsFiniteSet(open \cap {e})
      BY <3>1, FS_Subset
    <3> QED  BY <1>1, <3>2, FS_CardinalityType, LoansCount, StampFacts DEF Vfs
  <2>3. CASE e = Parent[n] /\ n \in u.copied
    <3>1. l.fd_usage[e] = u.fd_usage[e] - 1 /\ Cardinality(Loans(l.copied, e)) = j - 1
      BY <1>4, <2>3, StampFacts
    <3> HIDE DEF i, j, k
    <3>2. ((i + k) + j) - 1 = (i + k) + (j - 1)
      BY <2>2
    <3> QED  BY <2>1, <3>1, <3>2 DEF i, k
  <2>4. CASE ~(e = Parent[n] /\ n \in u.copied)
    <3>1. l.fd_usage[e] = u.fd_usage[e] /\ Cardinality(Loans(l.copied, e)) = j
      BY <1>4, <2>4, StampFacts
    <3> QED  BY <2>1, <3>1
  <2> QED  BY <2>3, <2>4
<1>6. ASSUME NEW e \in Extfs, e \notin l.loaded PROVE l.fd_usage[e] = 0
  <2>1. e # Parent[n] /\ u.fd_usage[e] = 0
    BY <1>6 DEF Books
  <2> QED  BY <2>1, StampFacts
<1>7. Held(u) => Held(l)
  BY DEF Held
<1> QED  BY <1>2, <1>3, <1>5, <1>6, <1>7 DEF Books

(* The copy of n is the last use of an archive which no panel shows.       *)
LastCopy(v, n, env) ==
  /\ Parent[n] \in v.loaded \cap Extfs /\ n \in v.copied /\ v.fd_usage[Parent[n]] = 1
  /\ env.present /\ Listing(env) /\ Parent[n] # env.cwd
  /\ \A p \in Panels : env.dir[p] # Parent[n]

(* What giving the local copy of n back leads to.                          *)
UngetPost(v, w, n, y, open, env) ==
  /\ w \in Vfs /\ Books(w, open, Gone) /\ Sound(w, y)
  /\ (w.at = 0 <=> v.at = 0) /\ (Behind(v) => Behind(w))
  /\ v.loaded \subseteq w.loaded /\ n \notin w.loaded
  /\ Held(v) => Held(w)
  /\ Idle(v, env) /\ (v.at = 0 \/ Parent[n] \in v.loaded) => Idle(w, env)
  /\ \A b \in Stamped(v) :
       b \in Stamped(w) \/ b = env.cwd \/ b \in Outer(w) \/ (b = Parent[n] /\ b \in Extfs)
  /\ \A b \in Stamped(w) : b \in Stamped(v) \/ (env.present /\ Listing(env) /\ b # env.cwd)
  /\ \A C : Closure(v, C) /\ Roots(v, C) /\ n \notin C /\ Parent[n] \in v.loaded \cup {Local}
              => Closure(w, C) /\ Roots(w, C)
  /\ \A C : Closure(v, C) /\ Parent[n] \in C \cup {Local} => Closure(w, C)
  /\ LastCopy(v, n, env) => Parent[n] \in Stamped(w)

(* ungetlocalcopy, where the outer archive may have to be read again.      *)
LEMMA UngetIs ==
  ASSUME NEW v \in Vfs, NEW n \in Archive, NEW y \in {Gone, n}, NEW open, NEW env \in Envs,
         Books(v, open, n), Sound(v, y), n \notin v.loaded,
         \/ v.at = 0 \/ ~env.present \/ Parent[n] \notin Extfs
         \/ Parent[n] \in v.loaded /\ (Parent[n] \notin Stamped(v) \/ ~Listing(env))
  PROVE  UngetPost(v, UngetCopy(v, n, env), n, y, open, env)
<1> DEFINE p == Parent[n]
           u == Load(v, p, env)
           o == Opened(u, p)
           g == Returned(o, n)
           l == [g EXCEPT !.fd_usage[p] = @ - 1]
           w == UngetCopy(v, n, env)
<1>1. /\ p \in Place /\ Depth[p] < Depth[n] /\ p # n /\ n # Local /\ n # Gone /\ y # Local
      /\ Depth[p] \in Nat /\ Depth[n] \in Nat /\ n \in Place /\ Gone \notin Archive
      /\ y \notin v.loaded /\ p # y
  <2>1. p \in Place /\ Depth[p] < Depth[n] /\ p # n /\ n \in Place
    BY ArchiveFacts, StampFacts
  <2>2. n # Local /\ n # Gone /\ y # Local /\ Gone \notin Archive
    BY StampFacts
  <2>3. y \notin v.loaded
    BY <2>2 DEF Vfs
  <2>4. p # y
    BY <2>1, <2>2, StampFacts DEF Place
  <2> QED  BY <2>1, <2>2, <2>3, <2>4, ArchiveFacts
<1>2. CASE p \notin Extfs
  <2>1. w = v
    BY <1>2 DEF UngetCopy
  <2>2. n \notin v.copied
    BY <1>2 DEF Books
  <2>3. Books(v, open, Gone)
    BY <2>2 DEF Books
  <2> QED  BY <1>2, <2>1, <2>3 DEF UngetPost, LastCopy
<1>3. CASE p \in Extfs
  <2>0. p \in Archive
    BY <1>3, StampFacts
  <2>1. /\ u \in Vfs /\ Books(u, open, n) /\ Sound(u, y)
        /\ (u.at = 0 <=> v.at = 0) /\ (Behind(v) => Behind(u))
        /\ v.loaded \subseteq u.loaded /\ p \in u.loaded /\ n \notin u.loaded /\ y \notin u.loaded
        /\ Held(v) => Held(u)
        /\ Idle(v, env) /\ (v.at = 0 \/ p \in v.loaded) => Idle(u, env)
        /\ \A b \in Stamped(v) : b \in Stamped(u) \/ b = env.cwd \/ b \in Outer(u)
        /\ \A b \in Stamped(u) : b \in Stamped(v) \/ (env.present /\ Listing(env) /\ b # env.cwd)
        /\ \A C : Closure(v, C) /\ Roots(v, C) /\ p \in v.loaded => Closure(u, C) /\ Roots(u, C)
        /\ \A C : Closure(v, C) /\ p \in C => Closure(u, C)
        /\ p \in v.loaded => Stamped(u) = Stamped(v) /\ SameBooks(v, u)
    <3>1. CASE p \in v.loaded
      <4>1. Restamped(v, u, y) /\ Stamped(u) = Stamped(v)
        BY <3>1, LoadLoaded
      <4> HIDE DEF u
      <4>2. LoadPost(v, u, p, n, y, open, env)
        BY <3>1, <4>1, LoadSame
      <4>3. SameBooks(v, u)
        BY <4>1 DEF Restamped
      <4>4. Idle(v, env) => Idle(u, env)
        BY <4>1, <4>3 DEF Idle, SameBooks
      <4>5. \A C : Closure(v, C) /\ Roots(v, C) => Closure(u, C) /\ Roots(u, C)
        BY <4>3, SameBooksFacts
      <4>6. \A C : Closure(v, C) => Closure(u, C)
        BY <4>3, SameBooksFacts
      <4>7. n \notin u.loaded /\ y \notin u.loaded /\ p \in u.loaded
        BY <1>1, <3>1, <4>3 DEF SameBooks
      <4> QED  BY <4>1, <4>2, <4>3, <4>4, <4>5, <4>6, <4>7 DEF LoadPost
    <3>2. CASE p \notin v.loaded
      <4>1. v.at = 0 \/ ~env.present
        BY <1>3, <3>2
      <4>2. y \in Archive => Depth[p] < Depth[y]
        BY <1>1
      <4>3. LoadPost(v, u, p, n, y, open, env)
        BY <1>1, <4>1, <4>2, LoadLemma
      <4> HIDE DEF u
      <4>4. n \notin u.loaded
        BY <1>1, <4>3 DEF LoadPost
      <4>5. y \notin u.loaded /\ p \in u.loaded
        BY <1>1, <2>0, <4>3, <4>4, StampFacts DEF LoadPost, Vfs
      <4> QED  BY <3>2, <4>3, <4>4, <4>5 DEF LoadPost
    <3> QED  BY <3>1, <3>2
  <2> HIDE DEF u
  <2> DEFINE r == vfs_rmstamp(u, p)
  <2>2. /\ Restamped(u, r, y)
        /\ Stamped(r) \subseteq Stamped(u) /\ Stamped(u) \subseteq Stamped(r) \cup {p}
        /\ u.at = 0 => p \notin Stamped(r)
    BY <1>1, <2>1, RmstampIs
  <2>3. r \in Vfs /\ SameBooks(u, r) /\ Sound(r, y) /\ r.fd_usage[p] \in Nat
    BY <2>0, <2>2 DEF Restamped, Vfs
  <2>4. o = [r EXCEPT !.fd_usage[p] = @ + 1]
    BY DEF Opened
  <2> HIDE DEF r, o
  <2>5. /\ o \in Vfs /\ o.loaded = r.loaded /\ o.copied = r.copied /\ o.kept = r.kept
        /\ o.stamps = r.stamps /\ o.at = r.at
        /\ o.fd_usage = [r.fd_usage EXCEPT ![p] = @ + 1]
        /\ o.fd_usage[p] = r.fd_usage[p] + 1
    BY <2>0, <2>3, <2>4, CountUp
  <2>6. n \in u.copied => u.fd_usage[p] > 0
    <3> SUFFICES ASSUME n \in u.copied, u.fd_usage[p] = 0 PROVE FALSE
      BY <2>3 DEF SameBooks
    <3>1. Loans(u.copied, p) = {}
      BY <1>3, <2>1, Unused
    <3> QED  BY <3>1 DEF Loans
  <2>7. /\ l \in Vfs /\ l.loaded = u.loaded /\ l.kept = u.kept /\ l.copied = u.copied \ {n}
        /\ l.stamps = r.stamps /\ l.at = r.at
        /\ \A e \in Archive : l.fd_usage[e] =
             IF e = p /\ n \in u.copied THEN u.fd_usage[e] - 1 ELSE u.fd_usage[e]
    <3> DEFINE d == -1
    <3>1. CASE n \in u.copied
      <4> DEFINE g1 == [o EXCEPT !.fd_usage[p] = @ + d]
      <4>1. o.fd_usage[p] - 1 = o.fd_usage[p] + d /\ o.fd_usage[p] + d \in Nat /\ d \in Int
        BY <2>3, <2>5
      <4>2. n \in o.copied
        BY <2>3, <2>5, <3>1 DEF SameBooks
      <4>3. g = [o EXCEPT !.fd_usage[p] = @ - 1, !.copied = @ \ {n}]
        BY <4>2 DEF Returned
      <4>4. g = [g1 EXCEPT !.copied = @ \ {n}]
        BY <2>5, <4>1, <4>3 DEF Vfs
      <4> HIDE DEF g, d
      <4>5. /\ g1 \in Vfs /\ g1.loaded = o.loaded /\ g1.copied = o.copied /\ g1.kept = o.kept
            /\ g1.stamps = o.stamps /\ g1.at = o.at
            /\ g1.fd_usage = [o.fd_usage EXCEPT ![p] = @ + d]
            /\ g1.fd_usage[p] = o.fd_usage[p] + d
        BY <2>0, <2>5, <4>1, CountMoves, ZenonT(60)
      <4> HIDE DEF g1
      <4>6. /\ g \in Vfs /\ g.loaded = o.loaded /\ g.copied = o.copied \ {n} /\ g.kept = o.kept
            /\ g.stamps = o.stamps /\ g.at = o.at
            /\ g.fd_usage = g1.fd_usage
        BY <4>4, <4>5 DEF Vfs
      <4>7. g.fd_usage[p] - 1 = g.fd_usage[p] + d /\ g.fd_usage[p] + d \in Nat /\ d \in Int
        BY <2>3, <2>5, <2>6, <4>5, <4>6 DEF SameBooks, d
      <4> DEFINE l1 == [g EXCEPT !.fd_usage[p] = @ + d]
      <4>8. l = l1
        BY <4>7
      <4>9. /\ l1 \in Vfs /\ l1.loaded = g.loaded /\ l1.copied = g.copied /\ l1.kept = g.kept
            /\ l1.stamps = g.stamps /\ l1.at = g.at
            /\ l1.fd_usage = [g.fd_usage EXCEPT ![p] = @ + d]
            /\ l1.fd_usage[p] = g.fd_usage[p] + d
        BY <2>0, <4>6, <4>7, CountMoves, ZenonT(60)
      <4> HIDE DEF l, l1
      <4>10. u.fd_usage[p] \in Nat /\ u.fd_usage \in [Archive -> Nat]
        BY <2>0, <2>1 DEF Vfs
      <4>11. l1.fd_usage[p] = u.fd_usage[p] - 1
        BY <2>3, <2>5, <4>5, <4>6, <4>9, <4>10 DEF SameBooks, d
      <4>12. \A e \in Archive : e # p => l1.fd_usage[e] = u.fd_usage[e]
        BY <2>3, <2>5, <4>5, <4>6, <4>9, <4>10 DEF SameBooks
      <4> QED  BY <2>3, <2>5, <3>1, <4>6, <4>8, <4>9, <4>11, <4>12 DEF SameBooks
    <3>2. CASE n \notin u.copied
      <4>1. g = o
        BY <2>3, <2>5, <3>2 DEF Returned, SameBooks
      <4>2. o.fd_usage[p] - 1 = o.fd_usage[p] + d /\ o.fd_usage[p] + d \in Nat /\ d \in Int
        BY <2>3, <2>5
      <4> DEFINE l1 == [o EXCEPT !.fd_usage[p] = @ + d]
      <4> HIDE DEF g, d
      <4>3. l = l1
        BY <4>1, <4>2
      <4>4. /\ l1 \in Vfs /\ l1.loaded = o.loaded /\ l1.copied = o.copied /\ l1.kept = o.kept
            /\ l1.stamps = o.stamps /\ l1.at = o.at
            /\ l1.fd_usage = [o.fd_usage EXCEPT ![p] = @ + d]
            /\ l1.fd_usage[p] = o.fd_usage[p] + d
        BY <2>0, <2>5, <4>2, CountMoves, ZenonT(60)
      <4> HIDE DEF l, l1
      <4>5. u.fd_usage[p] \in Nat /\ u.fd_usage \in [Archive -> Nat]
        BY <2>0, <2>1 DEF Vfs
      <4>6. l1.fd_usage[p] = u.fd_usage[p]
        BY <2>3, <2>5, <4>4, <4>5 DEF SameBooks, d
      <4>7. \A e \in Archive : e # p => l1.fd_usage[e] = u.fd_usage[e]
        BY <2>3, <2>5, <4>4, <4>5 DEF SameBooks
      <4> QED  BY <2>3, <2>5, <3>2, <4>3, <4>4, <4>6, <4>7 DEF SameBooks
    <3> QED  BY <3>1, <3>2
  <2>8. w = Closed(g, p, env)
    BY <1>3 DEF UngetCopy, u, o
  <2>9. w = IF l.fd_usage[p] = 0 THEN vfs_stamp_create(l, p, env) ELSE l
    BY <2>8 DEF Closed
  <2> HIDE DEF l, w
  <2>10. Books(l, open, Gone) /\ (Held(u) => Held(l))
    BY <1>3, <2>1, <2>7, GiveBackBooks
  <2>11. Sound(l, y) /\ Stamped(l) = Stamped(r) /\ (Behind(r) => Behind(l))
         /\ (l.at = 0 <=> u.at = 0)
    <3>1. r.at = 0 <=> u.at = 0
      BY <2>2 DEF Restamped
    <3>2. r.loaded \subseteq l.loaded
      BY <2>3, <2>7 DEF SameBooks
    <3> QED  BY <2>3, <2>7, <3>1, <3>2, SameStamps
  <2>12. /\ Restamped(l, w, y)
         /\ Stamped(l) \subseteq Stamped(w) \cup {env.cwd}
         /\ \A b \in Stamped(w) : b \in Stamped(l) \/ (b = p /\ Stampable(l, p, env))
         /\ l.fd_usage[p] = 0 /\ Stampable(l, p, env) => p \in Stamped(w)
    <3>1. CASE l.fd_usage[p] = 0
      <4>1. w = vfs_stamp_create(l, p, env)
        BY <2>9, <3>1
      <4>2. l.at = 0 \/ ~env.present \/ p \notin Stamped(l) \/ ~Listing(env)
        BY <1>3, <2>1, <2>2, <2>11
      <4> QED  BY <1>1, <2>1, <2>7, <2>11, <4>1, <4>2, CreateIs
    <3>2. CASE l.fd_usage[p] # 0
      <4>1. w = l
        BY <2>9, <3>2
      <4> QED  BY <2>7, <2>11, <3>2, <4>1, SameIds DEF SameBooks
    <3> QED  BY <3>1, <3>2
  <2>13. w \in Vfs /\ SameBooks(l, w) /\ Sound(w, y) /\ (w.at = 0 <=> l.at = 0)
         /\ (Behind(l) => Behind(w))
    BY <2>12 DEF Restamped
  <2>14. Books(w, open, Gone) /\ (Held(l) => Held(w)) /\ Outer(w) = Outer(u)
    BY <2>7, <2>10, <2>13, SameBooksFacts DEF Outer
  <2>15. Idle(v, env) /\ (v.at = 0 \/ p \in v.loaded) => Idle(w, env)
    <3> SUFFICES ASSUME Idle(v, env), v.at = 0 \/ p \in v.loaded, NEW b \in Stamped(w) \cap Extfs
                 PROVE  w.fd_usage[b] = 0 \/ Spared(b, env)
      BY DEF Idle
    <3>1. Idle(u, env)
      BY <2>1
    <3>2. w.fd_usage[b] = l.fd_usage[b] /\ b \in Archive
      BY <2>13, StampFacts DEF SameBooks
    <3>3. CASE b = p /\ Stampable(l, p, env)
      BY <3>2, <3>3 DEF Stampable
    <3>4. CASE b \in Stamped(l)
      <4>1. b \in Stamped(u)
        BY <2>2, <2>11, <3>4
      <4>2. u.fd_usage[b] = 0 \/ Spared(b, env)
        BY <3>1, <4>1 DEF Idle
      <4>3. CASE u.fd_usage[b] = 0
        <5>1. l.fd_usage[b] = 0
          BY <2>6, <2>7, <3>2, <4>3
        <5> QED  BY <3>2, <5>1
      <4> QED  BY <4>2, <4>3
    <3> QED  BY <2>12, <3>3, <3>4
  <2>16. \A b \in Stamped(v) :
           b \in Stamped(w) \/ b = env.cwd \/ b \in Outer(w) \/ (b = p /\ b \in Extfs)
    BY <1>3, <2>1, <2>2, <2>11, <2>12, <2>14
  <2>17. \A b \in Stamped(w) : b \in Stamped(v) \/ (env.present /\ Listing(env) /\ b # env.cwd)
    BY <2>1, <2>2, <2>11, <2>12 DEF Stampable
  <2>18. ASSUME NEW C, Closure(v, C), Roots(v, C), n \notin C, p \in v.loaded \cup {Local}
         PROVE  Closure(w, C) /\ Roots(w, C)
    <3>1. Closure(u, C) /\ Roots(u, C)
      BY <1>3, <2>0, <2>1, <2>18, StampFacts
    <3>2. Closure(l, C) /\ Roots(l, C)
      BY <2>7, <2>18, <3>1 DEF Closure, Roots
    <3> QED  BY <2>13, <3>2, SameBooksFacts
  <2>19. ASSUME NEW C, Closure(v, C), p \in C \cup {Local}
         PROVE  Closure(w, C)
    <3>1. Closure(u, C)
      BY <2>0, <2>1, <2>19, StampFacts
    <3>2. Closure(l, C)
      BY <2>7, <3>1 DEF Closure
    <3> QED  BY <2>13, <3>2, SameBooksFacts
  <2>20. v.loaded \subseteq w.loaded /\ n \notin w.loaded
    BY <2>1, <2>7, <2>13 DEF SameBooks
  <2>21. (w.at = 0 <=> v.at = 0) /\ (Behind(v) => Behind(w)) /\ (Held(v) => Held(w))
    <3>1. Behind(u) => Behind(r)
      BY <2>2 DEF Restamped
    <3> QED  BY <2>1, <2>10, <2>11, <2>13, <2>14, <3>1
  <2>22. ASSUME LastCopy(v, n, env)
         PROVE  p \in Stamped(w)
    <3>1. u.fd_usage[p] = 1 /\ n \in u.copied /\ p \in l.loaded
      BY <2>1, <2>7, <2>22 DEF SameBooks, LastCopy
    <3>2. l.fd_usage[p] = 0
      BY <2>0, <2>7, <3>1
    <3>3. Stampable(l, p, env)
      BY <2>22, <3>1, <3>2 DEF Stampable, LastCopy
    <3> QED  BY <2>12, <3>2, <3>3
  <2> QED  BY <2>13, <2>14, <2>15, <2>16, <2>17, <2>18, <2>19, <2>20, <2>21, <2>22
           DEF UngetPost, w
<1> QED  BY <1>2, <1>3

-----------------------------------------------------------------------------
(* What the operations of the user keep, outside a sweep.                  *)

(* Between operations, outside a sweep.                                    *)
Calm(v, open, env) ==
  /\ v \in Vfs /\ v.at = 0 /\ Books(v, open, Gone) /\ Sound(v, Gone)
  /\ Held(v) /\ Idle(v, env)
  /\ \E C : Closure(v, C) /\ Roots(v, C)

(* Nothing is freed, and a stamp is lost to a current directory or to an   *)
(* archive inside.                                                         *)
Carries(v, w, env) ==
  /\ v.loaded \subseteq w.loaded
  /\ \A b \in Stamped(v) : b \in Stamped(w) \/ b = env.cwd \/ b \in Outer(w)
  /\ \A b \in Stamped(w) : b \in Stamped(v) \/ (Listing(env) /\ b # env.cwd)

(* What a panel spares under env it spares under other.                    *)
SameSpared(env, other) == \A a : Spared(a, env) => Spared(a, other)

(* NULL is no archive.                                                     *)
LEMMA GoneFacts ==
  ASSUME NEW v \in Vfs
  PROVE  Gone \notin v.loaded /\ Gone # Local /\ Gone \notin Archive
BY StampFacts DEF Vfs

(* What is calm stays so when as many panels spare their archives.         *)
LEMMA CalmEnv ==
  ASSUME NEW v, NEW open, NEW env, NEW other, Calm(v, open, env), SameSpared(env, other)
  PROVE  Calm(v, open, other)
BY DEF Calm, Idle, SameSpared

(* What is calm stays so when unused archives are stamped.                 *)
LEMMA CalmRestamped ==
  ASSUME NEW v \in Vfs, NEW w, NEW open, NEW env, Calm(v, open, env), Restamped(v, w, Gone),
         \A b \in Stamped(w) \cap Extfs :
           b \in Stamped(v) \/ v.fd_usage[b] = 0 \/ Spared(b, env)
  PROVE  Calm(w, open, env)
<1>1. w \in Vfs /\ SameBooks(v, w) /\ Sound(w, Gone) /\ w.at = 0
  BY DEF Restamped, Calm
<1>2. Books(w, open, Gone) /\ Held(w)
  BY <1>1, SameBooksFacts DEF Calm
<1>3. Idle(w, env)
  BY <1>1 DEF Idle, SameBooks, Calm
<1>4. \E C : Closure(w, C) /\ Roots(w, C)
  BY <1>1, SameBooksFacts DEF Calm
<1> QED  BY <1>1, <1>2, <1>3, <1>4 DEF Calm

(* Reading archives, outside a sweep.                                      *)
LEMMA PostCalm ==
  ASSUME NEW v, NEW w, NEW open, NEW env \in Envs, NEW a \in Place, Calm(v, open, env),
         LoadPost(v, w, a, Gone, Gone, open, env)
  PROVE  /\ Calm(w, open, env) /\ Carries(v, w, env) /\ a \in w.loaded \cup {Local}
         /\ \A b \in w.loaded : b \in v.loaded \/ Depth[b] <= Depth[a]
<1>1. Calm(w, open, env)
  <2>1. \E C : Closure(w, C) /\ Roots(w, C)
    BY DEF LoadPost, Calm
  <2> QED  BY <2>1 DEF LoadPost, Calm
<1>2. Carries(v, w, env)
  BY DEF LoadPost, Carries
<1> QED  BY <1>1, <1>2 DEF LoadPost

(* Load, outside a sweep.                                                  *)
LEMMA LoadCalm ==
  ASSUME NEW v, NEW open, NEW env \in Envs, Calm(v, open, env), NEW a \in Place
  PROVE  LET w == Load(v, a, env) IN
         /\ Calm(w, open, env) /\ Carries(v, w, env) /\ a \in w.loaded \cup {Local}
         /\ \A b \in w.loaded : b \in v.loaded \/ Depth[b] <= Depth[a]
<1> DEFINE w == Load(v, a, env)
<1>1. v \in Vfs /\ v.at = 0 /\ Books(v, open, Gone) /\ Sound(v, Gone)
  BY DEF Calm
<1>2. LoadPost(v, w, a, Gone, Gone, open, env)
  BY <1>1, GoneFacts, LoadLemma
<1> HIDE DEF w
<1> QED  BY <1>2, PostCalm DEF w

(* An archive is read from one that is there, outside a sweep.             *)
LEMMA ReadCalm ==
  ASSUME NEW v, NEW open, NEW env \in Envs, Calm(v, open, env), NEW n \in Archive,
         n \notin v.loaded, Parent[n] \in v.loaded
  PROVE  LET w == ReadArchive(Copied(v, n, env), n, env) IN
         Calm(w, open, env) /\ Carries(v, w, env)
<1> DEFINE w == ReadArchive(Copied(v, n, env), n, env)
<1>1. /\ v \in Vfs /\ v.at = 0 /\ Books(v, open, Gone) /\ Sound(v, Gone) /\ n \in Place
      /\ Gone \notin v.loaded /\ Gone # Local /\ Gone \notin Archive
  BY GoneFacts, StampFacts DEF Calm
<1>2. Restamped(v, v, Gone)
  BY <1>1, SameIds DEF SameBooks
<1>3. LoadPost(v, v, Parent[n], Gone, Gone, open, env)
  BY <1>1, <1>2, LoadSame
<1>4. LoadPost(v, w, n, Gone, Gone, open, env)
  BY <1>1, <1>3, LoadStep
<1> HIDE DEF w
<1> QED  BY <1>1, <1>4, PostCalm DEF w

(* vfs_stamp_create, outside a sweep.                                      *)
LEMMA CreateCalm ==
  ASSUME NEW v, NEW open, NEW env \in Envs, Calm(v, open, env), NEW a \in Place
  PROVE  LET w == vfs_stamp_create(v, a, env) IN
         /\ Calm(w, open, env) /\ Carries(v, w, env) /\ SameBooks(v, w)
         /\ env.present => env.cwd \notin Stamped(w)
<1> DEFINE w == vfs_stamp_create(v, a, env)
<1>1. v \in Vfs /\ v.at = 0 /\ Sound(v, Gone)
  BY DEF Calm
<1>2. /\ Restamped(v, w, Gone)
      /\ Stamped(v) \subseteq Stamped(w) \cup {env.cwd}
      /\ \A b \in Stamped(w) : b \in Stamped(v) \/ (b = a /\ Stampable(v, a, env))
      /\ env.present => env.cwd \notin Stamped(w)
  BY <1>1, GoneFacts, CreateIs
<1> HIDE DEF w
<1>3. Calm(w, open, env)
  <2>1. \A b \in Stamped(w) \cap Extfs : b \in Stamped(v) \/ v.fd_usage[b] = 0
    BY <1>2 DEF Stampable
  <2> QED  BY <1>1, <1>2, <2>1, CalmRestamped
<1>4. SameBooks(v, w)
  BY <1>2 DEF Restamped
<1>5. Carries(v, w, env)
  BY <1>2, <1>4 DEF Carries, SameBooks, Stampable
<1> QED  BY <1>2, <1>3, <1>4, <1>5 DEF w

(* Leaving a directory, outside a sweep.                                   *)
LEMMA ReleaseCalm ==
  ASSUME NEW v, NEW open, NEW env \in Envs, Calm(v, open, env), NEW d \in Place
  PROVE  LET w == Release(v, d, env) IN
         /\ Calm(w, open, env) /\ Carries(v, w, env)
         /\ v.loaded = w.loaded
         /\ env.present => env.cwd \notin Stamped(w)
<1> DEFINE u == Asked(v, d)
           w == Release(v, d, env)
<1>1. v \in Vfs /\ Sound(v, Gone)
  BY DEF Calm
<1>2. Restamped(v, u, Gone) /\ Stamped(u) = Stamped(v)
  <2>1. Restamped(v, v, Gone)
    BY <1>1, SameIds DEF SameBooks
  <2> QED  BY <1>1, <2>1, StampIs DEF Asked
<1>3. Id(v, d) \in Place
  BY StampFacts DEF Id, Place
<1>4. w = vfs_stamp_create(u, Id(v, d), env)
  BY DEF Release
<1> HIDE DEF u, w
<1>5. Calm(u, open, env) /\ SameBooks(v, u)
  BY <1>1, <1>2, CalmRestamped DEF Restamped
<1>6. /\ Calm(w, open, env) /\ Carries(u, w, env) /\ SameBooks(u, w)
      /\ env.present => env.cwd \notin Stamped(w)
  BY <1>3, <1>4, <1>5, CreateCalm
<1>7. Carries(v, w, env) /\ v.loaded = w.loaded
  BY <1>2, <1>5, <1>6 DEF Carries, SameBooks
<1> QED  BY <1>6, <1>7 DEF w

(* mc_chdir, outside a sweep.                                              *)
LEMMA ChdirCalm ==
  ASSUME NEW v, NEW open, NEW env \in Envs, Calm(v, open, env), NEW d \in Dir
  PROVE  LET w == mc_chdir(v, d, env) IN
         /\ Calm(w, open, env)
         /\ v.loaded \subseteq w.loaded /\ d \in w.loaded \cup {Local}
         /\ \A b \in Stamped(v) : b \in Stamped(w) \/ b = env.cwd \/ b = d \/ b \in Outer(w)
         /\ \A b \in Stamped(w) : b \in Stamped(v) \/ Listing(env)
         /\ env.present => d \notin Stamped(w)
<1> DEFINE u == Load(v, d, env)
           new == [env EXCEPT !.cwd = d]
           w == mc_chdir(v, d, env)
<1>1. d \in Place /\ env.cwd \in Place
  BY StampFacts DEF Envs
<1>2. /\ Calm(u, open, env) /\ Carries(v, u, env) /\ d \in u.loaded \cup {Local}
  BY <1>1, LoadCalm
<1>3. /\ new \in Envs /\ new.cwd = d /\ new.view = env.view /\ new.dir = env.dir
      /\ new.present = env.present
  BY DEF Envs
<1>4. w = Release(u, env.cwd, new)
  BY DEF mc_chdir
<1> HIDE DEF u, new, w
<1>5. (\A a : Spared(a, new) <=> Spared(a, env)) /\ (Listing(new) <=> Listing(env))
  BY <1>3 DEF Spared, Listing
<1>6. Calm(u, open, new)
  BY <1>2, <1>5, CalmEnv DEF SameSpared
<1>7. /\ Calm(w, open, new) /\ Carries(u, w, new) /\ u.loaded = w.loaded
      /\ new.present => new.cwd \notin Stamped(w)
  BY <1>1, <1>3, <1>4, <1>6, ReleaseCalm
<1>8. Calm(w, open, env)
  BY <1>5, <1>7, CalmEnv DEF SameSpared
<1>9. Outer(u) = Outer(w)
  BY <1>7 DEF Outer
<1>10. \A b \in Stamped(v) : b \in Stamped(w) \/ b = env.cwd \/ b = d \/ b \in Outer(w)
  BY <1>2, <1>3, <1>7, <1>9 DEF Carries
<1>11. \A b \in Stamped(w) : b \in Stamped(v) \/ Listing(env)
  BY <1>2, <1>5, <1>7 DEF Carries
<1>12. v.loaded \subseteq w.loaded
  BY <1>2, <1>7 DEF Carries
<1> QED  BY <1>2, <1>3, <1>7, <1>8, <1>10, <1>11, <1>12 DEF w

-----------------------------------------------------------------------------
(* The inductive invariant.                                                *)

(* What an extfs_open may hold while a message is shown: no archive, one   *)
(* that is there, or one freed since.                                      *)
Holdable(v) == {Local, Gone} \cup (v.loaded \cap Extfs)

(* While mc runs: every archive read from another holds its copy, only a   *)
(* panel without a listing has its stamped archive in use, and what the    *)
(* archives read lie in is in use.                                         *)
InvRunning ==
  /\ held \in Holdable(vfs)
  /\ cwd = dir[current] /\ view[current] = "view_listing"
  /\ Held(vfs) /\ Idle(vfs, Env)
  /\ Listing(Env) => cwd \notin Stamped(vfs)
  /\ \E C : Closure(vfs, C) /\ Roots(vfs, C)

Entered(a, env) == a = env.cwd \/ (\E p \in Panels : env.dir[p] = a) \/ ~Listing(env)
Leaves(v, C, env) ==
  \A n \in C : Parent[n] \in Stamped(v) \cap Extfs => Entered(Parent[n], env)

(* At exit: a sweep leaves no stamp behind it, and a stamped archive with  *)
(* others in it is the directory of a panel.                               *)
InvExit ==
  /\ files = {}
  /\ phase = "quit" => vfs.at = 0
  /\ phase # "quit" => Behind(vfs) /\ (vfs.at = 0 => vfs.stamps = <<>>)
  /\ \E C : Closure(vfs, C) /\ Leaves(vfs, C, Env)

IInv ==
  /\ TypeOK
  /\ Books(vfs, files, Gone) /\ Sound(vfs, Gone)
  /\ phase = "running" => InvRunning
  /\ phase = "undefined" => vfs.at = 0
  /\ phase \notin {"running", "undefined"} => InvExit

(* What StampKept says of a step.                                          *)
KeptStep == \A b \in Stamped(vfs) \ Stamped(vfs)' : b \notin vfs'.loaded \/ Used(b)'

(* There are two panels.                                                   *)
LEMMA PanelFacts ==
  /\ \A p \in Panels : Other(p) \in Panels /\ Other(p) # p /\ Panels = {p, Other(p)}
  /\ Panel[1] \in Panels /\ Panel[2] \in Panels /\ Panels = {Panel[1], Panel[2]}
<1>1. DOMAIN Panel = {1, 2}
  <2>1. DOMAIN Panel = 1 .. 2
    BY PanelAssumption
  <2> QED  BY <2>1
<1>2. Panels = {Panel[1], Panel[2]}
  BY <1>1 DEF Panels, Range
<1>3. ASSUME NEW p \in Panels PROVE Other(p) \in Panels /\ Other(p) # p
  <2>1. \E q \in Panels : q # p
    BY <1>2, PanelAssumption
  <2> QED  BY <2>1 DEF Other
<1> QED  BY <1>2, <1>3

(* What vfs_stamp_create asks about is well typed.                         *)
LEMMA EnvFacts ==
  ASSUME TypeOK
  PROVE  /\ Env \in Envs /\ Env.cwd = cwd /\ Env.dir = dir /\ Env.view = view
         /\ Env.current = current /\ Env.present = (phase = "running")
BY DEF Env, Envs, TypeOK

(* Between operations, while mc runs, all is calm.                         *)
LEMMA CalmNow ==
  ASSUME IInv, Loop
  PROVE  /\ Calm(vfs, files, Env) /\ Env \in Envs /\ Env.present
         /\ Env.cwd = cwd /\ Env.dir = dir /\ Env.view = view /\ Env.current = current
         /\ vfs \in Vfs /\ Sound(vfs, Gone) /\ cwd \in Dir /\ dir \in [Panels -> Dir]
         /\ view \in [Panels -> Views] /\ current \in Panels /\ files \subseteq Archive
         /\ cwd = dir[current] /\ view[current] = "view_listing"
         /\ Listing(Env) => cwd \notin Stamped(vfs)
         /\ held \in Holdable(vfs)
<1>1. TypeOK /\ InvRunning /\ phase = "running" /\ vfs.at = 0
  BY DEF IInv, Loop
<1>2. Calm(vfs, files, Env)
  BY <1>1 DEF IInv, InvRunning, Calm, TypeOK
<1> QED  BY <1>1, <1>2, EnvFacts DEF IInv, InvRunning, TypeOK

(* An operation that ends calm keeps the invariant.                        *)
LEMMA CalmAfter ==
  ASSUME Loop, held' \in Holdable(vfs'), phase' = phase, NEW env \in Envs, env.present,
         cwd' = env.cwd, dir' = env.dir, view' = env.view, current' = env.current,
         Calm(vfs', files', env), files' \subseteq Archive,
         env.cwd = env.dir[env.current], env.view[env.current] = "view_listing",
         Listing(env) => env.cwd \notin Stamped(vfs')
  PROVE  IInv'
<1>1. env.cwd \in Dir /\ env.dir \in [Panels -> Dir] /\ env.view \in [Panels -> Views]
      /\ env.current \in Panels
  BY DEF Envs
<1>2. Env' = env
  <2>1. env = [cwd |-> env.cwd, dir |-> env.dir, view |-> env.view, current |-> env.current,
               present |-> env.present]
    BY DEF Envs
  <2>2. (phase' = "running") = env.present
    BY DEF Loop, Envs
  <2> QED  BY <2>1, <2>2 DEF Env
<1>3. TypeOK'
  <2>1. held' \in Dir \cup {Gone}
    BY DEF Holdable, Dir
  <2> QED  BY <1>1, <2>1 DEF TypeOK, Calm, Sound, Loop
<1>4. InvRunning'
  BY <1>2 DEF InvRunning, Calm
<1> QED  BY <1>3, <1>4 DEF IInv, Calm, Loop

(* What counts as using an archive.                                        *)
LEMMA UsedAfter ==
  ASSUME NEW b, b = cwd' \/ b \in Outer(vfs') \/ b \in files' \/ ~Listing(Env')
                \/ (\E p \in Panels : dir'[p] = b)
  PROVE  Used(b)'
<1>1. CASE ~Listing(Env')
  BY <1>1 DEF Used, Listing, Env
<1>2. CASE b \in Outer(vfs')
  BY <1>2 DEF Used, Outer
<1> QED  BY <1>1, <1>2 DEF Used

(* The initial state.                                                      *)
LEMMA InitIInv ==
  ASSUME Init
  PROVE  IInv
<1>1. current \in Panels
  BY PanelFacts DEF Init
<1> DEFINE zero == [a \in Archive |-> 0]
<1>2. vfs = [loaded |-> {}, fd_usage |-> zero, copied |-> {}, kept |-> zero,
             stamps |-> <<>>, at |-> 0] /\ files = {} /\ phase = "running"
      /\ held = Local
  BY DEF Init
<1>3. vfs \in Vfs
  BY <1>2 DEF Vfs
<1>4. TypeOK
  BY <1>1, <1>2, <1>3 DEF Init, TypeOK, Dir, Views
<1>5. Sound(vfs, Gone) /\ Stamped(vfs) = {}
  <2>1. DOMAIN vfs.stamps = {} /\ vfs.stamps = <<>> /\ vfs.at = 0
    BY <1>2
  <2> QED  BY <2>1 DEF Sound, Stamped, Ids, Range
<1>6. Books(vfs, files, Gone)
  <2>1. ASSUME NEW a \in Extfs
        PROVE  vfs.fd_usage[a] = 0 /\ vfs.kept[a] = 0 /\ Cardinality(files \cap {a}) = 0
               /\ Cardinality(Loans(vfs.copied, a)) = 0
    <3>1. files \cap {a} = {} /\ Loans(vfs.copied, a) = {}
      BY <1>2 DEF Loans
    <3> QED  BY <1>2, <3>1, FS_EmptySet, StampFacts
  <2>2. vfs.copied = {}
    BY <1>2
  <2> QED  BY <2>1, <2>2 DEF Books
<1>7. InvRunning
  <2>1. Closure(vfs, {}) /\ Roots(vfs, {})
    BY <1>2 DEF Closure, Roots
  <2>2. Held(vfs) /\ Idle(vfs, Env)
    BY <1>2, <1>5 DEF Held, Idle
  <2>3. cwd = dir[current] /\ view[current] = "view_listing"
    BY <1>1 DEF Init
  <2> QED  BY <1>2, <1>5, <2>1, <2>2, <2>3 DEF InvRunning, Holdable
<1> QED  BY <1>2, <1>4, <1>5, <1>6, <1>7 DEF IInv

(* A panel changes its directory.                                          *)
LEMMA CdKeeps ==
  ASSUME IInv, NEW d \in Dir, Cd(d)
  PROVE  IInv' /\ KeptStep
<1> DEFINE env == [Env EXCEPT !.cwd = d, !.dir[current] = d]
           there == mc_chdir(vfs, d, Env)
           left == Release(there, dir[current], env)
           w == Load(left, d, env)
<1>1. Loop /\ held' = Local /\ vfs' = w /\ cwd' = d /\ dir' = [dir EXCEPT ![current] = d]
      /\ UNCHANGED <<view, current, files, phase>>
  BY DEF Cd, Running
<1>2. /\ Calm(vfs, files, Env) /\ Env \in Envs /\ Env.present
      /\ Env.cwd = cwd /\ Env.dir = dir /\ Env.view = view /\ Env.current = current
      /\ dir \in [Panels -> Dir] /\ current \in Panels /\ files \subseteq Archive
      /\ cwd = dir[current] /\ view[current] = "view_listing"
      /\ Listing(Env) => cwd \notin Stamped(vfs)
  BY <1>1, CalmNow
<1>3. /\ env \in Envs /\ env.cwd = d /\ env.dir = [dir EXCEPT ![current] = d]
      /\ env.view = view /\ env.current = current /\ env.present
  <2> DEFINE nd == [dir EXCEPT ![current] = d]
             e1 == [Env EXCEPT !.cwd = d]
  <2>1. nd \in [Panels -> Dir]
    BY <1>2
  <2>2. env = [e1 EXCEPT !.dir[current] = d]
    BY <1>2 DEF Envs
  <2>3. /\ e1 \in Envs /\ e1.cwd = d /\ e1.dir = dir /\ e1.view = view /\ e1.current = current
        /\ e1.present = Env.present
    BY <1>2 DEF Envs
  <2> HIDE DEF e1, env
  <2>4. env = [e1 EXCEPT !.dir = nd]
    BY <2>2, <2>3 DEF Envs
  <2> HIDE DEF nd
  <2>5. env \in Envs /\ env.cwd = d /\ env.dir = nd /\ env.view = view /\ env.current = current
        /\ env.present = Env.present
    BY <2>1, <2>3, <2>4 DEF Envs
  <2> QED  BY <1>2, <2>5 DEF nd
<1>4. d \in Place /\ dir[current] \in Place
  BY <1>2, StampFacts
<1>5. /\ Calm(there, files, Env)
      /\ \A b \in Stamped(vfs) : b \in Stamped(there) \/ b = cwd \/ b = d \/ b \in Outer(there)
      /\ d \notin Stamped(there) /\ vfs.loaded \subseteq there.loaded
  BY <1>2, ChdirCalm
<1>6. SameSpared(Env, env) /\ (Listing(env) <=> Listing(Env))
  BY <1>2, <1>3 DEF SameSpared, Spared, Listing
<1> HIDE DEF there, env
<1>7. Calm(there, files, env)
  BY <1>5, <1>6, CalmEnv
<1>8. /\ Calm(left, files, env) /\ Carries(there, left, env) /\ left.loaded = there.loaded
      /\ d \notin Stamped(left)
  BY <1>3, <1>4, <1>7, ReleaseCalm
<1> HIDE DEF left
<1>9. Calm(w, files, env) /\ Carries(left, w, env)
  BY <1>3, <1>4, <1>8, LoadCalm
<1> HIDE DEF w
<1>10. d \notin Stamped(w)
  BY <1>3, <1>8, <1>9 DEF Carries
<1>11. env.cwd = env.dir[env.current] /\ env.view[env.current] = "view_listing"
  BY <1>2, <1>3
<1>12. IInv'
  BY <1>1, <1>2, <1>3, <1>9, <1>10, <1>11, CalmAfter DEF Holdable
<1>13. Env' = env
  BY <1>1, <1>2, <1>3 DEF Env, Envs, Loop
<1>14. KeptStep
  <2> SUFFICES ASSUME NEW b \in Stamped(vfs), b \notin Stamped(w) PROVE Used(b)'
    BY <1>1 DEF KeptStep, Stamped
  <2>1. Outer(there) \subseteq Outer(w) /\ Outer(left) \subseteq Outer(w)
    BY <1>8, <1>9 DEF Outer, Carries
  <2>2. b = cwd \/ b = d \/ b \in Outer(w)
    BY <1>3, <1>5, <1>8, <1>9, <2>1 DEF Carries
  <2>3. b = cwd => ~Listing(env)
    BY <1>2, <1>6
  <2> QED  BY <1>1, <1>13, <2>2, <2>3, UsedAfter
<1> QED  BY <1>12, <1>14

-----------------------------------------------------------------------------
(* The other operations of the user, one lemma for each.                   *)

(* Where only the archives change.                                         *)
LEMMA StaysCalm ==
  ASSUME IInv, Loop, UNCHANGED <<cwd, dir, view, current, phase>>,
         held' \in Holdable(vfs'),
         Calm(vfs', files', Env), files' \subseteq Archive,
         Listing(Env) => cwd \notin Stamped(vfs')
  PROVE  IInv' /\ Env' = Env
<1>1. /\ Env \in Envs /\ Env.present
      /\ Env.cwd = cwd /\ Env.dir = dir /\ Env.view = view /\ Env.current = current
      /\ cwd = dir[current] /\ view[current] = "view_listing"
  BY CalmNow
<1>2. Env' = Env
  BY DEF Env
<1> QED  BY <1>1, <1>2, CalmAfter

(* stat() in an archive.                                                   *)
LEMMA LookKeeps ==
  ASSUME IInv, NEW a \in Archive, Look(a)
  PROVE  IInv' /\ KeptStep
<1> DEFINE w == Load(vfs, a, Env)
<1>1. Loop /\ held' = Local /\ vfs' = w /\ UNCHANGED <<cwd, dir, view, current, files, phase>>
  BY DEF Look, Running
<1>2. /\ Calm(vfs, files, Env) /\ Env \in Envs /\ Env.cwd = cwd /\ files \subseteq Archive
      /\ Listing(Env) => cwd \notin Stamped(vfs)
  BY <1>1, CalmNow
<1>3. Calm(w, files, Env) /\ Carries(vfs, w, Env)
  BY <1>2, LoadCalm, StampFacts
<1> HIDE DEF w
<1>4. IInv'
  BY <1>1, <1>2, <1>3, StaysCalm DEF Carries, Holdable
<1>5. KeptStep
  <2> SUFFICES ASSUME NEW b \in Stamped(vfs), b \notin Stamped(w) PROVE Used(b)'
    BY <1>1 DEF KeptStep, Stamped
  <2>1. b = cwd \/ b \in Outer(w)
    BY <1>2, <1>3 DEF Carries
  <2> QED  BY <1>1, <2>1, UsedAfter
<1> QED  BY <1>4, <1>5

(* A loan of an archive that is not read.                                  *)
LEMMA CopyOutBooks ==
  ASSUME NEW u \in Vfs, NEW c \in Vfs, NEW open, NEW n \in Archive, Parent[n] \in Extfs,
         Books(u, open, Gone), n \notin u.loaded, Parent[n] \in u.loaded,
         c.loaded = u.loaded, c.kept = u.kept, c.copied = u.copied \cup {n},
         c.fd_usage = [u.fd_usage EXCEPT ![Parent[n]] = @ + 1]
  PROVE  Books(c, open, n)
<1> DEFINE p == Parent[n]
<1>1. n \notin u.copied /\ u.copied \in SUBSET Archive /\ u.copied \subseteq u.loaded
  <2>1. Gone \notin Archive /\ u.copied \in SUBSET Archive
    BY StampFacts DEF Vfs
  <2> QED  BY <2>1, StampFacts DEF Books
<1>2. c.copied \subseteq c.loaded \cup {n} /\ \A m \in c.copied : Parent[m] \in Extfs
  BY <1>1 DEF Books
<1>3. ASSUME NEW e \in Extfs
      PROVE  Cardinality(Loans(c.copied, e)) =
               IF Parent[n] = e THEN Cardinality(Loans(u.copied, e)) + 1
               ELSE Cardinality(Loans(u.copied, e))
  <2>1. \A m \in Archive \ u.copied : Cardinality(Loans(u.copied \cup {m}, e)) =
          IF Parent[m] = e THEN Cardinality(Loans(u.copied, e)) + 1
          ELSE Cardinality(Loans(u.copied, e))
    BY <1>1, LoansCount
  <2> QED  BY <1>1, <2>1
<1>4. ASSUME NEW e \in Extfs
      PROVE  c.fd_usage[e] = Cardinality(open \cap {e}) + c.kept[e]
                             + Cardinality(Loans(c.copied, e))
  <2> DEFINE i == Cardinality(open \cap {e})
             j == Cardinality(Loans(u.copied, e))
             k == u.kept[e]
  <2>1. u.fd_usage[e] = (i + k) + j /\ c.kept[e] = k
    BY DEF Books
  <2>2. i \in Nat /\ j \in Nat /\ k \in Nat
    <3>1. IsFiniteSet({e}) /\ open \cap {e} \in SUBSET {e}
      BY FS_Singleton
    <3>2. IsFiniteSet(open \cap {e})
      BY <3>1, FS_Subset
    <3> QED  BY <1>1, <3>2, FS_CardinalityType, LoansCount, StampFacts DEF Vfs
  <2>3. Cardinality(Loans(c.copied, e)) = IF p = e THEN j + 1 ELSE j
    BY <1>3
  <2>4. e \in Archive /\ u.fd_usage \in [Archive -> Nat] /\ p \in Archive
    BY StampFacts DEF Vfs
  <2>5. c.fd_usage[e] = IF p = e THEN u.fd_usage[e] + 1 ELSE u.fd_usage[e]
    BY <2>4
  <2>6. CASE p = e
    <3>1. c.fd_usage[e] = u.fd_usage[e] + 1 /\ Cardinality(Loans(c.copied, e)) = j + 1
      BY <2>3, <2>5, <2>6
    <3> HIDE DEF i, j, k
    <3>2. ((i + k) + j) + 1 = (i + k) + (j + 1)
      BY <2>2
    <3> QED  BY <2>1, <3>1, <3>2 DEF i, k
  <2>7. CASE p # e
    BY <2>1, <2>3, <2>5, <2>7
  <2> QED  BY <2>6, <2>7
<1>5. ASSUME NEW e \in Extfs, e \notin c.loaded PROVE c.fd_usage[e] = 0
  BY <1>5, StampFacts DEF Books, Vfs
<1> QED  BY <1>2, <1>4, <1>5 DEF Books

(* Nothing has its copy from an unused archive: it can leave the closure.  *)
LEMMA PruneRoots ==
  ASSUME NEW v \in Vfs, NEW open, NEW x, Books(v, open, x), NEW a \in Extfs,
         v.fd_usage[a] = 0, NEW C, Closure(v, C), Roots(v, C)
  PROVE  /\ \A n \in C : Parent[n] # a
         /\ \A n \in C \ {a} : Parent[n] \in (C \ {a}) \cup {Local}
         /\ Roots(v, C \ {a})
         /\ a \notin v.loaded => Closure(v, C \ {a})
<1>1. v.kept[a] = 0 /\ Loans(v.copied, a) = {}
  BY Unused
<1>2. ASSUME NEW n \in C PROVE Parent[n] # a
  BY <1>1 DEF Roots, Loans
<1>3. \A n \in C \ {a} : Parent[n] \in (C \ {a}) \cup {Local}
  BY <1>2 DEF Closure
<1>4. Roots(v, C \ {a})
  BY DEF Roots
<1>5. a \notin v.loaded => Closure(v, C \ {a})
  BY <1>3 DEF Closure
<1> QED  BY <1>2, <1>3, <1>4, <1>5

(* The helper of an archive fails.                                         *)
LEMMA CdFailsKeeps ==
  ASSUME IInv, NEW d \in Extfs, CdFails(d)
  PROVE  IInv' /\ KeptStep
<1> DEFINE p == Parent[d]
           u == Load(vfs, p, Env)
           c == Copied(u, d, Env)
           w == UngetCopy(c, d, Env)
<1>1. /\ Loop /\ held' = Local /\ d \notin vfs.loaded
      /\ vfs' = w /\ UNCHANGED <<cwd, dir, view, current, files, phase>>
  BY DEF CdFails, LoadFails, GetCopy, Running
<1>2. /\ Calm(vfs, files, Env) /\ Env \in Envs /\ Env.cwd = cwd /\ Env.dir = dir /\ Env.present
      /\ Env.view = view /\ files \subseteq Archive
      /\ Listing(Env) => cwd \notin Stamped(vfs)
  BY <1>1, CalmNow
<1>3. /\ d \in Archive /\ p \in Place /\ p # d /\ Depth[p] < Depth[d]
      /\ Depth[p] \in Nat /\ Depth[d] \in Nat
  BY ArchiveFacts, StampFacts
<1>4. /\ Calm(u, files, Env) /\ Carries(vfs, u, Env) /\ p \in u.loaded \cup {Local}
      /\ d \notin u.loaded
  <2>1. /\ Calm(u, files, Env) /\ Carries(vfs, u, Env) /\ p \in u.loaded \cup {Local}
        /\ \A b \in u.loaded : b \in vfs.loaded \/ Depth[b] <= Depth[p]
    BY <1>2, <1>3, LoadCalm
  <2> QED  BY <1>1, <1>3, <2>1
<1> HIDE DEF u
<1>5. \A b \in Stamped(vfs) : b \in Stamped(u) \/ b = cwd \/ b \in Outer(u)
  BY <1>2, <1>4 DEF Carries
<1>6. Listing(Env) => cwd \notin Stamped(u)
  BY <1>2, <1>4 DEF Carries
<1>7. CASE p \notin Extfs
  <2>1. w = u
    BY <1>7 DEF Copied, UngetCopy
  <2>2. IInv'
    BY <1>1, <1>2, <1>4, <1>6, <2>1, StaysCalm DEF Holdable
  <2>3. KeptStep
    <3> SUFFICES ASSUME NEW b \in Stamped(vfs), b \notin Stamped(w) PROVE Used(b)'
      BY <1>1 DEF KeptStep, Stamped
    <3>1. b = cwd \/ b \in Outer(w)
      BY <1>5, <2>1
    <3> QED  BY <1>1, <3>1, UsedAfter
  <2> QED  BY <2>2, <2>3
<1>8. CASE p \in Extfs
  <2>1. u \in Vfs /\ u.at = 0 /\ Sound(u, Gone) /\ Books(u, files, Gone) /\ Held(u)
        /\ Idle(u, Env) /\ p # Gone /\ p \in u.loaded /\ p \in Archive
    BY <1>4, <1>8, StampFacts DEF Calm
  <2>2. /\ c \in Vfs /\ c.loaded = u.loaded /\ c.kept = u.kept /\ c.copied = u.copied \cup {d}
        /\ c.fd_usage = [u.fd_usage EXCEPT ![p] = @ + 1]
        /\ Sound(c, Gone) /\ c.at = 0
        /\ Stamped(c) \subseteq Stamped(u) /\ Stamped(u) \subseteq Stamped(c) \cup {p}
        /\ p \notin Stamped(c)
    BY <1>3, <1>8, <2>1, CopiedIs
  <2> HIDE DEF c
  <2>3. Books(c, files, d)
    BY <1>3, <1>4, <1>8, <2>1, <2>2, CopyOutBooks
  <2>4. UngetPost(c, w, d, Gone, files, Env)
    BY <1>2, <1>3, <1>4, <2>2, <2>3, UngetIs
  <2> HIDE DEF w
  <2>5. Held(c)
    BY <2>1, <2>2 DEF Held
  <2>6. Idle(c, Env)
    <3> SUFFICES ASSUME NEW b \in Stamped(c) \cap Extfs
                 PROVE  c.fd_usage[b] = 0 \/ Spared(b, Env)
      BY DEF Idle
    <3>1. b \in Stamped(u) /\ b # p /\ b \in Archive /\ u.fd_usage \in [Archive -> Nat]
      BY <2>1, <2>2, StampFacts DEF Vfs
    <3>2. c.fd_usage[b] = u.fd_usage[b]
      BY <2>2, <3>1
    <3> QED  BY <2>1, <3>1, <3>2 DEF Idle
  <2>7. \E C : Closure(w, C) /\ Roots(w, C)
    <3>1. PICK C : Closure(u, C) /\ Roots(u, C)
      BY <1>4 DEF Calm
    <3>2. u.fd_usage[d] = 0
      BY <1>4, <2>1 DEF Books
    <3>3. Closure(u, C \ {d}) /\ Roots(u, C \ {d})
      BY <1>4, <2>1, <3>1, <3>2, PruneRoots
    <3>4. Closure(c, C \ {d}) /\ Roots(c, C \ {d})
      BY <2>2, <3>3 DEF Closure, Roots
    <3>5. Closure(w, C \ {d}) /\ Roots(w, C \ {d})
      BY <2>1, <2>2, <2>4, <3>4 DEF UngetPost
    <3> QED  BY <3>5
  <2>8. Calm(w, files, Env)
    BY <2>2, <2>4, <2>5, <2>6, <2>7 DEF UngetPost, Calm
  <2>9. Listing(Env) => cwd \notin Stamped(w)
    BY <1>2, <1>6, <2>2, <2>4 DEF UngetPost
  <2>10. IInv' /\ Env' = Env
    BY <1>1, <1>2, <2>8, <2>9, StaysCalm DEF Holdable
  <2>11. KeptStep
    <3> SUFFICES ASSUME NEW b \in Stamped(vfs), b \notin Stamped(w) PROVE Used(b)'
      BY <1>1 DEF KeptStep, Stamped
    <3>1. Outer(u) \subseteq Outer(w)
      BY <2>2, <2>4 DEF UngetPost, Outer
    <3>2. b = cwd \/ b \in Outer(w) \/ (b = p /\ p \in Stamped(u))
      BY <1>2, <1>5, <2>2, <2>4, <3>1 DEF UngetPost
    <3>3. CASE b = p /\ p \in Stamped(u)
      <4>1. u.fd_usage[p] = 0 \/ ~Listing(Env)
        BY <1>8, <2>1, <3>3 DEF Idle, Spared, Listing
      <4>2. u.fd_usage[p] = 0 => c.fd_usage[p] = 1
        BY <2>1, <2>2 DEF Vfs
      <4>3. ~LastCopy(c, d, Env)
        BY <2>4, <3>3 DEF UngetPost
      <4>4. ~Listing(Env) \/ p = cwd \/ \E q \in Panels : dir[q] = p
        BY <1>2, <1>8, <2>1, <2>2, <4>1, <4>2, <4>3 DEF LastCopy
      <4> QED  BY <1>1, <2>10, <3>3, <4>4, UsedAfter
    <3> QED  BY <1>1, <3>2, <3>3, UsedAfter
  <2> QED  BY <2>10, <2>11
<1> QED  BY <1>7, <1>8

(* The other panel gets the focus.                                         *)
LEMMA FocusKeeps ==
  ASSUME IInv, Focus
  PROVE  IInv' /\ KeptStep
<1> DEFINE p == Other(current)
           env == [Env EXCEPT !.current = p]
           w == mc_chdir(vfs, dir[p], env)
<1>1. /\ Loop /\ held' = Local /\ view[p] = "view_listing" /\ vfs' = w /\ cwd' = dir[p] /\ current' = p
      /\ UNCHANGED <<dir, view, files, phase>>
  BY DEF Focus, Running
<1>2. /\ Calm(vfs, files, Env) /\ Env \in Envs /\ Env.present
      /\ Env.cwd = cwd /\ Env.dir = dir /\ Env.view = view /\ Env.current = current
      /\ dir \in [Panels -> Dir] /\ current \in Panels /\ files \subseteq Archive
      /\ cwd = dir[current] /\ view[current] = "view_listing"
  BY <1>1, CalmNow
<1>3. p \in Panels /\ dir[p] \in Dir
  BY <1>2, PanelFacts
<1> HIDE DEF p
<1>4. /\ env \in Envs /\ env.cwd = cwd /\ env.dir = dir /\ env.view = view /\ env.current = p
      /\ env.present
  BY <1>2, <1>3 DEF Envs
<1>5. (\A a : Spared(a, env) <=> Spared(a, Env)) /\ (Listing(env) <=> Listing(Env))
  BY <1>2, <1>4 DEF Spared, Listing
<1> HIDE DEF env
<1>6. Calm(vfs, files, env)
  BY <1>2, <1>5, CalmEnv DEF SameSpared
<1>7. /\ Calm(w, files, env)
      /\ \A b \in Stamped(vfs) : b \in Stamped(w) \/ b = cwd \/ b = dir[p] \/ b \in Outer(w)
      /\ dir[p] \notin Stamped(w)
  BY <1>3, <1>4, <1>6, ChdirCalm
<1> HIDE DEF w
<1> DEFINE new == [env EXCEPT !.cwd = dir[p]]
<1>8. /\ new \in Envs /\ new.cwd = dir[p] /\ new.dir = dir /\ new.view = view
      /\ new.current = p /\ new.present
  BY <1>3, <1>4 DEF Envs, Dir
<1>9. \A a : Spared(a, new) <=> Spared(a, env)
  BY <1>4, <1>8 DEF Spared
<1> HIDE DEF new
<1>10. Calm(w, files, new)
  BY <1>7, <1>9, CalmEnv DEF SameSpared
<1>11. IInv'
  BY <1>1, <1>2, <1>3, <1>7, <1>8, <1>10, CalmAfter DEF Holdable
<1>12. KeptStep
  <2> SUFFICES ASSUME NEW b \in Stamped(vfs), b \notin Stamped(w) PROVE Used(b)'
    BY <1>1 DEF KeptStep, Stamped
  <2>1. b = dir[current] \/ b = dir[p] \/ b \in Outer(w)
    BY <1>2, <1>7
  <2> QED  BY <1>1, <1>2, <1>3, <2>1, UsedAfter
<1> QED  BY <1>11, <1>12

(* A panel becomes a listing.                                              *)
LEMMA ListKeeps ==
  ASSUME IInv, NEW p \in Panels, List(p)
  PROVE  IInv' /\ KeptStep
<1> DEFINE there == mc_chdir(vfs, dir[p], Env)
           env == [Env EXCEPT !.cwd = dir[p]]
           w == mc_chdir(there, cwd, env)
           new == [Env EXCEPT !.view[p] = "view_listing"]
<1>1. /\ Loop /\ held' = Local /\ view[p] = "view_info" /\ vfs' = w
      /\ view' = [view EXCEPT ![p] = "view_listing"]
      /\ UNCHANGED <<cwd, dir, current, files, phase>>
  BY DEF List, Running
<1>2. /\ Calm(vfs, files, Env) /\ Env \in Envs /\ Env.present
      /\ Env.cwd = cwd /\ Env.dir = dir /\ Env.view = view /\ Env.current = current
      /\ dir \in [Panels -> Dir] /\ current \in Panels /\ files \subseteq Archive
      /\ cwd \in Dir /\ cwd = dir[current] /\ view[current] = "view_listing"
      /\ view \in [Panels -> Views]
  BY <1>1, CalmNow
<1>3. dir[p] \in Dir /\ p # current
  BY <1>1, <1>2
<1>4. /\ env \in Envs /\ env.cwd = dir[p] /\ env.dir = dir /\ env.view = view
      /\ env.current = current /\ env.present
  BY <1>2, <1>3 DEF Envs, Dir
<1>5. ~Listing(env) /\ ~Listing(Env) /\ \A a : Spared(a, env) <=> Spared(a, Env)
  BY <1>1, <1>2, <1>4 DEF Spared, Listing
<1>6. /\ Calm(there, files, Env) /\ dir[p] \notin Stamped(there)
      /\ \A b \in Stamped(vfs) : b \in Stamped(there) \/ b = cwd \/ b = dir[p] \/ b \in Outer(there)
  BY <1>2, <1>3, ChdirCalm
<1> HIDE DEF there, env
<1>7. Calm(there, files, env)
  BY <1>5, <1>6, CalmEnv DEF SameSpared
<1>8. /\ Calm(w, files, env) /\ cwd \notin Stamped(w) /\ there.loaded \subseteq w.loaded
      /\ \A b \in Stamped(there) : b \in Stamped(w) \/ b = dir[p] \/ b = cwd \/ b \in Outer(w)
      /\ \A b \in Stamped(w) : b \in Stamped(there)
  BY <1>2, <1>4, <1>5, <1>7, ChdirCalm
<1> HIDE DEF w
<1>9. /\ new \in Envs /\ new.cwd = cwd /\ new.dir = dir
      /\ new.view = [view EXCEPT ![p] = "view_listing"] /\ new.current = current /\ new.present
  <2> DEFINE nv == [view EXCEPT ![p] = "view_listing"]
  <2>1. nv \in [Panels -> Views]
    BY <1>2 DEF Views
  <2>2. new = [Env EXCEPT !.view = nv]
    BY <1>2 DEF Envs
  <2> HIDE DEF nv, new
  <2>3. new \in Envs /\ new.cwd = cwd /\ new.dir = dir /\ new.view = nv /\ new.current = current
        /\ new.present = Env.present
    BY <1>2, <2>1, <2>2 DEF Envs
  <2> QED  BY <1>2, <2>3 DEF nv
<1> HIDE DEF new
<1>10. new.view[current] = "view_listing"
  BY <1>2, <1>3, <1>9
<1>11. Calm(w, files, new)
  <2>1. ASSUME NEW b \in Stamped(w) \cap Extfs PROVE w.fd_usage[b] = 0 \/ Spared(b, new)
    <3>1. CASE Spared(b, env)
      <4>1. PICK q \in Panels : view[q] # "view_listing" /\ dir[q] = b
        BY <1>4, <3>1 DEF Spared
      <4>2. q # p
        BY <1>6, <1>8, <4>1
      <4>3. new.view[q] = view[q]
        BY <1>2, <1>9, <4>2
      <4> QED  BY <1>9, <4>1, <4>3 DEF Spared
    <3> QED  BY <1>8, <3>1 DEF Calm, Idle
  <2> QED  BY <1>8, <2>1 DEF Calm, Idle
<1>12. IInv'
  BY <1>1, <1>2, <1>8, <1>9, <1>10, <1>11, CalmAfter DEF Holdable
<1>13. KeptStep
  <2> SUFFICES ASSUME NEW b \in Stamped(vfs), b \notin Stamped(w) PROVE Used(b)'
    BY <1>1 DEF KeptStep, Stamped
  <2>1. Outer(there) \subseteq Outer(w)
    BY <1>8 DEF Outer
  <2>2. b = cwd \/ b = dir[p] \/ b \in Outer(w)
    BY <1>6, <1>8, <2>1
  <2> QED  BY <1>1, <2>2, UsedAfter
<1> QED  BY <1>12, <1>13

(* A panel stops being a listing.                                          *)
LEMMA InfoKeeps ==
  ASSUME IInv, NEW p \in Panels, Info(p)
  PROVE  IInv' /\ KeptStep
<1> DEFINE q == Other(p)
           env == [Env EXCEPT !.view[p] = "view_info", !.current = q]
           left == IF p = current THEN mc_chdir(vfs, dir[q], env) ELSE vfs
           w == vfs_addstamp(left, dir[p])
           here == IF p = current THEN dir[q] ELSE cwd
           new == [env EXCEPT !.cwd = here]
<1>1. /\ Loop /\ held' = Local /\ \A r \in Panels : view[r] = "view_listing"
      /\ vfs' = w /\ cwd' = here /\ view' = env.view /\ current' = q
      /\ UNCHANGED <<dir, files, phase>>
  BY DEF Info, Running
<1>2. /\ Calm(vfs, files, Env) /\ Env \in Envs /\ Env.present
      /\ Env.cwd = cwd /\ Env.dir = dir /\ Env.view = view /\ Env.current = current
      /\ dir \in [Panels -> Dir] /\ current \in Panels /\ files \subseteq Archive
      /\ cwd \in Dir /\ cwd = dir[current] /\ view \in [Panels -> Views]
  BY <1>1, CalmNow
<1>3. q \in Panels /\ q # p /\ dir[q] \in Dir /\ dir[p] \in Dir /\ Panels = {p, q}
  BY <1>2, PanelFacts
<1> HIDE DEF q
<1>4. here \in Dir /\ here = dir[q]
  BY <1>2, <1>3
<1> HIDE DEF here
<1>5. /\ env \in Envs /\ env.cwd = cwd /\ env.dir = dir /\ env.current = q /\ env.present
      /\ env.view = [view EXCEPT ![p] = "view_info"]
  <2> DEFINE nv == [view EXCEPT ![p] = "view_info"]
             e1 == [Env EXCEPT !.view = nv]
  <2>1. nv \in [Panels -> Views]
    BY <1>2 DEF Views
  <2>2. env = [e1 EXCEPT !.current = q]
    BY <1>2 DEF Envs
  <2> HIDE DEF nv, env
  <2>3. e1 \in Envs /\ e1.cwd = cwd /\ e1.dir = dir /\ e1.view = nv /\ e1.present = Env.present
    BY <1>2, <2>1 DEF Envs
  <2> HIDE DEF e1
  <2>4. env \in Envs /\ env.cwd = cwd /\ env.dir = dir /\ env.view = nv /\ env.current = q
        /\ env.present = Env.present
    BY <1>3, <2>2, <2>3 DEF Envs
  <2> QED  BY <1>2, <2>4 DEF nv
<1> HIDE DEF env
<1>6. env.view[p] # "view_listing" /\ env.view[q] = "view_listing" /\ ~Listing(env)
  BY <1>1, <1>2, <1>3, <1>5 DEF Listing
<1>7. \A a : ~Spared(a, Env)
  BY <1>1, <1>2 DEF Spared
<1>8. Calm(vfs, files, env)
  BY <1>2, <1>7, CalmEnv DEF SameSpared
<1>9. /\ Calm(left, files, env)
      /\ \A b \in Stamped(vfs) : b \in Stamped(left) \/ b = cwd \/ b = dir[q] \/ b \in Outer(left)
  <2>1. CASE p = current
    <3>1. left = mc_chdir(vfs, dir[q], env)
      BY <2>1
    <3> QED  BY <1>3, <1>5, <1>8, <3>1, ChdirCalm
  <2>2. CASE p # current
    BY <1>8, <2>2
  <2> QED  BY <2>1, <2>2
<1> HIDE DEF left
<1>10. /\ Restamped(left, w, Gone)
       /\ Stamped(w) = IF dir[p] \in left.loaded THEN Stamped(left) \cup {dir[p]} ELSE Stamped(left)
  BY <1>9, AddstampIs DEF Calm
<1> HIDE DEF w
<1>11. Spared(dir[p], env)
  BY <1>5, <1>6 DEF Spared
<1>12. Calm(w, files, env) /\ Outer(w) = Outer(left) /\ Stamped(left) \subseteq Stamped(w)
  <2>1. \A b \in Stamped(w) \cap Extfs : b \in Stamped(left) \/ Spared(b, env)
    BY <1>10, <1>11
  <2>2. Calm(w, files, env)
    BY <1>9, <1>10, <2>1, CalmRestamped DEF Calm
  <2>3. SameBooks(left, w)
    BY <1>10 DEF Restamped
  <2>4. Outer(w) = Outer(left)
    BY <2>3, SameBooksFacts
  <2>5. Stamped(left) \subseteq Stamped(w)
    BY <1>10
  <2> QED  BY <2>2, <2>4, <2>5
<1>13. /\ new \in Envs /\ new.cwd = here /\ new.dir = dir /\ new.view = env.view
       /\ new.current = q /\ new.present
  BY <1>4, <1>5 DEF Envs
<1>14. Calm(w, files, new) /\ ~Listing(new)
  <2>1. (\A a : Spared(a, new) <=> Spared(a, env)) /\ ~Listing(new)
    BY <1>5, <1>6, <1>13, ZenonT(60) DEF Spared, Listing
  <2> QED  BY <1>12, <2>1, CalmEnv DEF SameSpared
<1> HIDE DEF new
<1>15. IInv'
  BY <1>1, <1>2, <1>4, <1>6, <1>13, <1>14, CalmAfter DEF Holdable
<1>16. KeptStep
  <2> SUFFICES ASSUME NEW b \in Stamped(vfs), b \notin Stamped(w) PROVE Used(b)'
    BY <1>1 DEF KeptStep, Stamped
  <2>1. b = dir[current] \/ b = dir[q] \/ b \in Outer(w)
    BY <1>2, <1>9, <1>12
  <2> QED  BY <1>1, <1>2, <1>3, <2>1, UsedAfter
<1> QED  BY <1>15, <1>16

(* An open file counts once.                                               *)
LEMMA OpenCounts ==
  \A open, e : Cardinality(open \cap {e}) = IF e \in open THEN 1 ELSE 0
<1> TAKE open, e
<1>1. Cardinality({e}) = 1 /\ Cardinality({}) = 0
  BY FS_Singleton, FS_EmptySet
<1>2. CASE e \in open
  <2>1. open \cap {e} = {e}
    BY <1>2
  <2> QED  BY <1>1, <1>2, <2>1
<1>3. CASE e \notin open
  <2>1. open \cap {e} = {}
    BY <1>3
  <2> QED  BY <1>1, <1>3, <2>1
<1> QED  BY <1>2, <1>3

(* The use count of a follows its open files.                              *)
LEMMA OpenBooks ==
  ASSUME NEW u \in Vfs, NEW w \in Vfs, NEW open, NEW now, NEW a \in Archive,
         Books(u, open, Gone), a \in u.loaded \/ a \notin Extfs,
         w.loaded = u.loaded, w.kept = u.kept, w.copied = u.copied,
         \/ now = open \cup {a} /\ a \notin open
            /\ \A e \in Extfs : w.fd_usage[e] =
                 IF e = a THEN u.fd_usage[e] + 1 ELSE u.fd_usage[e]
         \/ now = open \ {a} /\ a \in open
            /\ \A e \in Extfs : w.fd_usage[e] =
                 IF e = a THEN u.fd_usage[e] - 1 ELSE u.fd_usage[e]
  PROVE  Books(w, now, Gone)
<1>1. u.copied \in SUBSET Archive
  BY DEF Vfs
<1>2. ASSUME NEW e \in Extfs
      PROVE  w.fd_usage[e] = Cardinality(now \cap {e}) + w.kept[e] + Cardinality(Loans(w.copied, e))
  <2> DEFINE j == Cardinality(Loans(u.copied, e))
             k == u.kept[e]
             i == Cardinality(open \cap {e})
             n == Cardinality(now \cap {e})
  <2>1. j \in Nat /\ k \in Nat
    BY <1>1, LoansCount, StampFacts DEF Vfs
  <2>2. i = (IF e \in open THEN 1 ELSE 0) /\ n = (IF e \in now THEN 1 ELSE 0)
    BY OpenCounts
  <2>3. u.fd_usage[e] = i + k + j /\ w.kept[e] = k /\ Loans(w.copied, e) = Loans(u.copied, e)
    BY DEF Books
  <2> HIDE DEF i, j, k, n
  <2>4. w.fd_usage[e] = n + k + j
    <3>1. CASE now = open \cup {a} /\ a \notin open
               /\ w.fd_usage[e] = IF e = a THEN u.fd_usage[e] + 1 ELSE u.fd_usage[e]
      <4>1. CASE e = a
        BY <2>1, <2>2, <2>3, <3>1, <4>1
      <4>2. CASE e # a
        BY <2>2, <2>3, <3>1, <4>2
      <4> QED  BY <4>1, <4>2
    <3>2. CASE now = open \ {a} /\ a \in open
               /\ w.fd_usage[e] = IF e = a THEN u.fd_usage[e] - 1 ELSE u.fd_usage[e]
      <4>1. CASE e = a
        BY <2>1, <2>2, <2>3, <3>2, <4>1
      <4>2. CASE e # a
        BY <2>2, <2>3, <3>2, <4>2
      <4> QED  BY <4>1, <4>2
    <3> QED  BY <3>1, <3>2
  <2> QED  BY <2>3, <2>4 DEF n, j
<1>3. ASSUME NEW e \in Extfs, e \notin w.loaded PROVE w.fd_usage[e] = 0
  BY <1>3 DEF Books
<1> QED  BY <1>2, <1>3 DEF Books

(* A file in an archive that is there is opened: its use is counted.       *)
LEMMA OpenedCalm ==
  ASSUME NEW u, NEW open, NEW env, Calm(u, open, env), NEW a \in u.loaded, a \in Extfs,
         a \notin open
  PROVE  LET w == Opened(u, a) IN
         /\ Calm(w, open \cup {a}, env) /\ w.loaded = u.loaded
         /\ Stamped(w) \subseteq Stamped(u) /\ Stamped(u) \subseteq Stamped(w) \cup {a}
<1> DEFINE r == vfs_rmstamp(u, a)
           now == open \cup {a}
           w == Opened(u, a)
<1>1. u \in Vfs /\ u.at = 0 /\ Sound(u, Gone) /\ Books(u, open, Gone) /\ a # Gone
      /\ a \in Archive /\ a \in Place
  BY StampFacts DEF Calm
<1>2. w = [r EXCEPT !.fd_usage[a] = @ + 1]
  BY DEF Opened
<1>3. /\ Restamped(u, r, Gone) /\ a \notin Stamped(r)
      /\ Stamped(r) \subseteq Stamped(u) /\ Stamped(u) \subseteq Stamped(r) \cup {a}
  BY <1>1, RmstampIs
<1> HIDE DEF r, w, now
<1>4. r \in Vfs /\ SameBooks(u, r) /\ Sound(r, Gone) /\ r.at = 0 /\ r.fd_usage[a] \in Nat
  BY <1>1, <1>3 DEF Restamped, Vfs
<1>5. /\ w \in Vfs /\ w.loaded = r.loaded /\ w.copied = r.copied /\ w.kept = r.kept
      /\ w.stamps = r.stamps /\ w.at = r.at
      /\ w.fd_usage = [r.fd_usage EXCEPT ![a] = @ + 1]
  BY <1>1, <1>2, <1>4, CountUp
<1>6. Sound(w, Gone) /\ Stamped(w) = Stamped(r)
  BY <1>4, <1>5, SameStamps
<1>7. \A e \in Archive : w.fd_usage[e] = IF e = a THEN u.fd_usage[e] + 1 ELSE u.fd_usage[e]
  BY <1>4, <1>5 DEF SameBooks, Vfs
<1>8. w.loaded = u.loaded /\ w.copied = u.copied /\ w.kept = u.kept
  BY <1>4, <1>5 DEF SameBooks
<1>9. Books(w, now, Gone)
  <2>1. \A e \in Extfs : w.fd_usage[e] = IF e = a THEN u.fd_usage[e] + 1 ELSE u.fd_usage[e]
    BY <1>7, StampFacts
  <2>2. now = open \cup {a}
    BY DEF now
  <2> QED  BY <1>1, <1>5, <1>8, <2>1, <2>2, OpenBooks
<1>10. Idle(w, env)
  <2> SUFFICES ASSUME NEW b \in Stamped(w) \cap Extfs
               PROVE  w.fd_usage[b] = 0 \/ Spared(b, env)
    BY DEF Idle
  <2>1. b \in Stamped(u) /\ b # a
    BY <1>3, <1>6
  <2>2. w.fd_usage[b] = u.fd_usage[b]
    BY <1>7, <2>1, StampFacts
  <2> QED  BY <2>1, <2>2 DEF Calm, Idle
<1>11. Held(w)
  BY <1>8 DEF Calm, Held
<1>12. \E C : Closure(w, C) /\ Roots(w, C)
  <2>1. \A C : Closure(u, C) /\ Roots(u, C) => Closure(w, C) /\ Roots(w, C)
    BY <1>8 DEF Closure, Roots
  <2> QED  BY <2>1 DEF Calm
<1> QED
  BY <1>3, <1>4, <1>5, <1>6, <1>8, <1>9, <1>10, <1>11, <1>12 DEF Calm, w, now

(* A file in an archive is opened.                                         *)
LEMMA OpenKeeps ==
  ASSUME IInv, NEW a \in Archive, Open(a)
  PROVE  IInv' /\ KeptStep
<1> DEFINE u == Load(vfs, a, Env)
           now == files \cup {a}
           w == IF a \in Extfs THEN Opened(u, a) ELSE u
<1>1. /\ Loop /\ held' = Local /\ a \notin files /\ vfs' = w /\ files' = now
      /\ UNCHANGED <<cwd, dir, view, current, phase>>
  BY DEF Open, Running
<1>2. /\ Calm(vfs, files, Env) /\ Env \in Envs /\ Env.cwd = cwd /\ files \subseteq Archive
      /\ Listing(Env) => cwd \notin Stamped(vfs)
  BY <1>1, CalmNow
<1>3. /\ Calm(u, files, Env) /\ Carries(vfs, u, Env) /\ a \in u.loaded
  <2>1. a \in Place /\ a # Local
    BY StampFacts
  <2> QED  BY <1>2, <2>1, LoadCalm
<1> HIDE DEF u
<1>4. /\ Calm(w, now, Env) /\ w.loaded = u.loaded
      /\ Stamped(w) \subseteq Stamped(u) /\ Stamped(u) \subseteq Stamped(w) \cup {a}
  <2>1. CASE a \notin Extfs
    <3>1. w = u /\ u \in Vfs /\ Books(u, files, Gone)
      BY <1>3, <2>1 DEF Calm
    <3>2. Books(w, now, Gone)
      BY <1>1, <2>1, <3>1, OpenBooks
    <3> QED  BY <1>3, <3>1, <3>2 DEF Calm
  <2>2. CASE a \in Extfs
    <3>1. w = Opened(u, a)
      BY <2>2
    <3> HIDE DEF w
    <3> QED  BY <1>1, <1>3, <2>2, <3>1, OpenedCalm
  <2> QED  BY <2>1, <2>2
<1> HIDE DEF w, now
<1>5. now \subseteq Archive
  BY <1>2 DEF now
<1>6. Listing(Env) => cwd \notin Stamped(w)
  BY <1>2, <1>3, <1>4 DEF Carries
<1>7. IInv'
  BY <1>1, <1>4, <1>5, <1>6, StaysCalm DEF Holdable
<1>8. KeptStep
  <2> SUFFICES ASSUME NEW b \in Stamped(vfs), b \notin Stamped(w) PROVE Used(b)'
    BY <1>1 DEF KeptStep, Stamped
  <2>1. b = cwd \/ b \in Outer(w) \/ b \in now
    BY <1>2, <1>3, <1>4 DEF Carries, Outer, now
  <2> QED  BY <1>1, <2>1, UsedAfter
<1> QED  BY <1>7, <1>8

(* A helper has something to say while a file is copied out.               *)
LEMMA CopyoutWarnsKeeps ==
  ASSUME IInv, NEW a \in Extfs, CopyoutWarns(a)
  PROVE  IInv' /\ KeptStep
<1> DEFINE w == Load(vfs, a, Env)
<1>1. Loop /\ held' = a /\ vfs' = w /\ UNCHANGED <<cwd, dir, view, current, files, phase>>
  BY DEF CopyoutWarns, Running
<1>2. /\ Calm(vfs, files, Env) /\ Env \in Envs /\ Env.cwd = cwd /\ files \subseteq Archive
      /\ Listing(Env) => cwd \notin Stamped(vfs)
  BY <1>1, CalmNow
<1>3. Calm(w, files, Env) /\ Carries(vfs, w, Env) /\ a \in w.loaded
  <2>1. a \in Place /\ a # Local
    BY StampFacts
  <2> QED  BY <1>2, <2>1, LoadCalm
<1> HIDE DEF w
<1>4. IInv'
  <2>1. held' \in Holdable(vfs')
    BY <1>1, <1>3 DEF Holdable
  <2> QED  BY <1>1, <1>2, <1>3, <2>1, StaysCalm DEF Carries
<1>5. KeptStep
  <2> SUFFICES ASSUME NEW b \in Stamped(vfs), b \notin Stamped(w) PROVE Used(b)'
    BY <1>1 DEF KeptStep, Stamped
  <2>1. b = cwd \/ b \in Outer(w)
    BY <1>2, <1>3 DEF Carries
  <2> QED  BY <1>1, <2>1, UsedAfter
<1> QED  BY <1>4, <1>5

(* The message is closed, and the file is opened after all.                *)
LEMMA OpenEndsKeeps ==
  ASSUME IInv, OpenEnds
  PROVE  IInv' /\ KeptStep
<1> DEFINE now == files \cup {held}
           w == Opened(vfs, held)
<1>1. /\ Loop /\ held' = Local /\ held \in Extfs \ files /\ vfs' = w /\ files' = now
      /\ UNCHANGED <<cwd, dir, view, current, phase>>
  BY DEF OpenEnds, Message
<1>2. /\ Calm(vfs, files, Env) /\ Env \in Envs /\ Env.cwd = cwd /\ files \subseteq Archive
      /\ Listing(Env) => cwd \notin Stamped(vfs)
      /\ held \in Holdable(vfs)
  BY <1>1, CalmNow
<1>3. held \in vfs.loaded /\ held \in Archive
  BY <1>1, <1>2, StampFacts DEF Holdable
<1>4. /\ Calm(w, now, Env) /\ w.loaded = vfs.loaded
      /\ Stamped(w) \subseteq Stamped(vfs) /\ Stamped(vfs) \subseteq Stamped(w) \cup {held}
  BY <1>1, <1>2, <1>3, OpenedCalm
<1> HIDE DEF w
<1>5. now \subseteq Archive
  BY <1>2, <1>3
<1> HIDE DEF now
<1>6. Listing(Env) => cwd \notin Stamped(w)
  BY <1>2, <1>4
<1>7. IInv'
  BY <1>1, <1>4, <1>5, <1>6, StaysCalm DEF Holdable
<1>8. KeptStep
  <2> SUFFICES ASSUME NEW b \in Stamped(vfs), b \notin Stamped(w) PROVE Used(b)'
    BY <1>1 DEF KeptStep, Stamped
  <2>1. b \in now
    BY <1>4 DEF now
  <2> QED  BY <1>1, <2>1, UsedAfter
<1> QED  BY <1>7, <1>8

(* Or the archive in that file is read.                                    *)
LEMMA ReadEndsKeeps ==
  ASSUME IInv, NEW n \in Archive, ReadEnds(n)
  PROVE  IInv' /\ KeptStep
<1> DEFINE w == ReadArchive(Copied(vfs, n, Env), n, Env)
<1>1. /\ Loop /\ held # Local /\ held' = Local /\ Parent[n] = held /\ n \notin vfs.loaded
      /\ vfs' = w /\ UNCHANGED <<cwd, dir, view, current, files, phase>>
  BY DEF ReadEnds, Message
<1>2. /\ Calm(vfs, files, Env) /\ Env \in Envs /\ Env.cwd = cwd /\ files \subseteq Archive
      /\ Listing(Env) => cwd \notin Stamped(vfs)
      /\ held \in Holdable(vfs)
  BY <1>1, CalmNow
<1>3. Parent[n] \in vfs.loaded
  BY <1>1, <1>2, ArchiveFacts, StampFacts DEF Holdable, Place
<1>4. Calm(w, files, Env) /\ Carries(vfs, w, Env)
  BY <1>1, <1>2, <1>3, ReadCalm
<1> HIDE DEF w
<1>5. IInv'
  BY <1>1, <1>2, <1>4, StaysCalm DEF Carries, Holdable
<1>6. KeptStep
  <2> SUFFICES ASSUME NEW b \in Stamped(vfs), b \notin Stamped(w) PROVE Used(b)'
    BY <1>1 DEF KeptStep, Stamped
  <2>1. b = cwd \/ b \in Outer(w)
    BY <1>2, <1>4 DEF Carries
  <2> QED  BY <1>1, <2>1, UsedAfter
<1> QED  BY <1>5, <1>6

(* The file could not be copied out.                                       *)
LEMMA CopyoutFailsKeeps ==
  ASSUME IInv, CopyoutFails
  PROVE  IInv' /\ KeptStep
<1>1. Loop /\ held' = Local /\ UNCHANGED <<vfs, cwd, dir, view, current, files, phase>>
  BY DEF CopyoutFails, Message
<1>2. /\ Calm(vfs, files, Env) /\ files \subseteq Archive
      /\ Listing(Env) => cwd \notin Stamped(vfs)
  BY <1>1, CalmNow
<1>3. IInv'
  BY <1>1, <1>2, StaysCalm DEF Holdable
<1> QED  BY <1>1, <1>3 DEF KeptStep

(* The archive has been freed under the message: nothing more is said.     *)
LEMMA DanglesKeeps ==
  ASSUME IInv, Dangles
  PROVE  IInv' /\ KeptStep
<1>1. /\ Loop /\ phase' = "undefined"
      /\ UNCHANGED <<vfs, cwd, dir, view, current, files, held>>
  BY DEF Dangles, Message
<1>2. TypeOK'
  BY <1>1 DEF IInv, TypeOK
<1>3. IInv'
  BY <1>1, <1>2 DEF IInv, Loop
<1> QED  BY <1>1, <1>3 DEF KeptStep

(* A file in an archive is closed.                                         *)
LEMMA CloseKeeps ==
  ASSUME IInv, NEW a \in Archive, Close(a)
  PROVE  IInv' /\ KeptStep
<1> DEFINE l == [vfs EXCEPT !.fd_usage[a] = @ - 1]
           now == files \ {a}
           w == IF a \in Extfs THEN Closed(vfs, a, Env) ELSE vfs
<1>1. /\ Loop /\ held' = Local /\ a \in files /\ vfs' = w /\ files' = now
      /\ UNCHANGED <<cwd, dir, view, current, phase>>
  BY DEF Close, Running
<1>2. /\ Calm(vfs, files, Env) /\ Env \in Envs /\ Env.cwd = cwd /\ files \subseteq Archive
      /\ Listing(Env) => cwd \notin Stamped(vfs)
  BY <1>1, CalmNow
<1>3. vfs \in Vfs /\ vfs.at = 0 /\ Sound(vfs, Gone) /\ Books(vfs, files, Gone) /\ a \in Place
  BY <1>2, StampFacts DEF Calm
<1>4. Calm(w, now, Env) /\ Carries(vfs, w, Env)
  <2>1. CASE a \notin Extfs
    <3>1. w = vfs /\ \A e \in Extfs : e # a
      BY <2>1
    <3>2. Books(w, now, Gone)
      BY <1>1, <1>3, <2>1, <3>1, OpenBooks
    <3> QED  BY <1>2, <3>1, <3>2 DEF Calm, Carries
  <2>2. CASE a \in Extfs
    <3> DEFINE d == -1
    <3>1. vfs.fd_usage[a] \in Nat /\ vfs.fd_usage[a] # 0
      <4>1. vfs.fd_usage[a] \in Nat
        BY <1>3 DEF Vfs
      <4> QED  BY <1>1, <1>3, <2>2, <4>1, Unused
    <3>2. w = IF l.fd_usage[a] = 0 THEN vfs_stamp_create(l, a, Env) ELSE l
      BY <2>2 DEF Closed
    <3>3. l = [vfs EXCEPT !.fd_usage[a] = @ + d]
      BY <3>1
    <3>4. d \in Int /\ vfs.fd_usage[a] + d \in Nat /\ vfs.fd_usage[a] + d = vfs.fd_usage[a] - 1
      BY <3>1
    <3> HIDE DEF l, d, w
    <3>5. /\ l \in Vfs /\ l.loaded = vfs.loaded /\ l.copied = vfs.copied /\ l.kept = vfs.kept
          /\ l.stamps = vfs.stamps /\ l.at = vfs.at
          /\ l.fd_usage = [vfs.fd_usage EXCEPT ![a] = @ + d]
      BY <1>3, <3>3, <3>4, CountMoves, ZenonT(60)
    <3>6. Sound(l, Gone) /\ Stamped(l) = Stamped(vfs)
      BY <1>3, <3>5, SameStamps
    <3>7. \A e \in Archive : l.fd_usage[e] = IF e = a THEN vfs.fd_usage[e] - 1 ELSE vfs.fd_usage[e]
      BY <1>3, <3>4, <3>5 DEF Vfs
    <3>8. Books(l, now, Gone)
      <4>1. \A e \in Extfs :
              l.fd_usage[e] = IF e = a THEN vfs.fd_usage[e] - 1 ELSE vfs.fd_usage[e]
        BY <3>7, StampFacts
      <4> HIDE DEF now
      <4>2. now = files \ {a} /\ a \in files
        BY <1>1 DEF now
      <4>3. a \in vfs.loaded
        BY <1>3, <2>2, <3>1 DEF Books
      <4> QED  BY <1>3, <3>5, <4>1, <4>2, <4>3, OpenBooks
    <3>9. Idle(l, Env)
      <4> SUFFICES ASSUME NEW b \in Stamped(l) \cap Extfs
                   PROVE  l.fd_usage[b] = 0 \/ Spared(b, Env)
        BY DEF Idle
      <4>1. vfs.fd_usage[b] = 0 \/ Spared(b, Env)
        BY <1>2, <3>6 DEF Calm, Idle
      <4> QED  BY <3>1, <3>7, <4>1, StampFacts
    <3>10. Held(l) /\ \E C : Closure(l, C) /\ Roots(l, C)
      <4>1. Held(l)
        BY <1>2, <3>5 DEF Calm, Held
      <4>2. PICK C : Closure(vfs, C) /\ Roots(vfs, C)
        BY <1>2 DEF Calm
      <4>3. Closure(l, C) /\ Roots(l, C)
        BY <3>5, <4>2 DEF Closure, Roots
      <4> QED  BY <4>1, <4>3
    <3>11. Calm(l, now, Env)
      BY <1>3, <3>5, <3>6, <3>8, <3>9, <3>10 DEF Calm
    <3>12. Calm(w, now, Env) /\ Carries(l, w, Env)
      <4>1. CASE l.fd_usage[a] = 0
        <5>1. w = vfs_stamp_create(l, a, Env)
          BY <3>2, <4>1
        <5> QED  BY <1>2, <1>3, <3>11, <5>1, CreateCalm
      <4>2. CASE l.fd_usage[a] # 0
        <5>1. w = l
          BY <3>2, <4>2
        <5> QED  BY <3>11, <5>1 DEF Carries
      <4> QED  BY <4>1, <4>2
    <3> QED  BY <3>5, <3>6, <3>12 DEF Carries
  <2> QED  BY <2>1, <2>2
<1> HIDE DEF w
<1>5. Listing(Env) => cwd \notin Stamped(w)
  BY <1>2, <1>4 DEF Carries
<1>6. IInv'
  BY <1>1, <1>2, <1>4, <1>5, StaysCalm DEF Holdable
<1>7. KeptStep
  <2> SUFFICES ASSUME NEW b \in Stamped(vfs), b \notin Stamped(w) PROVE Used(b)'
    BY <1>1 DEF KeptStep, Stamped
  <2>1. b = cwd \/ b \in Outer(w)
    BY <1>2, <1>4 DEF Carries
  <2> QED  BY <1>1, <2>1, UsedAfter
<1> QED  BY <1>6, <1>7

(* Time passes.                                                            *)
LEMMA TickKeeps ==
  ASSUME IInv, Tick
  PROVE  IInv' /\ KeptStep
<1> DEFINE t == [k \in DOMAIN vfs.stamps |-> Older(vfs.stamps[k])]
<1>1. Loop /\ held' = held /\ vfs' = [vfs EXCEPT !.stamps = t]
      /\ UNCHANGED <<cwd, dir, view, current, files, phase>>
  BY DEF Tick
<1>2. /\ Calm(vfs, files, Env) /\ Env.cwd = cwd /\ files \subseteq Archive
      /\ Listing(Env) => cwd \notin Stamped(vfs)
      /\ held \in Holdable(vfs)
  BY <1>1, CalmNow
<1>3. vfs \in Vfs /\ vfs.at = 0 /\ Sound(vfs, Gone)
  BY <1>2 DEF Calm
<1>4. \A s \in Stamp : Older(s) \in Stamp /\ Older(s).id = s.id
  <2> SUFFICES ASSUME NEW s \in Stamp PROVE Older(s) \in Stamp /\ Older(s).id = s.id
    OBVIOUS
  <2>1. s = [id |-> s.id, age |-> s.age] /\ s.age \in 0 .. Old /\ s.id \in Archive \cup {Gone}
        /\ Old \in Nat
    BY StampFacts DEF Stamp
  <2> DEFINE n == IF s.age < Old THEN s.age + 1 ELSE Old
  <2>2. Older(s) = [id |-> s.id, age |-> n]
    BY <2>1 DEF Older
  <2>3. n \in 0 .. Old
    BY <2>1
  <2> HIDE DEF n
  <2> QED  BY <2>1, <2>2, <2>3, StampFacts
<1>5. vfs.stamps \in Seq(Stamp) /\ DOMAIN vfs.stamps = 1 .. Len(vfs.stamps)
      /\ Len(vfs.stamps) \in Nat
  BY <1>3 DEF Vfs
<1>6. /\ t \in Seq(Stamp) /\ Len(t) = Len(vfs.stamps)
      /\ \A k \in DOMAIN vfs.stamps : t[k].id = vfs.stamps[k].id
  <2>1. \A k \in 1 .. Len(vfs.stamps) : vfs.stamps[k] \in Stamp
    BY <1>5
  <2>2. t \in [1 .. Len(vfs.stamps) -> Stamp]
    BY <1>4, <1>5, <2>1
  <2>3. t \in Seq(Stamp) /\ Len(t) = Len(vfs.stamps)
    BY <1>5, <2>2
  <2> QED  BY <1>4, <1>5, <2>1, <2>3
<1> HIDE DEF t
<1> DEFINE w == [vfs EXCEPT !.stamps = t]
<1>7. /\ w \in Vfs /\ SameBooks(vfs, w) /\ w.at = vfs.at /\ Len(w.stamps) = Len(vfs.stamps)
      /\ \A k \in DOMAIN vfs.stamps : w.stamps[k].id = vfs.stamps[k].id
  BY <1>3, <1>6 DEF Vfs, SameBooks
<1>8. vfs' = w
  BY <1>1
<1> HIDE DEF w
<1>9. Restamped(vfs, w, Gone) /\ Stamped(w) = Stamped(vfs)
  BY <1>3, <1>7, SameIds
<1>10. Calm(w, files, Env)
  BY <1>2, <1>3, <1>9, CalmRestamped
<1>11. IInv'
  <2>1. held' \in Holdable(vfs')
    BY <1>1, <1>2, <1>7, <1>8 DEF Holdable, SameBooks
  <2> QED  BY <1>1, <1>2, <1>8, <1>9, <1>10, <2>1, StaysCalm
<1>12. KeptStep
  BY <1>8, <1>9 DEF KeptStep, Stamped
<1> QED  BY <1>11, <1>12

(* A sweep begins while mc runs.                                           *)
LEMMA TimeoutKeeps ==
  ASSUME IInv, Timeout
  PROVE  IInv' /\ KeptStep
<1>1. /\ Loop /\ vfs.stamps # <<>> /\ vfs' = [vfs EXCEPT !.at = 1, !.stamps = vfs.stamps]
      /\ UNCHANGED <<cwd, dir, view, current, files, held, phase>>
  BY DEF Timeout, vfs_expire
<1>2. TypeOK /\ InvRunning /\ phase = "running" /\ vfs.at = 0 /\ vfs \in Vfs
  BY <1>1 DEF IInv, Loop, TypeOK
<1>3. /\ vfs' \in Vfs /\ vfs'.at = 1 /\ vfs'.stamps = vfs.stamps /\ vfs'.loaded = vfs.loaded
      /\ vfs'.fd_usage = vfs.fd_usage /\ vfs'.copied = vfs.copied /\ vfs'.kept = vfs.kept
  BY <1>1, <1>2 DEF Vfs
<1>4. Stamped(vfs') = Stamped(vfs)
  BY <1>3 DEF Stamped, Ids
<1>5. Sound(vfs', Gone)
  <2>1. Sound(vfs, Gone) /\ Len(vfs.stamps) \in Nat /\ DOMAIN vfs.stamps = 1 .. Len(vfs.stamps)
    BY <1>2 DEF IInv, Vfs
  <2>2. \A k \in DOMAIN vfs.stamps : vfs.stamps[k].id # Gone
    BY <1>2, <2>1 DEF Sound
  <2> QED  BY <1>3, <2>1, <2>2 DEF Sound
<1>6. SameBooks(vfs, vfs')
  BY <1>3 DEF SameBooks
<1>7. Books(vfs', files', Gone) /\ Held(vfs') /\ \E C : Closure(vfs', C) /\ Roots(vfs', C)
  BY <1>1, <1>2, <1>6, SameBooksFacts DEF IInv, InvRunning
<1>8. Env' = Env
  BY <1>1 DEF Env
<1>9. TypeOK'
  BY <1>1, <1>2, <1>3, <1>5 DEF TypeOK, Sound
<1>10. InvRunning'
  BY <1>1, <1>2, <1>3, <1>4, <1>7, <1>8 DEF InvRunning, Idle, Holdable
<1>11. KeptStep
  BY <1>4 DEF KeptStep, Stamped
<1> QED  BY <1>1, <1>2, <1>5, <1>7, <1>9, <1>10, <1>11 DEF IInv

-----------------------------------------------------------------------------
(* The turn of a stamp in a sweep.                                         *)

(* The position of the sweep moves on, the books stay.                     *)
LEMMA AtMoves ==
  ASSUME NEW v \in Vfs
  PROVE  LET w == SweptOn(v) IN
         w \in Vfs /\ SameBooks(v, w) /\ w.at = v.at + 1 /\ w.stamps = v.stamps
<1> DEFINE n == v.at + 1
<1>1. n \in Nat
  BY DEF Vfs
<1>2. SweptOn(v) = [v EXCEPT !.at = n]
  BY DEF SweptOn
<1> HIDE DEF n
<1>3. LET w == [v EXCEPT !.at = n] IN
      w \in Vfs /\ SameBooks(v, w) /\ w.at = n /\ w.stamps = v.stamps
  BY <1>1 DEF Vfs, SameBooks
<1> QED  BY <1>2, <1>3 DEF n

(* The sweep goes on to the next stamp.                                    *)
LEMMA SweptOnIs ==
  ASSUME NEW v \in Vfs, Sound(v, Gone), v.at \in DOMAIN v.stamps
  PROVE  LET w == SweptOn(v) IN
         /\ w \in Vfs /\ SameBooks(v, w) /\ Sound(w, Gone) /\ w.at # 0
         /\ Stamped(w) = Stamped(v)
<1> DEFINE w == SweptOn(v)
<1>1. v.at \in Nat /\ DOMAIN v.stamps = 1 .. Len(v.stamps) /\ Len(v.stamps) \in Nat
  BY DEF Vfs
<1>2. w \in Vfs /\ SameBooks(v, w) /\ w.at = v.at + 1 /\ w.stamps = v.stamps
  BY <1>1, AtMoves
<1> HIDE DEF w
<1>3. Stamped(w) = Stamped(v) /\ w.loaded = v.loaded
  BY <1>2 DEF Stamped, Ids, SameBooks
<1>4. Sound(w, Gone)
  <2>1. w.at <= Len(w.stamps) + 1
    BY <1>1, <1>2
  <2>2. \A k \in DOMAIN w.stamps : w.stamps[k].id = Gone => k < w.at
    BY <1>1, <1>2 DEF Sound
  <2> QED  BY <1>2, <1>3, <2>1, <2>2 DEF Sound
<1>5. w.at # 0
  BY <1>1, <1>2
<1> QED  BY <1>2, <1>3, <1>4, <1>5 DEF w

(* The stamp of the archive that was freed becomes NULL.                   *)
LEMMA DroppedIs ==
  ASSUME NEW v \in Vfs, NEW a \in Archive, Sound(v, a), a \notin v.loaded
  PROVE  LET w == SweptOn(Dropped(v)) IN
         /\ w \in Vfs /\ SameBooks(v, w) /\ Sound(w, Gone) /\ w.at # 0
         /\ Stamped(w) = Stamped(v) \ {a}
         /\ Behind(v) => Behind(w)
<1> DEFINE k == v.at
           n == Len(v.stamps)
           t == [v.stamps EXCEPT ![k].id = Gone]
           x == Dropped(v)
           w == SweptOn(x)
<1>1. /\ k \in Nat /\ DOMAIN v.stamps = 1 .. n /\ n \in Nat /\ a # Gone
      /\ k \in 1 .. n /\ v.stamps[k].id = a /\ v.stamps \in Seq(Stamp)
  BY StampFacts DEF Vfs, Sound
<1>2. /\ t \in Seq(Stamp) /\ Len(t) = n /\ DOMAIN t = 1 .. n
      /\ t[k].id = Gone /\ \A j \in 1 .. n : j # k => t[j] = v.stamps[j]
  <2> DEFINE r == v.stamps[k]
             g == [r EXCEPT !.id = Gone]
  <2>1. r \in Stamp
    BY <1>1
  <2>2. g \in Stamp /\ g.id = Gone
    <3> HIDE DEF r
    <3>1. r = [id |-> r.id, age |-> r.age] /\ r.age \in 0 .. Old
      BY <2>1 DEF Stamp
    <3>2. g = [id |-> Gone, age |-> r.age]
      BY <3>1
    <3> QED  BY <3>1, <3>2, StampFacts
  <2>3. t = [v.stamps EXCEPT ![k] = g]
    OBVIOUS
  <2> HIDE DEF g
  <2> QED  BY <1>1, <2>2, <2>3
<1>3. x = [v EXCEPT !.stamps = t]
  BY DEF Dropped, Vfs
<1> HIDE DEF t
<1>4. x \in Vfs /\ SameBooks(v, x) /\ x.at = k /\ x.stamps = t
  BY <1>2, <1>3 DEF Vfs, SameBooks
<1> HIDE DEF x
<1>5. w \in Vfs /\ SameBooks(v, w) /\ w.at = k + 1 /\ w.stamps = t
  BY <1>1, <1>4, AtMoves DEF SameBooks
<1> HIDE DEF w
<1>6. \A j \in 1 .. n : j # k => v.stamps[j].id # a
  BY <1>1 DEF Sound
<1>7. Stamped(w) = Stamped(v) \ {a}
  <2>1. ASSUME NEW b PROVE b \in Stamped(w) <=> b \in Stamped(v) \ {a}
    <3>1. b \in Stamped(w) <=> b # Gone /\ \E j \in 1 .. n : t[j].id = b
      BY <1>2, <1>5, StampedIs
    <3>2. b \in Stamped(v) <=> b # Gone /\ \E j \in 1 .. n : v.stamps[j].id = b
      BY <1>1, StampedIs
    <3> QED  BY <1>1, <1>2, <1>6, <3>1, <3>2
  <2> QED  BY <2>1
<1>8. Sound(w, Gone)
  <2>1. w.at <= Len(w.stamps) + 1
    BY <1>1, <1>2, <1>5
  <2>2. \A j \in 1 .. n : t[j].id \in v.loaded \cup {Gone}
    BY <1>1, <1>2, <1>6 DEF Sound
  <2>3. \A j \in 1 .. n : t[j].id = Gone => j < w.at
    BY <1>1, <1>2, <1>5, SMTT(60) DEF Sound
  <2>4. \A i, j \in 1 .. n : t[i].id = t[j].id => i = j \/ t[i].id = Gone
    BY <1>1, <1>2 DEF Sound
  <2> QED  BY <1>2, <1>5, <2>1, <2>2, <2>3, <2>4 DEF Sound, SameBooks
<1>9. Behind(v) => Behind(w)
  BY <1>1, <1>2, <1>5 DEF Behind
<1>10. w.at # 0
  BY <1>1, <1>5
<1> QED  BY <1>5, <1>7, <1>8, <1>9, <1>10 DEF w, x

(* What the turn of a stamp leads to when its archive is freed.            *)
SweptPost(v, w, a, open, env) ==
  /\ w \in Vfs /\ Books(w, open, Gone) /\ Sound(w, Gone) /\ w.at # 0
  /\ Behind(v) => Behind(w)
  /\ a \notin w.loaded /\ v.loaded \ {a} \subseteq w.loaded
  /\ \A b \in Stamped(w) : b \in Stamped(v) \/ (env.present /\ Listing(env) /\ b # env.cwd)
  /\ \A b \in Stamped(v) :
       \/ b \in Stamped(w) \/ b = a \/ b = env.cwd \/ b \in Outer(w)
       \/ b = Parent[a] /\ b \in Extfs /\ (env.present => ~Listing(env))
  /\ env.present =>
       /\ Held(w) /\ Idle(w, env)
       /\ \A C : Closure(v, C) /\ Roots(v, C) => \E D : Closure(w, D) /\ Roots(w, D)
  /\ \A C : Closure(v, C) => Closure(w, C)

(* A timeout frees what nobody uses, the exit everything stamped.          *)
Freeable(v, a, open, env) ==
  /\ v.at \in DOMAIN v.stamps /\ v.stamps[v.at].id = a /\ a \in v.loaded
  /\ a \in Extfs => a \notin open
  /\ env.present => Held(v) /\ Idle(v, env) /\ (a \in Extfs => v.fd_usage[a] = 0)

(* An archive freed leaves only its own stamp unsound.                     *)
LEMMA FreedIs ==
  ASSUME NEW v \in Vfs, NEW f \in Vfs, NEW a \in Archive, NEW open, NEW env, Sound(v, Gone),
         Freeable(v, a, open, env), f.loaded = v.loaded \ {a},
         f.stamps = v.stamps, f.at = v.at
  PROVE  Sound(f, a) /\ Stamped(f) = Stamped(v) /\ (Behind(v) => Behind(f))
<1>1. Stamped(f) = Stamped(v) /\ (Behind(v) => Behind(f))
  BY DEF Stamped, Ids, Behind
<1>2. v.at \in DOMAIN v.stamps /\ v.stamps[v.at].id = a /\ a # Gone
  BY StampFacts DEF Freeable
<1>3. Sound(f, a)
  BY <1>2 DEF Sound
<1> QED  BY <1>1, <1>3

(* The archive leaves the list of archives, its use count is gone.         *)
LEMMA FreedBooks ==
  ASSUME NEW v \in Vfs, NEW f \in Vfs, NEW a \in Extfs, NEW open, Books(v, open, Gone),
         a \notin open, f.loaded = v.loaded \ {a},
         f.copied = {n \in v.copied : Parent[n] # a},
         f.fd_usage = [v.fd_usage EXCEPT ![a] = 0], f.kept = [v.kept EXCEPT ![a] = 0]
  PROVE  Books(f, open, a)
<1>1. /\ v.fd_usage \in [Archive -> Nat] /\ v.kept \in [Archive -> Nat] /\ a \in Archive
      /\ v.copied \in SUBSET Archive /\ Gone \notin Archive
  BY StampFacts DEF Vfs
<1>2. f.copied \subseteq f.loaded \cup {a} /\ \A n \in f.copied : Parent[n] \in Extfs
  BY <1>1 DEF Books
<1>3. ASSUME NEW e \in Extfs
      PROVE  f.fd_usage[e] = Cardinality(open \cap {e}) + f.kept[e]
                             + Cardinality(Loans(f.copied, e))
  <2>1. CASE e = a
    <3>1. f.fd_usage[e] = 0 /\ f.kept[e] = 0 /\ Loans(f.copied, e) = {}
      BY <1>1, <2>1 DEF Loans
    <3>2. Cardinality(Loans(f.copied, e)) = 0 /\ Cardinality(open \cap {e}) = 0
      BY <2>1, <3>1, FS_EmptySet, OpenCounts
    <3> QED  BY <3>1, <3>2
  <2>2. CASE e # a
    <3>1. f.fd_usage[e] = v.fd_usage[e] /\ f.kept[e] = v.kept[e]
          /\ Loans(f.copied, e) = Loans(v.copied, e)
      BY <1>1, <2>2, StampFacts DEF Loans
    <3> QED  BY <3>1 DEF Books
  <2> QED  BY <2>1, <2>2
<1>4. ASSUME NEW e \in Extfs, e \notin f.loaded PROVE f.fd_usage[e] = 0
  BY <1>1, <1>4, StampFacts DEF Books
<1> QED  BY <1>2, <1>3, <1>4 DEF Books

(* vfs_s_free with extfs_free_archive, then the stamp.                     *)
LEMMA FreeExtfsIs ==
  ASSUME NEW v \in Vfs, NEW a \in Extfs, NEW open, NEW env \in Envs,
         Sound(v, Gone), Books(v, open, Gone), Freeable(v, a, open, env)
  PROVE  SweptPost(v, SweptOn(Dropped(FreeExtfs(v, a, env))), a, open, env)
<1> DEFINE p == Parent[a]
           f == [v EXCEPT !.loaded = @ \ {a}, !.fd_usage[a] = 0, !.kept[a] = 0,
                          !.copied = {n \in @ : Parent[n] # a}]
           u == UngetCopy(f, a, env)
           w == SweptOn(Dropped(u))
<1>1. /\ a \in Archive /\ p \in Place /\ p # a /\ a # Gone
      /\ v.loaded \in SUBSET Archive /\ v.copied \in SUBSET Archive
      /\ v.fd_usage \in [Archive -> Nat] /\ v.kept \in [Archive -> Nat] /\ Local \notin Archive
  BY ArchiveFacts, StampFacts DEF Vfs
<1>2. /\ f \in Vfs /\ f.loaded = v.loaded \ {a} /\ f.stamps = v.stamps /\ f.at = v.at
      /\ f.copied = {n \in v.copied : Parent[n] # a}
      /\ f.fd_usage = [v.fd_usage EXCEPT ![a] = 0] /\ f.kept = [v.kept EXCEPT ![a] = 0]
  <2> DEFINE l == v.loaded \ {a}
             c == {n \in v.copied : Parent[n] # a}
             fd == [v.fd_usage EXCEPT ![a] = 0]
             ke == [v.kept EXCEPT ![a] = 0]
  <2>1. l \in SUBSET Archive /\ c \in SUBSET Archive /\ fd \in [Archive -> Nat]
        /\ ke \in [Archive -> Nat]
    BY <1>1
  <2>2. f = [loaded |-> l, fd_usage |-> fd, copied |-> c, kept |-> ke,
             stamps |-> v.stamps, at |-> v.at]
    <3> DEFINE g1 == [v EXCEPT !.loaded = l]
               g2 == [g1 EXCEPT !.fd_usage[a] = 0]
               g3 == [g2 EXCEPT !.kept[a] = 0]
               g4 == [g3 EXCEPT !.copied = {n \in @ : Parent[n] # a}]
    <3>1. f = g4
      BY DEF Vfs
    <3> HIDE DEF f, l
    <3>2. g1 = [loaded |-> l, fd_usage |-> v.fd_usage, copied |-> v.copied,
                kept |-> v.kept, stamps |-> v.stamps, at |-> v.at]
      BY DEF Vfs
    <3> HIDE DEF g1
    <3>3. g2 = [loaded |-> l, fd_usage |-> fd, copied |-> v.copied,
                kept |-> v.kept, stamps |-> v.stamps, at |-> v.at]
      BY <3>2
    <3> HIDE DEF g2, fd
    <3>4. g3 = [loaded |-> l, fd_usage |-> fd, copied |-> v.copied,
                kept |-> ke, stamps |-> v.stamps, at |-> v.at]
      BY <3>3
    <3> HIDE DEF g3, ke
    <3>5. g3.copied = v.copied
      BY <3>4
    <3>6. g4 = [g3 EXCEPT !.copied = c]
      BY <3>5
    <3> HIDE DEF g4, c
    <3>7. g4 = [loaded |-> l, fd_usage |-> fd, copied |-> c,
                kept |-> ke, stamps |-> v.stamps, at |-> v.at]
      BY <3>4, <3>6
    <3> QED  BY <3>1, <3>7
  <2> HIDE DEF l, c, fd, ke, f
  <2>3. /\ f \in Vfs /\ f.loaded = l /\ f.stamps = v.stamps /\ f.at = v.at
        /\ f.copied = c /\ f.fd_usage = fd /\ f.kept = ke
    BY <2>1, <2>2 DEF Vfs
  <2> QED  BY <2>3 DEF l, c, fd, ke
<1>3. u = FreeExtfs(v, a, env)
  BY DEF FreeExtfs
<1> HIDE DEF f
<1>4. a \notin open /\ (env.present => Held(v) /\ Idle(v, env) /\ v.fd_usage[a] = 0)
      /\ a \in v.loaded
  BY DEF Freeable
<1>5. Books(f, open, a)
  BY <1>2, <1>4, FreedBooks
<1>6. Sound(f, a) /\ Stamped(f) = Stamped(v) /\ (Behind(v) => Behind(f)) /\ a \notin f.loaded
  BY <1>1, <1>2, FreedIs
<1>7. env.present =>
        /\ f.copied = v.copied /\ f.kept = v.kept /\ f.fd_usage = v.fd_usage
        /\ Held(f) /\ Idle(f, env)
  <2> SUFFICES ASSUME env.present
               PROVE  /\ f.copied = v.copied /\ f.kept = v.kept /\ f.fd_usage = v.fd_usage
                      /\ Held(f) /\ Idle(f, env)
    OBVIOUS
  <2>1. v.fd_usage[a] = 0 /\ v.kept[a] = 0 /\ Loans(v.copied, a) = {}
    BY <1>4, Unused
  <2>2. f.fd_usage = v.fd_usage /\ f.kept = v.kept /\ f.copied = v.copied
    BY <1>1, <1>2, <2>1 DEF Loans
  <2> QED  BY <1>2, <1>4, <1>6, <2>2 DEF Held, Idle
<1>8. env.present /\ p \in Extfs => p \in f.loaded /\ (p \in Stamped(f) => ~Listing(env))
  <2> SUFFICES ASSUME env.present, p \in Extfs
               PROVE  p \in f.loaded /\ (p \in Stamped(f) => ~Listing(env))
    OBVIOUS
  <2>1. a \in v.copied
    BY <1>4 DEF Held
  <2>2. v.fd_usage[p] # 0
    BY <2>1, Unused DEF Loans
  <2>3. p \in v.loaded
    BY <2>2 DEF Books
  <2>4. p \in Stamped(f) => Spared(p, env)
    BY <1>4, <1>6, <2>2 DEF Idle
  <2> QED  BY <1>1, <1>2, <2>3, <2>4 DEF Spared, Listing
<1>9. UngetPost(f, u, a, a, open, env)
  <2>1. \/ f.at = 0 \/ ~env.present \/ p \notin Extfs
        \/ p \in f.loaded /\ (p \notin Stamped(f) \/ ~Listing(env))
    BY <1>8
  <2> QED  BY <1>1, <1>2, <1>5, <1>6, <2>1, UngetIs
<1>10. Idle(f, env) /\ env.present => Idle(u, env)
  <2>1. CASE p \in Extfs
    BY <1>8, <1>9, <2>1 DEF UngetPost
  <2>2. CASE p \notin Extfs
    <3>1. u = f
      BY <2>2 DEF UngetCopy
    <3> QED  BY <3>1
  <2> QED  BY <2>1, <2>2
<1>11. env.present => \A C : Closure(v, C) /\ Roots(v, C) => \E D : Closure(u, D) /\ Roots(u, D)
  <2> SUFFICES ASSUME env.present, NEW C, Closure(v, C), Roots(v, C)
               PROVE  Closure(u, C \ {a}) /\ Roots(u, C \ {a})
    OBVIOUS
  <2>1. (\A n \in C \ {a} : p \in Place /\ Parent[n] \in (C \ {a}) \cup {Local})
        /\ Roots(v, C \ {a})
    BY <1>1, <1>4, PruneRoots
  <2>2. Closure(f, C \ {a}) /\ Roots(f, C \ {a})
    BY <1>2, <1>7, <2>1 DEF Closure, Roots
  <2>3. CASE p \in Extfs
    BY <1>8, <1>9, <2>2, <2>3 DEF UngetPost
  <2>4. CASE p \notin Extfs
    <3>1. u = f
      BY <2>4 DEF UngetCopy
    <3> QED  BY <2>2, <3>1
  <2> QED  BY <2>3, <2>4
<1>12. \A C : Closure(v, C) => Closure(u, C)
  <2> SUFFICES ASSUME NEW C, Closure(v, C) PROVE Closure(u, C)
    OBVIOUS
  <2>1. Closure(f, C) /\ p \in C \cup {Local}
    BY <1>2, <1>4 DEF Closure
  <2> QED  BY <1>9, <2>1 DEF UngetPost
<1> HIDE DEF u
<1>13. u \in Vfs /\ Sound(u, a) /\ a \notin u.loaded /\ Books(u, open, Gone)
       /\ (Behind(f) => Behind(u)) /\ (Held(f) => Held(u))
       /\ f.loaded \subseteq u.loaded
  BY <1>9 DEF UngetPost
<1>14. /\ w \in Vfs /\ SameBooks(u, w) /\ Sound(w, Gone) /\ w.at # 0
       /\ Stamped(w) = Stamped(u) \ {a} /\ (Behind(u) => Behind(w))
  BY <1>1, <1>13, DroppedIs
<1> HIDE DEF w
<1>15. /\ Books(w, open, Gone) /\ (Held(u) => Held(w)) /\ Outer(w) = Outer(u)
       /\ \A C : (Closure(u, C) => Closure(w, C)) /\ (Roots(u, C) => Roots(w, C))
  BY <1>13, <1>14, SameBooksFacts
<1>16. a \notin w.loaded /\ (Idle(u, env) => Idle(w, env))
  BY <1>13, <1>14 DEF SameBooks, Idle
<1>17. \A b \in Stamped(w) : b \in Stamped(v) \/ (env.present /\ Listing(env) /\ b # env.cwd)
  BY <1>6, <1>9, <1>14 DEF UngetPost
<1>18. \A b \in Stamped(v) :
         \/ b \in Stamped(w) \/ b = a \/ b = env.cwd \/ b \in Outer(w)
         \/ b = Parent[a] /\ b \in Extfs /\ (env.present => ~Listing(env))
  <2>1. \A b \in Stamped(v) :
          b \in Stamped(u) \/ b = env.cwd \/ b \in Outer(u) \/ (b = p /\ b \in Extfs)
    BY <1>6, <1>9 DEF UngetPost
  <2> QED  BY <1>6, <1>8, <1>14, <1>15, <2>1
<1>19. \A C : Closure(v, C) => Closure(w, C)
  BY <1>12, <1>15
<1>20. env.present =>
         /\ Held(w) /\ Idle(w, env)
         /\ \A C : Closure(v, C) /\ Roots(v, C) => \E D : Closure(w, D) /\ Roots(w, D)
  BY <1>7, <1>10, <1>11, <1>13, <1>15, <1>16
<1>21. Behind(v) => Behind(w)
  BY <1>6, <1>13, <1>14
<1>22. v.loaded \ {a} \subseteq w.loaded
  BY <1>2, <1>13, <1>14 DEF SameBooks
<1>23. SweptPost(v, w, a, open, env)
  BY <1>14, <1>15, <1>16, <1>17, <1>18, <1>19, <1>20, <1>21,
     <1>22 DEF SweptPost
<1> QED  BY <1>3, <1>23 DEF w

(* sfs_free: the copy stays out, then the stamp.                           *)
LEMMA FreeSfsIs ==
  ASSUME NEW v \in Vfs, NEW a \in Archive \ Extfs, NEW open, NEW env \in Envs,
         Sound(v, Gone), Books(v, open, Gone), Freeable(v, a, open, env)
  PROVE  SweptPost(v, SweptOn(Dropped(FreeSfs(v, a))), a, open, env)
<1> DEFINE p == Parent[a]
           f == FreeSfs(v, a)
           w == SweptOn(Dropped(f))
<1>1. /\ a # Gone /\ v.loaded \in SUBSET Archive /\ v.copied \in SUBSET Archive
      /\ v.fd_usage \in [Archive -> Nat] /\ v.kept \in [Archive -> Nat]
      /\ \A n \in v.copied : Parent[n] \in Extfs
      /\ \A e \in Extfs : e \in Archive /\ e # a
  BY StampFacts DEF Vfs, Books
<1>2. /\ f \in Vfs /\ f.loaded = v.loaded \ {a} /\ f.copied = v.copied \ {a}
      /\ f.stamps = v.stamps /\ f.at = v.at /\ f.fd_usage = v.fd_usage
      /\ \A e \in Archive : f.kept[e] = IF a \in v.copied /\ e = p THEN v.kept[e] + 1 ELSE v.kept[e]
  <2> DEFINE l == v.loaded \ {a}
             g == [v EXCEPT !.loaded = l]
  <2>1. /\ g \in Vfs /\ g.loaded = l /\ g.copied = v.copied /\ g.kept = v.kept
        /\ g.stamps = v.stamps /\ g.at = v.at /\ g.fd_usage = v.fd_usage
    BY <1>1 DEF Vfs
  <2>2. CASE a \notin v.copied
    <3>1. f = g
      BY <2>2 DEF FreeSfs
    <3> HIDE DEF f, g
    <3> QED  BY <2>1, <2>2, <3>1
  <2>3. CASE a \in v.copied
    <3> DEFINE c == v.copied \ {a}
               ke == [v.kept EXCEPT ![p] = @ + 1]
               h == [g EXCEPT !.copied = c]
    <3>1. f = [g EXCEPT !.copied = @ \ {a}, !.kept[p] = @ + 1]
      BY <2>3 DEF FreeSfs
    <3>2. p \in Archive /\ v.kept[p] \in Nat
      BY <1>1, <2>3
    <3>3. ke \in [Archive -> Nat]
          /\ \A e \in Archive : ke[e] = IF e = p THEN v.kept[e] + 1 ELSE v.kept[e]
      BY <1>1, <3>2
    <3> HIDE DEF f, g, l
    <3>4. f = [h EXCEPT !.kept[p] = @ + 1]
      BY <2>1, <3>1 DEF Vfs
    <3>5. /\ h \in Vfs /\ h.loaded = l /\ h.copied = c /\ h.kept = v.kept
          /\ h.stamps = v.stamps /\ h.at = v.at /\ h.fd_usage = v.fd_usage
      BY <1>1, <2>1 DEF Vfs
    <3> HIDE DEF h
    <3>6. f = [h EXCEPT !.kept = ke]
      BY <3>4, <3>5 DEF Vfs
    <3> HIDE DEF ke, c
    <3>7. /\ f \in Vfs /\ f.loaded = l /\ f.copied = c /\ f.kept = ke
          /\ f.stamps = v.stamps /\ f.at = v.at /\ f.fd_usage = v.fd_usage
      BY <3>3, <3>5, <3>6 DEF Vfs
    <3> QED  BY <2>3, <3>3, <3>7 DEF c, l
  <2> QED  BY <2>2, <2>3
<1> HIDE DEF f
<1>3. Sound(f, a) /\ Stamped(f) = Stamped(v) /\ (Behind(v) => Behind(f)) /\ a \notin f.loaded
  BY <1>1, <1>2, FreedIs
<1>4. Books(f, open, Gone)
  <2>1. ASSUME NEW e \in Extfs
        PROVE  Cardinality(Loans(f.copied, e)) =
                 IF a \in v.copied /\ e = p THEN Cardinality(Loans(v.copied, e)) - 1
                 ELSE Cardinality(Loans(v.copied, e))
    <3>1. CASE a \in v.copied
      <4>1. \A n \in v.copied : Cardinality(Loans(v.copied \ {n}, e)) =
              IF Parent[n] = e THEN Cardinality(Loans(v.copied, e)) - 1
              ELSE Cardinality(Loans(v.copied, e))
        BY <1>1, LoansCount
      <4> QED  BY <1>2, <3>1, <4>1
    <3>2. CASE a \notin v.copied
      <4>1. f.copied = v.copied
        BY <1>2, <3>2
      <4> QED  BY <3>2, <4>1
    <3> QED  BY <3>1, <3>2
  <2>2. ASSUME NEW e \in Extfs
        PROVE  f.fd_usage[e] =
                 Cardinality(open \cap {e}) + f.kept[e] + Cardinality(Loans(f.copied, e))
    <3> DEFINE i == Cardinality(open \cap {e})
               j == Cardinality(Loans(v.copied, e))
               k == v.kept[e]
               kk == f.kept[e]
               jj == Cardinality(Loans(f.copied, e))
    <3>1. j \in Nat /\ k \in Nat /\ i = (IF e \in open THEN 1 ELSE 0)
      BY <1>1, LoansCount, OpenCounts
    <3>2. v.fd_usage[e] = i + k + j /\ f.fd_usage[e] = v.fd_usage[e]
      BY <1>2 DEF Books
    <3> HIDE DEF i, j
    <3>3. (kk = k + 1 /\ jj = j - 1) \/ (kk = k /\ jj = j)
      <4>1. e \in Archive
        BY <1>1
      <4>2. CASE a \in v.copied /\ e = p
        BY <1>2, <2>1, <4>1, <4>2 DEF j
      <4>3. CASE ~(a \in v.copied /\ e = p)
        <5>1. kk = k
          BY <1>2, <4>1, <4>3
        <5>2. jj = j
          BY <2>1, <4>3 DEF j
        <5> QED  BY <5>1, <5>2
      <4> QED  BY <4>2, <4>3
    <3> HIDE DEF k, kk, jj
    <3>4. i + kk + jj = i + k + j
      BY <3>1, <3>3
    <3> QED  BY <3>2, <3>4 DEF i, kk, jj
  <2>3. ASSUME NEW e \in Extfs, e \notin f.loaded PROVE f.fd_usage[e] = 0
    BY <1>1, <1>2, <2>3 DEF Books
  <2>4. f.copied \subseteq f.loaded \cup {Gone} /\ \A n \in f.copied : Parent[n] \in Extfs
    BY <1>1, <1>2 DEF Books
  <2> QED  BY <2>2, <2>3, <2>4 DEF Books
<1>5. env.present =>
        /\ Held(f) /\ Idle(f, env)
        /\ \A C : Closure(v, C) /\ Roots(v, C) => Closure(f, C) /\ Roots(f, C)
  <2> SUFFICES ASSUME env.present
               PROVE  /\ Held(f) /\ Idle(f, env)
                      /\ \A C : Closure(v, C) /\ Roots(v, C) => Closure(f, C) /\ Roots(f, C)
    OBVIOUS
  <2>1. Held(v) /\ Idle(v, env) /\ a \in v.loaded
    BY DEF Freeable
  <2>2. Held(f) /\ Idle(f, env)
    BY <1>2, <1>3, <2>1 DEF Held, Idle
  <2>3. ASSUME NEW C, Closure(v, C), Roots(v, C) PROVE Closure(f, C) /\ Roots(f, C)
    <3>1. Closure(f, C)
      BY <1>2, <2>3 DEF Closure
    <3>2. ASSUME NEW n \in C, Parent[n] \in Extfs PROVE n \in f.copied \/ f.kept[Parent[n]] > 0
      <4>1. n \in v.copied \/ v.kept[Parent[n]] > 0
        BY <2>3, <3>2 DEF Roots
      <4>2. Parent[n] \in Archive /\ v.kept[Parent[n]] \in Nat
        BY <1>1, <3>2
      <4>3. n = a => a \in v.copied
        BY <2>1, <3>2 DEF Held
      <4> QED  BY <1>2, <4>1, <4>2, <4>3
    <3> QED  BY <3>1, <3>2 DEF Roots
  <2> QED  BY <2>2, <2>3
<1>6. \A C : Closure(v, C) => Closure(f, C)
  BY <1>2 DEF Closure
<1>7. /\ w \in Vfs /\ SameBooks(f, w) /\ Sound(w, Gone) /\ w.at # 0
      /\ Stamped(w) = Stamped(f) \ {a} /\ (Behind(f) => Behind(w))
  BY <1>2, <1>3, DroppedIs
<1> HIDE DEF w
<1>8. /\ Books(w, open, Gone) /\ (Held(f) => Held(w))
      /\ \A C : (Closure(f, C) => Closure(w, C)) /\ (Roots(f, C) => Roots(w, C))
  BY <1>4, <1>7, SameBooksFacts
<1>9. /\ a \notin w.loaded /\ v.loaded \ {a} \subseteq w.loaded
      /\ Idle(f, env) => Idle(w, env)
  BY <1>2, <1>3, <1>7 DEF SameBooks, Idle
<1>10. SweptPost(v, w, a, open, env)
  BY <1>3, <1>5, <1>6, <1>7, <1>8, <1>9 DEF SweptPost
<1> QED  BY <1>10 DEF w, f

(* The turn of a stamp: its archive is freed, or it is refreshed or left.  *)
LEMMA SweptIs ==
  ASSUME NEW v \in Vfs, NEW open, NEW env \in Envs, NEW now \in BOOLEAN,
         Sound(v, Gone), Books(v, open, Gone), v.at \in DOMAIN v.stamps,
         env.present => ~now /\ Held(v) /\ Idle(v, env),
         ~env.present => now /\ open = {}
  PROVE  LET w == SweptOn(Swept(v, now, env))
             a == v.stamps[v.at].id IN
         /\ a \in v.loaded
         /\ \/ Frees(v, v.stamps[v.at], now) /\ SweptPost(v, w, a, open, env)
            \/ /\ env.present /\ w \in Vfs /\ Sound(w, Gone) /\ w.at # 0
               /\ SameBooks(v, w) /\ Stamped(w) = Stamped(v)
<1> DEFINE s == v.stamps[v.at]
           a == s.id
           w == SweptOn(Swept(v, now, env))
<1>1. /\ a \in v.loaded /\ a \in Archive
  <2>1. v.at \in Nat /\ a \in v.loaded \cup {Gone} /\ (a = Gone => v.at < v.at)
    BY DEF Sound, Vfs
  <2> QED  BY <2>1 DEF Vfs
<1>2. CASE Frees(v, s, now)
  <2>1. w = SweptOn(Dropped(Free(v, a, env)))
    BY <1>2 DEF Swept
  <2>2. env.present => Held(v) /\ Idle(v, env) /\ nothingisopen(v, a)
    BY <1>2 DEF Frees
  <2>3. a \in Extfs /\ env.present => v.fd_usage[a] = 0 /\ a \notin open
    <3> SUFFICES ASSUME a \in Extfs, env.present PROVE v.fd_usage[a] = 0 /\ a \notin open
      OBVIOUS
    <3>1. v.fd_usage[a] \in Nat /\ a \notin Sfs
      BY <1>1, ArchiveFacts DEF Vfs
    <3>2. v.fd_usage[a] = 0
      BY <2>2, <3>1 DEF nothingisopen
    <3> QED  BY <3>2, Unused
  <2> HIDE DEF w
  <2>4. CASE a \in Extfs
    <3>1. Freeable(v, a, open, env)
      BY <1>1, <2>2, <2>3, <2>4 DEF Freeable
    <3>2. w = SweptOn(Dropped(FreeExtfs(v, a, env)))
      BY <2>1, <2>4 DEF Free
    <3> HIDE DEF a
    <3>3. SweptPost(v, w, a, open, env)
      BY <2>4, <3>1, <3>2, FreeExtfsIs
    <3> QED  BY <1>1, <1>2, <3>3 DEF a, w
  <2>5. CASE a \notin Extfs
    <3>1. Freeable(v, a, open, env)
      BY <1>1, <2>2, <2>5 DEF Freeable
    <3>2. w = SweptOn(Dropped(FreeSfs(v, a)))
      BY <2>1, <2>5 DEF Free
    <3> HIDE DEF a
    <3>3. SweptPost(v, w, a, open, env)
      BY <1>1, <2>5, <3>1, <3>2, FreeSfsIs
    <3> QED  BY <1>1, <1>2, <3>3 DEF a, w
  <2> QED  BY <2>4, <2>5
<1>3. CASE ~Frees(v, s, now)
  <2> DEFINE x == Swept(v, now, env)
  <2>1. env.present
    BY <1>3 DEF Frees
  <2>2. Restamped(v, x, Gone) /\ Stamped(x) = Stamped(v) /\ x.at \in DOMAIN x.stamps
    <3>1. CASE s.age = Old
      <4>1. x = [v EXCEPT !.stamps[v.at].age = 0]
        BY <1>3, <3>1 DEF Swept
      <4> HIDE DEF x
      <4>2. /\ x \in Vfs /\ SameBooks(v, x) /\ x.at = v.at /\ Len(x.stamps) = Len(v.stamps)
            /\ \A j \in DOMAIN v.stamps : x.stamps[j].id = v.stamps[j].id
        BY <4>1, AgeIs
      <4>3. DOMAIN x.stamps = DOMAIN v.stamps
        BY <4>2 DEF Vfs
      <4> QED  BY <4>2, <4>3, SameIds
    <3>2. CASE s.age # Old
      <4>1. x = v
        BY <1>3, <3>2 DEF Swept
      <4> QED  BY <4>1, SameIds DEF SameBooks
    <3> QED  BY <3>1, <3>2
  <2> HIDE DEF x
  <2>3. x \in Vfs /\ Sound(x, Gone) /\ SameBooks(v, x)
    BY <2>2 DEF Restamped
  <2> DEFINE y == SweptOn(x)
  <2>4. y \in Vfs /\ SameBooks(x, y) /\ Sound(y, Gone) /\ y.at # 0 /\ Stamped(y) = Stamped(x)
    BY <2>2, <2>3, SweptOnIs
  <2>5. w = y
    BY DEF x
  <2> HIDE DEF y, w
  <2>6. w \in Vfs /\ Sound(w, Gone) /\ w.at # 0 /\ SameBooks(v, w) /\ Stamped(w) = Stamped(v)
    BY <2>2, <2>3, <2>4, <2>5 DEF SameBooks
  <2> QED  BY <1>1, <2>1, <2>6 DEF w
<1> QED  BY <1>2, <1>3

(* The turn of a stamp, while mc runs and at exit.                         *)
LEMMA SweepStampKeeps ==
  ASSUME IInv, SweepStamp
  PROVE  IInv' /\ KeptStep
<1> DEFINE now == phase # "running"
           a == vfs.stamps[vfs.at].id
           w == SweptOn(Swept(vfs, now, Env))
<1>1. /\ vfs.at \in DOMAIN vfs.stamps /\ vfs' = w
      /\ UNCHANGED <<cwd, dir, view, current, files, phase>>
      /\ held' = IF a = held /\ Frees(vfs, vfs.stamps[vfs.at], now) THEN Gone ELSE held
  BY DEF SweepStamp, Now
<1>2. /\ TypeOK /\ vfs \in Vfs /\ Sound(vfs, Gone) /\ Books(vfs, files, Gone)
      /\ Env \in Envs /\ Env.cwd = cwd /\ Env.dir = dir /\ Env.view = view
      /\ Env.present = (phase = "running")
  BY EnvFacts DEF IInv, TypeOK
<1>3. phase = "running" => InvRunning
  BY DEF IInv
<1>4. phase # "running" =>
        InvExit /\ phase \notin {"quit", "undefined"} /\ files = {} /\ Behind(vfs)
  <2>1. vfs.at # 0
    BY <1>1, <1>2 DEF Vfs
  <2> QED  BY <2>1 DEF IInv, InvExit
<1>5. /\ a \in vfs.loaded
      /\ \/ Frees(vfs, vfs.stamps[vfs.at], now) /\ SweptPost(vfs, w, a, files, Env)
         \/ /\ Env.present /\ w \in Vfs /\ Sound(w, Gone) /\ w.at # 0
            /\ SameBooks(vfs, w) /\ Stamped(w) = Stamped(vfs)
  <2>1. now \in BOOLEAN /\ (Env.present => ~now /\ Held(vfs) /\ Idle(vfs, Env))
        /\ (~Env.present => now /\ files = {})
    BY <1>2, <1>3, <1>4 DEF InvRunning
  <2> HIDE DEF now
  <2> QED  BY <1>1, <1>2, <2>1, SweptIs
<1> HIDE DEF w, a
<1>6. Env' = Env
  BY <1>1 DEF Env
<1>7. held' \in Dir \cup {Gone}
  BY <1>1, <1>2 DEF TypeOK
<1>8. CASE Env.present /\ w \in Vfs /\ Sound(w, Gone) /\ w.at # 0
           /\ SameBooks(vfs, w) /\ Stamped(w) = Stamped(vfs)
  <2>1. phase = "running" /\ InvRunning
    BY <1>2, <1>3, <1>8
  <2>2. Books(w, files, Gone) /\ Held(w) /\ \E C : Closure(w, C) /\ Roots(w, C)
    BY <1>2, <1>8, <2>1, SameBooksFacts DEF InvRunning
  <2>3. Idle(w, Env)
    BY <1>8, <2>1 DEF InvRunning, Idle, SameBooks
  <2>4. held' \in Holdable(w)
    BY <1>1, <1>8, <2>1 DEF InvRunning, Holdable, SameBooks
  <2>5. InvRunning'
    BY <1>1, <1>6, <1>8, <2>1, <2>2, <2>3, <2>4 DEF InvRunning
  <2>6. TypeOK'
    BY <1>1, <1>2, <1>8, <1>7 DEF TypeOK, Sound
  <2>7. IInv'
    BY <1>1, <1>8, <2>1, <2>2, <2>5, <2>6 DEF IInv
  <2>8. KeptStep
    BY <1>1, <1>8 DEF KeptStep, Stamped
  <2> QED  BY <2>7, <2>8
<1>9. CASE Frees(vfs, vfs.stamps[vfs.at], now) /\ SweptPost(vfs, w, a, files, Env)
  <2>1. /\ w \in Vfs /\ Books(w, files, Gone) /\ Sound(w, Gone) /\ w.at # 0
        /\ (Behind(vfs) => Behind(w)) /\ a \notin w.loaded
        /\ vfs.loaded \ {a} \subseteq w.loaded
        /\ \A b \in Stamped(w) : b \in Stamped(vfs) \/ (Env.present /\ Listing(Env) /\ b # cwd)
        /\ \A b \in Stamped(vfs) :
             \/ b \in Stamped(w) \/ b = a \/ b = cwd \/ b \in Outer(w)
             \/ b = Parent[a] /\ b \in Extfs /\ (Env.present => ~Listing(Env))
        /\ \A C : Closure(vfs, C) => Closure(w, C)
    BY <1>2, <1>9 DEF SweptPost
  <2>2. TypeOK'
    BY <1>1, <1>2, <1>7, <2>1 DEF TypeOK, Sound
  <2>3. phase = "running" => InvRunning'
    <3> SUFFICES ASSUME phase = "running" PROVE InvRunning'
      OBVIOUS
    <3>1. Held(w) /\ Idle(w, Env) /\ \E C : Closure(w, C) /\ Roots(w, C)
      BY <1>2, <1>3, <1>9 DEF SweptPost, InvRunning
    <3>2. Listing(Env) => cwd \notin Stamped(w)
      BY <1>3, <2>1 DEF InvRunning
    <3>3. held' \in Holdable(w)
      BY <1>1, <1>3, <1>9, <2>1 DEF InvRunning, Holdable
    <3> QED  BY <1>1, <1>3, <1>6, <3>1, <3>2, <3>3 DEF InvRunning
  <2>4. phase # "running" => InvExit'
    <3> SUFFICES ASSUME phase # "running" PROVE InvExit'
      OBVIOUS
    <3>1. PICK C : Closure(vfs, C) /\ Leaves(vfs, C, Env)
      BY <1>4 DEF InvExit
    <3>2. Leaves(w, C, Env)
      BY <1>2, <2>1, <3>1 DEF Leaves
    <3>3. Closure(w, C)
      BY <2>1, <3>1
    <3> QED  BY <1>1, <1>4, <1>6, <2>1, <3>2, <3>3 DEF InvExit
  <2>5. IInv'
    BY <1>1, <1>4, <2>1, <2>2, <2>3, <2>4 DEF IInv
  <2>6. KeptStep
    <3> SUFFICES ASSUME NEW b \in Stamped(vfs), b \notin Stamped(w), b \in w.loaded PROVE Used(b)'
      BY <1>1 DEF KeptStep, Stamped
    <3>1. CASE b = Parent[a] /\ b \in Extfs /\ (Env.present => ~Listing(Env))
      <4>1. CASE Env.present
        BY <1>6, <3>1, <4>1, UsedAfter
      <4>2. CASE ~Env.present
        <5>1. PICK C : Closure(vfs, C) /\ Leaves(vfs, C, Env)
          BY <1>2, <1>4, <4>2 DEF InvExit
        <5>2. Entered(b, Env)
          BY <1>5, <3>1, <5>1 DEF Closure, Leaves
        <5> QED  BY <1>1, <1>2, <1>6, <5>2, UsedAfter DEF Entered
      <4> QED  BY <4>1, <4>2
    <3>2. CASE b = cwd \/ b \in Outer(w)
      BY <1>1, <3>2, UsedAfter
    <3> QED  BY <2>1, <3>1, <3>2
  <2> QED  BY <2>5, <2>6
<1> QED  BY <1>5, <1>8, <1>9

-----------------------------------------------------------------------------
(* The end of a sweep, and the exit.                                       *)

(* One NULL leaves the list, or the lock is released.                      *)
LEMMA ClearedIs ==
  ASSUME NEW v \in Vfs, Sound(v, Gone), v.at > Len(v.stamps)
  PROVE  LET w == Cleared(v) IN
         /\ w \in Vfs /\ SameBooks(v, w) /\ Sound(w, Gone) /\ Stamped(w) = Stamped(v)
         /\ Behind(v) => Behind(w) /\ (w.at = 0 => w.stamps = <<>>)
<1> DEFINE k == Found(v, Gone)
           w == Cleared(v)
<1>1. /\ v.at \in Nat /\ v.at # 0 /\ Len(v.stamps) \in Nat /\ DOMAIN v.stamps = 1 .. Len(v.stamps)
  BY DEF Vfs
<1>2. CASE k # 0
  <2>1. k \in DOMAIN v.stamps /\ v.stamps[k].id = Gone
    BY <1>2, FoundIs
  <2>2. w = Without(v, k)
    BY <1>2 DEF Cleared
  <2> HIDE DEF k, w
  <2>3. Restamped(v, w, Gone) /\ Stamped(w) = Stamped(v) \ {v.stamps[k].id}
    BY <2>1, <2>2, WithoutIs
  <2>4. Gone \notin Stamped(v)
    BY DEF Stamped
  <2> QED  BY <1>1, <2>1, <2>3, <2>4 DEF Restamped, w
<1>3. CASE k = 0
  <2>1. \A j \in DOMAIN v.stamps : v.stamps[j].id # Gone
    BY <1>3, FoundIs
  <2>2. w = [v EXCEPT !.at = 0]
    BY <1>3 DEF Cleared
  <2> HIDE DEF k, w
  <2>3. w \in Vfs /\ SameBooks(v, w) /\ w.at = 0 /\ w.stamps = v.stamps
    BY <2>2 DEF Vfs, SameBooks
  <2>4. Stamped(w) = Stamped(v)
    BY <2>3 DEF Stamped, Ids
  <2>5. Sound(w, Gone)
    BY <1>1, <2>1, <2>3 DEF Sound, SameBooks
  <2>6. Behind(v) => v.stamps = <<>>
    <3> SUFFICES ASSUME Behind(v), Len(v.stamps) # 0 PROVE FALSE
      BY <1>1 DEF Vfs
    <3>1. 1 \in DOMAIN v.stamps /\ 1 < v.at
      BY <1>1
    <3> QED  BY <2>1, <3>1 DEF Behind
  <2>7. Behind(w)
    BY <1>1, <2>3 DEF Behind
  <2> QED  BY <2>3, <2>4, <2>5, <2>6, <2>7 DEF w
<1> QED  BY <1>2, <1>3

(* The end of a sweep.                                                     *)
LEMMA SweepEndKeeps ==
  ASSUME IInv, SweepEnd
  PROVE  IInv' /\ KeptStep
<1> DEFINE w == Cleared(vfs)
<1>1. /\ vfs.at > Len(vfs.stamps) /\ vfs' = w
      /\ UNCHANGED <<cwd, dir, view, current, files, held, phase>>
  BY DEF SweepEnd
<1>2. TypeOK /\ vfs \in Vfs /\ Sound(vfs, Gone) /\ Books(vfs, files, Gone)
  BY DEF IInv, TypeOK
<1>3. /\ w \in Vfs /\ SameBooks(vfs, w) /\ Sound(w, Gone) /\ Stamped(w) = Stamped(vfs)
      /\ Behind(vfs) => Behind(w) /\ (w.at = 0 => w.stamps = <<>>)
      /\ vfs.at # 0
  BY <1>1, <1>2, ClearedIs DEF Vfs
<1> HIDE DEF w
<1>4. Env' = Env
  BY <1>1 DEF Env
<1>5. TypeOK' /\ Books(w, files, Gone)
  BY <1>1, <1>2, <1>3, SameBooksFacts DEF TypeOK, Sound
<1>6. phase = "running" => InvRunning'
  <2> SUFFICES ASSUME phase = "running" PROVE InvRunning'
    OBVIOUS
  <2>1. InvRunning
    BY DEF IInv
  <2>2. Held(w) /\ \E C : Closure(w, C) /\ Roots(w, C)
    BY <1>3, <2>1, SameBooksFacts DEF InvRunning
  <2>3. Idle(w, Env)
    BY <1>3, <2>1 DEF InvRunning, Idle, SameBooks
  <2> QED  BY <1>1, <1>3, <1>4, <2>1, <2>2, <2>3 DEF InvRunning, Holdable, SameBooks
<1>7. phase \notin {"running", "undefined"} => InvExit'
  <2> SUFFICES ASSUME phase \notin {"running", "undefined"} PROVE InvExit'
    OBVIOUS
  <2>1. InvExit
    BY DEF IInv
  <2>2. vfs.at # 0
    BY <1>1, <1>2 DEF Vfs
  <2>3. phase # "quit" /\ Behind(vfs)
    BY <2>1, <2>2 DEF InvExit
  <2>4. PICK C : Closure(vfs, C) /\ Leaves(vfs, C, Env)
    BY <2>1 DEF InvExit
  <2>5. Closure(w, C) /\ Leaves(w, C, Env)
    BY <1>3, <2>4, SameBooksFacts DEF Leaves
  <2> QED  BY <1>1, <1>3, <1>4, <2>1, <2>3, <2>5 DEF InvExit
<1>8. IInv'
  BY <1>1, <1>3, <1>5, <1>6, <1>7 DEF IInv
<1>9. KeptStep
  BY <1>1, <1>3 DEF KeptStep, Stamped
<1> QED  BY <1>8, <1>9

(* The main loop ends and stamps the directories of the panels.            *)
LEMMA QuitKeeps ==
  ASSUME IInv, Quit
  PROVE  IInv' /\ KeptStep
<1> DEFINE Destroy(v, p) == IF view[p] = "view_listing" THEN vfs_addstamp(v, dir[p]) ELSE v
           Fits(v) == /\ Restamped(vfs, v, Gone) /\ Stamped(vfs) \subseteq Stamped(v)
                      /\ \A b \in Stamped(v) :
                           b \in Stamped(vfs) \/ b = cwd \/ \E p \in Panels : dir[p] = b
           u == vfs_addstamp(vfs, cwd)
           t == Destroy(u, Panel[1])
           w == Destroy(t, Panel[2])
<1>1. /\ Loop /\ files = {} /\ vfs' = w /\ phase' = "quit"
      /\ UNCHANGED <<cwd, dir, view, current, files, held>>
  BY DEF Quit, Running
<1>2. /\ Calm(vfs, files, Env) /\ Env.view = view /\ Env.dir = dir /\ Env.cwd = cwd
      /\ vfs \in Vfs /\ Sound(vfs, Gone) /\ vfs.at = 0
  BY <1>1, CalmNow DEF Loop
<1>3. Fits(vfs)
  BY <1>2, SameIds DEF SameBooks
<1>4. ASSUME NEW v, Fits(v), NEW b, b = cwd \/ \E p \in Panels : dir[p] = b
      PROVE  Fits(vfs_addstamp(v, b))
  <2> DEFINE x == vfs_addstamp(v, b)
  <2>1. v \in Vfs /\ Sound(v, Gone) /\ v.at = 0
    BY <1>2, <1>4 DEF Restamped
  <2>2. /\ Restamped(v, x, Gone)
        /\ Stamped(x) = IF b \in v.loaded THEN Stamped(v) \cup {b} ELSE Stamped(v)
    BY <2>1, AddstampIs
  <2> HIDE DEF x
  <2>3. Restamped(vfs, x, Gone)
    BY <1>4, <2>2, RestampedTwice
  <2> QED  BY <1>4, <2>2, <2>3 DEF x
<1>5. ASSUME NEW v, Fits(v), NEW p \in Panels PROVE Fits(Destroy(v, p))
  <2>1. Fits(vfs_addstamp(v, dir[p]))
    BY <1>4, <1>5
  <2> HIDE DEF Fits
  <2> QED  BY <1>5, <2>1
<1>6. Fits(w)
  <2> HIDE DEF Fits, Destroy
  <2>1. Fits(u)
    BY <1>3, <1>4
  <2>2. Fits(t)
    BY <1>5, <2>1, PanelFacts
  <2> QED  BY <1>5, <2>2, PanelFacts
<1> HIDE DEF w
<1>7. w \in Vfs /\ SameBooks(vfs, w) /\ Sound(w, Gone) /\ w.at = 0
  BY <1>2, <1>6 DEF Restamped
<1>8. Books(w, files, Gone)
  BY <1>2, <1>7, SameBooksFacts DEF Calm
<1>9. TypeOK'
  BY <1>1, <1>7 DEF IInv, TypeOK, Sound
<1>10. PICK C : Closure(vfs, C) /\ Roots(vfs, C)
  BY <1>2 DEF Calm
<1>11. Closure(w, C)
  BY <1>7, <1>10, SameBooksFacts
<1>12. /\ Env'.cwd = cwd /\ Env'.dir = dir /\ Env'.view = view /\ (Listing(Env') <=> Listing(Env))
  BY <1>1, <1>2 DEF Env, Listing
<1>13. Leaves(w, C, Env')
  <2> SUFFICES ASSUME NEW n \in C, Parent[n] \in Stamped(w) \cap Extfs
               PROVE  Entered(Parent[n], Env')
    BY DEF Leaves
  <2> DEFINE p == Parent[n]
  <2>1. CASE p = cwd \/ \E q \in Panels : dir[q] = p
    BY <1>12, <2>1 DEF Entered
  <2>2. CASE p \in Stamped(vfs)
    <3>1. CASE Spared(p, Env)
      BY <1>12, <3>1 DEF Spared, Listing, Entered
    <3>2. CASE vfs.fd_usage[p] = 0
      <4>1. Books(vfs, files, Gone) /\ p \in Extfs
        BY <1>2 DEF Calm
      <4>2. vfs.kept[p] = 0 /\ Loans(vfs.copied, p) = {}
        BY <1>2, <3>2, <4>1, Unused
      <4>3. n \in vfs.copied \/ vfs.kept[p] > 0
        BY <1>10 DEF Roots
      <4> QED  BY <4>2, <4>3 DEF Loans
    <3> QED  BY <1>2, <2>2, <3>1, <3>2 DEF Calm, Idle
  <2> QED  BY <1>6, <2>1, <2>2
<1>14. InvExit'
  BY <1>1, <1>7, <1>11, <1>13 DEF InvExit
<1>15. IInv'
  BY <1>1, <1>7, <1>8, <1>9, <1>14 DEF IInv
<1>16. KeptStep
  BY <1>1, <1>6 DEF KeptStep, Stamped
<1> QED  BY <1>15, <1>16

(* The list is turned round, the sweep is at its first stamp.              *)
LEMMA ExpireIs ==
  ASSUME NEW v \in Vfs, Sound(v, Gone), v.at = 0
  PROVE  LET w == vfs_expire(v, TRUE) IN
         /\ w \in Vfs /\ SameBooks(v, w) /\ Sound(w, Gone) /\ Stamped(w) = Stamped(v)
         /\ Behind(w) /\ w.at = 1
<1> DEFINE n == Len(v.stamps)
           t == Reverse(v.stamps)
           w == vfs_expire(v, TRUE)
<1>1. n \in Nat /\ DOMAIN v.stamps = 1 .. n /\ v.stamps \in Seq(Stamp)
  BY DEF Vfs
<1>2. /\ t \in Seq(Stamp) /\ Len(t) = n /\ DOMAIN t = 1 .. n
      /\ \A i \in 1 .. n : t[i] = v.stamps[(n - i) + 1] /\ (n - i) + 1 \in 1 .. n
  <2>1. \A i \in 1 .. n : (n - i) + 1 \in 1 .. n
    BY <1>1
  <2>2. t = [i \in 1 .. n |-> v.stamps[(n - i) + 1]]
    BY DEF Reverse
  <2>3. \A j \in 1 .. n : v.stamps[j] \in Stamp
    BY <1>1
  <2>4. t \in [1 .. n -> Stamp]
    BY <2>1, <2>2, <2>3
  <2>5. t \in Seq(Stamp) /\ Len(t) = n /\ DOMAIN t = 1 .. n
    BY <1>1, <2>4
  <2> QED  BY <2>1, <2>2, <2>5
<1> DEFINE one == 1
<1>3. w = [v EXCEPT !.at = one, !.stamps = t] /\ one \in Nat
  BY DEF vfs_expire
<1> HIDE DEF t, w, one
<1>4. w \in Vfs /\ SameBooks(v, w) /\ w.at = one /\ w.stamps = t
  BY <1>2, <1>3 DEF Vfs, SameBooks
<1>5. \A i \in 1 .. n : \E j \in 1 .. n : t[i] = v.stamps[j]
  BY <1>2
<1>6. \A j \in 1 .. n : \E i \in 1 .. n : t[i] = v.stamps[j] /\ i = (n - j) + 1
  <2> TAKE j \in 1 .. n
  <2> DEFINE i == (n - j) + 1
  <2>1. i \in 1 .. n /\ (n - i) + 1 = j
    BY <1>1
  <2> HIDE DEF i
  <2>2. t[i] = v.stamps[j]
    BY <1>2, <2>1
  <2> QED  BY <2>1, <2>2 DEF i
<1>7. Stamped(w) = Stamped(v)
  <2>1. ASSUME NEW b PROVE b \in Stamped(w) <=> b \in Stamped(v)
    <3>1. b \in Stamped(w) <=> b # Gone /\ \E i \in 1 .. n : t[i].id = b
      BY <1>2, <1>4, StampedIs
    <3>2. b \in Stamped(v) <=> b # Gone /\ \E j \in 1 .. n : v.stamps[j].id = b
      BY <1>1, StampedIs
    <3>3. ASSUME NEW i \in 1 .. n, t[i].id = b PROVE \E j \in 1 .. n : v.stamps[j].id = b
      BY <1>5, <3>3
    <3>4. ASSUME NEW j \in 1 .. n, v.stamps[j].id = b PROVE \E i \in 1 .. n : t[i].id = b
      BY <1>6, <3>4
    <3> QED  BY <3>1, <3>2, <3>3, <3>4
  <2> QED  BY <2>1, Zenon DEF Stamped
<1>8. Sound(w, Gone)
  <2>1. \A j \in 1 .. n : v.stamps[j].id # Gone
    BY <1>1 DEF Sound
  <2>2. \A i \in 1 .. n : t[i].id \in v.loaded /\ t[i].id # Gone
    <3>1. \A j \in 1 .. n : v.stamps[j].id \in v.loaded
      BY <1>1, <2>1 DEF Sound
    <3> QED  BY <1>5, <2>1, <3>1, SMTT(60)
  <2>3. \A i, j \in 1 .. n : t[i].id = t[j].id => i = j
    <3> TAKE i, j \in 1 .. n
    <3> DEFINE k == (n - i) + 1
               l == (n - j) + 1
    <3>1. k \in 1 .. n /\ l \in 1 .. n /\ t[i] = v.stamps[k] /\ t[j] = v.stamps[l]
      BY <1>2
    <3>2. k = l => i = j
      BY <1>1
    <3> HIDE DEF k, l
    <3> QED  BY <1>1, <2>1, <3>1, <3>2 DEF Sound
  <2>4. w.at <= Len(w.stamps) + 1
    BY <1>1, <1>2, <1>4 DEF one
  <2> QED  BY <1>2, <1>4, <2>2, <2>3, <2>4 DEF Sound, SameBooks
<1>9. Behind(w)
  BY <1>1, <1>2, <1>4 DEF Behind, one
<1> QED  BY <1>4, <1>7, <1>8, <1>9 DEF w, one

(* A sweep of the exit begins.                                             *)
LEMMA ExitSweepKeeps ==
  ASSUME IInv, phase \notin {"running", "undefined"}, vfs.at = 0, vfs' = vfs_expire(vfs, TRUE),
         phase' \in {"expiring", "shutting"}, UNCHANGED <<cwd, dir, view, current, files, held>>
  PROVE  IInv' /\ KeptStep
<1> DEFINE w == vfs_expire(vfs, TRUE)
<1>1. TypeOK /\ vfs \in Vfs /\ Sound(vfs, Gone) /\ Books(vfs, files, Gone) /\ InvExit
  BY DEF IInv, TypeOK
<1>2. /\ w \in Vfs /\ SameBooks(vfs, w) /\ Sound(w, Gone) /\ Stamped(w) = Stamped(vfs)
      /\ Behind(w) /\ w.at = 1
  BY <1>1, ExpireIs
<1>3. vfs' = w
  OBVIOUS
<1> HIDE DEF w
<1>4. /\ Env'.cwd = Env.cwd /\ Env'.dir = Env.dir /\ (Listing(Env') <=> Listing(Env))
  BY DEF Env, Listing
<1>5. PICK C : Closure(vfs, C) /\ Leaves(vfs, C, Env)
  BY <1>1 DEF InvExit
<1>6. Closure(w, C) /\ Leaves(w, C, Env')
  BY <1>2, <1>4, <1>5, SameBooksFacts DEF Leaves, Entered
<1>7. Books(w, files, Gone)
  BY <1>1, <1>2, SameBooksFacts
<1>8. TypeOK' /\ InvExit'
  <2>1. TypeOK'
    BY <1>1, <1>2, <1>3 DEF TypeOK, Sound
  <2>2. InvExit'
    <3>1. files' = {} /\ vfs'.at # 0 /\ Behind(vfs') /\ phase' # "quit"
      <4>1. files' = {}
        BY <1>1 DEF InvExit
      <4>2. vfs'.at # 0
        <5>1. w.at # 0
          BY <1>2
        <5> QED  BY <1>3, <5>1, Zenon
      <4>3. Behind(vfs')
        BY <1>2, <1>3, Zenon
      <4>4. phase' # "quit"
        OBVIOUS
      <4> QED  BY <4>1, <4>2, <4>3, <4>4
    <3>2. \E D : Closure(vfs', D) /\ Leaves(vfs', D, Env')
      BY <1>3, <1>6
    <3> QED  BY <3>1, <3>2 DEF InvExit
  <2> QED  BY <2>1, <2>2
<1>9. IInv'
  BY <1>2, <1>3, <1>7, <1>8 DEF IInv
<1>10. KeptStep
  BY <1>2, <1>3 DEF KeptStep, Stamped
<1> QED  BY <1>9, <1>10

(* The extfs archives are closed by the class.                             *)
LEMMA ShutKeeps ==
  ASSUME IInv, Shut
  PROVE  IInv' /\ KeptStep
<1> DEFINE zero == [a \in Archive |-> 0]
           l == vfs.loaded \cap Sfs
           w == [vfs EXCEPT !.loaded = l, !.copied = {}, !.fd_usage = zero, !.kept = zero]
<1>1. /\ phase = "shutting" /\ vfs.at = 0 /\ vfs' = w /\ phase' = "shut"
      /\ UNCHANGED <<cwd, dir, view, current, files, held>>
  BY DEF Shut
<1>2. TypeOK /\ vfs \in Vfs /\ InvExit /\ files = {} /\ vfs.stamps = <<>>
  BY <1>1 DEF IInv, TypeOK, InvExit
<1>3. l \in SUBSET Archive /\ zero \in [Archive -> Nat] /\ l \subseteq vfs.loaded
      /\ \A e \in Extfs : e \notin l /\ zero[e] = 0
  BY <1>2, ArchiveFacts DEF Vfs
<1> HIDE DEF l, zero
<1>4. /\ w \in Vfs /\ w.loaded = l /\ w.copied = {} /\ w.fd_usage = zero /\ w.kept = zero
      /\ w.stamps = <<>> /\ w.at = 0
  BY <1>1, <1>2, <1>3 DEF Vfs
<1> HIDE DEF w
<1>5. DOMAIN w.stamps = {} /\ Len(w.stamps) = 0 /\ Stamped(w) = {} /\ Stamped(vfs) = {}
  <2>1. DOMAIN w.stamps = {} /\ Len(w.stamps) = 0 /\ DOMAIN vfs.stamps = {}
    BY <1>2, <1>4
  <2> QED  BY <1>2, <1>4, <2>1, StampedIs
<1>6. Sound(w, Gone) /\ Behind(w)
  BY <1>4, <1>5 DEF Sound, Behind
<1>7. Books(w, files, Gone)
  <2>1. ASSUME NEW e \in Extfs
        PROVE  /\ w.fd_usage[e] = 0 /\ w.kept[e] = 0 /\ Cardinality(files \cap {e}) = 0
               /\ Cardinality(Loans(w.copied, e)) = 0
    <3>1. Loans(w.copied, e) = {}
      BY <1>4 DEF Loans
    <3> QED  BY <1>2, <1>3, <1>4, <3>1, FS_EmptySet, OpenCounts
  <2> QED  BY <1>4, <2>1 DEF Books
<1>8. PICK C : Closure(vfs, C)
  BY <1>2 DEF InvExit
<1>9. Closure(w, C) /\ Leaves(w, C, Env')
  BY <1>3, <1>4, <1>5, <1>8 DEF Closure, Leaves
<1>10. TypeOK'
  BY <1>1, <1>2, <1>4, <1>5 DEF TypeOK
<1>11. InvExit'
  BY <1>1, <1>2, <1>4, <1>6, <1>9 DEF InvExit
<1>12. IInv'
  BY <1>1, <1>6, <1>7, <1>10, <1>11 DEF IInv
<1>13. KeptStep
  BY <1>5 DEF KeptStep, Stamped
<1> QED  BY <1>12, <1>13

-----------------------------------------------------------------------------
(* The invariant, and the properties.                                      *)

(* Every step keeps the invariant, and no stamp is lost wrongly.           *)
LEMMA NextKeeps ==
  ASSUME IInv, [Next]_vars
  PROVE  IInv' /\ (KeptStep \/ UNCHANGED vars)
<1>1. CASE UNCHANGED vars
  <2>1. Env' = Env
    BY <1>1 DEF vars, Env
  <2>2. InvRunning => InvRunning'
    BY <1>1, <2>1 DEF vars, InvRunning, Holdable
  <2>3. InvExit => InvExit'
    BY <1>1, <2>1 DEF vars, InvExit
  <2> QED  BY <1>1, <2>2, <2>3 DEF vars, IInv, TypeOK
<1>2. ASSUME NEW d \in Dir, Cd(d) PROVE IInv' /\ KeptStep
  BY <1>2, CdKeeps
<1>3. ASSUME NEW d \in Extfs, CdFails(d) PROVE IInv' /\ KeptStep
  BY <1>3, CdFailsKeeps
<1>4. CASE Focus
  BY <1>4, FocusKeeps
<1>5. ASSUME NEW p \in Panels, Info(p) PROVE IInv' /\ KeptStep
  BY <1>5, InfoKeeps
<1>6. ASSUME NEW p \in Panels, List(p) PROVE IInv' /\ KeptStep
  BY <1>6, ListKeeps
<1>7. ASSUME NEW a \in Archive, Look(a) PROVE IInv' /\ KeptStep
  BY <1>7, LookKeeps
<1>8. ASSUME NEW a \in Archive, Open(a) PROVE IInv' /\ KeptStep
  BY <1>8, OpenKeeps
<1>9. ASSUME NEW a \in Archive, Close(a) PROVE IInv' /\ KeptStep
  BY <1>9, CloseKeeps
<1>10. CASE Tick \/ Timeout
  BY <1>10, TickKeeps, TimeoutKeeps
<1>11. CASE SweepStamp \/ SweepEnd
  BY <1>11, SweepStampKeeps, SweepEndKeeps
<1>12. CASE Quit
  BY <1>12, QuitKeeps
<1>13. CASE Expire
  <2>1. vfs.at = 0
    BY <1>13 DEF Expire, IInv, InvExit
  <2> QED  BY <1>13, <2>1, ExitSweepKeeps DEF Expire
<1>14. CASE GcDone
  BY <1>14, ExitSweepKeeps DEF GcDone
<1>15. CASE Shut
  BY <1>15, ShutKeeps
<1>16. ASSUME NEW a \in Extfs, CopyoutWarns(a) PROVE IInv' /\ KeptStep
  BY <1>16, CopyoutWarnsKeeps
<1>17. CASE CopyoutFails \/ OpenEnds \/ Dangles
  BY <1>17, CopyoutFailsKeeps, OpenEndsKeeps, DanglesKeeps
<1>18. ASSUME NEW n \in Archive, ReadEnds(n) PROVE IInv' /\ KeptStep
  BY <1>18, ReadEndsKeeps
<1> QED
  BY <1>1, <1>2, <1>3, <1>4, <1>5, <1>6, <1>7, <1>8, <1>9, <1>10, <1>11, <1>12, <1>13,
     <1>14, <1>15, <1>16, <1>17, <1>18 DEF Next

(* The inductive invariant holds in every reachable state.                 *)
THEOREM InductiveInvariant == Spec => []IInv
<1>1. Init => IInv
  BY InitIInv
<1>2. IInv /\ [Next]_vars => IInv'
  BY NextKeeps
<1> QED  BY <1>1, <1>2, PTL DEF Spec

(* The VFS layer's record, the panels and the phases keep their types.     *)
THEOREM TypeCorrect == Spec => []TypeOK
<1>1. IInv => TypeOK
  BY DEF IInv
<1> QED  BY <1>1, InductiveInvariant, PTL

(* However the stamps move while they are swept, none is of an archive     *)
(* already freed, none is there twice, and NULL is only behind the sweep:  *)
(* vfs_expire never asks or frees what is gone.                            *)
THEOREM StampsReferHolds == Spec => []StampsRefer
<1>1. IInv => StampsRefer
  <2> SUFFICES ASSUME IInv PROVE StampsRefer
    OBVIOUS
  <2>1. vfs \in Vfs /\ Sound(vfs, Gone)
    BY DEF IInv, TypeOK
  <2>2. Stamped(vfs) \subseteq vfs.loaded
    <3>1. Stamped(vfs) \subseteq vfs.loaded \cup {Gone}
      BY <2>1, SoundStamped
    <3> QED  BY <3>1 DEF Stamped
  <2> QED  BY <2>1, <2>2 DEF StampsRefer, Sound, Ids
<1> QED  BY <1>1, InductiveInvariant, PTL

(* No timeout frees an archive with an open file, or the archive that has  *)
(* the local copy of one still read, also when it comes while extfs_open   *)
(* shows a message.  Where it frees the archive that extfs_open itself     *)
(* holds, and has not counted yet, the behaviour ends (Dangles).           *)
THEOREM BackedHolds == Spec => []Backed
<1>1. IInv => Backed
  <2> SUFFICES ASSUME IInv, phase = "running" PROVE Backed
    BY DEF Backed
  <2>1. vfs \in Vfs /\ Books(vfs, files, Gone) /\ Held(vfs)
    BY DEF IInv, InvRunning, TypeOK
  <2>2. ASSUME NEW a \in Extfs, a \notin vfs.loaded
        PROVE  a \notin files /\ Loans(vfs.copied, a) = {}
    <3>1. vfs.fd_usage[a] = 0
      BY <2>1, <2>2 DEF Books
    <3> QED  BY <2>1, <3>1, Unused
  <2>3. files \cap Extfs \subseteq vfs.loaded
    BY <2>2
  <2>4. ASSUME NEW n \in vfs.loaded, Parent[n] \in Extfs
        PROVE  n \in vfs.copied /\ Parent[n] \in vfs.loaded
    BY <2>1, <2>2, <2>4 DEF Held, Loans
  <2> QED  BY <2>3, <2>4 DEF Backed
<1> QED  BY <1>1, InductiveInvariant, PTL

(* The use count of an archive is what is open in it and what was copied   *)
(* out of it, through failed loads, messages between the look-up and the   *)
(* count, sweeps and the exit, as far as extfs_open does not go on with an *)
(* archive that is freed (Dangles).                                        *)
THEOREM UsageCountsHolds == Spec => []UsageCounts
<1>1. IInv => UsageCounts
  <2> SUFFICES ASSUME IInv, NEW a \in Extfs
               PROVE  /\ vfs.fd_usage[a] = Cardinality(files \cap {a}) + vfs.kept[a]
                           + Cardinality({n \in vfs.copied : Parent[n] = a})
                      /\ a \notin vfs.loaded => vfs.fd_usage[a] = 0
    BY DEF UsageCounts
  <2> QED  BY DEF IInv, Books, Loans
<1> QED  BY <1>1, InductiveInvariant, PTL

(* A stamp is lost only with its archive, or to somebody who uses it: an   *)
(* archive nobody uses does not stay in memory for want of a stamp.        *)
THEOREM StampKeptHolds == Spec => StampKept
<1>1. IInv /\ [Next]_vars =>
        [\A a \in Stamped(vfs) \ Stamped(vfs)' : a \notin vfs'.loaded \/ Used(a)']_vars
  BY NextKeeps DEF KeptStep
<1> QED  BY <1>1, InductiveInvariant, PTL DEF Spec, StampKept
=============================================================================
