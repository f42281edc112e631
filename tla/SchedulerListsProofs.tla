------------------------- MODULE SchedulerListsProofs -------------------------
(***************************************************************************)
(* What the list operations of SchedulerLists do to a list without         *)
(* duplicates, and what the scheduler's calls do to a scheduler record     *)
(* whose lists and status fields agree.                                    *)
(***************************************************************************)
EXTENDS SchedulerLists, SequenceTheorems, WellFoundedInduction,
        TLAPS

\* Removing the element at an index of a list without duplicates: the result
\* has the other elements, each once.
LEMMA RemoveAtProperties ==
    ASSUME NEW S, NEW l \in Seq(S), IsInjective(l), NEW k \in 1 .. Len(l)
    PROVE  /\ RemoveAt(l, k) \in Seq(S)
           /\ IsInjective(RemoveAt(l, k))
           /\ Range(RemoveAt(l, k)) = Range(l) \ {l[k]}
<1> DEFINE a == SubSeq(l, 1, k - 1)
           b == SubSeq(l, k + 1, Len(l))
           r == RemoveAt(l, k)
<1>1. /\ a \in Seq(S)
      /\ Len(a) = k - 1
      /\ \A i \in 1 .. k - 1 : a[i] = l[i]
  BY SubSeqProperties, ElementOfSeq, LenProperties
<1>2. /\ b \in Seq(S)
      /\ Len(b) = Len(l) - k
      /\ \A i \in 1 .. Len(l) - k : b[i] = l[k + i]
  <2>1. /\ k + 1 \in Int /\ Len(l) \in Int
        /\ \A i \in k + 1 .. Len(l) : l[i] \in S
    BY ElementOfSeq, LenProperties
  <2>2. /\ b \in Seq(S)
        /\ Len(b) = IF k + 1 <= Len(l) THEN Len(l) - (k + 1) + 1 ELSE 0
        /\ \A i \in 1 .. Len(l) - (k + 1) + 1 : b[i] = l[k + 1 + i - 1]
    BY <2>1, SubSeqProperties
  <2> QED  BY <2>1, <2>2
<1>0. r = a \o b /\ Len(l) \in Nat
  BY LenProperties DEF RemoveAt
<1> HIDE DEF a, b, r
<1>3. /\ r \in Seq(S)
      /\ Len(r) = Len(l) - 1
      /\ \A i \in 1 .. Len(l) - 1 : r[i] = IF i < k THEN l[i] ELSE l[i + 1]
  <2>1. r = a \o b
    BY <1>0
  <2>2. /\ a \o b \in Seq(S)
        /\ Len(a \o b) = Len(a) + Len(b)
        /\ \A i \in 1 .. Len(a) + Len(b) :
              (a \o b)[i] = IF i <= Len(a) THEN a[i] ELSE b[i - Len(a)]
    BY <1>1, <1>2, ConcatProperties
  <2>3. Len(a) + Len(b) = Len(l) - 1
    BY <1>0, <1>1, <1>2
  <2>4. ASSUME NEW i \in 1 .. Len(l) - 1
        PROVE  (a \o b)[i] = IF i < k THEN l[i] ELSE l[i + 1]
    <3>1. (a \o b)[i] = IF i <= k - 1 THEN a[i] ELSE b[i - (k - 1)]
      BY <1>1, <2>2, <2>3
    <3>2. CASE i < k
      BY <3>1, <3>2, <1>0, <1>1
    <3>3. CASE ~(i < k)
      <4>1. i - (k - 1) \in 1 .. Len(l) - k
        BY <1>0, <3>3
      <4>2. b[i - (k - 1)] = l[k + (i - (k - 1))]
        BY <4>1, <1>2
      <4>3. k + (i - (k - 1)) = i + 1
        BY <1>0
      <4> QED  BY <3>1, <3>3, <4>2, <4>3, <1>0
    <3> QED  BY <3>2, <3>3
  <2> QED  BY <2>1, <2>2, <2>3, <2>4
<1>4. IsInjective(r)
  <2>1. DOMAIN r = 1 .. Len(l) - 1 /\ DOMAIN l = 1 .. Len(l) /\ Len(l) \in Nat
    BY <1>3, LenProperties
  <2>2. \A i, j \in 1 .. Len(l) : l[i] = l[j] => i = j
    BY <2>1 DEF IsInjective
  <2>3. ASSUME NEW i \in DOMAIN r, NEW j \in DOMAIN r, r[i] = r[j]
        PROVE  i = j
    <3>1. /\ r[i] = IF i < k THEN l[i] ELSE l[i + 1]
          /\ r[j] = IF j < k THEN l[j] ELSE l[j + 1]
          /\ i \in 1 .. Len(l) - 1 /\ j \in 1 .. Len(l) - 1
      BY <1>3, <2>1
    <3> QED  BY <3>1, <2>1, <2>2, <2>3
  <2> QED  BY <2>3 DEF IsInjective
<1>5. Range(r) = Range(l) \ {l[k]}
  <2>1. DOMAIN r = 1 .. Len(l) - 1 /\ DOMAIN l = 1 .. Len(l) /\ Len(l) \in Nat
    BY <1>3, LenProperties
  <2>2. ASSUME NEW i \in DOMAIN r PROVE r[i] \in Range(l) \ {l[k]}
    <3>1. \A x, y \in 1 .. Len(l) : l[x] = l[y] => x = y
      BY <2>1 DEF IsInjective
    <3>2. i \in 1 .. Len(l) /\ i + 1 \in 1 .. Len(l)
      BY <2>1
    <3>3. r[i] = IF i < k THEN l[i] ELSE l[i + 1]
      BY <1>3, <2>1
    <3>4. r[i] \in Range(l)
      BY <3>2, <3>3, <2>1 DEF Range
    <3>5. r[i] # l[k]
      BY <3>1, <3>2, <3>3, <2>1
    <3> QED  BY <3>4, <3>5
  <2>3. ASSUME NEW i \in DOMAIN l, l[i] # l[k] PROVE l[i] \in Range(r)
    <3>1. CASE i < k
      <4>1. i \in DOMAIN r /\ r[i] = l[i]
        BY <1>3, <2>1, <3>1
      <4> QED  BY <4>1 DEF Range
    <3>2. CASE i > k
      <4>1. i - 1 \in DOMAIN r /\ r[i - 1] = l[i]
        BY <1>3, <2>1, <3>2
      <4> QED  BY <4>1 DEF Range
    <3> QED  BY <2>1, <2>3, <3>1, <3>2
  <2> QED  BY <2>2, <2>3 DEF Range
<1> QED  BY <1>3, <1>4, <1>5 DEF r

\* RemoveFirst on a list without duplicates removes exactly the given element.
LEMMA RemoveFirstProperties ==
    ASSUME NEW S, NEW l \in Seq(S), IsInjective(l), NEW e
    PROVE  /\ RemoveFirst(l, e) \in Seq(S)
           /\ IsInjective(RemoveFirst(l, e))
           /\ Range(RemoveFirst(l, e)) = Range(l) \ {e}
<1>1. CASE \E i \in 1 .. Len(l) : l[i] = e
  <2> DEFINE I == {i \in 1 .. Len(l) : l[i] = e}
  <2>1. PICK k \in 1 .. Len(l) : l[k] = e
    BY <1>1
  <2>2. I = {k}
    BY <2>1, LenProperties DEF IsInjective
  <2>3. Min(I) = k
    BY <2>2 DEF Min
  <2>4. RemoveFirst(l, e) = RemoveAt(l, k)
    BY <1>1, <2>2, <2>3 DEF RemoveFirst, SelectInSeq
  <2> QED  BY <2>1, <2>4, RemoveAtProperties
<1>2. CASE ~\E i \in 1 .. Len(l) : l[i] = e
  <2>1. RemoveFirst(l, e) = l
    BY <1>2 DEF RemoveFirst
  <2>2. e \notin Range(l)
    BY <1>2, LenProperties DEF Range
  <2> QED  BY <2>1, <2>2
<1> QED  BY <1>1, <1>2

\* An element that is not in the list is added at its end.
LEMMA AppendDistinct ==
    ASSUME NEW S, NEW l \in Seq(S), IsInjective(l), NEW e \in S,
           e \notin Range(l)
    PROVE  /\ Append(l, e) \in Seq(S)
           /\ IsInjective(Append(l, e))
           /\ Range(Append(l, e)) = Range(l) \cup {e}
<1> DEFINE r == Append(l, e)
<1>1. /\ r \in Seq(S)
      /\ Len(r) = Len(l) + 1
      /\ \A i \in 1 .. Len(l) : r[i] = l[i]
      /\ r[Len(l) + 1] = e
  BY AppendProperties
<1>2. DOMAIN r = 1 .. Len(l) + 1 /\ DOMAIN l = 1 .. Len(l) /\ Len(l) \in Nat
  BY <1>1, LenProperties
<1>3. \A i \in 1 .. Len(l) : l[i] # e
  BY <1>2 DEF Range
<1>4. IsInjective(r)
  BY <1>1, <1>2, <1>3 DEF IsInjective
<1>5. Range(r) = Range(l) \cup {e}
  <2>1. ASSUME NEW i \in DOMAIN r PROVE r[i] \in Range(l) \cup {e}
    BY <1>1, <1>2 DEF Range
  <2>2. ASSUME NEW i \in DOMAIN l PROVE l[i] \in Range(r)
    <3>1. i \in DOMAIN r /\ r[i] = l[i]
      BY <1>1, <1>2
    <3> QED  BY <3>1 DEF Range
  <2>3. e \in Range(r)
    BY <1>1, <1>2 DEF Range
  <2> QED  BY <2>1, <2>2, <2>3 DEF Range
<1> QED  BY <1>1, <1>4, <1>5

\* An element that is not in the list is added in front of it.
LEMMA ConsDistinct ==
    ASSUME NEW S, NEW l \in Seq(S), IsInjective(l), NEW e \in S,
           e \notin Range(l)
    PROVE  /\ Cons(e, l) \in Seq(S)
           /\ IsInjective(Cons(e, l))
           /\ Range(Cons(e, l)) = Range(l) \cup {e}
<1> DEFINE r == Cons(e, l)
<1>1. <<e>> \in Seq(S) /\ Len(<<e>>) = 1 /\ <<e>>[1] = e
  OBVIOUS
<1>2. /\ r \in Seq(S)
      /\ Len(r) = Len(l) + 1
      /\ r[1] = e
      /\ \A i \in 1 .. Len(l) : r[i + 1] = l[i]
  <2>1. /\ r \in Seq(S)
        /\ Len(r) = 1 + Len(l)
        /\ \A i \in 1 .. 1 + Len(l) :
              r[i] = IF i <= 1 THEN <<e>>[i] ELSE l[i - 1]
    BY <1>1, ConcatProperties DEF Cons
  <2>2. Len(l) \in Nat
    BY LenProperties
  <2>3. r[1] = e
    BY <1>1, <2>1, <2>2
  <2>4. ASSUME NEW i \in 1 .. Len(l) PROVE r[i + 1] = l[i]
    <3>1. i + 1 \in 1 .. 1 + Len(l) /\ ~(i + 1 <= 1) /\ (i + 1) - 1 = i
      BY <2>2
    <3> QED  BY <3>1, <2>1
  <2> QED  BY <2>1, <2>2, <2>3, <2>4
<1>3. DOMAIN r = 1 .. Len(l) + 1 /\ DOMAIN l = 1 .. Len(l) /\ Len(l) \in Nat
  BY <1>2, LenProperties
<1>4. ASSUME NEW i \in DOMAIN r, i # 1
      PROVE  i - 1 \in DOMAIN l /\ r[i] = l[i - 1]
  <2>1. i - 1 \in 1 .. Len(l) /\ (i - 1) + 1 = i
    BY <1>3, <1>4
  <2> QED  BY <2>1, <1>2, <1>3
<1>5. \A i \in DOMAIN l : l[i] # e
  BY DEF Range
<1>6. IsInjective(r)
  <2>1. ASSUME NEW i \in DOMAIN r, NEW j \in DOMAIN r, r[i] = r[j]
        PROVE  i = j
    <3>1. CASE i = 1 /\ j # 1
      BY <2>1, <3>1, <1>2, <1>4, <1>5
    <3>2. CASE i # 1 /\ j = 1
      BY <2>1, <3>2, <1>2, <1>4, <1>5
    <3>3. CASE i # 1 /\ j # 1
      <4>1. i - 1 = j - 1
        BY <2>1, <3>3, <1>4 DEF IsInjective
      <4> QED  BY <4>1, <1>3
    <3> QED  BY <3>1, <3>2, <3>3
  <2> QED  BY <2>1 DEF IsInjective
<1>7. Range(r) = Range(l) \cup {e}
  <2>1. ASSUME NEW i \in DOMAIN r PROVE r[i] \in Range(l) \cup {e}
    BY <1>2, <1>4 DEF Range
  <2>2. ASSUME NEW i \in DOMAIN l PROVE l[i] \in Range(r)
    <3>1. i + 1 \in DOMAIN r /\ r[i + 1] = l[i]
      BY <1>2, <1>3
    <3> QED  BY <3>1 DEF Range
  <2>3. e \in Range(r)
    BY <1>2, <1>3 DEF Range
  <2> QED  BY <2>1, <2>2, <2>3 DEF Range
<1> QED  BY <1>2, <1>6, <1>7

\* listMoveToEnd keeps the members of a list without duplicates.
LEMMA MoveToEndProperties ==
    ASSUME NEW S, NEW l \in Seq(S), IsInjective(l), NEW e \in Range(l)
    PROVE  /\ MoveToEnd(l, e) \in Seq(S)
           /\ IsInjective(MoveToEnd(l, e))
           /\ Range(MoveToEnd(l, e)) = Range(l)
<1> DEFINE r == RemoveFirst(l, e)
<1>1. r \in Seq(S) /\ IsInjective(r) /\ Range(r) = Range(l) \ {e}
  BY RemoveFirstProperties
<1>2. e \in S
  BY ElementOfSeq, LenProperties DEF Range
<1>3. Range(r) \cup {e} = Range(l)
  BY <1>1
<1>4. MoveToEnd(l, e) = Append(r, e)
  BY DEF MoveToEnd
<1> HIDE DEF r
<1>5. /\ Append(r, e) \in Seq(S)
      /\ IsInjective(Append(r, e))
      /\ Range(Append(r, e)) = Range(r) \cup {e}
  BY <1>1, <1>2, AppendDistinct
<1> QED  BY <1>3, <1>4, <1>5

-----------------------------------------------------------------------------
\* A thread is in the ready list of its own level exactly when it is active,
\* and in the blocked list of its level exactly when it is blocked.
LEMMA Membership ==
    ASSUME NEW s \in Scheduler, ListsAgree(s), NEW t \in Thread
    PROVE  /\ PriorityOf[t] \in Priority
           /\ s.ready[PriorityOf[t]] \in Seq(Thread)
           /\ IsInjective(s.ready[PriorityOf[t]])
           /\ s.blocked[PriorityOf[t]] \in SUBSET Thread
           /\ t \in Range(s.ready[PriorityOf[t]]) <=> Active(s, t)
           /\ t \in s.blocked[PriorityOf[t]] <=> s.status[t] = "BLOCKED"
<1>1. PriorityOf[t] \in Priority
  BY SchedulerAssumption
<1>2. LevelAgrees(s, PriorityOf[t])
  BY <1>1 DEF ListsAgree
<1> QED  BY <1>1, <1>2 DEF LevelAgrees, Scheduler

-----------------------------------------------------------------------------
\* The common form of the four calls: t gets status x, its level's ready list
\* becomes l and its level's blocked list b.
Place(s, t, x, l, b) ==
    [s EXCEPT !.status[t] = x,
              !.ready[PriorityOf[t]] = l,
              !.blocked[PriorityOf[t]] = b]

\* The lists l and b are those of s with t moved to where x wants it.
Moved(s, t, x, l, b) ==
    /\ t \in Thread /\ x \in SchedStatus
    /\ l \in Seq(Thread) /\ b \subseteq Thread
    /\ IsInjective(l)
    /\ Range(l) = (Range(s.ready[PriorityOf[t]]) \ {t})
                    \cup (IF x \in {"READY", "RUNNING"} THEN {t} ELSE {})
    /\ b = (s.blocked[PriorityOf[t]] \ {t})
                    \cup (IF x = "BLOCKED" THEN {t} ELSE {})

\* r is s with the status of t changed to x, and its lists still agree.
Updated(r, s, t, x) ==
    /\ r \in Scheduler
    /\ ListsAgree(r)
    /\ r.running = s.running
    /\ r.status = [s.status EXCEPT ![t] = x]

LEMMA PlaceFields ==
    ASSUME NEW s \in Scheduler, NEW t, NEW x, NEW l, NEW b,
           Moved(s, t, x, l, b)
    PROVE  /\ Place(s, t, x, l, b) \in Scheduler
           /\ Place(s, t, x, l, b).running = s.running
           /\ Place(s, t, x, l, b).status = [s.status EXCEPT ![t] = x]
           /\ Place(s, t, x, l, b).ready = [s.ready EXCEPT ![PriorityOf[t]] = l]
           /\ Place(s, t, x, l, b).blocked = [s.blocked EXCEPT ![PriorityOf[t]] = b]
<1>1. /\ t \in Thread /\ x \in SchedStatus
      /\ l \in Seq(Thread) /\ b \subseteq Thread
      /\ PriorityOf[t] \in Priority
  BY SchedulerAssumption DEF Moved
<1> QED  BY <1>1 DEF Scheduler, Place

\* Giving t the status x and moving it to the list x belongs to keeps the lists
\* and the status fields in agreement.
LEMMA PlaceAgrees ==
    ASSUME NEW s \in Scheduler, ListsAgree(s), NEW t, NEW x, NEW l, NEW b,
           Moved(s, t, x, l, b)
    PROVE  Updated(Place(s, t, x, l, b), s, t, x)
<1> DEFINE r == Place(s, t, x, l, b)
<1>0. /\ r \in Scheduler
      /\ r.running = s.running
      /\ r.status = [s.status EXCEPT ![t] = x]
      /\ r.ready = [s.ready EXCEPT ![PriorityOf[t]] = l]
      /\ r.blocked = [s.blocked EXCEPT ![PriorityOf[t]] = b]
  BY PlaceFields
<1> HIDE DEF r
<1>1. PriorityOf \in [Thread -> Priority] /\ t \in Thread
  BY SchedulerAssumption DEF Moved
<1>2. /\ s.status \in [Thread -> SchedStatus]
      /\ s.ready \in [Priority -> Seq(Thread)]
      /\ s.blocked \in [Priority -> SUBSET Thread]
  BY DEF Scheduler
<1>3. \A u \in Thread : r.status[u] = IF u = t THEN x ELSE s.status[u]
  BY <1>0, <1>2
<1> SUFFICES ASSUME NEW p \in Priority PROVE LevelAgrees(r, p)
  BY <1>0 DEF ListsAgree, Updated, r
<1>4. LevelAgrees(s, p)
  BY DEF ListsAgree
<1>5. CASE p # PriorityOf[t]
  <2>1. r.ready[p] = s.ready[p] /\ r.blocked[p] = s.blocked[p]
    BY <1>0, <1>1, <1>2, <1>5
  <2>2. \A u \in Thread : PriorityOf[u] = p => r.status[u] = s.status[u]
    BY <1>3, <1>5
  <2>3. {u \in Thread : Active(r, u) /\ PriorityOf[u] = p}
        = {u \in Thread : Active(s, u) /\ PriorityOf[u] = p}
    BY <2>2 DEF Active
  <2>4. {u \in Thread : r.status[u] = "BLOCKED" /\ PriorityOf[u] = p}
        = {u \in Thread : s.status[u] = "BLOCKED" /\ PriorityOf[u] = p}
    BY <2>2
  <2> QED  BY <1>4, <2>1, <2>3, <2>4 DEF LevelAgrees
<1>6. CASE p = PriorityOf[t]
  <2>1. r.ready[p] = l /\ r.blocked[p] = b
    BY <1>0, <1>1, <1>2, <1>6
  <2>2. {u \in Thread : Active(r, u) /\ PriorityOf[u] = p}
        = ({u \in Thread : Active(s, u) /\ PriorityOf[u] = p} \ {t})
            \cup (IF x \in {"READY", "RUNNING"} THEN {t} ELSE {})
    BY <1>1, <1>3, <1>6 DEF Active
  <2>3. {u \in Thread : r.status[u] = "BLOCKED" /\ PriorityOf[u] = p}
        = ({u \in Thread : s.status[u] = "BLOCKED" /\ PriorityOf[u] = p} \ {t})
            \cup (IF x = "BLOCKED" THEN {t} ELSE {})
    BY <1>1, <1>3, <1>6
  <2> QED  BY <1>4, <1>6, <2>1, <2>2, <2>3 DEF LevelAgrees, Moved
<1> QED  BY <1>5, <1>6

\* schedulerInsert of a thread that is in no list.
LEMMA InsertAgrees ==
    ASSUME NEW s \in Scheduler, ListsAgree(s), NEW t \in Thread,
           s.status[t] = "ABSENT"
    PROVE  Updated(schedulerInsert(s, t), s, t, "BLOCKED")
<1> DEFINE l == s.ready[PriorityOf[t]]
           b == s.blocked[PriorityOf[t]] \cup {t}
<1>1. Moved(s, t, "BLOCKED", l, b)
  BY Membership DEF Active, Moved, SchedStatus
<1>2. schedulerInsert(s, t) = Place(s, t, "BLOCKED", l, b)
  <2>1. s.ready = [s.ready EXCEPT ![PriorityOf[t]] = l]
    BY DEF Scheduler
  <2> QED  BY <2>1 DEF schedulerInsert, Place, Scheduler
<1> HIDE DEF l, b
<1> QED  BY <1>1, <1>2, PlaceAgrees

\* schedulerRemove takes a thread that is not running out of the list it is in.
LEMMA RemoveAgrees ==
    ASSUME NEW s \in Scheduler, ListsAgree(s), NEW t \in Thread,
           s.status[t] # "RUNNING"
    PROVE  Updated(schedulerRemove(s, t), s, t, "ABSENT")
<1> DEFINE l == RemoveFirst(s.ready[PriorityOf[t]], t)
           b == s.blocked[PriorityOf[t]] \ {t}
<1>1. /\ l \in Seq(Thread)
      /\ IsInjective(l)
      /\ Range(l) = Range(s.ready[PriorityOf[t]]) \ {t}
  BY Membership, RemoveFirstProperties
<1>2. Moved(s, t, "ABSENT", l, b)
  BY <1>1, Membership DEF Moved, SchedStatus
<1>3. schedulerRemove(s, t) = Place(s, t, "ABSENT", l, b)
  BY DEF schedulerRemove, Place, Scheduler
<1> HIDE DEF l, b
<1> QED  BY <1>2, <1>3, PlaceAgrees

\* schedulerSetReady of a blocked thread.
LEMMA SetReadyAgrees ==
    ASSUME NEW s \in Scheduler, ListsAgree(s), NEW t \in Thread,
           s.status[t] = "BLOCKED"
    PROVE  Updated(schedulerSetReady(s, t), s, t, "READY")
<1> DEFINE l == Cons(t, s.ready[PriorityOf[t]])
           b == s.blocked[PriorityOf[t]] \ {t}
<1>1. t \notin Range(s.ready[PriorityOf[t]])
  BY Membership DEF Active
<1>2. /\ l \in Seq(Thread)
      /\ IsInjective(l)
      /\ Range(l) = (Range(s.ready[PriorityOf[t]]) \ {t}) \cup {t}
  BY <1>1, Membership, ConsDistinct
<1>3. Moved(s, t, "READY", l, b)
  BY <1>2, Membership DEF Moved, SchedStatus
<1>4. schedulerSetReady(s, t) = Place(s, t, "READY", l, b)
  BY DEF schedulerSetReady, SwapToReady, Place, Scheduler
<1> HIDE DEF l, b
<1> QED  BY <1>3, <1>4, PlaceAgrees

\* schedulerSetBlocked of a thread that is not blocked yet.
LEMMA SetBlockedAgrees ==
    ASSUME NEW s \in Scheduler, ListsAgree(s), NEW t \in Thread,
           s.status[t] # "BLOCKED"
    PROVE  Updated(schedulerSetBlocked(s, t), s, t, "BLOCKED")
<1> DEFINE l == RemoveFirst(s.ready[PriorityOf[t]], t)
           b == s.blocked[PriorityOf[t]] \cup {t}
<1>1. /\ l \in Seq(Thread)
      /\ IsInjective(l)
      /\ Range(l) = Range(s.ready[PriorityOf[t]]) \ {t}
  BY Membership, RemoveFirstProperties
<1>2. Moved(s, t, "BLOCKED", l, b)
  BY <1>1, Membership DEF Moved, SchedStatus
<1>3. schedulerSetBlocked(s, t) = Place(s, t, "BLOCKED", l, b)
  BY DEF schedulerSetBlocked, Place, Scheduler
<1> HIDE DEF l, b
<1> QED  BY <1>2, <1>3, PlaceAgrees

\* Requeue makes the running thread READY, unless it sleeps.
LEMMA RequeueAgrees ==
    ASSUME NEW s \in Scheduler, ListsAgree(s), s.running \in Thread,
           s.status[s.running] \in {"RUNNING", "READY", "BLOCKED"}
    PROVE  /\ Requeue(s) \in Scheduler
           /\ ListsAgree(Requeue(s))
           /\ Requeue(s).status =
                IF s.status[s.running] = "BLOCKED" THEN s.status
                ELSE [s.status EXCEPT ![s.running] = "READY"]
<1>1. CASE s.status[s.running] = "BLOCKED"
  BY <1>1 DEF Requeue
<1>2. CASE s.status[s.running] # "BLOCKED"
  <2> DEFINE t == s.running
             l == MoveToEnd(s.ready[PriorityOf[t]], t)
             b == s.blocked[PriorityOf[t]]
  <2>1. t \in Range(s.ready[PriorityOf[t]])
    BY <1>2, Membership DEF Active
  <2>2. /\ l \in Seq(Thread)
        /\ IsInjective(l)
        /\ Range(l) = Range(s.ready[PriorityOf[t]])
    <3>1. /\ s.ready[PriorityOf[t]] \in Seq(Thread)
          /\ IsInjective(s.ready[PriorityOf[t]])
      BY Membership
    <3> QED  BY <2>1, <3>1, MoveToEndProperties
  <2>3. b \subseteq Thread /\ t \notin b
    BY <1>2, Membership
  <2>4. Moved(s, t, "READY", l, b)
    BY <2>1, <2>2, <2>3 DEF Moved, SchedStatus
  <2>5. Requeue(s) = Place(s, t, "READY", l, b)
    <3>1. s.blocked = [s.blocked EXCEPT ![PriorityOf[t]] = b]
      BY DEF Scheduler
    <3> QED  BY <1>2, <3>1 DEF Requeue, Place, Scheduler
  <2> HIDE DEF l, b
  <2>6. Updated(Place(s, t, "READY", l, b), s, t, "READY")
    BY <2>4, PlaceAgrees
  <2> QED  BY <1>2, <2>5, <2>6 DEF Updated
<1> QED  BY <1>1, <1>2

\* A non-empty set of levels has a most urgent one.
LEMMA MostUrgentLevel ==
    ASSUME NEW s \in Scheduler, NEW q \in Priority, s.ready[q] # << >>
    PROVE  \E p \in Priority : IsTopLevel(s, p)
<1> DEFINE P == {p \in Priority : s.ready[p] # << >>}
<1>1. P \subseteq Nat /\ P # {}
  BY SchedulerAssumption DEF Priority
<1> DEFINE R == OpToRel(<, Nat)
<1>2. PICK p \in P : \A k \in P : ~ (<<k, p>> \in R)
  <2>1. IsWellFoundedOn(R, Nat)
    BY NatLessThanWellFounded
  <2> HIDE DEF R, P
  <2> QED  BY <1>1, <2>1, WFMin
<1>3. \A k \in P : ~ (k < p)
  BY <1>1, <1>2 DEF OpToRel
<1> QED  BY <1>1, <1>3 DEF IsTopLevel

\* r gives the processor to a most urgent READY thread of s.
Picked(r, s) ==
    /\ r \in Scheduler
    /\ ListsAgree(r)
    /\ r.running \in Thread
    /\ s.status[r.running] = "READY"
    /\ r.status = [s.status EXCEPT ![r.running] = "RUNNING"]
    /\ \A u \in Thread :
          s.status[u] = "READY" => PriorityOf[r.running] <= PriorityOf[u]

\* When no thread is RUNNING, PickFirst finds a most urgent READY thread if
\* there is a READY thread at all.
LEMMA PickFirstPicks ==
    ASSUME NEW s \in Scheduler, ListsAgree(s),
           \A u \in Thread : s.status[u] # "RUNNING",
           NEW w \in Thread, s.status[w] = "READY"
    PROVE  Picked(PickFirst(s), s)
<1>1. w \in Range(s.ready[PriorityOf[w]]) /\ PriorityOf[w] \in Priority
  BY Membership DEF Active
<1>2. s.ready[PriorityOf[w]] # << >>
  BY <1>1 DEF Range
<1>3. \E p \in Priority : IsTopLevel(s, p)
  BY <1>1, <1>2, MostUrgentLevel
<1> DEFINE top == CHOOSE p \in Priority : IsTopLevel(s, p)
           t   == Head(s.ready[top])
<1>4. top \in Priority /\ IsTopLevel(s, top)
  BY <1>3
<1>5. PickFirst(s) = [s EXCEPT !.running = t, !.status[t] = "RUNNING"]
  BY <1>3 DEF PickFirst
<1> HIDE DEF top
<1>6. t \in Range(s.ready[top])
  <2>1. s.ready[top] \in Seq(Thread) /\ s.ready[top] # << >>
    BY <1>4 DEF Scheduler, IsTopLevel
  <2>2. 1 \in DOMAIN s.ready[top] /\ t = s.ready[top][1]
    BY <2>1
  <2> QED  BY <2>2 DEF Range
<1> HIDE DEF t
<1>7. t \in Thread /\ Active(s, t) /\ PriorityOf[t] = top
  BY <1>4, <1>6 DEF ListsAgree, LevelAgrees
<1>8. s.status[t] = "READY"
  BY <1>7 DEF Active
<1> DEFINE r == PickFirst(s)
<1>9. /\ r \in Scheduler
      /\ r.running = t
      /\ r.status = [s.status EXCEPT ![t] = "RUNNING"]
      /\ r.ready = s.ready
      /\ r.blocked = s.blocked
  <2>1. r = [s EXCEPT !.running = t, !.status = [@ EXCEPT ![t] = "RUNNING"]]
    BY <1>5 DEF Scheduler
  <2>2. [s.status EXCEPT ![t] = "RUNNING"] \in [Thread -> SchedStatus]
    BY <1>7 DEF Scheduler, SchedStatus
  <2> HIDE DEF r
  <2> QED  BY <1>7, <2>1, <2>2 DEF Scheduler
<1> HIDE DEF r
<1>10. ASSUME NEW p \in Priority PROVE LevelAgrees(r, p)
  <2>1. s.status \in [Thread -> SchedStatus]
    BY DEF Scheduler
  <2>2. \A u \in Thread : r.status[u] = IF u = t THEN "RUNNING" ELSE s.status[u]
    BY <1>9, <2>1
  <2>3. {u \in Thread : Active(r, u) /\ PriorityOf[u] = p}
        = {u \in Thread : Active(s, u) /\ PriorityOf[u] = p}
    BY <1>8, <2>2 DEF Active
  <2>4. {u \in Thread : r.status[u] = "BLOCKED" /\ PriorityOf[u] = p}
        = {u \in Thread : s.status[u] = "BLOCKED" /\ PriorityOf[u] = p}
    BY <1>8, <2>2
  <2>5. LevelAgrees(s, p)
    BY DEF ListsAgree
  <2> QED  BY <1>9, <2>3, <2>4, <2>5 DEF LevelAgrees
<1>11. ASSUME NEW u \in Thread, s.status[u] = "READY"
       PROVE  PriorityOf[t] <= PriorityOf[u]
  <2>1. u \in Range(s.ready[PriorityOf[u]]) /\ PriorityOf[u] \in Priority
    BY <1>11, Membership DEF Active
  <2>2. s.ready[PriorityOf[u]] # << >>
    BY <2>1 DEF Range
  <2>3. ~ (PriorityOf[u] < top)
    BY <1>4, <2>1, <2>2 DEF IsTopLevel
  <2>4. PriorityOf[u] \in Nat /\ top \in Nat
    BY <1>4, <2>1, SchedulerAssumption DEF Priority
  <2> QED  BY <1>7, <2>3, <2>4
<1> QED  BY <1>7, <1>8, <1>9, <1>10, <1>11 DEF Picked, ListsAgree, r

\* What schedule() returns: somebody who was READY or RUNNING owns the
\* processor, is the only RUNNING thread, and nobody READY is more urgent.
Scheduled(r, s) ==
    /\ r \in Scheduler
    /\ ListsAgree(r)
    /\ r.running \in Thread
    /\ \A u \in Thread : r.status[u] = "RUNNING" <=> u = r.running
    /\ \A u \in Thread : Active(r, u) <=> Active(s, u)
    /\ \A u \in Thread : Active(s, u) \/ r.status[u] = s.status[u]
    /\ \A u \in Thread :
          r.status[u] = "READY" => PriorityOf[r.running] <= PriorityOf[u]

\* schedule() does that when its running thread has not vanished (it may have
\* fallen asleep in the same exception handler) and some thread can run.
LEMMA ScheduleSchedules ==
    ASSUME NEW s \in Scheduler, ListsAgree(s), s.running \in Thread,
           s.status[s.running] \in {"RUNNING", "READY", "BLOCKED"},
           \A u \in Thread : s.status[u] = "RUNNING" => u = s.running,
           NEW w \in Thread, Active(s, w)
    PROVE  Scheduled(schedule(s), s)
<1> DEFINE q == Requeue(s)
           r == PickFirst(q)
<1>1. /\ q \in Scheduler
      /\ ListsAgree(q)
      /\ q.status = IF s.status[s.running] = "BLOCKED" THEN s.status
                    ELSE [s.status EXCEPT ![s.running] = "READY"]
  BY RequeueAgrees
<1>2. schedule(s) = r
  BY DEF schedule
<1> HIDE DEF q, r
<1>3. /\ s.status \in [Thread -> SchedStatus]
      /\ q.status \in [Thread -> SchedStatus]
  BY <1>1 DEF Scheduler
<1>4. \A u \in Thread :
        q.status[u] = IF Active(s, u) THEN "READY" ELSE s.status[u]
  BY <1>1, <1>3 DEF Active
<1>5. Picked(r, q)
  <2>1. \A u \in Thread : q.status[u] # "RUNNING"
    BY <1>4 DEF Active
  <2>2. q.status[w] = "READY"
    BY <1>4
  <2> QED  BY <1>1, <2>1, <2>2, PickFirstPicks DEF r
<1>6. /\ r \in Scheduler
      /\ ListsAgree(r)
      /\ r.running \in Thread
      /\ q.status[r.running] = "READY"
      /\ r.status = [q.status EXCEPT ![r.running] = "RUNNING"]
      /\ \A u \in Thread :
            q.status[u] = "READY" => PriorityOf[r.running] <= PriorityOf[u]
  BY <1>5 DEF Picked
<1>7. \A u \in Thread :
        r.status[u] = IF u = r.running THEN "RUNNING" ELSE q.status[u]
  BY <1>3, <1>6
<1> HIDE DEF Active
<1>8. Active(s, r.running)
  BY <1>4, <1>6 DEF Active
<1>9. \A u \in Thread : r.status[u] = "RUNNING" <=> u = r.running
  BY <1>4, <1>7 DEF Active
<1>10. \A u \in Thread : Active(r, u) <=> Active(s, u)
  BY <1>4, <1>7, <1>8 DEF Active
<1>11. \A u \in Thread : Active(s, u) \/ r.status[u] = s.status[u]
  BY <1>4, <1>7, <1>8
<1>12. \A u \in Thread :
          r.status[u] = "READY" => PriorityOf[r.running] <= PriorityOf[u]
  BY <1>6, <1>7
<1> QED  BY <1>2, <1>6, <1>9, <1>10, <1>11, <1>12 DEF Scheduled
=============================================================================
