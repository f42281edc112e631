--------------------------- MODULE HeapChainProofs ---------------------------
(***************************************************************************)
(* The pointers and loops of Memory/MMHeapMemory.c do what Heap says of    *)
(* sets of headers, for heaps of any size, and whatever owners write into  *)
(* their blocks.                                                           *)
(*                                                                         *)
(* Every loop follows pointers upwards, so it ends, and what it computes   *)
(* is found by induction from the last header down.  The invariant is that *)
(* there is a chain in the memory (IsChain); findFree, compact and hmFree  *)
(* then come by its headers in their order, and split puts a new one among *)
(* them.  What is proved of the sets, at the end, carries over.            *)
(***************************************************************************)
EXTENDS HeapChain, WellFoundedInduction, TLAPS

-----------------------------------------------------------------------------
(* Induction over a set of numbers.                                        *)

\* Every set of natural numbers has a least one.
LEMMA Least ==
    ASSUME NEW S, S \subseteq Nat, S # {}
    PROVE  \E m \in S : \A n \in S : m <= n
<1>1. IsWellFoundedOn({p \in Nat \X Nat : p[1] < p[2]}, Nat)
  BY NatLessThanWellFounded DEF OpToRel
<1>2. PICK x \in S : \A y \in S : ~(<<y, x>> \in {p \in Nat \X Nat : p[1] < p[2]})
  BY <1>1, WFMin
<1>3. \A y \in S : x <= y
  <2> TAKE y \in S
  <2>1. x \in Nat /\ y \in Nat
    OBVIOUS
  <2>2. <<y, x>> \in Nat \X Nat /\ <<y, x>>[1] = y /\ <<y, x>>[2] = x
    BY <2>1
  <2>3. ~(y < x)
    BY <1>2, <2>2
  <2> QED  BY <2>1, <2>3
<1> QED BY <1>3

\* Every bounded one has a greatest.
LEMMA Greatest ==
    ASSUME NEW K \in Nat, NEW S, S \subseteq 0 .. K, S # {}
    PROVE  \E m \in S : \A n \in S : n <= m
<1>1. PICK T : T = {i \in 0 .. K : K - i \in S}
  OBVIOUS
<1>2. PICK s \in S : TRUE
  OBVIOUS
<1>3. K - s \in 0 .. K /\ K - (K - s) = s
  BY <1>2
<1>4. T \subseteq Nat /\ T # {}
  BY <1>1, <1>3
<1>5. PICK t \in T : \A n \in T : t <= n
  BY <1>4, Least
<1>6. ASSUME NEW n \in S PROVE n <= K - t
  <2>1. K - n \in 0 .. K /\ K - (K - n) = n
    OBVIOUS
  <2>2. K - n \in T
    BY <2>1, <1>1
  <2>3. t <= K - n /\ t \in 0 .. K
    BY <2>2, <1>5, <1>1
  <2> QED BY <2>1, <2>3
<1>7. K - t \in S
  BY <1>1, <1>5
<1> QED BY <1>6, <1>7

\* Induction, and the same downwards in a bounded set.
LEMMA Induct ==
    ASSUME NEW N \in Nat, NEW S, 0 \in S, \A n \in 0 .. N - 1 : n \in S => n + 1 \in S
    PROVE  0 .. N \subseteq S
<1> SUFFICES ASSUME ~(0 .. N \subseteq S) PROVE FALSE
  OBVIOUS
<1>1. PICK m \in (0 .. N) \ S : \A n \in (0 .. N) \ S : m <= n
  <2>1. (0 .. N) \ S \subseteq Nat /\ (0 .. N) \ S # {}
    OBVIOUS
  <2> QED BY <2>1, Least
<1>2. m # 0 /\ m - 1 \in 0 .. N - 1 /\ m - 1 \in S
  BY <1>1
<1> QED BY <1>1, <1>2

\* The same downwards, in a bounded set of numbers.
LEMMA Downwards ==
    ASSUME NEW K \in Nat, NEW es, es \subseteq 0 .. K, NEW S,
           \A e \in es : (\A f \in es : e < f => f \in S) => e \in S
    PROVE  es \subseteq S
<1> SUFFICES ASSUME es \ S # {} PROVE FALSE
  OBVIOUS
<1>1. PICK e \in es \ S : \A f \in es \ S : f <= e
  <2>1. es \ S \subseteq 0 .. K
    OBVIOUS
  <2> QED BY <2>1, Greatest
<1>2. \A f \in es : e < f => f \in S
  <2> TAKE f \in es
  <2>1. e \in 0 .. K /\ f \in 0 .. K
    OBVIOUS
  <2> QED BY <2>1, <1>1
<1> QED BY <1>1, <1>2

-----------------------------------------------------------------------------
(* Loops that follow pointers upwards.                                     *)

\* The numbers behind the names.
LEMMA Numbers ==
    /\ start = 0 /\ end \in Nat /\ end % 4 = 0 /\ HEADER = 8 /\ ALIGN = 4 /\ LEFTOVER = 8
    /\ Words = {a \in 0 .. end + 4 : a % 4 = 0}
    /\ NULL \notin Int /\ HM_FREED # HM_ALLOCATED
BY HeapAssumption, ChainAssumption DEF start, end, HEADER, ALIGN, LEFTOVER, Words

\* Words are the multiples of four up to the second one of the header at end.
LEMMA WordsAre ==
    /\ \A w \in Words : w \in Nat /\ w <= end + 4 /\ w % 4 = 0
    /\ \A w \in Nat : w <= end + 4 /\ w % 4 = 0 => w \in Words
    /\ NULL \notin Words
BY Numbers

\* b leads upwards, r makes the value at a word of the one further up.
Upwards(b, r, V) ==
    /\ b \in [Words -> Pointers] /\ \A w \in Words : b[w] # NULL => b[w] > w
    /\ r \in [Words \X V -> V]

IsLoop(f, v0, b, r, V) ==
    /\ f \in [Pointers -> V]
    /\ \A x \in Pointers : f[x] = IF x = NULL THEN v0 ELSE r[<<x, f[b[x]]>>]

\* Such a loop ends.
LEMMA LoopExists ==
    ASSUME NEW b, NEW r, NEW V, Upwards(b, r, V), NEW v0 \in V
    PROVE  \E f : IsLoop(f, v0, b, r, V)
<1>0. /\ b \in [Words -> Pointers] /\ \A w \in Words : b[w] # NULL => b[w] > w
      /\ r \in [Words \X V -> V]
  BY DEF Upwards
<1>1. PICK K : K = end + 8
  OBVIOUS
<1>2. K \in Nat
  BY <1>1, Numbers
<1> DEFINE U(k) == {x \in Pointers : x = NULL \/ x + k >= K}
           Good(f, k) == /\ f \in [U(k) -> V]
                         /\ \A x \in U(k) : f[x] = IF x = NULL THEN v0 ELSE r[<<x, f[b[x]]>>]
           S == {k \in 0 .. K : \E f : Good(f, k)}
<1>3. 0 \in S
  <2>1. U(0) = {NULL}
    BY <1>1, WordsAre, Numbers DEF Pointers
  <2>2. PICK f : f = [x \in {NULL} |-> v0]
    OBVIOUS
  <2>3. Good(f, 0)
    BY <2>1, <2>2
  <2>4. \E g : Good(g, 0)
    BY <2>3
  <2>5. 0 \in 0 .. K
    BY <1>2
  <2> HIDE DEF Good
  <2> QED BY <2>4, <2>5
<1>4. ASSUME NEW k \in 0 .. K - 1, k \in S PROVE k + 1 \in S
  <2>1. PICK f : Good(f, k)
    BY <1>4
  <2>2. PICK g : g = [x \in U(k + 1) |-> IF x \in U(k) THEN f[x] ELSE r[<<x, f[b[x]]>>]]
    OBVIOUS
  <2>3. ASSUME NEW x \in U(k + 1), x # NULL PROVE b[x] \in U(k)
    <3>1. x \in Words /\ x + (k + 1) >= K
      BY <2>3 DEF Pointers
    <3>2. b[x] \in Pointers /\ (b[x] # NULL => b[x] \in Words /\ b[x] > x)
      BY <1>0, <3>1 DEF Pointers
    <3>3. b[x] # NULL => b[x] + k >= K
      BY <3>1, <3>2, WordsAre, <1>2
    <3> QED BY <3>2, <3>3
  <2>4. U(k) \subseteq U(k + 1)
    <3> SUFFICES ASSUME NEW x \in U(k), x # NULL PROVE x + (k + 1) >= K
      OBVIOUS
    <3>1. x \in Nat /\ x + k >= K
      BY WordsAre DEF Pointers
    <3> QED BY <3>1, <1>2
  <2>5. ASSUME NEW x \in U(k + 1)
        PROVE  g[x] \in V /\ g[x] = IF x = NULL THEN v0 ELSE r[<<x, g[b[x]]>>]
    <3>1. CASE x = NULL
      <4>1. x \in U(k)
        BY <3>1 DEF Pointers
      <4> QED BY <3>1, <4>1, <2>1, <2>2
    <3>2. CASE x # NULL
      <4>1. b[x] \in U(k) /\ x \in Words
        BY <3>2, <2>3 DEF Pointers
      <4>2. g[b[x]] = f[b[x]] /\ f[b[x]] \in V
        BY <4>1, <2>1, <2>2, <2>4
      <4>3. r[<<x, f[b[x]]>>] \in V
        BY <1>0, <4>1, <4>2
      <4>4. g[x] = r[<<x, f[b[x]]>>]
        BY <3>2, <2>1, <2>2
      <4> QED BY <3>2, <4>2, <4>3, <4>4
    <3> QED BY <3>1, <3>2
  <2>6. Good(g, k + 1)
    BY <2>2, <2>5
  <2> QED BY <2>6, <1>2
<1>5. S = {k \in 0 .. K : \E f : Good(f, k)}
  OBVIOUS
<1>6. U(K) = Pointers
  <2>1. \A x \in Words : x + K >= K
    BY WordsAre, <1>2
  <2> QED BY <2>1 DEF Pointers
<1> HIDE DEF S
<1>7. K \in S
  BY <1>2, <1>3, <1>4, Induct
<1>8. PICK f : Good(f, K)
  BY <1>5, <1>7
<1>9. f \in [Pointers -> V]
  BY <1>6, <1>8
<1>10. \A x \in Pointers : f[x] = IF x = NULL THEN v0 ELSE r[<<x, f[b[x]]>>]
  BY <1>6, <1>8, <1>9
<1> QED BY <1>9, <1>10 DEF IsLoop

\* es are the headers that the chain of m leads through.
IsChain(m, es) ==
    /\ m = [w \in Words |-> m[w]]
    /\ es \subseteq Words /\ start \in es /\ end \in es
    /\ \A e \in es : e <= end
    /\ \A e, f \in es : e < f => e + 8 <= f
    /\ \A e \in es : m[e] \in AreaStatus
    /\ m[end] = HM_ALLOCATED /\ m[end + 4] = NULL
    /\ \A e \in es \ {end} :
          /\ m[e + 4] \in es /\ e < m[e + 4]
          /\ \A f \in es : f <= e \/ m[e + 4] <= f

\* A header has two words.
LEMMA HeaderWords ==
    ASSUME NEW e \in Words, e <= end
    PROVE  e + 4 \in Words /\ e \in Nat
BY WordsAre, Numbers

\* Whatever is in the memory, entry = entry->next leads upwards or to NULL.
LEMMA FollowingUp ==
    ASSUME NEW m, NEW e \in Words
    PROVE  Following(m, e) \in Pointers /\ (Following(m, e) # NULL => Following(m, e) > e)
BY WordsAre DEF Following, Pointers, IsHeader

\* On a chain it leads to the next header, and from end to NULL.
LEMMA FollowingIs ==
    ASSUME NEW m, NEW es, IsChain(m, es), NEW e \in es
    PROVE  /\ e = end => Following(m, e) = NULL
           /\ e # end => Following(m, e) = m[e + 4]
<1>1. CASE e = end
  <2>1. NextOf(m, e) = NULL /\ NULL \notin Words
    BY <1>1, WordsAre, Numbers DEF NextOf, IsChain
  <2> QED BY <1>1, <2>1 DEF Following, IsHeader
<1>2. CASE e # end
  <2>1. PICK f \in es : f = m[e + 4] /\ e < f
    BY <1>2 DEF IsChain
  <2>2. NextOf(m, e) = f
    BY <2>1, Numbers DEF NextOf
  <2>3. f \in Words /\ f <= end /\ m[f] \in AreaStatus /\ e \in Words
    BY <2>1 DEF IsChain
  <2>4. f + ALIGN \in Words
    BY <2>3, HeaderWords, Numbers
  <2>5. f > e
    BY <2>1, <2>3, WordsAre
  <2> QED BY <1>2, <2>1, <2>2, <2>3, <2>4, <2>5 DEF Following, IsHeader
<1> QED BY <1>1, <1>2

\* The loop of findFree and the inner loop of compact: they stop in St.
LEMMA SearchExists ==
    ASSUME NEW m, NEW St
    PROVE  \E f \in [Pointers -> Pointers] :
              f = [x \in Pointers |->
                      IF x = NULL \/ x \in St THEN x ELSE f[Following(m, x)]]
<1>1. PICK b : b = [x \in Words |-> Following(m, x)]
  OBVIOUS
<1>2. b \in [Words -> Pointers] /\ \A w \in Words : b[w] # NULL => b[w] > w
  BY <1>1, FollowingUp
<1>3. PICK r : r = [p \in Words \X Pointers |-> IF p[1] \in St THEN p[1] ELSE p[2]]
  OBVIOUS
<1>4. r \in [Words \X Pointers -> Pointers]
  BY <1>3 DEF Pointers
<1>5. NULL \in Pointers /\ Upwards(b, r, Pointers)
  BY <1>2, <1>4 DEF Pointers, Upwards
<1>g. PICK f : IsLoop(f, NULL, b, r, Pointers)
  BY <1>5, LoopExists
<1>6. /\ f \in [Pointers -> Pointers]
      /\ \A x \in Pointers : f[x] = IF x = NULL THEN NULL ELSE r[<<x, f[b[x]]>>]
  BY <1>g DEF IsLoop
<1>7. ASSUME NEW x \in Pointers
      PROVE  f[x] = IF x = NULL \/ x \in St THEN x ELSE f[Following(m, x)]
  <2>1. CASE x = NULL
    BY <2>1, <1>6
  <2>2. CASE x # NULL
    <3>1. x \in Words /\ b[x] = Following(m, x) /\ b[x] \in Pointers
      BY <2>2, <1>1, <1>2 DEF Pointers
    <3>2. PICK v \in Pointers : v = f[b[x]]
      BY <3>1, <1>6
    <3>3. <<x, v>> \in Words \X Pointers /\ <<x, v>>[1] = x /\ <<x, v>>[2] = v
      BY <3>1
    <3>4. r[<<x, v>>] = IF x \in St THEN x ELSE v
      BY <3>3, <1>3
    <3>5. f[x] = r[<<x, v>>]
      BY <2>2, <1>6, <3>2
    <3> QED BY <2>2, <3>1, <3>2, <3>4, <3>5
  <2> QED BY <2>1, <2>2
<1>8. f = [x \in Pointers |-> IF x = NULL \/ x \in St THEN x ELSE f[Following(m, x)]]
  BY <1>6, <1>7
<1> QED BY <1>6, <1>8

\* It stops at the first header of the chain that is in St, or at NULL.
LEMMA SearchFinds ==
    ASSUME NEW m, NEW es, IsChain(m, es), NEW St, NEW f,
           f = [x \in Pointers |-> IF x = NULL \/ x \in St THEN x ELSE f[Following(m, x)]],
           NEW e \in es
    PROVE  \/ f[e] = NULL /\ \A g \in es : g >= e => g \notin St
           \/ /\ f[e] \in es /\ f[e] \in St /\ f[e] >= e
              /\ \A g \in es : g >= e /\ g < f[e] => g \notin St
<1> DEFINE Finds(x) == \/ f[x] = NULL /\ \A g \in es : g >= x => g \notin St
                       \/ /\ f[x] \in es /\ f[x] \in St /\ f[x] >= x
                          /\ \A g \in es : g >= x /\ g < f[x] => g \notin St
           S == {x \in es : Finds(x)}
<1>1. es \subseteq Words /\ es \subseteq 0 .. end /\ end \in Nat /\ es \subseteq Pointers
      /\ NULL \notin es
  BY WordsAre, Numbers DEF IsChain, Pointers
<1>2. ASSUME NEW x \in es, \A y \in es : x < y => y \in S PROVE x \in S
  <2>0. x \in Nat /\ x \in Pointers /\ x # NULL
    BY <1>1
  <2>1. CASE x \in St
    <3>1. f[x] = x
      BY <2>0, <2>1
    <3> QED BY <2>0, <2>1, <3>1, <1>1
  <2>2. CASE x \notin St /\ x = end
    <3>0. Following(m, x) = NULL /\ NULL \in Pointers
      BY <2>2, FollowingIs DEF Pointers
    <3>1. f[x] = f[NULL] /\ f[NULL] = NULL
      BY <2>0, <2>2, <3>0
    <3>2. \A g \in es : g >= x => g = x
      BY <2>2, <1>1
    <3> QED BY <2>2, <3>1, <3>2
  <2>3. CASE x \notin St /\ x # end
    <3>1. PICK y \in es : y = m[x + 4] /\ x < y /\ \A g \in es : g <= x \/ y <= g
      BY <2>3 DEF IsChain
    <3>2. f[x] = f[y]
      BY <2>0, <2>3, <3>1, FollowingIs
    <3>3. y \in S /\ y \in Nat
      BY <1>2, <3>1, <1>1
    <3>4. \A g \in es : g >= x => g = x \/ g >= y
      BY <3>1, <2>0, <1>1
    <3>5. \A g \in es : g >= y => g >= x
      BY <3>1, <2>0, <1>1
    <3> QED BY <2>3, <3>2, <3>3, <3>4, <3>5
  <2> QED BY <2>1, <2>2, <2>3
<1>3. es \subseteq S
  <2> HIDE DEF S
  <2> QED BY <1>1, <1>2, Downwards
<1> QED BY <1>3

\* findFree finds the first free block that is large enough.
LEMMA FindFreeIs ==
    ASSUME NEW m, NEW es, IsChain(m, es), NEW n
    PROVE  \/ findFree(m, n) = NULL /\ \A g \in es : ~Fits(m, g, n)
           \/ /\ findFree(m, n) \in es /\ Fits(m, findFree(m, n), n)
              /\ \A g \in es : g < findFree(m, n) => ~Fits(m, g, n)
<1>1. PICK St : St = {x \in Words : Fits(m, x, n)}
  OBVIOUS
<1> DEFINE Is(f) == f = [entry \in Pointers |->
               IF entry = NULL \/ Fits(m, entry, n) THEN entry ELSE f[Following(m, entry)]]
<1>2. PICK f : f = (CHOOSE g : Is(g)) /\ findFree(m, n) = f[start]
  BY DEF findFree
<1>3. \E g : Is(g)
  <2>1. PICK g : g = [x \in Pointers |->
                      IF x = NULL \/ x \in St THEN x ELSE g[Following(m, x)]]
    BY SearchExists
  <2>2. \A x \in Pointers : (x = NULL \/ x \in St) <=> (x = NULL \/ Fits(m, x, n))
    BY <1>1 DEF Pointers
  <2>3. Is(g)
    BY <2>1, <2>2
  <2> QED BY <2>3
<1>4. Is(f)
  BY <1>2, <1>3
<1>5. f = [x \in Pointers |-> IF x = NULL \/ x \in St THEN x ELSE f[Following(m, x)]]
  <2>2. \A x \in Pointers : (x = NULL \/ x \in St) <=> (x = NULL \/ Fits(m, x, n))
    BY <1>1 DEF Pointers
  <2> QED BY <1>4, <2>2
<1>6. start \in es /\ \A g \in es : g >= start /\ g \in Words
  BY WordsAre, Numbers DEF IsChain
<1>7. \A g \in es : g \in St <=> Fits(m, g, n)
  BY <1>6, <1>1
<1> HIDE DEF Is
<1>8. \/ f[start] = NULL /\ \A g \in es : g >= start => g \notin St
      \/ /\ f[start] \in es /\ f[start] \in St /\ f[start] >= start
         /\ \A g \in es : g >= start /\ g < f[start] => g \notin St
  <2>1. PICK e \in es : e = start
    BY <1>6
  <2>2. \/ f[e] = NULL /\ \A g \in es : g >= e => g \notin St
        \/ /\ f[e] \in es /\ f[e] \in St /\ f[e] >= e
           /\ \A g \in es : g >= e /\ g < f[e] => g \notin St
    BY <1>5, SearchFinds
  <2> QED BY <2>1, <2>2
<1> QED BY <1>2, <1>6, <1>7, <1>8

\* The first entry from e on that is in use; there is one, end.
LEMMA CollapsedIs ==
    ASSUME NEW m, NEW es, IsChain(m, es), NEW e \in es
    PROVE  /\ Collapsed(m, e) \in es /\ m[Collapsed(m, e)] = HM_ALLOCATED
           /\ Collapsed(m, e) >= e
           /\ \A g \in es : g >= e /\ g < Collapsed(m, e) => m[g] = HM_FREED
<1>1. PICK St : St = {x \in Words : ~GoesOn(m, x)}
  OBVIOUS
<1> DEFINE Is(f) == f = [atNext \in Pointers |->
               IF GoesOn(m, atNext) THEN f[Following(m, atNext)] ELSE atNext]
<1>2. PICK f : f = (CHOOSE g : Is(g)) /\ Collapsed(m, e) = f[e]
  BY DEF Collapsed
<1>p. \A x \in Pointers : (x = NULL \/ x \in St) <=> ~GoesOn(m, x)
  BY <1>1 DEF Pointers, GoesOn
<1>3. \E g : Is(g)
  <2>1. PICK g : g = [x \in Pointers |->
                      IF x = NULL \/ x \in St THEN x ELSE g[Following(m, x)]]
    BY SearchExists
  <2>3. Is(g)
    BY <2>1, <1>p
  <2> QED BY <2>3
<1>4. Is(f)
  BY <1>2, <1>3
<1>5. f = [x \in Pointers |-> IF x = NULL \/ x \in St THEN x ELSE f[Following(m, x)]]
  BY <1>4, <1>p
<1>6. \A g \in es : g \in Words /\ g # NULL /\ m[g] \in {HM_FREED, HM_ALLOCATED}
  BY WordsAre DEF IsChain, AreaStatus
<1>7. \A g \in es : g \in St <=> m[g] = HM_ALLOCATED
  BY <1>6, <1>1, Numbers DEF GoesOn, StatusOf
<1> HIDE DEF Is
<1>8. \/ f[e] = NULL /\ \A g \in es : g >= e => g \notin St
      \/ /\ f[e] \in es /\ f[e] \in St /\ f[e] >= e
         /\ \A g \in es : g >= e /\ g < f[e] => g \notin St
  BY <1>5, SearchFinds
<1>9. end \in es /\ end \in St /\ end >= e
  BY <1>7, Numbers, WordsAre DEF IsChain
<1> QED BY <1>2, <1>6, <1>7, <1>8, <1>9

\* The loop of hmFree comes by all headers and by nothing else.
LEMMA EntriesAre ==
    ASSUME NEW m, NEW es, IsChain(m, es)
    PROVE  Entries(m) = es
<1> DEFINE Is(f) == f = [entry \in Pointers |->
               IF entry = NULL THEN {} ELSE {entry} \cup f[Following(m, entry)]]
<1>1. PICK b : b = [x \in Words |-> Following(m, x)]
  OBVIOUS
<1>2. b \in [Words -> Pointers] /\ \A w \in Words : b[w] # NULL => b[w] > w
  BY <1>1, FollowingUp
<1>3. PICK r : r = [p \in Words \X SUBSET Words |-> {p[1]} \cup p[2]]
  OBVIOUS
<1>4. r \in [Words \X SUBSET Words -> SUBSET Words]
  BY <1>3
<1>5. Upwards(b, r, SUBSET Words) /\ {} \in SUBSET Words
  BY <1>2, <1>4 DEF Upwards
<1>6. PICK h : IsLoop(h, {}, b, r, SUBSET Words)
  BY <1>5, LoopExists
<1>7. /\ h \in [Pointers -> SUBSET Words]
      /\ \A x \in Pointers : h[x] = IF x = NULL THEN {} ELSE r[<<x, h[b[x]]>>]
  BY <1>6 DEF IsLoop
<1>8. ASSUME NEW x \in Pointers
      PROVE  h[x] = IF x = NULL THEN {} ELSE {x} \cup h[Following(m, x)]
  <2>1. CASE x = NULL
    BY <2>1, <1>7
  <2>2. CASE x # NULL
    <3>1. x \in Words /\ b[x] = Following(m, x) /\ b[x] \in Pointers
      BY <2>2, <1>1, <1>2 DEF Pointers
    <3>2. PICK v \in SUBSET Words : v = h[b[x]]
      BY <3>1, <1>7
    <3>3. <<x, v>> \in Words \X SUBSET Words /\ <<x, v>>[1] = x /\ <<x, v>>[2] = v
      BY <3>1
    <3>4. r[<<x, v>>] = {x} \cup v
      BY <3>3, <1>3
    <3>5. h[x] = r[<<x, v>>]
      BY <2>2, <1>7, <3>2
    <3> QED BY <2>2, <3>1, <3>2, <3>4, <3>5
  <2> QED BY <2>1, <2>2
<1>9. Is(h)
  BY <1>7, <1>8
<1>10. PICK f : f = (CHOOSE g : Is(g)) /\ Entries(m) = f[start]
  BY DEF Entries
<1>11. Is(f)
  BY <1>9, <1>10
<1> DEFINE S == {x \in es : f[x] = {g \in es : g >= x}}
<1>12. es \subseteq Words /\ es \subseteq 0 .. end /\ end \in Nat /\ es \subseteq Pointers
       /\ NULL \notin es /\ start \in es /\ start = 0
  BY WordsAre, Numbers DEF IsChain, Pointers
<1>13. ASSUME NEW x \in es, \A y \in es : x < y => y \in S PROVE x \in S
  <2>0. x \in Nat /\ x \in Pointers /\ x # NULL
    BY <1>12
  <2>1. f[x] = {x} \cup f[Following(m, x)]
    BY <1>11, <2>0
  <2>2. CASE x = end
    <3>1. Following(m, x) = NULL /\ NULL \in Pointers
      BY <2>2, FollowingIs DEF Pointers
    <3>2. f[NULL] = {}
      BY <3>1, <1>11
    <3>3. {g \in es : g >= x} = {x}
      BY <2>2, <1>12
    <3> QED BY <2>1, <3>1, <3>2, <3>3
  <2>3. CASE x # end
    <3>1. PICK y \in es : y = m[x + 4] /\ x < y /\ \A g \in es : g <= x \/ y <= g
      BY <2>3 DEF IsChain
    <3>2. f[x] = {x} \cup f[y]
      BY <2>1, <2>3, <3>1, FollowingIs
    <3>3. f[y] = {g \in es : g >= y} /\ y \in Nat
      BY <1>13, <3>1, <1>12
    <3>4. \A g \in es : g >= x <=> g = x \/ g >= y
      BY <3>1, <2>0, <1>12, <3>3
    <3>5. {g \in es : g >= x} = {x} \cup {g \in es : g >= y}
      BY <3>4
    <3> QED BY <3>2, <3>3, <3>5
  <2> QED BY <2>2, <2>3
<1>14. es \subseteq S
  <2> HIDE DEF S, Is
  <2> QED BY <1>12, <1>13, Downwards
<1>15. f[start] = {g \in es : g >= start}
  BY <1>14, <1>12
<1>16. {g \in es : g >= start} = es
  <2>1. \A g \in es : g >= 0
    BY <1>12
  <2> QED BY <2>1, <1>12
<1> QED BY <1>10, <1>15, <1>16

-----------------------------------------------------------------------------
(* compact                                                                 *)

\* The inner loop leads upwards from wherever it begins.
LEMMA CollapsedUp ==
    ASSUME NEW m, NEW e \in Pointers
    PROVE  /\ Collapsed(m, e) \in Pointers
           /\ Collapsed(m, e) # NULL => e # NULL /\ Collapsed(m, e) >= e
<1>1. PICK St : St = {x \in Words : ~GoesOn(m, x)}
  OBVIOUS
<1> DEFINE Is(f) == f = [atNext \in Pointers |->
               IF GoesOn(m, atNext) THEN f[Following(m, atNext)] ELSE atNext]
<1>2. PICK f : f = (CHOOSE g : Is(g)) /\ Collapsed(m, e) = f[e]
  BY DEF Collapsed
<1>p. \A x \in Pointers : (x = NULL \/ x \in St) <=> ~GoesOn(m, x)
  BY <1>1 DEF Pointers, GoesOn
<1>3. \E g : Is(g)
  <2>1. PICK g : g = [x \in Pointers |->
                      IF x = NULL \/ x \in St THEN x ELSE g[Following(m, x)]]
    BY SearchExists
  <2>3. Is(g)
    BY <2>1, <1>p
  <2> QED BY <2>3
<1>4. Is(f)
  BY <1>2, <1>3
<1> DEFINE S == {x \in Words : f[x] \in Pointers /\ (f[x] # NULL => f[x] >= x)}
<1>5. f[NULL] = NULL /\ NULL \in Pointers
  BY <1>4 DEF GoesOn, Pointers
<1>6. ASSUME NEW x \in Words, \A y \in Words : x < y => y \in S PROVE x \in S
  <2>1. x \in Pointers /\ x \in Nat /\ x >= x
    BY WordsAre DEF Pointers
  <2>2. CASE ~GoesOn(m, x)
    BY <2>1, <2>2, <1>4
  <2>3. CASE GoesOn(m, x)
    <3>1. PICK y : y = Following(m, x)
      OBVIOUS
    <3>2. f[x] = f[y]
      BY <2>1, <2>3, <1>4, <3>1
    <3>3. CASE y = NULL
      BY <3>2, <3>3, <1>5
    <3>4. CASE y # NULL
      <4>1. y \in Words /\ y > x
        BY <3>1, <3>4, FollowingUp DEF Pointers
      <4>2. y \in S /\ x < y /\ y \in Nat
        BY <4>1, <1>6, WordsAre, <2>1
      <4>3. f[y] \in Pointers /\ (f[y] # NULL => f[y] >= y /\ f[y] \in Nat)
        BY <4>2, WordsAre DEF Pointers
      <4> QED BY <3>2, <4>2, <4>3, <2>1
    <3> QED BY <3>3, <3>4
  <2> QED BY <2>2, <2>3
<1>7. Words \subseteq S
  <2>1. end + 4 \in Nat /\ Words \subseteq 0 .. end + 4
    BY Numbers, WordsAre
  <2> HIDE DEF S
  <2> QED BY <1>6, <2>1, Downwards
<1> QED BY <1>2, <1>5, <1>7 DEF Pointers

\* compact goes upwards, too.
LEMMA BehindUp ==
    ASSUME NEW m, NEW e \in Words
    PROVE  Behind(m, e) \in Pointers /\ (Behind(m, e) # NULL => Behind(m, e) > e)
<1>1. PICK y : y = Following(m, e)
  OBVIOUS
<1>2. y \in Pointers /\ (y # NULL => y > e /\ y \in Nat) /\ e \in Nat
  BY <1>1, FollowingUp, WordsAre DEF Pointers
<1>3. PICK z : z = Collapsed(m, y)
  OBVIOUS
<1>4. z \in Pointers /\ (z # NULL => y # NULL /\ z >= y /\ z \in Nat)
  BY <1>2, <1>3, CollapsedUp, WordsAre DEF Pointers
<1>5. Behind(m, e) = z \/ Behind(m, e) = y
  BY <1>1, <1>3 DEF Behind
<1> QED BY <1>2, <1>4, <1>5

\* What compact collapses, and what stays.
Gone(m, es) ==
    {e \in es : m[e] = HM_FREED /\
        \E d \in es : m[d] = HM_FREED /\ d < e /\ \A f \in es : f <= d \/ f >= e}

Kept(m, es) == es \ Gone(m, es)

\* start, end and whatever is in use are kept.
LEMMA KeptEnds ==
    ASSUME NEW m, NEW es, IsChain(m, es)
    PROVE  /\ start \in Kept(m, es) /\ end \in Kept(m, es)
           /\ \A e \in es : m[e] = HM_ALLOCATED => e \in Kept(m, es)
<1>1. \A e \in es : e \in Nat
  BY WordsAre DEF IsChain
<1>2. start \notin Gone(m, es)
  BY <1>1, Numbers DEF Gone
<1>3. \A e \in es : m[e] = HM_ALLOCATED => e \notin Gone(m, es)
  BY Numbers DEF Gone
<1> QED BY <1>2, <1>3 DEF Kept, IsChain

\* What compact makes a kept header point to: the next kept one.
LEMMA BehindIs ==
    ASSUME NEW m, NEW es, IsChain(m, es), NEW e \in Kept(m, es)
    PROVE  /\ e = end => Behind(m, e) = NULL
           /\ e # end => /\ Behind(m, e) \in Kept(m, es) /\ e < Behind(m, e)
                         /\ \A f \in Kept(m, es) : f <= e \/ Behind(m, e) <= f
<1>0. e \in es /\ (\A x \in es : x \in Nat /\ m[x] \in {HM_FREED, HM_ALLOCATED})
  BY WordsAre DEF IsChain, Kept, AreaStatus
<1>1. CASE e = end
  <2>1. StatusOf(m, e) # HM_FREED
    BY <1>1, Numbers DEF StatusOf, IsChain
  <2> QED BY <1>0, <1>1, <2>1, FollowingIs DEF Behind
<1>2. CASE e # end
  <2>1. PICK y \in es : y = m[e + 4] /\ e < y /\ \A g \in es : g <= e \/ y <= g
    BY <1>0, <1>2 DEF IsChain
  <2>2. Following(m, e) = y
    BY <1>0, <1>2, <2>1, FollowingIs
  <2>3. CASE m[e] # HM_FREED
    <3>1. Behind(m, e) = y
      BY <2>2, <2>3 DEF Behind, StatusOf
    <3>2. y \notin Gone(m, es)
      <4> SUFFICES ASSUME NEW d \in es, m[d] = HM_FREED, d < y,
                          \A f \in es : f <= d \/ f >= y
                   PROVE  FALSE
        BY DEF Gone
      <4>1. d <= e /\ e <= d
        BY <1>0, <2>1
      <4> QED BY <4>1, <1>0, <2>3
    <3> QED BY <1>2, <2>1, <3>1, <3>2 DEF Kept
  <2>4. CASE m[e] = HM_FREED
    <3>1. PICK z : z = Collapsed(m, y)
      OBVIOUS
    <3>2. /\ z \in es /\ m[z] = HM_ALLOCATED /\ z >= y
          /\ \A g \in es : g >= y /\ g < z => m[g] = HM_FREED
      BY <3>1, CollapsedIs
    <3>3. Behind(m, e) = z
      BY <2>2, <2>4, <3>1 DEF Behind, StatusOf
    <3>4. z \in Kept(m, es)
      BY <3>2, KeptEnds
    <3>5. ASSUME NEW f \in Kept(m, es), f > e, f < z PROVE FALSE
      <4>1. f \in es /\ f >= y /\ f \in Nat /\ m[f] = HM_FREED
        BY <3>5, <3>2, <2>1, <1>0 DEF Kept
      <4>2. PICK D : D = {d \in es : d < f}
        OBVIOUS
      <4>3. end \in Nat /\ D \subseteq 0 .. end /\ e \in D
        BY <4>2, <1>0, <3>5, Numbers DEF IsChain
      <4>4. PICK d \in D : \A g \in D : g <= d
        BY <4>3, Greatest
      <4>5. d \in es /\ d < f /\ d \in Nat /\ e <= d
        BY <4>2, <4>3, <4>4, <1>0
      <4>6. d = e \/ d >= y
        BY <4>5, <2>1, <1>0
      <4>7. m[d] = HM_FREED
        BY <4>5, <4>6, <2>4, <3>2, <3>5, <1>0, <4>1
      <4>8. \A g \in es : g <= d \/ g >= f
        BY <4>2, <4>4, <4>5, <1>0, <4>1
      <4>9. f \in Gone(m, es)
        BY <4>1, <4>5, <4>7, <4>8 DEF Gone
      <4> QED BY <4>9 DEF Kept
    <3>6. \A f \in Kept(m, es) : f <= e \/ z <= f
      <4> TAKE f \in Kept(m, es)
      <4>1. f \in Nat /\ z \in Nat
        BY <1>0, <3>2 DEF Kept
      <4> QED BY <3>5, <4>1, <1>0
    <3>7. e < z
      BY <3>2, <2>1, <1>0
    <3> QED BY <1>2, <3>3, <3>4, <3>6, <3>7
  <2> QED BY <2>3, <2>4
<1> QED BY <1>1, <1>2

\* compact makes every kept header point to the next one kept, and writes nothing else.
LEMMA CompactIs ==
    ASSUME NEW m, NEW es, IsChain(m, es)
    PROVE  /\ compact(m) = [w \in Words |-> compact(m)[w]]
           /\ \A e \in Kept(m, es) : compact(m)[e + 4] = Behind(m, e)
           /\ \A w \in Words : (\A e \in Kept(m, es) : w # e + 4) => compact(m)[w] = m[w]
<1> DEFINE Is(f) == f = [at \in Pointers |->
               IF at = NULL THEN m
               ELSE [f[Behind(m, at)] EXCEPT ![at + ALIGN] = Behind(m, at)]]
<1>0. PICK V : V = [Words -> {m[w] : w \in Words} \cup Pointers]
  OBVIOUS
<1>1. PICK b : b = [x \in Words |-> Behind(m, x)]
  OBVIOUS
<1>2. b \in [Words -> Pointers] /\ \A w \in Words : b[w] # NULL => b[w] > w
  BY <1>1, BehindUp
<1>3. PICK r : r = [p \in Words \X V |-> [p[2] EXCEPT ![p[1] + ALIGN] = Behind(m, p[1])]]
  OBVIOUS
<1>4. r \in [Words \X V -> V]
  <2>1. ASSUME NEW x \in Words, NEW v \in V
        PROVE  [v EXCEPT ![x + ALIGN] = Behind(m, x)] \in V
    BY <1>0, BehindUp
  <2> QED BY <2>1, <1>3
<1>5. m \in V
  BY <1>0 DEF IsChain
<1>6. Upwards(b, r, V)
  BY <1>2, <1>4 DEF Upwards
<1>7. PICK h : IsLoop(h, m, b, r, V)
  BY <1>5, <1>6, LoopExists
<1>8. /\ h \in [Pointers -> V]
      /\ \A x \in Pointers : h[x] = IF x = NULL THEN m ELSE r[<<x, h[b[x]]>>]
  BY <1>7 DEF IsLoop
<1>9. ASSUME NEW x \in Pointers
      PROVE  h[x] = IF x = NULL THEN m
                    ELSE [h[Behind(m, x)] EXCEPT ![x + ALIGN] = Behind(m, x)]
  <2>1. CASE x = NULL
    BY <2>1, <1>8
  <2>2. CASE x # NULL
    <3>1. x \in Words /\ b[x] = Behind(m, x) /\ b[x] \in Pointers
      BY <2>2, <1>1, <1>2 DEF Pointers
    <3>2. PICK v \in V : v = h[b[x]]
      BY <3>1, <1>8
    <3>3. <<x, v>> \in Words \X V /\ <<x, v>>[1] = x /\ <<x, v>>[2] = v
      BY <3>1
    <3>4. r[<<x, v>>] = [v EXCEPT ![x + ALIGN] = Behind(m, x)]
      BY <3>3, <1>3
    <3>5. h[x] = r[<<x, v>>]
      BY <2>2, <1>8, <3>2
    <3> QED BY <2>2, <3>1, <3>2, <3>4, <3>5
  <2> QED BY <2>1, <2>2
<1>10. Is(h)
  BY <1>8, <1>9
<1>11. PICK f : f = (CHOOSE g : Is(g)) /\ compact(m) = f[start]
  BY DEF compact
<1>12. Is(f)
  BY <1>10, <1>11
<1>13. PICK K : K = Kept(m, es)
  OBVIOUS
\* From x on, all kept headers have been written.
<1> DEFINE Done(x) == /\ f[x] = [w \in Words |-> f[x][w]]
                      /\ \A e \in K : e >= x => f[x][e + 4] = Behind(m, e)
                      /\ \A w \in Words : (\A e \in K : e >= x => w # e + 4) => f[x][w] = m[w]
           S == {x \in K : Done(x)}
<1>14. /\ K \subseteq 0 .. end /\ end \in Nat /\ K \subseteq Words /\ K \subseteq Pointers
       /\ NULL \notin K /\ start \in K /\ start = 0 /\ K \subseteq es
       /\ \A x \in K : x + 4 \in Words
  <2>1. K \subseteq es /\ start \in K
    BY <1>13, KeptEnds DEF Kept
  <2>2. es \subseteq Words /\ \A x \in es : x <= end
    BY DEF IsChain
  <2>3. \A x \in K : x \in Nat /\ x <= end /\ x + 4 \in Words
    BY <2>1, <2>2, HeaderWords
  <2>4. end \in Nat /\ start = 0
    BY Numbers
  <2>5. K \subseteq 0 .. end
    BY <2>3, <2>4
  <2>6. NULL \notin K /\ K \subseteq Pointers
    BY <2>1, <2>2, WordsAre DEF Pointers
  <2> QED BY <2>1, <2>2, <2>3, <2>4, <2>5, <2>6
<1>15. ASSUME NEW x \in K, \A y \in K : x < y => y \in S PROVE x \in S
  <2>0. x \in Nat /\ x \in Pointers /\ x # NULL /\ x + 4 \in Words
    BY <1>14
  <2>1. PICK y : y = Behind(m, x)
    OBVIOUS
  <2>2. f[x] = [f[y] EXCEPT ![x + 4] = y] /\ y \in Pointers
    <3>1. y \in Pointers
      BY <1>14, <2>1, BehindUp
    <3> QED BY <1>12, <2>0, <2>1, <3>1, Numbers
  <2>3. PICK v : v = f[y]
    OBVIOUS
  <2>4. /\ v = [w \in Words |-> v[w]]
        /\ \A e \in K : e > x => v[e + 4] = Behind(m, e)
        /\ \A w \in Words : (\A e \in K : e > x => w # e + 4) => v[w] = m[w]
    <3>1. CASE x = end
      <4>1. y = NULL /\ y \in Pointers
        BY <3>1, <1>13, <2>1, <2>2, BehindIs
      <4>2. v = m
        BY <4>1, <2>3, <1>12
      <4>3. \A e \in K : ~(e > x)
        BY <3>1, <1>14
      <4>4. m = [w \in Words |-> m[w]]
        BY DEF IsChain
      <4> QED BY <4>2, <4>3, <4>4
    <3>2. CASE x # end
      <4>1. y \in K /\ x < y /\ \A g \in K : g <= x \/ y <= g
        BY <3>2, <1>13, <2>1, BehindIs
      <4>2. Done(y)
        BY <4>1, <1>15
      <4>3. \A g \in K : g > x <=> g >= y
        BY <4>1, <1>14, <2>0
      <4> QED BY <2>3, <4>2, <4>3
    <3> QED BY <3>1, <3>2
  <2>5. f[x] = [v EXCEPT ![x + 4] = y]
    BY <2>2, <2>3
  <2>6. \A w \in Words : f[x][w] = IF w = x + 4 THEN y ELSE v[w]
    BY <2>5, <2>4
  <2>7. f[x] = [w \in Words |-> f[x][w]]
    BY <2>5, <2>4, <2>6
  <2>8. ASSUME NEW e \in K, e >= x PROVE f[x][e + 4] = Behind(m, e)
    <3>1. e = x \/ (e > x /\ e + 4 # x + 4)
      BY <2>8, <2>0, <1>14
    <3>2. e + 4 \in Words
      BY <1>14
    <3> QED BY <3>1, <3>2, <2>1, <2>4, <2>6
  <2>9. ASSUME NEW w \in Words, \A e \in K : e >= x => w # e + 4 PROVE f[x][w] = m[w]
    <3>1. w # x + 4 /\ \A e \in K : e > x => w # e + 4
      BY <2>9, <2>0, <1>14
    <3> QED BY <3>1, <2>4, <2>6
  <2> QED BY <2>7, <2>8, <2>9
<1>16. K \subseteq S
  <2> HIDE DEF S, Is
  <2> QED BY <1>14, <1>15, Downwards
<1>17. Done(start)
  BY <1>16, <1>14
<1>18. \A e \in K : e >= start
  BY <1>14
<1> QED BY <1>11, <1>13, <1>17, <1>18

\* compact leaves the chain of the kept headers, with their status.
LEMMA CompactSound ==
    ASSUME NEW m, NEW es, IsChain(m, es)
    PROVE  /\ IsChain(compact(m), Kept(m, es))
           /\ \A e \in Kept(m, es) : compact(m)[e] = m[e]
<1>1. PICK K : K = Kept(m, es)
  OBVIOUS
<1>2. PICK c : c = compact(m)
  OBVIOUS
<1>3. /\ c = [w \in Words |-> c[w]]
      /\ \A e \in K : c[e + 4] = Behind(m, e)
      /\ \A w \in Words : (\A e \in K : w # e + 4) => c[w] = m[w]
  BY <1>1, <1>2, CompactIs
<1>4. /\ K \subseteq es /\ K \subseteq Words /\ start \in K /\ end \in K
      /\ \A e \in K : e <= end /\ e \in Nat /\ m[e] \in AreaStatus
      /\ \A e, f \in K : e < f => e + 8 <= f
  BY <1>1, KeptEnds, WordsAre DEF IsChain, Kept
<1>5. ASSUME NEW e \in K PROVE c[e] = m[e]
  <2>1. \A f \in K : e # f + 4
    BY <1>4
  <2> QED BY <2>1, <1>3, <1>4
<1>6. c[end] = HM_ALLOCATED /\ c[end + 4] = NULL
  BY <1>1, <1>3, <1>4, <1>5, BehindIs DEF IsChain
<1>7. ASSUME NEW e \in K \ {end}
      PROVE  c[e + 4] \in K /\ e < c[e + 4] /\ \A f \in K : f <= e \/ c[e + 4] <= f
  BY <1>1, <1>3, BehindIs
<1>8. IsChain(c, K)
  BY <1>3, <1>4, <1>5, <1>6, <1>7 DEF IsChain
<1> QED BY <1>1, <1>2, <1>5, <1>8

-----------------------------------------------------------------------------
(* split, and what the owners write                                        *)

\* The words between headers say nothing of the chain.
LEMMA ChainKept ==
    ASSUME NEW m, NEW es, IsChain(m, es), NEW k, k = [w \in Words |-> k[w]],
           \A e \in es : k[e] = m[e] /\ k[e + 4] = m[e + 4]
    PROVE  IsChain(k, es)
BY DEF IsChain

\* A header changes its status.
LEMMA StatusSet ==
    ASSUME NEW m, NEW es, IsChain(m, es), NEW e \in es \ {end}, NEW s \in AreaStatus
    PROVE  IsChain([m EXCEPT ![e] = s], es)
<1>1. PICK k : k = [m EXCEPT ![e] = s]
  OBVIOUS
<1>2. /\ es \subseteq Words /\ end \in es /\ start \in es
      /\ \A f \in es : f \in Nat /\ f <= end /\ f + 4 \in Words
      /\ \A f, g \in es : f < g => f + 8 <= g
      /\ m = [w \in Words |-> m[w]]
  BY WordsAre, HeaderWords DEF IsChain
<1>3. \A w \in Words : k[w] = IF w = e THEN s ELSE m[w]
  BY <1>1, <1>2
<1>4. k = [w \in Words |-> k[w]]
  BY <1>1, <1>2, <1>3
<1>5. \A f \in es : k[f + 4] = m[f + 4]
  <2> TAKE f \in es
  <2>1. f + 4 # e
    BY <1>2
  <2> QED BY <2>1, <1>2, <1>3
<1>6. (\A f \in es : k[f] \in AreaStatus) /\ k[end] = HM_ALLOCATED
  BY <1>2, <1>3 DEF IsChain
<1>7. IsChain(k, es)
  BY <1>4, <1>5, <1>6, <1>2 DEF IsChain
<1> QED BY <1>1, <1>7

\* What the proofs need of the rounding.
LEMMA RoundedIs ==
    ASSUME NEW size \in Nat
    PROVE  Rounded(size) \in Nat /\ Rounded(size) % 4 = 0 /\ size < Rounded(size)
BY DEF Rounded, ALIGN

\* What split makes a header of.
Rest(m, e, n) == IF ENTRYSIZE(m, e) >= n + HEADER + LEFTOVER THEN {e + HEADER + n} ELSE {}

Taken(k, m, es, e, n) ==
    /\ IsChain(k, es \cup Rest(m, e, n))
    /\ k[e] = HM_ALLOCATED
    /\ \A f \in es \ {e} : k[f] = m[f]
    /\ \A f \in Rest(m, e, n) : k[f] = HM_FREED /\ f \notin es

\* The block at e is handed out, and its owner writes what it likes.
LEMMA TakenSound ==
    ASSUME NEW m, NEW es, IsChain(m, es), NEW e \in es,
           NEW n \in Nat, n % 4 = 0, Fits(m, e, n), NEW size \in Nat, size <= n,
           NEW k, k = Written(split(m, e, n), e + HEADER, size)
    PROVE  Taken(k, m, es, e, n)
<1>1. /\ es \subseteq Words /\ end \in es /\ start \in es
      /\ \A f \in es : f \in Nat /\ f <= end /\ f + 4 \in Words /\ m[f] \in AreaStatus
      /\ \A f, g \in es : f < g => f + 8 <= g
      /\ m = [w \in Words |-> m[w]]
      /\ m[end] = HM_ALLOCATED /\ m[end + 4] = NULL
      /\ m[e] = HM_FREED /\ e # end
  BY WordsAre, HeaderWords, Numbers DEF IsChain, Fits, StatusOf
<1>2. PICK y \in es : y = m[e + 4] /\ e < y /\ \A f \in es : f <= e \/ y <= f
  BY <1>1 DEF IsChain
<1>3. y - e - 8 >= n /\ ENTRYSIZE(m, e) = y - e - 8
  BY <1>2, Numbers DEF Fits, ENTRYSIZE, NextOf
<1>4. PICK new : new = e + 8 + n
  OBVIOUS
<1>i. e \in Nat /\ y \in Nat /\ end \in Nat /\ y <= end
  BY <1>1, <1>2, Numbers
<1>5. new \in Nat /\ new % 4 = 0 /\ new <= y
  <2>1. new \in Nat /\ new <= y
    BY <1>i, <1>3, <1>4
  <2>2. e % 4 = 0
    BY <1>1, WordsAre
  <2>3. (e + 8 + n) % 4 = 0
    BY <1>i, <2>2
  <2> QED BY <2>1, <2>3, <1>4
<1>6. PICK s : s = split(m, e, n)
  OBVIOUS
<1>7. ASSUME NEW w \in Words
      PROVE  k[w] = IF e + 8 <= w /\ w < e + 8 + size THEN JUNK ELSE s[w]
  BY <1>6, Numbers DEF Written
<1>8. k = [w \in Words |-> k[w]]
  BY <1>6 DEF Written
<1>9. ASSUME NEW f \in es PROVE k[f] = s[f] /\ k[f + 4] = s[f + 4]
  <2>0. f \in Nat /\ (f <= e \/ y <= f)
    BY <1>1, <1>2
  <2>1. f + 4 < e + 8 \/ f >= e + 8 + size
    BY <2>0, <1>3, <1>i
  <2>3. f < e + 8 \/ f >= e + 8 + size
    BY <2>0, <2>1, <1>i
  <2>4. f + 4 < e + 8 \/ f + 4 >= e + 8 + size
    BY <2>0, <2>1, <1>i
  <2>2. f \in Words /\ f + 4 \in Words
    BY <1>1
  <2> QED BY <1>i, <1>7, <2>0, <2>2, <2>3, <2>4
<1>10. CASE y - e - 8 >= n + 16
  <2>1. s = [m EXCEPT ![new] = HM_FREED, ![new + 4] = y, ![e] = HM_ALLOCATED, ![e + 4] = new]
    BY <1>10, <1>2, <1>3, <1>4, <1>6, Numbers DEF split, NextOf
  <2>2. Rest(m, e, n) = {new}
    BY <1>10, <1>3, <1>4, Numbers DEF Rest
  <2>3. new + 8 <= y /\ e + 8 <= new /\ new <= end /\ y <= end
    BY <1>i, <1>5, <1>4, <1>10
  <2>4. new \in Words /\ new + 4 \in Words
    <3>1. new <= end + 4
      BY <1>5, <2>3, <1>i
    <3>2. new \in Words
      BY <1>5, <3>1, WordsAre
    <3> QED BY <3>2, <2>3, HeaderWords
  <2>5. ASSUME NEW w \in Words
        PROVE  s[w] = IF w = e + 4 THEN new ELSE IF w = e THEN HM_ALLOCATED
                      ELSE IF w = new + 4 THEN y ELSE IF w = new THEN HM_FREED ELSE m[w]
    <3>1. e + 4 # e /\ e + 4 # new + 4 /\ e + 4 # new /\ e # new + 4 /\ e # new /\ new # new + 4
      BY <1>i, <1>5, <2>3
    <3> QED BY <1>1, <2>1, <2>4, <3>1
  <2>6. ASSUME NEW f \in es PROVE f \in Nat /\ (f = e \/ f + 8 <= e \/ f >= new + 8)
    <3>1. f \in Nat /\ (f <= e \/ y <= f)
      BY <1>1, <1>2
    <3>2. f < e => f + 8 <= e
      BY <1>1
    <3> QED BY <3>1, <3>2, <1>i, <1>5, <2>3
  <2>7. new \notin es
    <3> SUFFICES ASSUME new \in es PROVE FALSE
      OBVIOUS
    <3>1. new = e \/ new + 8 <= e \/ new >= new + 8
      BY <2>6
    <3> QED BY <3>1, <2>3, <1>i, <1>5
  <2>8. /\ k[e] = HM_ALLOCATED /\ k[e + 4] = new
    <3>1. e \in Words /\ e + 4 \in Words /\ e # e + 4
      BY <1>1, <1>i
    <3> QED BY <1>9, <2>5, <3>1
  <2>9. k[new] = HM_FREED /\ k[new + 4] = y
    <3>1. new >= e + 8 + size
      BY <1>i, <1>4
    <3>2. new # e /\ new # e + 4 /\ new # new + 4 /\ new + 4 # e /\ new + 4 # e + 4
      BY <1>i, <2>3, <1>5
    <3>3. s[new] = HM_FREED /\ s[new + 4] = y
      BY <2>4, <2>5, <3>2
    <3>4. ~(new < e + 8 + size) /\ ~(new + 4 < e + 8 + size)
      BY <1>i, <1>5, <3>1
    <3> QED BY <1>7, <2>4, <3>4, <3>3
  <2>10. ASSUME NEW f \in es \ {e} PROVE k[f] = m[f] /\ k[f + 4] = m[f + 4]
    <3>1. f \in Nat /\ (f + 8 <= e \/ f >= new + 8)
      BY <2>6
    <3>2. /\ f # e + 4 /\ f # new + 4 /\ f # new /\ f + 4 # e + 4
          /\ f + 4 # e /\ f + 4 # new + 4 /\ f + 4 # new
      BY <3>1, <1>i, <1>5, <2>3
    <3>3. f \in Words /\ f + 4 \in Words
      BY <1>1
    <3> QED BY <1>9, <2>5, <3>2, <3>3
  <2>11. PICK T : T = es \cup {new}
    OBVIOUS
  <2>12. T \subseteq Words /\ start \in T /\ end \in T /\ \A f \in T : f <= end
    BY <1>1, <2>3, <2>4, <2>11
  <2>13. ASSUME NEW f \in T, NEW g \in T, f < g PROVE f + 8 <= g
    <3>1. CASE f \in es /\ g \in es
      BY <3>1, <1>1, <2>13
    <3>2. CASE f = new /\ g \in es
      <4>1. g \in Nat /\ (g = e \/ g + 8 <= e \/ g >= new + 8)
        BY <3>2, <2>6
      <4> QED BY <3>2, <4>1, <2>3, <2>13, <1>i, <1>5
    <3>3. CASE f \in es /\ g = new
      <4>1. f \in Nat /\ (f = e \/ f + 8 <= e \/ f >= new + 8)
        BY <3>3, <2>6
      <4> QED BY <3>3, <4>1, <2>3, <2>13, <1>i, <1>5
    <3>4. CASE f = new /\ g = new
      BY <3>4, <2>13, <1>5
    <3> QED BY <3>1, <3>2, <3>3, <3>4, <2>11
  <2>d. \A f, g \in T : f < g => f + 8 <= g
    BY <2>13
  <2>14. \A f \in T : k[f] \in AreaStatus
    BY <1>1, <2>8, <2>9, <2>10, <2>11 DEF AreaStatus
  <2>15. k[end] = HM_ALLOCATED /\ k[end + 4] = NULL
    BY <1>1, <2>10
  <2>16. ASSUME NEW f \in T \ {end}
         PROVE  k[f + 4] \in T /\ f < k[f + 4] /\ \A g \in T : g <= f \/ k[f + 4] <= g
    <3>1. CASE f = e
      <4>1. ASSUME NEW g \in es PROVE g <= e \/ new <= g
        BY <2>6, <1>i, <1>5
      <4>2. e < new /\ new \in T /\ new <= new
        BY <2>3, <2>11, <1>i, <1>5
      <4> QED BY <3>1, <2>8, <2>11, <4>1, <4>2
    <3>2. CASE f = new
      <4>1. ASSUME NEW g \in es PROVE g <= new \/ y <= g
        <5>1. g \in Nat /\ (g <= e \/ y <= g)
          BY <1>1, <1>2
        <5> QED BY <5>1, <2>3, <1>i, <1>5
      <4>2. new < y /\ y \in T /\ new <= new
        BY <1>2, <1>i, <2>3, <2>11, <1>5
      <4> QED BY <3>2, <2>9, <2>11, <4>1, <4>2
    <3>3. CASE f # e /\ f # new
      <4>1. f \in es \ {end} /\ f \in es \ {e}
        BY <3>3, <2>11
      <4>2. PICK z \in es : z = m[f + 4] /\ f < z /\ \A g \in es : g <= f \/ z <= g
        BY <4>1 DEF IsChain
      <4>3. k[f + 4] = z /\ z \in T
        BY <2>10, <4>1, <4>2, <2>11
      <4>4. new <= f \/ z <= new
        <5>1. e <= f \/ z <= e
          BY <4>2
        <5>2. f \in Nat /\ z \in Nat /\ (f + 8 <= e \/ f >= new + 8)
          BY <2>6, <4>1, <4>2
        <5> QED BY <5>1, <5>2, <2>3, <1>i, <1>5
      <4> QED BY <4>2, <4>3, <4>4, <2>11
    <3> QED BY <3>1, <3>2, <3>3
  <2>17. IsChain(k, T)
    BY <1>8, <2>12, <2>d, <2>14, <2>15, <2>16 DEF IsChain
  <2> QED BY <2>2, <2>7, <2>8, <2>9, <2>10, <2>11, <2>17 DEF Taken
<1>11. CASE ~(y - e - 8 >= n + 16)
  <2>1. s = [m EXCEPT ![e] = HM_ALLOCATED]
    BY <1>11, <1>3, <1>6, Numbers DEF split
  <2>2. Rest(m, e, n) = {}
    BY <1>11, <1>3, Numbers DEF Rest
  <2>3. IsChain(s, es)
    BY <2>1, <1>1, StatusSet DEF AreaStatus
  <2>4. IsChain(k, es)
    BY <2>3, <1>8, <1>9, ChainKept
  <2>5. \A f \in es : s[f] = IF f = e THEN HM_ALLOCATED ELSE m[f]
    BY <2>1, <1>1
  <2>6. es \cup Rest(m, e, n) = es
    BY <2>2
  <2> QED BY <2>2, <2>4, <2>5, <2>6, <1>9 DEF Taken
<1> QED BY <1>10, <1>11

-----------------------------------------------------------------------------
(* What Heap says of sets of headers                                       *)

Frees(m, es) == {e \in es : m[e] = HM_FREED}

\* The constants of Heap are those of HeapChain.
LEMMA SameNumbers ==
    /\ HeapSets!HEADER = HEADER /\ HeapSets!LEFTOVER = LEFTOVER
    /\ HeapSets!start = start /\ HeapSets!end = end
    /\ \A size : HeapSets!Rounded(size) = Rounded(size)
BY DEF HeapSets!HEADER, HEADER, HeapSets!LEFTOVER, LEFTOVER, HeapSets!start, start,
       HeapSets!end, end, HeapSets!Rounded, Rounded, HeapSets!ALIGN, ALIGN

\* ENTRYSIZE is the distance to the next header.
LEMMA RoomIs ==
    ASSUME NEW m, NEW es, IsChain(m, es), NEW e \in es \ {end}, NEW n \in Nat
    PROVE  HeapSets!Room(es, e, n) <=> ENTRYSIZE(m, e) >= n
<1>1. PICK y \in es : y = m[e + 4] /\ e < y /\ \A f \in es : f <= e \/ y <= f
  BY DEF IsChain
<1>2. \A f \in es : f \in Nat
  BY WordsAre DEF IsChain
<1>3. ENTRYSIZE(m, e) = y - e - 8
  BY <1>1, Numbers DEF ENTRYSIZE, NextOf
<1>4. HeapSets!Room(es, e, n) <=> \A f \in es : f > e => f - e - 8 >= n
  BY SameNumbers, Numbers DEF HeapSets!Room
<1> QED BY <1>1, <1>2, <1>3, <1>4

\* The blocks that findFree looks for.
LEMMA FittingIs ==
    ASSUME NEW m, NEW es, IsChain(m, es), NEW n \in Nat
    PROVE  \A e \in es : Fits(m, e, n) <=> e \in HeapSets!Fitting(es, Frees(m, es), n)
<1> TAKE e \in es
<1>1. e = end => ~Fits(m, e, n) /\ e \notin Frees(m, es)
  BY Numbers DEF IsChain, Fits, StatusOf, Frees
<1>2. e # end => (HeapSets!Room(es, e, n) <=> ENTRYSIZE(m, e) >= n)
  BY RoomIs
<1> QED BY <1>1, <1>2 DEF HeapSets!Fitting, Frees, Fits, StatusOf

\* compact drops the same headers.
LEMMA AbsorbedIs ==
    ASSUME NEW m, NEW es
    PROVE  HeapSets!Absorbed(es, Frees(m, es)) = Gone(m, es)
BY DEF HeapSets!Absorbed, HeapSets!Before, Frees, Gone

\* findFree finds the first that fits.
LEMMA FoundIs ==
    ASSUME NEW m, NEW es, IsChain(m, es), NEW n \in Nat
    PROVE  /\ findFree(m, n) = NULL => HeapSets!Fitting(es, Frees(m, es), n) = {}
           /\ findFree(m, n) # NULL =>
                /\ findFree(m, n) \in Frees(m, es)
                /\ Fits(m, findFree(m, n), n)
                /\ HeapSets!First(HeapSets!Fitting(es, Frees(m, es), n), findFree(m, n))
<1>1. PICK F : F = HeapSets!Fitting(es, Frees(m, es), n)
  OBVIOUS
<1>2. F \subseteq es /\ \A e \in es : Fits(m, e, n) <=> e \in F
  <2>1. F \subseteq Frees(m, es)
    BY <1>1 DEF HeapSets!Fitting
  <2>2. Frees(m, es) \subseteq es
    BY DEF Frees
  <2> QED BY <1>1, <2>1, <2>2, FittingIs
<1>3. NULL \notin es /\ \A e \in es : e \in Nat
  BY WordsAre DEF IsChain
<1>4. CASE findFree(m, n) = NULL
  <2>1. \A e \in es : ~Fits(m, e, n)
    BY <1>3, <1>4, FindFreeIs
  <2> QED BY <1>1, <1>2, <1>4, <2>1
<1>5. CASE findFree(m, n) # NULL
  <2>1. PICK e \in es : /\ e = findFree(m, n) /\ Fits(m, e, n)
                        /\ \A f \in es : f < e => ~Fits(m, f, n)
    BY <1>5, FindFreeIs
  <2>2. HeapSets!First(F, e)
    BY <1>2, <1>3, <2>1 DEF HeapSets!First
  <2>3. e \in Frees(m, es)
    BY <2>1 DEF Frees, Fits, StatusOf
  <2> QED BY <1>1, <1>5, <2>1, <2>2, <2>3
<1> QED BY <1>4, <1>5

\* What every state is: memory with a chain in it.
Inv == IsChain(mem, Entries(mem)) /\ live = [a \in DOMAIN live |-> live[a]]

\* The header sets that Heap speaks of, when the words are k.
LEMMA SetsAre ==
    ASSUME NEW k, NEW es, IsChain(k, es)
    PROVE  /\ IsChain(k, Entries(k)) /\ Entries(k) = es
           /\ {e \in Entries(k) : k[e] = HM_FREED} = Frees(k, es)
BY EntriesAre DEF Frees

\* hmAlloc when a block has been found in m: mem itself, or what compact makes of it.
LEMMA TakeStep ==
    ASSUME NEW size \in Sizes, NEW m, NEW es, IsChain(m, es), NEW e, e = findFree(m, Rounded(size)),
           e # NULL, mem' = Written(split(m, e, Rounded(size)), e + HEADER, size),
           live' = [a \in DOMAIN live \cup {e + HEADER} |->
                        IF a = e + HEADER THEN size ELSE live[a]]
    PROVE  Inv' /\ HeapSets!Take(es, Frees(m, es), e, size)
<1>1. PICK n \in Nat : n = Rounded(size) /\ n % 4 = 0 /\ size < n /\ size \in Nat
  BY RoundedIs, HeapAssumption
<1>2. e \in Frees(m, es) /\ Fits(m, e, n)
  BY <1>1, FoundIs
<1>3. e \in es /\ e # end /\ size <= n
  BY <1>1, <1>2, Numbers DEF Frees, IsChain
<1>4. PICK k : k = mem'
  OBVIOUS
<1>5. k = Written(split(m, e, n), e + HEADER, size)
  BY <1>1, <1>4
<1>6. PICK rest : rest = Rest(m, e, n)
  OBVIOUS
<1>7. /\ IsChain(k, es \cup rest)
      /\ k[e] = HM_ALLOCATED
      /\ \A f \in es \ {e} : k[f] = m[f]
      /\ \A f \in rest : k[f] = HM_FREED /\ f \notin es
  <2>1. Taken(k, m, es, e, n)
    BY <1>1, <1>2, <1>3, <1>5, TakenSound
  <2> QED BY <2>1, <1>6 DEF Taken
<1>8. Entries(k) = es \cup rest /\ {f \in Entries(k) : k[f] = HM_FREED} = Frees(k, es \cup rest)
  BY <1>7, SetsAre
<1>9. Frees(k, es \cup rest) = (Frees(m, es) \ {e}) \cup rest
  BY <1>3, <1>7, Numbers DEF Frees
<1>10. Inv'
  <2>1. IsChain(k, Entries(k))
    BY <1>7, <1>8
  <2>2. live' = [a \in DOMAIN live' |-> live'[a]]
    OBVIOUS
  <2> QED BY <1>4, <2>1, <2>2 DEF Inv
<1>11. rest = IF HeapSets!Splits(es, e, n) THEN {e + HEADER + n} ELSE {}
  <2>1. n + HEADER + LEFTOVER \in Nat
    BY <1>1, Numbers
  <2>2. HeapSets!Room(es, e, n + HEADER + LEFTOVER) <=> ENTRYSIZE(m, e) >= n + HEADER + LEFTOVER
    BY <1>3, <2>1, RoomIs
  <2> QED BY <1>6, <2>2, SameNumbers DEF HeapSets!Splits, Rest
<1>12. /\ Entries(mem') = es \cup rest
       /\ {f \in Entries(mem') : mem'[f] = HM_FREED} = (Frees(m, es) \ {e}) \cup rest
  BY <1>4, <1>8, <1>9
<1>13. HeapSets!Take(es, Frees(m, es), e, size)
  BY <1>1, <1>11, <1>12, SameNumbers DEF HeapSets!Take
<1> QED BY <1>10, <1>13

\* hmAlloc does one of the three things that Heap allows.
LEMMA AllocStep ==
    ASSUME Inv, NEW size \in Sizes, hmAlloc(size)
    PROVE  Inv' /\ HeapSets!Alloc(size)
<1>1. PICK n \in Nat : n = Rounded(size)
  BY RoundedIs, HeapAssumption
<1>2. PICK m : m = mem
  OBVIOUS
<1>3. PICK es : es = Entries(m)
  OBVIOUS
<1>4. IsChain(m, es) /\ {e \in Entries(mem) : mem[e] = HM_FREED} = Frees(m, es)
  BY <1>2, <1>3 DEF Inv, Frees
<1>5. PICK fr : fr = Frees(m, es)
  OBVIOUS
<1>6. PICK c : c = compact(m)
  OBVIOUS
<1>7. PICK K : K = Kept(m, es)
  OBVIOUS
<1>8. IsChain(c, K) /\ Frees(c, K) = fr \ Gone(m, es) /\ K = es \ Gone(m, es)
  <2>1. IsChain(c, K) /\ \A e \in K : c[e] = m[e]
    BY <1>4, <1>6, <1>7, CompactSound
  <2> QED BY <2>1, <1>5, <1>7 DEF Frees, Kept
<1>9. HeapSets!Absorbed(es, fr) = Gone(m, es)
  BY <1>5, AbsorbedIs
<1>10. HeapSets!Rounded(size) = n
  BY <1>1, SameNumbers
<1>11. CASE findFree(m, n) # NULL
  <2>1. PICK e : e = findFree(m, n)
    OBVIOUS
  <2>2. Searched(n) = m /\ Found(n) = e /\ e # NULL
    BY <1>2, <1>11, <2>1 DEF Searched, Found
  <2>3. /\ mem' = Written(split(m, e, n), e + HEADER, size)
        /\ live' = [a \in DOMAIN live \cup {e + HEADER} |->
                        IF a = e + HEADER THEN size ELSE live[a]]
    BY <1>1, <2>2 DEF hmAlloc
  <2>4. Inv' /\ HeapSets!Take(es, fr, e, size)
    BY <1>1, <1>4, <1>5, <2>1, <2>2, <2>3, TakeStep
  <2>5. HeapSets!First(HeapSets!Fitting(es, fr, n), e) /\ e \in fr
    BY <1>4, <1>5, <1>11, <2>1, FoundIs
  <2>6. HeapSets!AllocFirst(size)
    BY <1>2, <1>3, <1>4, <1>5, <1>10, <2>4, <2>5 DEF HeapSets!AllocFirst
  <2> QED BY <2>4, <2>6 DEF HeapSets!Alloc
<1>12. CASE findFree(m, n) = NULL /\ findFree(c, n) # NULL
  <2>1. PICK e : e = findFree(c, n)
    OBVIOUS
  <2>2. Searched(n) = c /\ Found(n) = e /\ e # NULL
    BY <1>2, <1>6, <1>12, <2>1 DEF Searched, Found
  <2>3. /\ mem' = Written(split(c, e, n), e + HEADER, size)
        /\ live' = [a \in DOMAIN live \cup {e + HEADER} |->
                        IF a = e + HEADER THEN size ELSE live[a]]
    BY <1>1, <2>2 DEF hmAlloc
  <2>4. Inv' /\ HeapSets!Take(K, Frees(c, K), e, size)
    BY <1>1, <1>8, <2>1, <2>2, <2>3, TakeStep
  <2>5. HeapSets!First(HeapSets!Fitting(K, Frees(c, K), n), e) /\ e \in Frees(c, K)
    BY <1>8, <1>12, <2>1, FoundIs
  <2>6. HeapSets!Fitting(es, fr, n) = {}
    BY <1>4, <1>5, <1>12, FoundIs
  <2>7. HeapSets!AllocCompacted(size)
    BY <1>2, <1>3, <1>4, <1>5, <1>8, <1>9, <1>10, <2>4, <2>5, <2>6 DEF HeapSets!AllocCompacted
  <2> QED BY <2>4, <2>7 DEF HeapSets!Alloc
<1>13. CASE findFree(m, n) = NULL /\ findFree(c, n) = NULL
  <2>1. Searched(n) = c /\ Found(n) = NULL
    BY <1>2, <1>6, <1>13 DEF Searched, Found
  <2>2. mem' = c /\ live' = live
    BY <1>1, <2>1 DEF hmAlloc
  <2>3. /\ IsChain(c, Entries(c)) /\ Entries(c) = K
        /\ {e \in Entries(c) : c[e] = HM_FREED} = Frees(c, K)
    BY <1>8, SetsAre
  <2>4. Inv'
    BY <2>2, <2>3 DEF Inv
  <2>5. HeapSets!Fitting(es, fr, n) = {} /\ HeapSets!Fitting(K, Frees(c, K), n) = {}
    BY <1>4, <1>5, <1>8, <1>13, FoundIs
  <2>6. Entries(mem') = K /\ {e \in Entries(mem') : mem'[e] = HM_FREED} = fr \ Gone(m, es)
    BY <2>2, <2>3, <1>8
  <2>7. HeapSets!AllocFails(size)
    BY <1>2, <1>3, <1>4, <1>5, <1>8, <1>9, <1>10, <2>2, <2>5, <2>6 DEF HeapSets!AllocFails
  <2> QED BY <2>4, <2>7 DEF HeapSets!Alloc
<1> QED BY <1>11, <1>12, <1>13

\* hmFree frees a block, as Heap says, or does nothing.
LEMMA FreeStep ==
    ASSUME Inv, NEW address \in Words, hmFree(address)
    PROVE  /\ Inv'
           /\ UNCHANGED HeapSets!vars
              \/ \E a \in HeapSets!Addresses : HeapSets!Free(a) \/ HeapSets!FreeStray(a)
<1>2. PICK m : m = mem
  OBVIOUS
<1>3. PICK es : es = Entries(m)
  OBVIOUS
<1>4. IsChain(m, es) /\ {e \in Entries(mem) : mem[e] = HM_FREED} = Frees(m, es)
  BY <1>2, <1>3 DEF Inv, Frees
<1>5. CASE start <= address /\ address < end - LEFTOVER /\ address - HEADER \in es
  <2>1. PICK e \in es : e = address - 8
    BY <1>5, Numbers
  <2>2. address \in Nat /\ end \in Nat /\ e \in Nat /\ address = e + 8 /\ address < end - 8
    BY <1>4, <1>5, <2>1, WordsAre, Numbers DEF IsChain
  <2>3. e # end
    BY <2>2
  <2>4. PICK k : k = [m EXCEPT ![e] = HM_FREED]
    OBVIOUS
  <2>5. mem' = k /\ live' = Restrict(live, DOMAIN live \ {address})
    BY <1>2, <1>3, <1>5, <2>1, <2>4, Numbers DEF hmFree
  <2>6. IsChain(k, es)
    BY <1>4, <2>3, <2>4, StatusSet DEF AreaStatus
  <2>7. /\ IsChain(k, Entries(k)) /\ Entries(k) = es
        /\ {f \in Entries(k) : k[f] = HM_FREED} = Frees(k, es)
    BY <2>6, SetsAre
  <2>8. Frees(k, es) = Frees(m, es) \cup {e}
    <3>1. es \subseteq Words /\ m = [w \in Words |-> m[w]]
      BY <1>4 DEF IsChain
    <3>2. \A f \in es : k[f] = IF f = e THEN HM_FREED ELSE m[f]
      BY <2>4, <3>1
    <3> QED BY <3>2 DEF Frees
  <2>9. live' = [a \in DOMAIN live \ {address} |-> live[a]]
    BY <2>5 DEF Restrict
  <2>10. Inv'
    BY <2>5, <2>7, <2>9 DEF Inv
  <2>11. HeapSets!InsideHeap(address) /\ address - HeapSets!HEADER = e
    BY <1>5, <2>1, SameNumbers, Numbers DEF HeapSets!InsideHeap
  <2>12. address \in HeapSets!Addresses
    <3>1. address % 4 = 0 /\ 0 <= address /\ address <= end
      BY <2>2, WordsAre
    <3>2. address \in start .. end
      BY <2>2, <3>1, Numbers
    <3> QED BY <3>1, <3>2, SameNumbers DEF HeapSets!Addresses, HeapSets!ALIGN
  <2>13. /\ Entries(mem') = Entries(mem) /\ Entries(mem) = es
         /\ {f \in Entries(mem') : mem'[f] = HM_FREED}
                = {f \in Entries(mem) : mem[f] = HM_FREED} \cup {e}
    BY <1>2, <1>3, <1>4, <2>5, <2>7, <2>8
  <2>14. CASE address \in DOMAIN live
    <3>1. live' = HeapSets!Restrict(live, DOMAIN live \ {address})
      BY <2>9 DEF HeapSets!Restrict
    <3>2. HeapSets!Free(address)
      BY <2>11, <2>13, <2>14, <3>1 DEF HeapSets!Free
    <3> QED BY <2>10, <2>12, <3>2
  <2>15. CASE address \notin DOMAIN live
    <3>1. live' = live
      <4>1. DOMAIN live \ {address} = DOMAIN live
        BY <2>15
      <4> QED BY <4>1, <2>9 DEF Inv
    <3>2. HeapSets!FreeStray(address)
      BY <2>11, <2>13, <2>15, <3>1 DEF HeapSets!FreeStray
    <3> QED BY <2>10, <2>12, <3>2
  <2> QED BY <2>14, <2>15
<1>6. CASE ~(start <= address /\ address < end - LEFTOVER /\ address - HEADER \in es)
  <2>1. mem' = mem /\ live' = live
    BY <1>2, <1>3, <1>6 DEF hmFree
  <2> QED BY <2>1 DEF Inv, HeapSets!vars
<1> QED BY <1>5, <1>6

\* hmInit makes the first chain.
LEMMA InitIs == hmInit => Inv /\ HeapSets!Init
<1> SUFFICES ASSUME hmInit PROVE Inv /\ HeapSets!Init
  OBVIOUS
<1>1. PICK m : m = mem
  OBVIOUS
<1>2. m = [w \in Words |-> CASE w = start         -> HM_FREED
                             [] w = start + ALIGN -> end
                             [] w = end           -> HM_ALLOCATED
                             [] w = end + ALIGN   -> NULL
                             [] OTHER             -> JUNK]
  BY <1>1 DEF hmInit
<1>3. end \in Nat /\ end >= 8 /\ end % 4 = 0 /\ start = 0
  BY HeapAssumption DEF start, end, HEADER, ALIGN
<1>4. start \in Words /\ start + 4 \in Words /\ end \in Words /\ end + 4 \in Words
  BY <1>3, Numbers
<1>5. PICK es : es = {start, end}
  OBVIOUS
<1>6. /\ m[start] = HM_FREED /\ m[start + 4] = end
      /\ m[end] = HM_ALLOCATED /\ m[end + 4] = NULL
  <2>1. start + 4 # start /\ end # start /\ end # start + 4 /\ end + 4 # start
        /\ end + 4 # start + 4 /\ end + 4 # end
    BY <1>3
  <2> QED BY <1>2, <1>4, <2>1, Numbers
<1>7. m = [w \in Words |-> m[w]]
  BY <1>2
<1>8. IsChain(m, es)
  <2>1. es \subseteq Words /\ start \in es /\ end \in es /\ \A e \in es : e <= end
    BY <1>3, <1>4, <1>5
  <2>2. \A e, f \in es : e < f => e + 8 <= f
    BY <1>3, <1>5
  <2>3. \A e \in es : m[e] \in AreaStatus
    BY <1>5, <1>6 DEF AreaStatus
  <2>4. \A e \in es \ {end} : m[e + 4] \in es /\ e < m[e + 4]
                                /\ \A f \in es : f <= e \/ m[e + 4] <= f
    <3>1. start < end /\ (\A f \in es : f <= start \/ end <= f)
      BY <1>3, <1>5
    <3> QED BY <3>1, <1>5, <1>6
  <2> QED BY <2>1, <2>2, <2>3, <2>4, <1>6, <1>7 DEF IsChain
<1>9. /\ IsChain(m, Entries(m)) /\ Entries(m) = es
      /\ {e \in Entries(m) : m[e] = HM_FREED} = Frees(m, es)
  BY <1>8, SetsAre
<1>10. Frees(m, es) = {start}
  BY <1>5, <1>6, Numbers DEF Frees
<1>11. Inv
  BY <1>1, <1>9 DEF Inv, hmInit
<1>12. HeapSets!Init
  BY <1>1, <1>5, <1>9, <1>10, SameNumbers DEF HeapSets!Init, hmInit
<1> QED BY <1>11, <1>12

\* Every step keeps the chain, and is a step of the heap of sets or none.
LEMMA StepIs == Inv /\ [Next]_vars => Inv' /\ [HeapSets!Next]_(HeapSets!vars)
<1> SUFFICES ASSUME Inv, [Next]_vars PROVE Inv' /\ [HeapSets!Next]_(HeapSets!vars)
  OBVIOUS
<1>1. CASE \E size \in Sizes : hmAlloc(size)
  BY <1>1, AllocStep DEF HeapSets!Next
<1>2. CASE \E address \in Words : hmFree(address)
  BY <1>2, FreeStep DEF HeapSets!Next
<1>3. CASE UNCHANGED vars
  BY <1>3 DEF vars, Inv, HeapSets!vars
<1> QED BY <1>1, <1>2, <1>3 DEF Next

\* In every state there is a chain of headers in the memory: no sequence of
\* allocations, frees and writes of the owners breaks it.
THEOREM ChainInvariant == Spec => []Inv
<1>1. Inv /\ [Next]_vars => Inv'
  BY StepIs
<1> QED BY <1>1, InitIs, PTL DEF Spec

\* The pointers and loops of the heap do what Heap says of sets of headers.
THEOREM ChainIsHeap == Spec => ImplementsHeap
<1>1. Inv /\ [Next]_vars => [HeapSets!Next]_(HeapSets!vars)
  BY StepIs
<1>2. hmInit => HeapSets!Init
  BY InitIs
<1> QED BY <1>1, <1>2, ChainInvariant, PTL DEF Spec, ImplementsHeap, HeapSets!Spec
\* Whatever the owners write, the chain leads from start to end, upwards and
\* through nothing but headers.
THEOREM ChainStands == Spec => []ChainIntact
<1>1. Inv => ChainIntact
  <2> SUFFICES ASSUME Inv PROVE ChainIntact
    OBVIOUS
  <2>1. PICK es : es = Entries(mem)
    OBVIOUS
  <2>2. IsChain(mem, es)
    BY <2>1 DEF Inv
  <2>3. end \in es /\ mem[end] = HM_ALLOCATED /\ mem[end + ALIGN] = NULL
    BY <2>2, Numbers DEF IsChain
  <2>4. ASSUME NEW e \in es \ {end}
        PROVE  NextOf(mem, e) \in es /\ e + HEADER <= NextOf(mem, e)
    <3>1. PICK f \in es : f = mem[e + 4] /\ e < f
      BY <2>2, <2>4 DEF IsChain
    <3>2. e + 8 <= f
      BY <2>2, <3>1 DEF IsChain
    <3> QED BY <3>1, <3>2, Numbers DEF NextOf
  <2> QED BY <2>1, <2>3, <2>4 DEF ChainIntact
<1> QED BY <1>1, ChainInvariant, PTL

\* A stretch of free memory is one block for the second search.
LEMMA StretchFits ==
    ASSUME NEW m, NEW es, IsChain(m, es), NEW n \in Nat, NEW e \in es, m[e] = HM_FREED,
           \A f \in es : f > e /\ m[f] = HM_ALLOCATED => f - e - 8 >= n
    PROVE  \E d \in Kept(m, es) : Fits(compact(m), d, n)
<1>1. PICK K : K = Kept(m, es)
  OBVIOUS
<1>2. /\ K \subseteq es /\ start \in K /\ end \in Nat /\ start = 0 /\ end \in K
      /\ \A x \in es : x \in Nat /\ x <= end /\ m[x] \in {HM_FREED, HM_ALLOCATED}
      /\ \A x \in es : m[x] = HM_ALLOCATED => x \in K
  BY <1>1, KeptEnds, WordsAre, Numbers DEF IsChain, Kept, AreaStatus
<1>3. PICK D : D = {x \in K : x <= e}
  OBVIOUS
<1>4. PICK d \in D : \A x \in D : x <= d
  <2>1. D \subseteq 0 .. end /\ start \in D
    <3>1. \A x \in K : x \in 0 .. end
      BY <1>2
    <3>2. start <= e
      BY <1>2
    <3> QED BY <3>1, <3>2, <1>2, <1>3
  <2> QED BY <2>1, <1>2, Greatest
<1>5. d \in K /\ d <= e /\ d \in Nat /\ e \in Nat /\ d \in es
  BY <1>2, <1>3, <1>4
<1>6. \A x \in K : x > d => x > e
  <2> TAKE x \in K
  <2>1. x \in Nat /\ (x <= e => x <= d)
    BY <1>2, <1>3, <1>4
  <2> QED BY <2>1, <1>5
<1>7. d # end
  <2>1. e # end /\ e <= end
    BY <1>2, Numbers DEF IsChain
  <2> QED BY <2>1, <1>2, <1>5
<1>8. PICK y \in es : y = m[d + 4] /\ d < y /\ \A g \in es : g <= d \/ y <= g
  BY <1>5, <1>7 DEF IsChain
<1>9. m[d] = HM_FREED
  <2>1. CASE d = e
    BY <2>1
  <2>2. CASE d # e
    <3>1. y <= e /\ y \in Nat
      BY <2>2, <1>2, <1>5, <1>8
    <3>2. y \notin K
      BY <3>1, <1>5, <1>6, <1>8
    <3>3. y \in Gone(m, es)
      BY <1>1, <1>8, <3>2 DEF Kept
    <3>4. PICK c \in es : m[c] = HM_FREED /\ c < y /\ \A g \in es : g <= c \/ g >= y
      BY <3>3 DEF Gone
    <3>5. c = d
      BY <3>1, <3>4, <1>2, <1>5, <1>8
    <3> QED BY <3>4, <3>5
  <2> QED BY <2>1, <2>2
<1>10. PICK z : z = Behind(m, d)
  OBVIOUS
<1>11. z \in K /\ d < z
  BY <1>1, <1>5, <1>7, <1>10, BehindIs
<1>12. m[z] = HM_ALLOCATED
  <2>1. z = Collapsed(m, y)
    BY <1>5, <1>7, <1>8, <1>9, <1>10, FollowingIs DEF Behind, StatusOf
  <2> QED BY <2>1, CollapsedIs
<1>13. z > e /\ z \in Nat /\ z \in es
  BY <1>2, <1>5, <1>6, <1>11
<1>14. z - e - 8 >= n
  BY <1>12, <1>13
<1>15. z - d - 8 >= n
  BY <1>5, <1>13, <1>14
<1>16. compact(m)[d] = HM_FREED /\ compact(m)[d + 4] = z
  BY <1>1, <1>5, <1>9, <1>10, CompactSound, CompactIs
<1>17. Fits(compact(m), d, n)
  BY <1>15, <1>16, Numbers DEF Fits, StatusOf, ENTRYSIZE, NextOf
<1> QED BY <1>1, <1>5, <1>17

\* hmAlloc fails only if no stretch of free memory is large enough.
THEOREM FailsWhenFull == Spec => []FailsOnlyWhenFull
<1>1. Inv => FailsOnlyWhenFull
  <2> SUFFICES ASSUME Inv, NEW size \in Sizes, Found(Rounded(size)) = NULL,
                      NEW e \in Entries(mem), CouldHold(e, Rounded(size))
               PROVE  FALSE
    BY DEF FailsOnlyWhenFull
  <2>1. PICK es : es = Entries(mem)
    OBVIOUS
  <2>2. PICK m : m = mem
    OBVIOUS
  <2>3. IsChain(m, es)
    BY <2>1, <2>2 DEF Inv
  <2>4. PICK n \in Nat : n = Rounded(size)
    BY RoundedIs, HeapAssumption
  <2>5. findFree(m, n) = NULL /\ findFree(compact(m), n) = NULL
    BY <2>2, <2>4 DEF Found, Searched
  <2>6. m[e] = HM_FREED /\ \A f \in es : f > e /\ m[f] = HM_ALLOCATED => f - e - 8 >= n
    BY <2>1, <2>2, <2>4, Numbers DEF CouldHold
  <2>7. PICK d \in Kept(m, es) : Fits(compact(m), d, n)
    BY <2>1, <2>3, <2>6, StretchFits
  <2>8. IsChain(compact(m), Kept(m, es))
    BY <2>3, CompactSound
  <2>9. NULL \notin Kept(m, es)
    BY <2>8, WordsAre DEF IsChain
  <2> QED BY <2>5, <2>7, <2>8, <2>9, FindFreeIs
<1> QED BY <1>1, ChainInvariant, PTL

-----------------------------------------------------------------------------
(* What the sets of headers guarantee.  An owner's block has room for the    *)
(* rounded size (that is what Fitting and Splits see to), so the next header *)
(* lies behind what the owner writes; compact drops free headers only; and   *)
(* the headers in use are those that have an owner.                          *)

\* The free headers of the chain, as HeapSets has them.
FreeEntries == {e \in Entries(mem) : mem[e] = HM_FREED}

USE DEF FreeEntries, ALIGN, LEFTOVER, HEADER, start, end,
        HeapSets!ALIGN, HeapSets!LEFTOVER, HeapSets!HEADER, HeapSets!start, HeapSets!end

\* What the proofs need of the rounding: the size grows, by a word at most.
LEMMA RoundedBounds ==
    ASSUME NEW size \in Nat
    PROVE  /\ HeapSets!Rounded(size) \in Nat
           /\ size < HeapSets!Rounded(size) /\ HeapSets!Rounded(size) <= size + ALIGN
  BY DEF HeapSets!Rounded

\* A set of headers that can be part of a state.
Headers(es, fr) ==
    /\ es \subseteq start .. end
    /\ {start, end} \subseteq es
    /\ fr \subseteq es \ {end}
    /\ \A e, f \in es : e < f => e + HEADER <= f

\* The heap after hmInit.
LEMMA InitSound == ASSUME HeapAssumption, HeapSets!Init PROVE HeapSets!IndInv
  BY SMT DEF HeapAssumption, HeapSets!Init, HeapSets!IndInv, HeapSets!TypeOK,
     HeapSets!Spaced, HeapSets!OwnersHaveRoom, HeapSets!NoLeak

\* compact keeps start and end, and every header in use.
LEMMA GoneSound ==
    ASSUME HeapAssumption, NEW es, NEW fr, Headers(es, fr)
    PROVE  LET gone == HeapSets!Absorbed(es, fr)
           IN  /\ Headers(es \ gone, fr \ gone)
               /\ (es \ gone) \ (fr \ gone) = es \ fr
  <1> DEFINE gone == HeapSets!Absorbed(es, fr)
  <1>1. gone \subseteq fr
    BY DEF HeapSets!Absorbed
  <1>2. start \notin gone
    BY DEF HeapSets!Absorbed, HeapSets!Before, Headers
  <1> QED
    BY <1>1, <1>2 DEF Headers

\* Every owner of live has room among the headers es, and exactly the headers
\* in use have owners.
Owned(es, fr) ==
    /\ \A a \in DOMAIN live :
          a - HEADER \in es \ fr
          /\ HeapSets!Room(es, a - HEADER, HeapSets!Rounded(live[a]))
    /\ es \ fr = {end} \cup {a - HEADER : a \in DOMAIN live}

\* Owners' blocks and sizes.
LiveTyped == live \in [DOMAIN live -> Sizes] /\ DOMAIN live \subseteq start .. end

\* The parts of the invariant.
LEMMA IndInvParts ==
    HeapSets!IndInv <=>
        Headers(Entries(mem), FreeEntries) /\ Owned(Entries(mem), FreeEntries) /\ LiveTyped
  BY DEF HeapSets!IndInv, HeapSets!TypeOK, HeapSets!Spaced, HeapSets!OwnersHaveRoom,
     HeapSets!NoLeak, Headers, Owned, LiveTyped

\* Fewer headers leave more room.
LEMMA CompactOwned ==
    ASSUME HeapAssumption, NEW es, NEW fr, Headers(es, fr), Owned(es, fr)
    PROVE  Owned(es \ HeapSets!Absorbed(es, fr), fr \ HeapSets!Absorbed(es, fr))
  BY GoneSound DEF Owned, HeapSets!Room

\* The rest of a split block is a header of its own behind the bytes taken.
LEMMA SplitSound ==
    ASSUME HeapAssumption, NEW es, NEW fr, Headers(es, fr),
           NEW e \in fr, NEW n \in Nat, HeapSets!Splits(es, e, n)
    PROVE  LET r == e + HEADER + n
           IN  /\ Headers(es \cup {r}, (fr \ {e}) \cup {r})
               /\ r \notin es
               /\ \A f \in es : f > e => f > r
  <1> DEFINE r == e + HEADER + n
  <1>0. e \in Nat /\ end \in Nat /\ e # end /\ es \subseteq Int /\ r \in Int
    BY DEF Headers, HeapAssumption
  <1>1. \A f \in es : f > e => f >= r + HEADER + LEFTOVER - HEADER
    BY <1>0 DEF HeapSets!Splits, HeapSets!Room
  <1>2. \A f \in es : f <= e => f + HEADER <= r
    BY <1>0 DEF Headers
  <1>3. r \notin es
    BY <1>0, <1>1, <1>2
  <1>4. r \in start .. end
    BY <1>0, <1>1 DEF Headers, HeapAssumption
  <1>5. Headers(es \cup {r}, (fr \ {e}) \cup {r})
    BY <1>0, <1>1, <1>2, <1>3, <1>4 DEF Headers
  <1> QED
    BY <1>0, <1>1, <1>3, <1>5

\* A block with enough room is handed out.
LEMMA TakeSound ==
    ASSUME HeapAssumption, NEW es, NEW fr, NEW size \in Sizes, NEW e \in fr,
           Headers(es, fr), Owned(es, fr), LiveTyped,
           HeapSets!Room(es, e, HeapSets!Rounded(size)), HeapSets!Take(es, fr, e, size)
    PROVE  HeapSets!IndInv'
  <1> DEFINE n == HeapSets!Rounded(size)
             r == e + HEADER + n
             rest == IF HeapSets!Splits(es, e, n) THEN {r} ELSE {}
  <1>0. /\ n \in Nat /\ e \in Nat /\ e # end /\ es \subseteq Int /\ size \in Nat
        /\ r \in Int /\ end \in es /\ e + HEADER \in start .. end
    BY RoundedBounds DEF Headers, HeapAssumption
  <1>1. /\ Entries(mem)' = es \cup rest
        /\ FreeEntries' = (fr \ {e}) \cup rest
        /\ live' = [a \in DOMAIN live \cup {e + HEADER} |->
                        IF a = e + HEADER THEN size ELSE live[a]]
    BY DEF HeapSets!Take
  <1>2. /\ Headers(es \cup rest, (fr \ {e}) \cup rest)
        /\ rest \cap es = {}
        /\ \A f \in es : f > e => \A g \in rest : f > g
    <2>1. CASE HeapSets!Splits(es, e, n)
      BY <1>0, <2>1, SplitSound
    <2>2. CASE ~HeapSets!Splits(es, e, n)
      BY <2>2 DEF Headers
    <2> QED
      BY <2>1, <2>2
  <1>3. e + HEADER \notin DOMAIN live
    BY <1>0 DEF Owned
  <1>4. LiveTyped'
    BY <1>0, <1>1 DEF LiveTyped
  <1>5. ASSUME NEW a \in DOMAIN live'
        PROVE  /\ a - HEADER \in (es \cup rest) \ ((fr \ {e}) \cup rest)
               /\ HeapSets!Room(es \cup rest, a - HEADER, HeapSets!Rounded(live'[a]))
    <2>1. CASE a = e + HEADER
      <3>1. live'[a] = size /\ a - HEADER = e
        BY <1>0, <1>1, <2>1
      <3>2. HeapSets!Room(es \cup rest, e, n)
        BY <1>0 DEF HeapSets!Room
      <3>3. e \in es /\ e \notin rest
        BY <1>2 DEF Headers
      <3> QED
        BY <3>1, <3>2, <3>3
    <2>2. CASE a # e + HEADER
      <3>1. a \in DOMAIN live /\ live'[a] = live[a] /\ a \in Int
        BY <1>1, <2>2 DEF LiveTyped
      <3>2. /\ a - HEADER \in es \ fr
            /\ HeapSets!Room(es, a - HEADER, HeapSets!Rounded(live[a]))
        BY <3>1 DEF Owned
      <3>3. HeapSets!Rounded(live[a]) \in Nat
        BY <3>1, RoundedBounds DEF LiveTyped, HeapAssumption
      <3>4. ASSUME NEW g \in rest, g > a - HEADER
            PROVE  g - (a - HEADER) - HEADER >= HeapSets!Rounded(live[a])
        <4>1. g = r /\ g >= e
          BY <1>0
        <4>2. e \in es /\ a - HEADER # e
          BY <3>2 DEF Headers
        <4>3. a - HEADER < e
          BY <1>0, <1>2, <3>1, <3>2, <3>4, <4>1, <4>2
        <4>4. e - (a - HEADER) - HEADER >= HeapSets!Rounded(live[a])
          BY <3>2, <4>2, <4>3 DEF HeapSets!Room
        <4> QED
          BY <1>0, <3>1, <3>3, <4>1, <4>4
      <3>5. HeapSets!Room(es \cup rest, a - HEADER, HeapSets!Rounded(live[a]))
        BY <3>2, <3>4 DEF HeapSets!Room
      <3> QED
        BY <1>2, <3>1, <3>2, <3>5
    <2> QED
      BY <2>1, <2>2
  <1>6. (es \cup rest) \ ((fr \ {e}) \cup rest)
            = {end} \cup {a - HEADER : a \in DOMAIN live'}
    <2>1. (es \cup rest) \ ((fr \ {e}) \cup rest) = (es \ fr) \cup {e}
      BY <1>2 DEF Headers
    <2>2. {a - HEADER : a \in DOMAIN live'}
            = {a - HEADER : a \in DOMAIN live} \cup {e}
      BY <1>0, <1>1
    <2> QED
      BY <2>1, <2>2 DEF Owned
  <1>7. Owned(Entries(mem), FreeEntries)'
    BY <1>1, <1>5, <1>6 DEF Owned, HeapSets!Room
  <1> QED
    BY <1>1, <1>2, <1>4, <1>7, IndInvParts DEF HeapSets!IndInv, HeapSets!TypeOK,
       HeapSets!Spaced,
       HeapSets!OwnersHaveRoom, HeapSets!NoLeak, Headers, Owned, LiveTyped

\* hmAlloc, with or without compact.
LEMMA AllocSound ==
    ASSUME HeapAssumption, HeapSets!IndInv, NEW size \in Sizes, HeapSets!Alloc(size)
    PROVE  HeapSets!IndInv'
  <1> DEFINE n == HeapSets!Rounded(size)
             gone == HeapSets!Absorbed(Entries(mem), FreeEntries)
  <1>0. /\ Headers(Entries(mem), FreeEntries) /\ Owned(Entries(mem), FreeEntries)
        /\ LiveTyped
    BY IndInvParts
  <1>c. /\ Headers(Entries(mem) \ gone, FreeEntries \ gone)
        /\ Owned(Entries(mem) \ gone, FreeEntries \ gone)
    BY <1>0, GoneSound, CompactOwned
  <1>1. CASE HeapSets!AllocFirst(size)
    <2>1. PICK e \in FreeEntries :
            /\ HeapSets!First(HeapSets!Fitting(Entries(mem), FreeEntries, n), e)
                            /\ HeapSets!Take(Entries(mem), FreeEntries, e, size)
      BY <1>1 DEF HeapSets!AllocFirst
    <2>2. HeapSets!Room(Entries(mem), e, n)
      BY <2>1 DEF HeapSets!First, HeapSets!Fitting
    <2> QED
      BY <1>0, <2>1, <2>2, TakeSound
  <1>2. CASE HeapSets!AllocCompacted(size)
    <2>1. PICK e \in FreeEntries \ gone :
            /\ HeapSets!First(
                  HeapSets!Fitting(Entries(mem) \ gone, FreeEntries \ gone, n), e)
            /\ HeapSets!Take(Entries(mem) \ gone, FreeEntries \ gone, e, size)
      BY <1>2 DEF HeapSets!AllocCompacted
    <2>2. HeapSets!Room(Entries(mem) \ gone, e, n)
      BY <2>1 DEF HeapSets!First, HeapSets!Fitting
    <2> QED
      BY <1>0, <1>c, <2>1, <2>2, TakeSound
  <1>3. CASE HeapSets!AllocFails(size)
    <2>1. /\ Entries(mem)' = Entries(mem) \ gone /\ FreeEntries' = FreeEntries \ gone
          /\ live' = live
      BY <1>3 DEF HeapSets!AllocFails
    <2>2. Headers(Entries(mem), FreeEntries)' /\ LiveTyped'
      BY <1>0, <1>c, <2>1 DEF Headers, LiveTyped
    <2>3. Owned(Entries(mem), FreeEntries)'
      BY <1>c, <2>1 DEF Owned, HeapSets!Room
    <2> QED
      BY <2>2, <2>3 DEF HeapSets!IndInv, HeapSets!TypeOK, HeapSets!Spaced,
         HeapSets!OwnersHaveRoom, HeapSets!NoLeak, Headers, Owned, LiveTyped
  <1> QED
    BY <1>1, <1>2, <1>3 DEF HeapSets!Alloc

\* hmFree by an owner.
LEMMA FreeSound ==
    ASSUME HeapAssumption, HeapSets!IndInv, NEW address \in HeapSets!Addresses,
           HeapSets!Free(address)
    PROVE  HeapSets!IndInv'
  <1>1. CASE HeapSets!InsideHeap(address) /\ address - HEADER \in Entries(mem)
    <2>1. /\ FreeEntries' = FreeEntries \cup {address - HEADER}
          /\ Entries(mem)' = Entries(mem)
          /\ live' = [a \in DOMAIN live \ {address} |-> live[a]]
          /\ address \in DOMAIN live /\ address \in Int
      BY <1>1 DEF HeapSets!Free, HeapSets!Restrict, HeapSets!Addresses
    <2>2. address - HEADER # end
      BY <1>1, <2>1 DEF HeapSets!InsideHeap, HeapAssumption
    <2>3. HeapSets!TypeOK' /\ HeapSets!Spaced'
      BY <1>1, <2>1, <2>2 DEF HeapSets!IndInv, HeapSets!TypeOK, HeapSets!Spaced
    <2>4. HeapSets!OwnersHaveRoom'
      BY <2>1 DEF HeapSets!IndInv, HeapSets!TypeOK, HeapSets!OwnersHaveRoom
    <2>5. HeapSets!NoLeak'
      BY <2>1, <2>2 DEF HeapSets!IndInv, HeapSets!TypeOK, HeapSets!NoLeak
    <2> QED
      BY <2>3, <2>4, <2>5 DEF HeapSets!IndInv
  <1>2. CASE ~(HeapSets!InsideHeap(address) /\ address - HEADER \in Entries(mem))
    BY <1>2 DEF HeapSets!Free, HeapSets!IndInv, HeapSets!TypeOK, HeapSets!Spaced,
       HeapSets!OwnersHaveRoom, HeapSets!NoLeak, HeapSets!Room
  <1> QED
    BY <1>1, <1>2

\* A header whose block nobody owns is free already, or is end, which hmFree
\* refuses.
LEMMA StrayUnchanged ==
    ASSUME HeapAssumption, HeapSets!IndInv, NEW address \in HeapSets!Addresses,
           HeapSets!FreeStray(address)
    PROVE  UNCHANGED HeapSets!vars
  <1>1. CASE HeapSets!InsideHeap(address) /\ address - HEADER \in Entries(mem)
    <2>1. address \in Int /\ address - HEADER # end
      BY <1>1 DEF HeapSets!Addresses, HeapSets!InsideHeap, HeapAssumption
    <2>2. address - HEADER \in FreeEntries
      BY <1>1, <2>1 DEF HeapSets!FreeStray, HeapSets!IndInv, HeapSets!TypeOK,
         HeapSets!NoLeak
    <2> QED
      BY <1>1, <2>2 DEF HeapSets!FreeStray, HeapSets!vars
  <1>2. CASE ~(HeapSets!InsideHeap(address) /\ address - HEADER \in Entries(mem))
    BY <1>2 DEF HeapSets!FreeStray, HeapSets!vars
  <1> QED
    BY <1>1, <1>2

\* Nothing happens.
LEMMA StutterSound ==
    ASSUME HeapSets!IndInv, UNCHANGED HeapSets!vars
    PROVE  HeapSets!IndInv'
  BY DEF HeapSets!vars, HeapSets!IndInv, HeapSets!TypeOK, HeapSets!Spaced,
     HeapSets!OwnersHaveRoom, HeapSets!NoLeak, HeapSets!Room

\* No sequence of hmAlloc and hmFree leads out of IndInv.
THEOREM HeapInvariant == HeapSets!Spec => []HeapSets!IndInv
  <1>0. HeapAssumption
    BY HeapAssumption
  <1>1. HeapSets!Init => HeapSets!IndInv
    BY <1>0, InitSound
  <1>2. HeapSets!IndInv /\ [HeapSets!Next]_(HeapSets!vars) => HeapSets!IndInv'
    BY <1>0, AllocSound, FreeSound, StrayUnchanged, StutterSound DEF HeapSets!Next
  <1> QED
    BY <1>1, <1>2, PTL DEF HeapSets!Spec

\* The next header lies behind what an owner may write to.
LEMMA OwnerInside ==
    ASSUME HeapSets!IndInv, NEW a \in DOMAIN live
    PROVE  /\ HEADER <= a /\ a + live[a] <= end
           /\ \A f \in Entries(mem) : f + HEADER <= a \/ f >= a + live[a]
  <1>1. /\ a \in Int /\ live[a] \in Nat /\ end \in Entries(mem)
        /\ Entries(mem) \subseteq Int /\ a - HEADER < end
    BY HeapAssumption DEF HeapSets!IndInv, HeapSets!TypeOK, HeapSets!OwnersHaveRoom,
       HeapAssumption
  <1>2. /\ HeapSets!Room(Entries(mem), a - HEADER, HeapSets!Rounded(live[a]))
        /\ a - HEADER \in Entries(mem)
    BY DEF HeapSets!IndInv, HeapSets!OwnersHaveRoom
  <1>3. \A f \in Entries(mem) : f > a - HEADER => f >= a + live[a]
    BY <1>1, <1>2, RoundedBounds DEF HeapSets!Room
  <1>4. \A f \in Entries(mem) : f <= a - HEADER => f + HEADER <= a
    BY <1>1
  <1>5. HEADER <= a
    BY <1>2, <1>1 DEF HeapSets!IndInv, HeapSets!TypeOK
  <1>6. a + live[a] <= end
    BY <1>1, <1>3
  <1>7. \A f \in Entries(mem) : f + HEADER <= a \/ f >= a + live[a]
    <2> TAKE f \in Entries(mem)
    <2>1. f \in Int /\ (f > a - HEADER \/ f <= a - HEADER)
      BY <1>1
    <2> QED
      BY <2>1, <1>3, <1>4
  <1> QED
    BY <1>5, <1>6, <1>7

\* Of two owners, the one below ends before the header of the other.
LEMMA OwnerBelow ==
    ASSUME HeapSets!IndInv, NEW a \in DOMAIN live, NEW b \in DOMAIN live, a < b
    PROVE  a + live[a] <= b - HEADER
  <1>1. a \in Int /\ b \in Int /\ live[a] \in Nat
    BY HeapAssumption DEF HeapSets!IndInv, HeapSets!TypeOK, HeapAssumption
  <1>2. /\ HeapSets!Room(Entries(mem), a - HEADER, HeapSets!Rounded(live[a]))
        /\ b - HEADER \in Entries(mem)
    BY DEF HeapSets!IndInv, HeapSets!OwnersHaveRoom
  <1> QED
    BY <1>1, <1>2, RoundedBounds DEF HeapSets!Room

\* What an owner may write to lies inside the heap and outside every header, and
\* two owners never share a byte.
THEOREM ChainDisjoint == Spec => []LiveDisjoint
  <1>1. HeapSets!IndInv => LiveDisjoint
    BY OwnerInside, OwnerBelow DEF LiveDisjoint, HeapSets!LiveDisjoint
  <1> QED
    BY <1>1, ChainIsHeap, HeapInvariant, PTL DEF ImplementsHeap

\* The headers in use are end and those that have an owner.
THEOREM ChainNothingLost == Spec => []NoLeak
  <1>1. HeapSets!IndInv => NoLeak
    BY DEF HeapSets!IndInv, NoLeak
  <1> QED
    BY <1>1, ChainIsHeap, HeapInvariant, PTL DEF ImplementsHeap

\* hmFree accepts every block that hmAlloc has handed out.
THEOREM ChainFreeAccepts == Spec => []CanBeFreed
  <1>1. HeapSets!IndInv => CanBeFreed
    <2> SUFFICES ASSUME HeapSets!IndInv, NEW a \in DOMAIN live
                 PROVE  HeapSets!InsideHeap(a)
      BY DEF CanBeFreed, HeapSets!CanBeFreed
    <2>1. /\ a \in Int /\ live[a] \in Nat /\ live[a] >= LEFTOVER
          /\ end \in Entries(mem) /\ end \in Int /\ a >= start
      BY HeapAssumption DEF HeapSets!IndInv, HeapSets!TypeOK, HeapAssumption
    <2>2. /\ HeapSets!Room(Entries(mem), a - HEADER, HeapSets!Rounded(live[a]))
          /\ a - HEADER \in Entries(mem) \ {end}
      BY <2>1 DEF HeapSets!IndInv, HeapSets!TypeOK, HeapSets!OwnersHaveRoom, HeapSets!NoLeak
    <2> QED
      BY <2>1, <2>2, RoundedBounds DEF HeapSets!Room, HeapSets!InsideHeap,
         HeapSets!IndInv,
         HeapSets!TypeOK
  <1> QED
    BY <1>1, ChainIsHeap, HeapInvariant, PTL DEF ImplementsHeap

\* A free of an address that nobody owns changes nothing.
THEOREM StrayFrees == HeapSets!Spec => HeapSets!StrayFreeHarmless
  <1>1. HeapSets!IndInv /\ [HeapSets!Next]_(HeapSets!vars) =>
            [\A a \in HeapSets!Addresses :
                HeapSets!FreeStray(a) => UNCHANGED HeapSets!vars]_(HeapSets!vars)
    BY HeapAssumption, StrayUnchanged
  <1> QED
    BY <1>1, HeapInvariant, PTL DEF HeapSets!Spec, HeapSets!StrayFreeHarmless
=============================================================================
