-------------------------- MODULE VirtualMemoryProofs --------------------------
(***************************************************************************)
(* Memory/MMVirtualMemory.c, with its four linked lists, does what         *)
(* VmRegions says of sets of regions, for any layout of the loaded system, *)
(* any users and requests of any size.                                     *)
(*                                                                         *)
(* From below: what Lists' operations do to chains of cells; what the      *)
(* requests do to a memory whose lists hold every descriptor once and      *)
(* whose descriptors tile the two spaces (Sound); that mmVmInit leaves     *)
(* such a memory; and the invariant, which also says what TM knows of the  *)
(* stacks and where the walk of mmVmCleanup can be.                        *)
(***************************************************************************)
EXTENDS VirtualMemory, FiniteSetTheorems, SequenceTheorems, WellFoundedInduction,
        TLAPS

-----------------------------------------------------------------------------
(* Numbers.                                                                *)

\* Every set of natural numbers has a least one.
LEMMA Least ==
    ASSUME NEW S, S \subseteq Nat, S # {}
    PROVE  \E m \in S : \A n \in S : m <= n
<1>1. IsWellFoundedOn({p \in Nat \X Nat : p[1] < p[2]}, Nat)
  BY NatLessThanWellFounded DEF OpToRel
<1>2. PICK x \in S : \A y \in S : ~(<<y, x>> \in {p \in Nat \X Nat : p[1] < p[2]})
  BY <1>1, WFMin
<1>3. \A y \in S : x <= y
  <2> TAKE y \in S
  <2>1. x \in Nat /\ y \in Nat
    OBVIOUS
  <2>2. <<y, x>> \in Nat \X Nat /\ <<y, x>>[1] = y /\ <<y, x>>[2] = x
    BY <2>1
  <2>3. ~(y < x)
    BY <1>2, <2>2
  <2> QED  BY <2>1, <2>3
<1> QED BY <1>3

\* Min picks it.
LEMMA MinIs ==
    ASSUME NEW S, S \subseteq Nat, S # {}
    PROVE  Min(S) \in S /\ \A n \in S : Min(S) <= n
BY Least DEF Min

\* Induction up to a number.
LEMMA Induct ==
    ASSUME NEW N \in Nat, NEW S, 0 \in S, \A n \in 0 .. N - 1 : n \in S => n + 1 \in S
    PROVE  0 .. N \subseteq S
<1> SUFFICES ASSUME ~(0 .. N \subseteq S) PROVE FALSE
  OBVIOUS
<1>1. PICK m \in (0 .. N) \ S : \A n \in (0 .. N) \ S : m <= n
  <2>1. (0 .. N) \ S \subseteq Nat /\ (0 .. N) \ S # {}
    OBVIOUS
  <2> QED BY <2>1, Least
<1>2. m # 0 /\ m - 1 \in 0 .. N - 1 /\ m - 1 \in S
  BY <1>1
<1> QED BY <1>1, <1>2

\* The cells of the lists are numbered, and NULL is no cell.
LEMMA CellsAre == NbCells \in Nat /\ Cell = 1 .. NbCells /\ NULL = 0 /\ NULL \notin Cell
BY VmAssumption DEF Cell, NULL

-----------------------------------------------------------------------------
(* Walks.                                                                  *)

\* The walks of at most n cells.
Ways(m, f, N) ==
    f = [n \in 0 .. N |->
            [e \in Cell \cup {NULL} |->
                IF e = NULL \/ n = 0 THEN << >> ELSE <<e>> \o f[n - 1][m.cell[e].next]]]

\* The table of ways can be filled for every number of steps.
LEMMA WaysExist ==
    ASSUME NEW m, NEW N \in Nat
    PROVE  \E f : Ways(m, f, N)
<1> DEFINE Step(n, g) == [e \in Cell \cup {NULL} |->
                IF e = NULL \/ n = 0 THEN << >> ELSE <<e>> \o g[m.cell[e].next]]
           S == {k \in 0 .. N : \E f : Ways(m, f, k)}
<1>1. 0 \in S
  <2> DEFINE f == [n \in 0 .. 0 |-> [e \in Cell \cup {NULL} |-> << >>]]
  <2>1. \A n \in 0 .. 0 : [e \in Cell \cup {NULL} |-> << >>] =
            [e \in Cell \cup {NULL} |->
                IF e = NULL \/ n = 0 THEN << >> ELSE <<e>> \o f[n - 1][m.cell[e].next]]
    OBVIOUS
  <2>2. Ways(m, f, 0)
    BY <2>1 DEF Ways
  <2> QED BY <2>2
<1>2. ASSUME NEW k \in 0 .. N - 1, k \in S PROVE k + 1 \in S
  <2>1. PICK f : Ways(m, f, k)
    BY <1>2
  <2> DEFINE g == [n \in 0 .. k + 1 |-> IF n = k + 1 THEN Step(k + 1, f[k]) ELSE f[n]]
  <2>2. \A n \in 0 .. k : f[n] = Step(n, f[n - 1])
    BY <2>1 DEF Ways
  <2>3. \A n \in 0 .. k + 1 : g[n] = Step(n, g[n - 1])
    <3> TAKE n \in 0 .. k + 1
    <3>0. k \in Nat /\ n \in Nat
      OBVIOUS
    <3>1. CASE n = k + 1
      <4>1. g[n] = Step(k + 1, f[k]) /\ g[n - 1] = f[k]
        BY <3>1
      <4> QED BY <4>1, <3>1
    <3>2. CASE n \in 1 .. k
      <4>1. g[n] = f[n] /\ g[n - 1] = f[n - 1] /\ n \in 0 .. k
        BY <3>2
      <4> QED BY <4>1, <2>2
    <3>3. CASE n = 0
      <4>0. 0 \in 0 .. k /\ 0 \in 0 .. k + 1 /\ 0 # k + 1
        BY <3>0
      <4>1. g[0] = f[0] /\ f[0] = Step(0, f[0 - 1])
        BY <2>2, <4>0
      <4>2. \A x, y : Step(0, x) = Step(0, y)
        OBVIOUS
      <4>3. g[0] = Step(0, g[0 - 1])
        BY <4>1, <4>2
      <4> QED BY <4>3, <3>3
    <3>4. n = k + 1 \/ n \in 1 .. k \/ n = 0
      BY <3>0
    <3> HIDE DEF g, Step
    <3> QED BY <3>1, <3>2, <3>3, <3>4
  <2>4. g = [n \in 0 .. k + 1 |-> g[n]]
    OBVIOUS
  <2> HIDE DEF g
  <2>5. Ways(m, g, k + 1)
    BY <2>3, <2>4 DEF Ways
  <2> QED BY <2>5
<1> HIDE DEF S
<1>3. 0 .. N \subseteq S
  BY <1>1, <1>2, Induct
<1> QED BY <1>3 DEF S

\* What Walk computes.
LEMMA WalkStep ==
    ASSUME NEW m
    PROVE  \E f : Ways(m, f, NbCells) /\ \A c : Walk(m, c) = f[NbCells][c]
<1>1. PICK h : Ways(m, h, NbCells)
  BY WaysExist, CellsAre
<1> DEFINE f == CHOOSE f : f = [n \in 0 .. NbCells |->
            [e \in Cell \cup {NULL} |->
                IF e = NULL \/ n = 0 THEN << >> ELSE <<e>> \o f[n - 1][m.cell[e].next]]]
<1>2. Ways(m, f, NbCells)
  BY <1>1 DEF Ways
<1>3. \A c : Walk(m, c) = f[NbCells][c]
  BY DEF Walk
<1> QED BY <1>2, <1>3

\* The next pointers lead along q.
Along(m, q) ==
    /\ q \in Seq(Cell)
    /\ \A i \in 1 .. Len(q) : m.cell[q[i]].next = IF i = Len(q) THEN NULL ELSE q[i + 1]

From(q, i) == [j \in 1 .. Len(q) - i + 1 |-> q[i + j - 1]]

\* A cell and what is behind it in a chain.
LEMMA ConsIs ==
    ASSUME NEW q \in Seq(Cell), NEW i \in 1 .. Len(q)
    PROVE  <<q[i]>> \o (IF i = Len(q) THEN << >> ELSE From(q, i + 1)) = From(q, i)
<1>1. q[i] \in Cell
  OBVIOUS
<1>2. CASE i = Len(q)
  <2>1. <<q[i]>> \o << >> = <<q[i]>>
    BY <1>1
  <2>2. From(q, i) = [j \in 1 .. 1 |-> q[i + j - 1]]
    BY <1>2 DEF From
  <2>3. \A j \in 1 .. 1 : q[i + j - 1] = <<q[i]>>[j]
    OBVIOUS
  <2>4. <<q[i]>> = [j \in 1 .. 1 |-> q[i]]
    OBVIOUS
  <2> QED BY <1>2, <2>1, <2>2, <2>3, <2>4
<1>3. CASE i # Len(q)
  <2>1. From(q, i + 1) \in Seq(Cell) /\ Len(From(q, i + 1)) = Len(q) - i
    BY <1>3 DEF From
  <2>2. \A j \in 1 .. Len(q) - i : From(q, i + 1)[j] = q[i + j]
    BY <1>3 DEF From
  <2>3. From(q, i) \in Seq(Cell) /\ Len(From(q, i)) = Len(q) - i + 1
    BY DEF From
  <2>4. \A j \in 1 .. Len(q) - i + 1 : From(q, i)[j] = q[i + j - 1]
    BY DEF From
  <2> HIDE DEF From
  <2>5. Len(<<q[i]>> \o From(q, i + 1)) = Len(q) - i + 1 /\ <<q[i]>> \o From(q, i + 1) \in Seq(Cell)
    BY <1>1, <2>1
  <2>6. \A j \in 1 .. Len(q) - i + 1 : (<<q[i]>> \o From(q, i + 1))[j] = From(q, i)[j]
    <3> TAKE j \in 1 .. Len(q) - i + 1
    <3>1. CASE j = 1
      BY <3>1, <1>1, <2>1, <2>4
    <3>2. CASE j # 1
      <4>1. j - 1 \in 1 .. Len(q) - i
        BY <3>2
      <4>2. (<<q[i]>> \o From(q, i + 1))[j] = From(q, i + 1)[j - 1]
        BY <4>1, <2>1, <1>1
      <4> QED BY <4>1, <4>2, <2>2, <2>4
    <3> QED BY <3>1, <3>2
  <2> QED BY <2>3, <2>5, <2>6, <1>3, SeqEqual
<1> QED BY <1>2, <1>3

\* listGetNext goes along a chain of cells to its end, from any of them.
LEMMA WalkIs ==
    ASSUME NEW m, NEW q, Along(m, q), Len(q) <= NbCells
    PROVE  /\ Walk(m, NULL) = << >>
           /\ \A i \in 1 .. Len(q) : Walk(m, q[i]) = From(q, i)
<1>1. PICK f : Ways(m, f, NbCells) /\ \A c : Walk(m, c) = f[NbCells][c]
  BY WalkStep
<1>2. \A n \in 0 .. NbCells : \A e \in Cell \cup {NULL} :
         f[n][e] = IF e = NULL \/ n = 0 THEN << >> ELSE <<e>> \o f[n - 1][m.cell[e].next]
  BY <1>1 DEF Ways
<1>3. \A n \in 0 .. NbCells : f[n][NULL] = << >>
  BY <1>2
<1>4. q \in Seq(Cell) /\ Len(q) \in Nat /\ \A i \in 1 .. Len(q) : q[i] \in Cell
  BY DEF Along
<1> DEFINE S == {k \in 0 .. NbCells :
                    \A i \in 1 .. Len(q) : Len(q) - i + 1 <= k => f[k][q[i]] = From(q, i)}
<1>5. 0 \in S
  BY <1>4, CellsAre
<1>6. ASSUME NEW k \in 0 .. NbCells - 1, k \in S PROVE k + 1 \in S
  <2>1. k + 1 \in 0 .. NbCells /\ (k + 1) - 1 = k
    BY CellsAre
  <2>2. ASSUME NEW i \in 1 .. Len(q), Len(q) - i + 1 <= k + 1
        PROVE  f[k + 1][q[i]] = From(q, i)
    <3>1. q[i] \in Cell /\ q[i] # NULL
      BY <1>4, CellsAre
    <3>2. f[k + 1][q[i]] = <<q[i]>> \o f[k][m.cell[q[i]].next]
      <4>1. k + 1 # 0
        OBVIOUS
      <4>2. f[k + 1][q[i]] = <<q[i]>> \o f[(k + 1) - 1][m.cell[q[i]].next]
        BY <1>2, <2>1, <3>1, <4>1
      <4> QED BY <4>2, <2>1
    <3>3. m.cell[q[i]].next = IF i = Len(q) THEN NULL ELSE q[i + 1]
      BY DEF Along
    <3>4. f[k][m.cell[q[i]].next] = IF i = Len(q) THEN << >> ELSE From(q, i + 1)
      <4>1. CASE i = Len(q)
        <5>1. k \in 0 .. NbCells
          BY CellsAre
        <5> QED BY <5>1, <4>1, <3>3, <1>3
      <4>2. CASE i # Len(q)
        <5>1. i + 1 \in 1 .. Len(q) /\ Len(q) - (i + 1) + 1 <= k
          BY <4>2, <1>4, <2>2
        <5>2. f[k][q[i + 1]] = From(q, i + 1)
          BY <5>1, <1>6
        <5> QED BY <4>2, <5>2, <3>3
      <4> QED BY <4>1, <4>2
    <3> QED BY <3>2, <3>4, <1>4, ConsIs
  <2> QED BY <2>1, <2>2
<1> HIDE DEF S
<1>7. 0 .. NbCells \subseteq S
  BY <1>5, <1>6, Induct, CellsAre
<1>8. NbCells \in S
  BY <1>7, CellsAre
<1>9. \A i \in 1 .. Len(q) : f[NbCells][q[i]] = From(q, i)
  <2> TAKE i \in 1 .. Len(q)
  <2>1. Len(q) - i + 1 <= NbCells
    BY <1>4, CellsAre
  <2> QED BY <2>1, <1>8 DEF S
<1>10. NbCells \in 0 .. NbCells
  BY CellsAre
<1> QED BY <1>1, <1>3, <1>9, <1>10

-----------------------------------------------------------------------------
(* Lists in the memory.                                                    *)

Link == Cell \cup {NULL}

MemType(m, N) ==
    m \in [cell : [Cell -> [item : Nat, next : Link, prev : Link]],
           used : SUBSET Cell,
           list : [N -> [first : Link, current : Link, last : Link]]]

\* q are the cells of list l, in both directions.
IsList(m, l, q) ==
    /\ Along(m, q)
    /\ \A i, j \in 1 .. Len(q) : q[i] = q[j] => i = j
    /\ m.list[l].first = IF Len(q) = 0 THEN NULL ELSE q[1]
    /\ m.list[l].last = IF Len(q) = 0 THEN NULL ELSE q[Len(q)]
    /\ \A i \in 1 .. Len(q) : m.cell[q[i]].prev = IF i = 1 THEN NULL ELSE q[i - 1]

\* Cells that are all different are no more than there are.
LEMMA ShortList ==
    ASSUME NEW q \in Seq(Cell), \A i, j \in 1 .. Len(q) : q[i] = q[j] => i = j
    PROVE  Len(q) <= NbCells
<1>1. Len(q) \in Nat /\ q \in [1 .. Len(q) -> Cell]
  OBVIOUS
<1>2. q \in Injection(1 .. Len(q), Cell)
  BY <1>1 DEF Injection, IsInjective
<1>3. IsFiniteSet(Cell) /\ Cardinality(Cell) = NbCells
  <2>1. IsFiniteSet(1 .. NbCells) /\ Cardinality(1 .. NbCells) = IF 1 > NbCells THEN 0 ELSE NbCells - 1 + 1
    BY CellsAre, FS_Interval
  <2> QED BY <2>1, CellsAre
<1>4. Cardinality(1 .. Len(q)) <= Cardinality(Cell)
  BY <1>2, <1>3, FS_Injection
<1>5. Cardinality(1 .. Len(q)) = IF 1 > Len(q) THEN 0 ELSE Len(q) - 1 + 1
  BY <1>1, FS_Interval
<1> QED BY <1>1, <1>3, <1>4, <1>5

\* A list's chain is the sequence of cells that its links go along.
LEMMA ChainIs ==
    ASSUME NEW m, NEW l, NEW q, IsList(m, l, q)
    PROVE  /\ Chain(m, l) = q
           /\ q \in Seq(Cell) /\ Len(q) \in 0 .. NbCells
           /\ Walk(m, NULL) = << >>
           /\ \A i \in 1 .. Len(q) : Walk(m, q[i]) = From(q, i)
<1>1. q \in Seq(Cell) /\ Len(q) \in Nat /\ Len(q) <= NbCells
  BY ShortList DEF IsList, Along
<1>2. /\ Walk(m, NULL) = << >>
      /\ \A i \in 1 .. Len(q) : Walk(m, q[i]) = From(q, i)
  BY <1>1, WalkIs DEF IsList
<1>3. Chain(m, l) = q
  <2>1. Chain(m, l) = Walk(m, m.list[l].first)
    BY DEF Chain
  <2>2. CASE Len(q) = 0
    <3>1. q = << >>
      BY <1>1, <2>2
    <3> QED BY <2>1, <2>2, <3>1, <1>2 DEF IsList
  <2>3. CASE Len(q) # 0
    <3>1. 1 \in 1 .. Len(q) /\ m.list[l].first = q[1]
      BY <1>1, <2>3 DEF IsList
    <3>2. Walk(m, q[1]) = From(q, 1)
      BY <3>1, <1>2
    <3>3. From(q, 1) = [j \in 1 .. Len(q) |-> q[j]]
      BY <1>1 DEF From
    <3>4. q = [j \in 1 .. Len(q) |-> q[j]]
      BY <1>1
    <3> QED BY <2>1, <3>1, <3>2, <3>3, <3>4
  <2> QED BY <2>2, <2>3
<1> QED BY <1>1, <1>2, <1>3, CellsAre

Cells(m, l) == {Chain(m, l)[i] : i \in 1 .. Len(Chain(m, l))}
Has(m, l)   == {m.cell[c].item : c \in Cells(m, l)}

\* The lists of N are lists, and each of the items S is in one cell of them.
Holding(m, N, S) ==
    /\ MemType(m, N)
    /\ \A l \in N : IsList(m, l, Chain(m, l))
    /\ \A l, k \in N : l # k => Cells(m, l) \cap Cells(m, k) = {}
    /\ m.used = UNION {Cells(m, l) : l \in N}
    /\ \A c \in m.used : m.cell[c].item \in S
    /\ \A c, d \in m.used : m.cell[c].item = m.cell[d].item => c = d
    /\ \A x \in S : \E c \in m.used : m.cell[c].item = x

-----------------------------------------------------------------------------
(* What the operations write.                                              *)

Added(m, m2, l, x, e) ==
    /\ e \in Cell \ m.used
    /\ m2.used = m.used \cup {e}
    /\ m2.cell[e] = [item |-> x, next |-> m.list[l].first, prev |-> NULL]
    /\ \A c \in Cell \ {e} :
          /\ m2.cell[c].item = m.cell[c].item /\ m2.cell[c].next = m.cell[c].next
          /\ m2.cell[c].prev = IF c = m.list[l].first THEN e ELSE m.cell[c].prev
    /\ \A k \in DOMAIN m.list :
          /\ m2.list[k].current = m.list[k].current
          /\ m2.list[k].first = IF k = l THEN e ELSE m.list[k].first
          /\ m2.list[k].last = IF k = l /\ m.list[l].first = NULL THEN e ELSE m.list[k].last

\* hmAlloc gives a cell that is not in use.
LEMMA FreshIs ==
    ASSUME NEW m, m.used \subseteq Cell, HasRoom(m)
    PROVE  Fresh(m) \in Cell \ m.used
<1>1. Cell \subseteq Nat
  BY CellsAre
<1>2. Cell \ m.used # {}
  BY DEF HasRoom
<1> QED BY <1>1, <1>2, MinIs DEF Fresh

\* A memory made of its parts.
LEMMA MemParts ==
    ASSUME NEW m, NEW N, MemType(m, N), NEW u, NEW c, NEW s
    PROVE  /\ MemType([cell |-> c, used |-> u, list |-> s], N)
              <=> /\ c \in [Cell -> [item : Nat, next : Link, prev : Link]]
                  /\ u \subseteq Cell
                  /\ s \in [N -> [first : Link, current : Link, last : Link]]
           /\ m = [cell |-> m.cell, used |-> m.used, list |-> m.list]
BY DEF MemType

\* What listAddInFront writes.
LEMMA AddWrites ==
    ASSUME NEW m, NEW N, MemType(m, N), NEW l \in N, NEW x \in Nat, HasRoom(m),
           m.list[l].first \in m.used \cup {NULL}
    PROVE  /\ MemType(listAddInFront(m, l, x), N)
           /\ Added(m, listAddInFront(m, l, x), l, x, Fresh(m))
<1>1. PICK e : e = Fresh(m)
  OBVIOUS
<1>2. e \in Cell \ m.used /\ e # NULL
  BY <1>1, FreshIs, CellsAre DEF MemType
<1>3. PICK d : d = m.list[l]
  OBVIOUS
<1>4. d \in [first : Link, current : Link, last : Link]
  BY <1>3 DEF MemType
<1>5. PICK n : n = [item |-> x, next |-> d.first, prev |-> NULL]
  OBVIOUS
<1>6. n \in [item : Nat, next : Link, prev : Link]
  BY <1>4, <1>5 DEF Link
<1>7. PICK m2 : m2 = listAddInFront(m, l, x)
  OBVIOUS
<1>8. CASE d.first = NULL
  <2>1. PICK k : k = [m EXCEPT !.list[l].last = e]
    OBVIOUS
  <2>2. MemType(k, N) /\ k.used = m.used /\ k.cell = m.cell
        /\ k.list = [m.list EXCEPT ![l].last = e]
    BY <2>1, <1>2 DEF MemType, Link
  <2>3. m2 = [k EXCEPT !.used = @ \cup {e}, !.cell[e] = n, !.list[l].first = e]
    BY <1>7, <1>8, <2>1, <1>1, <1>3, <1>5 DEF listAddInFront
  <2>4. m2.used = m.used \cup {e} /\ m2.cell = [m.cell EXCEPT ![e] = n]
        /\ m2.list = [m.list EXCEPT ![l].last = e, ![l].first = e]
    BY <2>2, <2>3 DEF MemType
  <2>5. MemType(m2, N)
    <3>1. m2 = [cell |-> m2.cell, used |-> m2.used, list |-> m2.list]
      BY <2>2, <2>3 DEF MemType
    <3>2. /\ m2.used \subseteq Cell
          /\ m2.cell \in [Cell -> [item : Nat, next : Link, prev : Link]]
      BY <2>4, <1>2, <1>6 DEF MemType
    <3>3. m2.list \in [N -> [first : Link, current : Link, last : Link]]
      BY <2>4, <1>2 DEF MemType, Link
    <3> QED BY <3>1, <3>2, <3>3, MemParts
  <2>6. \A c \in Cell \ {e} : c # m.list[l].first
    BY <1>8, <1>3, CellsAre
  <2>7. Added(m, m2, l, x, e)
    BY <2>4, <2>6, <1>2, <1>3, <1>4, <1>5, <1>8 DEF Added, MemType
  <2> QED BY <2>5, <2>7, <1>7, <1>1
<1>9. CASE d.first # NULL
  <2>0. d.first \in Cell /\ d.first # e
    BY <1>9, <1>4, <1>3, <1>2 DEF Link
  <2>1. PICK k : k = [m EXCEPT !.cell[d.first].prev = e]
    OBVIOUS
  <2>2. MemType(k, N) /\ k.used = m.used /\ k.list = m.list
        /\ k.cell = [m.cell EXCEPT ![d.first].prev = e]
    BY <2>1, <2>0, <1>2 DEF MemType, Link
  <2>3. m2 = [k EXCEPT !.used = @ \cup {e}, !.cell[e] = n, !.list[l].first = e]
    BY <1>7, <1>9, <2>1, <1>1, <1>3, <1>5 DEF listAddInFront
  <2>4. m2.used = m.used \cup {e} /\ m2.cell = [k.cell EXCEPT ![e] = n]
        /\ m2.list = [m.list EXCEPT ![l].first = e]
    BY <2>2, <2>3 DEF MemType
  <2>5. MemType(m2, N)
    <3>1. m2 = [cell |-> m2.cell, used |-> m2.used, list |-> m2.list]
      BY <2>2, <2>3 DEF MemType
    <3>2. /\ m2.used \subseteq Cell
          /\ m2.cell \in [Cell -> [item : Nat, next : Link, prev : Link]]
      BY <2>2, <2>4, <1>2, <1>6 DEF MemType
    <3>3. m2.list \in [N -> [first : Link, current : Link, last : Link]]
      BY <2>4, <1>2 DEF MemType, Link
    <3> QED BY <3>1, <3>2, <3>3, MemParts
  <2>6. \A c \in Cell \ {e} :
          /\ m2.cell[c].item = m.cell[c].item /\ m2.cell[c].next = m.cell[c].next
          /\ m2.cell[c].prev = IF c = d.first THEN e ELSE m.cell[c].prev
    BY <2>2, <2>4, <2>0 DEF MemType
  <2>7. m2.cell[e] = n
    BY <2>2, <2>4, <1>2 DEF MemType
  <2>8. Added(m, m2, l, x, e)
    BY <2>4, <2>6, <2>7, <1>2, <1>3, <1>4, <1>5, <1>9 DEF Added, MemType
  <2> QED BY <2>5, <2>8, <1>7, <1>1
<1> QED BY <1>8, <1>9

\* removeElem and what listRemove does to the cell.
Removed(m, m2, l, e) ==
    /\ m2.used = m.used \ {e}
    /\ m2.cell[e] = [m.cell[e] EXCEPT !.item = NULL]
    /\ \A c \in Cell \ {e} :
          /\ m2.cell[c].item = m.cell[c].item
          /\ m2.cell[c].next = IF m.list[l].first # e /\ c = m.cell[e].prev
                               THEN m.cell[e].next ELSE m.cell[c].next
          /\ m2.cell[c].prev = IF c = m.cell[e].next
                               THEN IF m.list[l].first = e THEN NULL ELSE m.cell[e].prev
                               ELSE m.cell[c].prev
    /\ \A k \in DOMAIN m.list :
          /\ m2.list[k].current = m.list[k].current
          /\ m2.list[k].first = IF k = l /\ m.list[l].first = e THEN m.cell[e].next ELSE m.list[k].first
          /\ m2.list[k].last = IF k = l /\ m.cell[e].next = NULL
                               THEN IF m.list[l].first = e THEN NULL ELSE m.cell[e].prev
                               ELSE m.list[k].last

Fore(m, l, e) ==
    IF e = m.list[l].first THEN [m EXCEPT !.list[l].first = m.cell[e].next]
    ELSE [m EXCEPT !.cell[m.cell[e].prev].next = m.cell[e].next]

\* What removeElem writes, by where the element is.
LEMMA RemoveElemIs ==
    ASSUME NEW m, NEW l, NEW e
    PROVE  removeElem(m, l, e) =
              IF m.cell[e].next = NULL
              THEN [Fore(m, l, e) EXCEPT
                      !.list[l].last = IF e = m.list[l].first THEN NULL ELSE m.cell[e].prev]
              ELSE [Fore(m, l, e) EXCEPT
                      !.cell[m.cell[e].next].prev = IF e = m.list[l].first THEN NULL ELSE m.cell[e].prev]
BY DEF removeElem, Fore

\* What listRemove writes once it has the element.
LEMMA RemoveWrites ==
    ASSUME NEW m, NEW N, MemType(m, N), NEW l \in N, NEW e \in Cell,
           m.cell[e].next # e, m.cell[e].prev # e,
           m.list[l].first # e => m.cell[e].prev \in Cell
    PROVE  LET m2 == hmFree([removeElem(m, l, e) EXCEPT !.cell[e].item = NULL], e)
           IN  MemType(m2, N) /\ Removed(m, m2, l, e)
<1>1. PICK nx, pv, head : nx = m.cell[e].next /\ pv = m.cell[e].prev /\ head = m.list[l].first
  OBVIOUS
<1>2. nx \in Link /\ pv \in Link /\ head \in Link /\ nx # e /\ pv # e
      /\ (head # e => pv \in Cell)
  BY <1>1 DEF MemType
<1>3. PICK fore : fore = Fore(m, l, e)
  OBVIOUS
<1>4. /\ MemType(fore, N) /\ fore.used = m.used
      /\ fore.list = IF e = head THEN [m.list EXCEPT ![l].first = nx] ELSE m.list
      /\ fore.cell = IF e = head THEN m.cell ELSE [m.cell EXCEPT ![pv].next = nx]
  <2>1. CASE e = head
    <3>1. fore = [m EXCEPT !.list[l].first = nx]
      BY <2>1, <1>1, <1>3 DEF Fore
    <3> QED BY <3>1, <2>1, <1>2 DEF MemType
  <2>2. CASE e # head
    <3>1. fore = [m EXCEPT !.cell[pv].next = nx]
      BY <2>2, <1>1, <1>3 DEF Fore
    <3> QED BY <3>1, <2>2, <1>2 DEF MemType
  <2> QED BY <2>1, <2>2
<1>5. PICK p : p = IF e = head THEN NULL ELSE pv
  OBVIOUS
<1>6. p \in Link
  BY <1>2, <1>5 DEF Link
<1>7. PICK out : out = IF nx = NULL THEN [fore EXCEPT !.list[l].last = p]
                       ELSE [fore EXCEPT !.cell[nx].prev = p]
  OBVIOUS
<1>8. out = removeElem(m, l, e)
  <2>1. p = IF e = m.list[l].first THEN NULL ELSE m.cell[e].prev
    BY <1>1, <1>5
  <2>2. removeElem(m, l, e) =
              IF m.cell[e].next = NULL
              THEN [fore EXCEPT !.list[l].last = p]
              ELSE [fore EXCEPT !.cell[m.cell[e].next].prev = p]
    BY <2>1, <1>3, RemoveElemIs
  <2> QED BY <2>2, <1>1, <1>7
<1>9. /\ MemType(out, N) /\ out.used = m.used
      /\ out.list = IF nx = NULL THEN [fore.list EXCEPT ![l].last = p] ELSE fore.list
      /\ out.cell = IF nx = NULL THEN fore.cell ELSE [fore.cell EXCEPT ![nx].prev = p]
  <2>1. CASE nx = NULL
    <3>1. out = [fore EXCEPT !.list[l].last = p]
      BY <2>1, <1>7
    <3>2. out.used = fore.used /\ out.cell = fore.cell /\ out.list = [fore.list EXCEPT ![l].last = p]
          /\ out = [cell |-> out.cell, used |-> out.used, list |-> out.list]
      BY <3>1, <1>4 DEF MemType
    <3>3. out.list \in [N -> [first : Link, current : Link, last : Link]]
      <4>1. fore.list \in [N -> [first : Link, current : Link, last : Link]]
        BY <1>4 DEF MemType
      <4> QED BY <4>1, <3>2, <1>6
    <3>4. MemType(out, N)
      BY <3>2, <3>3, <1>4, MemParts DEF MemType
    <3> QED BY <3>2, <3>4, <2>1, <1>4
  <2>2. CASE nx # NULL
    <3>0. nx \in Cell
      BY <2>2, <1>2 DEF Link
    <3>1. out = [fore EXCEPT !.cell[nx].prev = p]
      BY <2>2, <1>7
    <3>2. out.used = fore.used /\ out.list = fore.list /\ out.cell = [fore.cell EXCEPT ![nx].prev = p]
          /\ out = [cell |-> out.cell, used |-> out.used, list |-> out.list]
      BY <3>1, <1>4 DEF MemType
    <3>3. out.cell \in [Cell -> [item : Nat, next : Link, prev : Link]]
      <4>1. fore.cell \in [Cell -> [item : Nat, next : Link, prev : Link]]
        BY <1>4 DEF MemType
      <4> QED BY <4>1, <3>0, <3>2, <1>6
    <3>4. MemType(out, N)
      BY <3>2, <3>3, <1>4, MemParts DEF MemType
    <3> QED BY <3>2, <3>4, <2>2, <1>4
  <2> QED BY <2>1, <2>2
<1>10. PICK m2 : m2 = hmFree([out EXCEPT !.cell[e].item = NULL], e)
  OBVIOUS
<1>11. /\ MemType(m2, N) /\ m2.used = m.used \ {e} /\ m2.list = out.list
       /\ m2.cell = [out.cell EXCEPT ![e].item = NULL]
  <2>1. PICK o : o = [out EXCEPT !.cell[e].item = NULL]
    OBVIOUS
  <2>2. o.used = out.used /\ o.list = out.list /\ o.cell = [out.cell EXCEPT ![e].item = NULL]
        /\ o = [cell |-> o.cell, used |-> o.used, list |-> o.list]
    BY <2>1, <1>9 DEF MemType
  <2>3. m2 = [o EXCEPT !.used = @ \ {e}]
    BY <2>1, <1>10 DEF hmFree
  <2>4. m2.used = o.used \ {e} /\ m2.list = o.list /\ m2.cell = o.cell
        /\ m2 = [cell |-> m2.cell, used |-> m2.used, list |-> m2.list]
    BY <2>2, <2>3
  <2>5. m2.cell \in [Cell -> [item : Nat, next : Link, prev : Link]]
    <3>1. out.cell \in [Cell -> [item : Nat, next : Link, prev : Link]]
      BY <1>9 DEF MemType
    <3>2. NULL \in Nat
      BY CellsAre
    <3> QED BY <3>1, <3>2, <2>2, <2>4
  <2>6. MemType(m2, N)
    BY <2>2, <2>4, <2>5, <1>9, MemParts DEF MemType
  <2> QED BY <2>2, <2>4, <2>6, <1>9
<1>12. ASSUME NEW c \in Cell
       PROVE  /\ out.cell[c].item = m.cell[c].item
              /\ out.cell[c].next = IF head # e /\ c = pv THEN nx ELSE m.cell[c].next
              /\ out.cell[c].prev = IF c = nx THEN p ELSE m.cell[c].prev
  <2>1. /\ fore.cell[c].item = m.cell[c].item
        /\ fore.cell[c].next = IF head # e /\ c = pv THEN nx ELSE m.cell[c].next
        /\ fore.cell[c].prev = m.cell[c].prev
    BY <1>4, <1>2 DEF MemType
  <2>2. c # NULL
    BY CellsAre
  <2> QED BY <2>1, <2>2, <1>9, <1>2, <1>4 DEF MemType, Link
<1>13. m2.cell[e] = [m.cell[e] EXCEPT !.item = NULL]
  <2>1. out.cell[e] = m.cell[e]
    <3>1. out.cell[e].next = m.cell[e].next /\ out.cell[e].prev = m.cell[e].prev
          /\ out.cell[e].item = m.cell[e].item
      BY <1>12, <1>2
    <3>2. out.cell[e] \in [item : Nat, next : Link, prev : Link]
          /\ m.cell[e] \in [item : Nat, next : Link, prev : Link]
      BY <1>9 DEF MemType
    <3> QED BY <3>1, <3>2
  <2> QED BY <2>1, <1>11, <1>9 DEF MemType
<1>14. \A c \in Cell \ {e} : m2.cell[c] = out.cell[c]
  BY <1>11, <1>9 DEF MemType
<1>15. \A k \in N : /\ fore.list[k].current = m.list[k].current /\ fore.list[k].last = m.list[k].last
                    /\ fore.list[k].first = IF k = l /\ head = e THEN nx ELSE m.list[k].first
  BY <1>4, <1>1 DEF MemType
<1>16. \A k \in N : /\ out.list[k].current = fore.list[k].current /\ out.list[k].first = fore.list[k].first
                    /\ out.list[k].last = IF k = l /\ nx = NULL THEN p ELSE fore.list[k].last
  BY <1>9, <1>4 DEF MemType
<1>17. DOMAIN m.list = N
  BY DEF MemType
<1>18. Removed(m, m2, l, e)
  BY <1>1, <1>5, <1>11, <1>12, <1>13, <1>14, <1>15, <1>16, <1>17 DEF Removed
<1> QED BY <1>8, <1>10, <1>11, <1>18

-----------------------------------------------------------------------------
(* What the operations do to lists that hold items.                        *)

\* Chains of lists that hold items.
LEMMA HoldingChain ==
    ASSUME NEW m, NEW N, NEW S, Holding(m, N, S), NEW l \in N
    PROVE  /\ Chain(m, l) \in Seq(Cell) /\ Len(Chain(m, l)) \in 0 .. NbCells
           /\ IsList(m, l, Chain(m, l))
           /\ Cells(m, l) \subseteq m.used
           /\ \A i \in 1 .. Len(Chain(m, l)) : Chain(m, l)[i] \in Cells(m, l)
           /\ m.list[l].first \in Cells(m, l) \cup {NULL}
           /\ m.list[l].first = NULL <=> Len(Chain(m, l)) = 0
<1>1. IsList(m, l, Chain(m, l))
  BY DEF Holding
<1>2. Chain(m, l) \in Seq(Cell) /\ Len(Chain(m, l)) \in 0 .. NbCells
  BY <1>1, ChainIs
<1>3. Cells(m, l) \subseteq m.used
  BY DEF Holding
<1>4. \A i \in 1 .. Len(Chain(m, l)) : Chain(m, l)[i] \in Cells(m, l) /\ Chain(m, l)[i] \in Cell
  <2>1. PICK q : q = Chain(m, l)
    OBVIOUS
  <2>2. q \in Seq(Cell) /\ Cells(m, l) = {q[i] : i \in 1 .. Len(q)}
    BY <1>2, <2>1 DEF Cells
  <2>3. \A i \in 1 .. Len(q) : q[i] \in Cells(m, l) /\ q[i] \in Cell
    BY <2>2
  <2> QED  BY <2>1, <2>3
<1>5. PICK q : q = Chain(m, l)
  OBVIOUS
<1>5a. PICK n \in 0 .. NbCells : n = Len(q)
  BY <1>2, <1>5
<1>6. m.list[l].first = IF n = 0 THEN NULL ELSE q[1]
  BY <1>1, <1>5, <1>5a DEF IsList
<1>7. n # 0 => 1 \in 1 .. n
  BY CellsAre
<1>8. \A i \in 1 .. n : q[i] \in Cells(m, l) /\ q[i] # NULL
  BY <1>4, <1>5, <1>5a, CellsAre
<1>9. /\ m.list[l].first \in Cells(m, l) \cup {NULL}
      /\ m.list[l].first = NULL <=> n = 0
  BY <1>6, <1>7, <1>8
<1> QED  BY <1>1, <1>2, <1>3, <1>4, <1>5, <1>5a, <1>9

Consed(e, q) == [i \in 1 .. Len(q) + 1 |-> IF i = 1 THEN e ELSE q[i - 1]]

\* p is q with e in front of it.
IsConsed(p, e, q) ==
    /\ p \in Seq(Cell) /\ Len(p) = Len(q) + 1 /\ p[1] = e
    /\ \A i \in 1 .. Len(q) : p[i + 1] = q[i]
    /\ \A i \in 2 .. Len(q) + 1 : i - 1 \in 1 .. Len(q) /\ p[i] = q[i - 1]

\* A chain with one more cell at its front.
LEMMA ConsedIs ==
    ASSUME NEW e \in Cell, NEW q \in Seq(Cell)
    PROVE  IsConsed(Consed(e, q), e, q)
<1>1. Len(q) \in Nat /\ \A i \in 1 .. Len(q) : q[i] \in Cell
  OBVIOUS
<1>2. \A i \in 1 .. Len(q) + 1 : (IF i = 1 THEN e ELSE q[i - 1]) \in Cell
  BY <1>1
<1>3. Consed(e, q) \in Seq(Cell) /\ Len(Consed(e, q)) = Len(q) + 1
  BY <1>1, <1>2 DEF Consed
<1>4. \A i \in 1 .. Len(q) + 1 : Consed(e, q)[i] = IF i = 1 THEN e ELSE q[i - 1]
  BY DEF Consed
<1> QED  BY <1>1, <1>3, <1>4 DEF IsConsed

\* listAddInFront makes the new cell the first of its list, and leaves the others alone.
LEMMA AddList ==
    ASSUME NEW m, NEW N, NEW S, Holding(m, N, S), NEW l \in N, NEW x, NEW e, NEW m2,
           Added(m, m2, l, x, e)
    PROVE  /\ IsList(m2, l, Consed(e, Chain(m, l)))
           /\ \A k \in N : k # l => IsList(m2, k, Chain(m, k))
<1>0. e \in Cell /\ e \notin m.used /\ DOMAIN m.list = N
  BY DEF Added, Holding, MemType
<1>1. ASSUME NEW k \in N
      PROVE  /\ Chain(m, k) \in Seq(Cell) /\ IsList(m, k, Chain(m, k))
             /\ Len(Chain(m, k)) \in Nat
             /\ \A i \in 1 .. Len(Chain(m, k)) : /\ Chain(m, k)[i] \in Cell \ {e}
                                                 /\ Chain(m, k)[i] \in Cells(m, k)
             /\ m.list[k].first \in Cells(m, k) \cup {NULL}
  BY <1>0, HoldingChain
<1>2. ASSUME NEW k \in N, k # l PROVE IsList(m2, k, Chain(m, k))
  <2>1. PICK q : q = Chain(m, k)
    OBVIOUS
  <2>2. /\ q \in Seq(Cell) /\ IsList(m, k, q)
        /\ \A i \in 1 .. Len(q) : q[i] \in Cell \ {e} /\ q[i] # m.list[l].first
    <3>1. Cells(m, k) \cap Cells(m, l) = {}
      BY <1>2 DEF Holding
    <3>2. \A i \in 1 .. Len(q) : q[i] # NULL
      BY <1>1, <2>1, CellsAre
    <3> QED  BY <1>1, <2>1, <3>1, <3>2
  <2>3. Along(m2, q)
    <3>1. Along(m, q)
      BY <2>2 DEF IsList
    <3>2. \A i \in 1 .. Len(q) : m2.cell[q[i]].next = m.cell[q[i]].next
      BY <2>2 DEF Added
    <3> QED  BY <3>1, <3>2 DEF Along
  <2>4. m2.list[k].first = m.list[k].first /\ m2.list[k].last = m.list[k].last
    BY <1>0, <1>2 DEF Added
  <2>5. \A i \in 1 .. Len(q) : m2.cell[q[i]].prev = m.cell[q[i]].prev
    BY <2>2 DEF Added
  <2> QED  BY <2>1, <2>2, <2>3, <2>4, <2>5 DEF IsList
<1>3. IsList(m2, l, Consed(e, Chain(m, l)))
  <2>1. PICK q : q = Chain(m, l)
    OBVIOUS
  <2>2. PICK n \in Nat : n = Len(q)
    BY <1>1, <2>1
  <2>3. /\ q \in Seq(Cell) /\ IsList(m, l, q) /\ Along(m, q)
        /\ \A i \in 1 .. n : q[i] \in Cell \ {e}
    BY <1>1, <2>1, <2>2 DEF IsList
  <2>4. PICK p : p = Consed(e, q)
    OBVIOUS
  <2>5. /\ p \in Seq(Cell) /\ Len(p) = n + 1 /\ p[1] = e
        /\ \A i \in 2 .. n + 1 : i - 1 \in 1 .. n /\ p[i] = q[i - 1]
    <3>1. IsConsed(p, e, q)
      BY <1>0, <2>3, <2>4, ConsedIs
    <3> QED  BY <3>1, <2>2 DEF IsConsed
  <2>6. m.list[l].first = IF n = 0 THEN NULL ELSE q[1]
    BY <2>2, <2>3 DEF IsList
  <2>7. m2.cell[e].next = m.list[l].first /\ m2.cell[e].prev = NULL
    BY DEF Added
  <2>8. ASSUME NEW i \in 1 .. n
        PROVE  /\ m2.cell[q[i]].next = IF i = n THEN NULL ELSE q[i + 1]
               /\ m2.cell[q[i]].prev = IF i = 1 THEN e ELSE q[i - 1]
    <3>1. m.cell[q[i]].next = IF i = n THEN NULL ELSE q[i + 1]
      BY <2>2, <2>3 DEF Along
    <3>2. m.cell[q[i]].prev = IF i = 1 THEN NULL ELSE q[i - 1]
      BY <2>2, <2>3 DEF IsList
    <3>3. q[i] = m.list[l].first <=> i = 1
      <4>1. 1 \in 1 .. n /\ n # 0
        OBVIOUS
      <4> QED  BY <4>1, <2>2, <2>3, <2>6 DEF IsList
    <3>4. q[i] \in Cell \ {e}
      BY <2>3
    <3> QED  BY <3>1, <3>2, <3>3, <3>4 DEF Added
  <2>9. \A i \in 1 .. n + 1 : m2.cell[p[i]].next = IF i = n + 1 THEN NULL ELSE p[i + 1]
    <3> TAKE i \in 1 .. n + 1
    <3>1. CASE i = 1
      <4>1. n # 0 => p[2] = q[1]
        <5>1. n # 0 => 2 \in 2 .. n + 1 /\ 2 - 1 = 1
          OBVIOUS
        <5> QED  BY <5>1, <2>5
      <4> QED  BY <4>1, <3>1, <2>5, <2>6, <2>7
    <3>2. CASE i # 1
      <4>1. PICK j \in 1 .. n : i = j + 1 /\ p[i] = q[j]
        BY <3>2, <2>5
      <4>2. j # n => p[i + 1] = q[j + 1]
        <5>1. j # n => i + 1 \in 2 .. n + 1 /\ (i + 1) - 1 = j + 1
          BY <4>1
        <5> QED  BY <5>1, <2>5
      <4> QED  BY <4>1, <4>2, <2>8
    <3> QED  BY <3>1, <3>2
  <2>10. \A i \in 1 .. n + 1 : m2.cell[p[i]].prev = IF i = 1 THEN NULL ELSE p[i - 1]
    <3> TAKE i \in 1 .. n + 1
    <3>1. CASE i = 1
      BY <3>1, <2>5, <2>7
    <3>2. CASE i # 1
      <4>1. PICK j \in 1 .. n : i = j + 1 /\ p[i] = q[j]
        BY <3>2, <2>5
      <4>2. j # 1 => p[j] = q[j - 1]
        <5>1. j # 1 => j \in 2 .. n + 1
          OBVIOUS
        <5> QED  BY <5>1, <2>5
      <4>3. i - 1 = j
        BY <4>1
      <4> QED  BY <4>1, <4>2, <4>3, <2>5, <2>8
    <3> QED  BY <3>1, <3>2
  <2>11. \A i, j \in 1 .. n + 1 : p[i] = p[j] => i = j
    <3>1. \A i, j \in 1 .. n : q[i] = q[j] => i = j
      BY <2>2, <2>3 DEF IsList
    <3> TAKE i, j \in 1 .. n + 1
    <3>2. i # 1 => i - 1 \in 1 .. n /\ p[i] = q[i - 1] /\ p[i] # e
      BY <2>5, <2>3
    <3>3. j # 1 => j - 1 \in 1 .. n /\ p[j] = q[j - 1] /\ p[j] # e
      BY <2>5, <2>3
    <3> QED  BY <3>1, <3>2, <3>3, <2>5
  <2>12. m2.list[l].first = p[1]
    BY <1>0, <2>5 DEF Added
  <2>13. m2.list[l].last = p[n + 1]
    <3>1. m.list[l].last = IF n = 0 THEN NULL ELSE q[n]
      BY <2>2, <2>3 DEF IsList
    <3>2. m2.list[l].last = IF m.list[l].first = NULL THEN e ELSE m.list[l].last
      BY <1>0 DEF Added
    <3>3. CASE n = 0
      BY <3>2, <3>3, <2>6, <2>5
    <3>4. CASE n # 0
      <4>1. 1 \in 1 .. n /\ n + 1 \in 2 .. n + 1 /\ (n + 1) - 1 = n
        BY <3>4
      <4>2. q[1] # NULL /\ p[n + 1] = q[n]
        BY <4>1, <2>3, <2>5, CellsAre
      <4> QED  BY <4>2, <3>1, <3>2, <3>4, <2>6
    <3> QED  BY <3>3, <3>4
  <2>14. n + 1 # 0 /\ n + 1 = Len(p)
    BY <2>5
  <2>15. Along(m2, p)
    BY <2>5, <2>9 DEF Along
  <2> QED  BY <2>1, <2>4, <2>10, <2>11, <2>12, <2>13, <2>14, <2>15 DEF IsList
<1> QED  BY <1>2, <1>3

\* What becomes of the cells and the items of the lists when l gets x.
Gains(m, m2, N, l, x) ==
    /\ Has(m2, l) = Has(m, l) \cup {x}
    /\ \A k \in N : k # l => Has(m2, k) = Has(m, k)
    /\ \A k \in N : m2.list[k].current = m.list[k].current

\* Cell e is put in front of l.
Enters(m, m2, N, l, e) ==
    /\ e \in Cell \ m.used /\ m2.used = m.used \cup {e}
    /\ Cells(m2, l) = Cells(m, l) \cup {e}
    /\ \A k \in N : k # l => Cells(m2, k) = Cells(m, k)
    /\ \A c \in Cell \ {e} : m2.cell[c].next = m.cell[c].next

\* After listAddInFront the lists hold one item more.
LEMMA AddSound ==
    ASSUME NEW m, NEW N, NEW S, Holding(m, N, S), NEW l \in N, NEW x \in Nat, x \notin S,
           HasRoom(m)
    PROVE  /\ Holding(listAddInFront(m, l, x), N, S \cup {x})
           /\ Gains(m, listAddInFront(m, l, x), N, l, x)
           /\ \E e : Enters(m, listAddInFront(m, l, x), N, l, e)
<1>1. PICK m2 : m2 = listAddInFront(m, l, x)
  OBVIOUS
<1>2. PICK e : e = Fresh(m)
  OBVIOUS
<1>3. MemType(m2, N) /\ Added(m, m2, l, x, e)
  <2>0. m.list[l].first \in Cells(m, l) \cup {NULL} /\ Cells(m, l) \subseteq m.used
    BY HoldingChain
  <2>1. MemType(m, N) /\ m.list[l].first \in m.used \cup {NULL}
    BY <2>0 DEF Holding
  <2> QED  BY <2>1, <1>1, <1>2, AddWrites
<1>4. /\ IsList(m2, l, Consed(e, Chain(m, l)))
      /\ \A k \in N : k # l => IsList(m2, k, Chain(m, k))
  BY <1>3, AddList
<1>5. /\ Chain(m2, l) = Consed(e, Chain(m, l))
      /\ \A k \in N : k # l => Chain(m2, k) = Chain(m, k)
  BY <1>4, ChainIs
<1>6. \A k \in N : IsList(m2, k, Chain(m2, k))
  BY <1>4, <1>5
<1>7. e \in Cell /\ e \notin m.used /\ m2.used = m.used \cup {e} /\ m2.cell[e].item = x
  BY <1>3 DEF Added
<1>8. Cells(m2, l) = Cells(m, l) \cup {e}
  <2>1. PICK q : q = Chain(m, l)
    OBVIOUS
  <2>2. q \in Seq(Cell)
    BY <2>1, HoldingChain
  <2>3. PICK p : p = Consed(e, q)
    OBVIOUS
  <2>4. /\ Len(p) = Len(q) + 1 /\ p[1] = e
        /\ \A i \in 1 .. Len(q) : p[i + 1] = q[i]
        /\ \A i \in 2 .. Len(q) + 1 : i - 1 \in 1 .. Len(q) /\ p[i] = q[i - 1]
    <3>1. IsConsed(p, e, q)
      BY <2>2, <2>3, <1>7, ConsedIs
    <3> QED  BY <3>1 DEF IsConsed
  <2>5. Len(q) \in Nat
    BY <2>2
  <2>6. {p[i] : i \in 1 .. Len(p)} = {q[i] : i \in 1 .. Len(q)} \cup {e}
    <3>1. ASSUME NEW i \in 1 .. Len(p) PROVE p[i] \in {q[j] : j \in 1 .. Len(q)} \cup {e}
      <4>1. CASE i = 1
        BY <4>1, <2>4
      <4>2. CASE i # 1
        <5>1. i \in 2 .. Len(q) + 1
          BY <4>2, <2>4, <2>5
        <5> QED  BY <5>1, <2>4
      <4> QED  BY <4>1, <4>2
    <3>2. ASSUME NEW i \in 1 .. Len(q) PROVE q[i] \in {p[j] : j \in 1 .. Len(p)}
      <4>1. i + 1 \in 1 .. Len(p) /\ p[i + 1] = q[i]
        BY <2>4, <2>5
      <4> QED  BY <4>1
    <3>3. 1 \in 1 .. Len(p)
      BY <2>4, <2>5
    <3> QED  BY <3>1, <3>2, <3>3, <2>4
  <2>7. Cells(m2, l) = {p[i] : i \in 1 .. Len(p)} /\ Cells(m, l) = {q[i] : i \in 1 .. Len(q)}
    BY <2>1, <2>3, <1>5 DEF Cells
  <2> QED  BY <2>6, <2>7
<1>9. \A k \in N : k # l => Cells(m2, k) = Cells(m, k)
  BY <1>5 DEF Cells
<1>10. \A k \in N : Cells(m, k) \subseteq m.used
  BY HoldingChain
<1>11. \A c \in m.used : m2.cell[c].item = m.cell[c].item
  BY <1>7, <1>3 DEF Added, Holding, MemType
<1>12. Has(m2, l) = Has(m, l) \cup {x}
  BY <1>7, <1>8, <1>10, <1>11 DEF Has
<1>13. \A k \in N : k # l => Has(m2, k) = Has(m, k)
  BY <1>9, <1>10, <1>11 DEF Has
<1>14. \A k \in N : m2.list[k].current = m.list[k].current
  BY <1>3 DEF Added, Holding, MemType
<1>15. \A k, j \in N : k # j => Cells(m2, k) \cap Cells(m2, j) = {}
  <2>1. \A k, j \in N : k # j => Cells(m, k) \cap Cells(m, j) = {}
    BY DEF Holding
  <2> QED  BY <2>1, <1>7, <1>8, <1>9, <1>10
<1>16. m2.used = UNION {Cells(m2, k) : k \in N}
  <2>1. m.used = UNION {Cells(m, k) : k \in N}
    BY DEF Holding
  <2>2. \A c \in m2.used : \E k \in N : c \in Cells(m2, k)
    BY <2>1, <1>7, <1>8, <1>9
  <2>3. \A k \in N : Cells(m2, k) \subseteq m2.used
    BY <1>7, <1>8, <1>9, <1>10
  <2> QED  BY <2>2, <2>3
<1>17. \A c \in m2.used : m2.cell[c].item \in S \cup {x}
  BY <1>7, <1>11 DEF Holding
<1>18. \A c, d \in m2.used : m2.cell[c].item = m2.cell[d].item => c = d
  <2>1. \A c \in m.used : m2.cell[c].item # x
    BY <1>11 DEF Holding
  <2> QED  BY <2>1, <1>7, <1>11 DEF Holding
<1>19. \A y \in S \cup {x} : \E c \in m2.used : m2.cell[c].item = y
  BY <1>7, <1>11 DEF Holding
<1>20. Holding(m2, N, S \cup {x})
  BY <1>3, <1>6, <1>15, <1>16, <1>17, <1>18, <1>19 DEF Holding
<1>21. Gains(m, m2, N, l, x)
  BY <1>12, <1>13, <1>14 DEF Gains
<1>22. Enters(m, m2, N, l, e)
  BY <1>3, <1>7, <1>8, <1>9 DEF Enters, Added
<1> QED  BY <1>1, <1>20, <1>21, <1>22

Without(q, j) == [i \in 1 .. Len(q) - 1 |-> IF i < j THEN q[i] ELSE q[i + 1]]

\* A chain without one of its cells.
LEMMA WithoutIs ==
    ASSUME NEW q \in Seq(Cell), NEW j \in 1 .. Len(q)
    PROVE  /\ Without(q, j) \in Seq(Cell) /\ Len(Without(q, j)) = Len(q) - 1
           /\ \A i \in 1 .. Len(q) - 1 : Without(q, j)[i] = IF i < j THEN q[i] ELSE q[i + 1]
<1>1. PICK n \in Nat : n = Len(q)
  OBVIOUS
<1>2. n - 1 \in Nat /\ \A i \in 1 .. n : q[i] \in Cell
  BY <1>1
<1>3. \A i \in 1 .. n - 1 : (IF i < j THEN q[i] ELSE q[i + 1]) \in Cell
  BY <1>1, <1>2
<1>4. Without(q, j) = [i \in 1 .. n - 1 |-> IF i < j THEN q[i] ELSE q[i + 1]]
  BY <1>1 DEF Without
<1> QED  BY <1>1, <1>2, <1>3, <1>4

\* e is the cell at place j of list l.
IsAt(m, l, j, e) == j \in 1 .. Len(Chain(m, l)) /\ e = Chain(m, l)[j]

\* removeElem takes one cell out of its list, wherever it is, and leaves the others alone.
LEMMA RemoveList ==
    ASSUME NEW m, NEW N, NEW S, Holding(m, N, S), NEW l \in N,
           NEW j, NEW e, IsAt(m, l, j, e), NEW m2, Removed(m, m2, l, e)
    PROVE  /\ IsList(m2, l, Without(Chain(m, l), j))
           /\ \A k \in N : k # l => IsList(m2, k, Chain(m, k))
<1>1. ASSUME NEW k \in N
      PROVE  /\ Chain(m, k) \in Seq(Cell) /\ IsList(m, k, Chain(m, k))
             /\ Len(Chain(m, k)) \in Nat
             /\ \A i \in 1 .. Len(Chain(m, k)) : /\ Chain(m, k)[i] \in Cell
                                                 /\ Chain(m, k)[i] \in Cells(m, k)
  BY HoldingChain
<1>2. PICK q : q = Chain(m, l)
  OBVIOUS
<1>3. PICK n \in Nat : n = Len(q)
  BY <1>1, <1>2
<1>3a. j \in 1 .. Len(q) /\ e = q[j] /\ Removed(m, m2, l, e)
  BY <1>2 DEF IsAt
<1>4. /\ q \in Seq(Cell) /\ j \in 1 .. n /\ e = q[j] /\ n # 0
      /\ \A i \in 1 .. n : q[i] \in Cell /\ q[i] # NULL
  BY <1>1, <1>2, <1>3, <1>3a, CellsAre
<1>5. \A i \in 1 .. n : /\ m.cell[q[i]].next = IF i = n THEN NULL ELSE q[i + 1]
                        /\ m.cell[q[i]].prev = IF i = 1 THEN NULL ELSE q[i - 1]
  BY <1>1, <1>2, <1>3 DEF IsList, Along
<1>6. \A i, k \in 1 .. n : q[i] = q[k] => i = k
  BY <1>1, <1>2, <1>3 DEF IsList
<1>7. m.list[l].first = q[1] /\ m.list[l].last = q[n] /\ 1 \in 1 .. n /\ n \in 1 .. n
  BY <1>1, <1>2, <1>3, <1>4 DEF IsList
<1>8. PICK nx, pv : nx = m.cell[e].next /\ pv = m.cell[e].prev
  OBVIOUS
<1>9. /\ nx = IF j = n THEN NULL ELSE q[j + 1]
      /\ pv = IF j = 1 THEN NULL ELSE q[j - 1]
      /\ m.list[l].first = e <=> j = 1
  BY <1>4, <1>5, <1>6, <1>7, <1>8
<1>10. ASSUME NEW k \in N, k # l PROVE IsList(m2, k, Chain(m, k))
  <2>1. PICK p : p = Chain(m, k)
    OBVIOUS
  <2>2. Cells(m, k) \cap Cells(m, l) = {}
    BY <1>10 DEF Holding
  <2>3. \A i \in 1 .. n : q[i] \in Cells(m, l)
    BY <1>1, <1>2, <1>3
  <2>4. e \in Cells(m, l) /\ (nx = NULL \/ nx \in Cells(m, l)) /\ (pv = NULL \/ pv \in Cells(m, l))
    <3>1. j # n => j + 1 \in 1 .. n
      BY <1>4
    <3>2. j # 1 => j - 1 \in 1 .. n
      BY <1>4
    <3> QED  BY <3>1, <3>2, <2>3, <1>4, <1>9
  <2>5. /\ p \in Seq(Cell) /\ IsList(m, k, p)
        /\ \A i \in 1 .. Len(p) : p[i] \in Cell /\ p[i] # e /\ p[i] # nx /\ p[i] # pv
    <3>1. \A i \in 1 .. Len(p) : p[i] \in Cells(m, k) /\ p[i] # NULL
      BY <1>1, <2>1, CellsAre
    <3> QED  BY <3>1, <1>1, <2>1, <2>2, <2>4
  <2>6. \A i \in 1 .. Len(p) : /\ m2.cell[p[i]].next = m.cell[p[i]].next
                               /\ m2.cell[p[i]].prev = m.cell[p[i]].prev
    BY <2>5, <1>8, <1>3a DEF Removed
  <2>7. Along(m2, p)
    <3>1. Along(m, p)
      BY <2>5 DEF IsList
    <3> QED  BY <3>1, <2>6 DEF Along
  <2>8. m2.list[k].first = m.list[k].first /\ m2.list[k].last = m.list[k].last
    BY <1>10, <1>3a DEF Removed, Holding, MemType
  <2> QED  BY <2>1, <2>5, <2>6, <2>7, <2>8 DEF IsList
<1>11. PICK p : p = Without(q, j)
  OBVIOUS
<1>12. /\ p \in Seq(Cell) /\ Len(p) = n - 1
       /\ \A i \in 1 .. n - 1 : p[i] = IF i < j THEN q[i] ELSE q[i + 1]
  BY <1>3, <1>4, <1>11, WithoutIs
<1>13. ASSUME NEW i \in 1 .. n, i # j
       PROVE  /\ m2.cell[q[i]].next = IF i = j - 1 THEN (IF j = n THEN NULL ELSE q[j + 1])
                                      ELSE IF i = n THEN NULL ELSE q[i + 1]
              /\ m2.cell[q[i]].prev = IF i = j + 1 THEN (IF j = 1 THEN NULL ELSE q[j - 1])
                                      ELSE IF i = 1 THEN NULL ELSE q[i - 1]
  <2>1. q[i] \in Cell \ {e} /\ q[i] # NULL
    BY <1>4, <1>6, <1>13
  <2>2. (j # 1 /\ q[i] = pv) <=> i = j - 1
    <3>1. j # 1 => j - 1 \in 1 .. n
      BY <1>4
    <3>2. i = j - 1 => j # 1
      OBVIOUS
    <3> QED  BY <3>1, <3>2, <1>6, <1>9
  <2>3. q[i] = nx <=> i = j + 1
    <3>1. j # n => j + 1 \in 1 .. n
      BY <1>4
    <3>2. i = j + 1 => j # n
      OBVIOUS
    <3> QED  BY <3>1, <3>2, <2>1, <1>6, <1>9
  <2>4. m2.cell[q[i]].next = IF i = j - 1 THEN nx ELSE m.cell[q[i]].next
    BY <2>1, <2>2, <1>8, <1>9, <1>3a DEF Removed
  <2>5. m2.cell[q[i]].prev = IF i = j + 1 THEN IF j = 1 THEN NULL ELSE pv ELSE m.cell[q[i]].prev
    BY <2>1, <2>3, <1>8, <1>9, <1>3a DEF Removed
  <2> QED  BY <2>4, <2>5, <1>5, <1>9
<1>14. \A i \in 1 .. n - 1 : m2.cell[p[i]].next = IF i = n - 1 THEN NULL ELSE p[i + 1]
  <2> TAKE i \in 1 .. n - 1
  <2>1. CASE i < j
    <3>1. i \in 1 .. n /\ i # j /\ i # n /\ p[i] = q[i]
      BY <2>1, <1>4, <1>12
    <3>2. i # n - 1 => p[i + 1] = IF i + 1 < j THEN q[i + 1] ELSE q[i + 2]
      BY <1>12
    <3>3. i = j - 1 <=> ~(i + 1 < j)
      BY <2>1, <1>4
    <3>4. i = n - 1 => j = n /\ i = j - 1
      BY <2>1, <1>4
    <3>5. i = j - 1 => j + 1 = i + 2 /\ (j = n <=> i = n - 1)
      BY <1>4
    <3> QED  BY <3>1, <3>2, <3>3, <3>4, <3>5, <1>13
  <2>2. CASE ~(i < j)
    <3>1. i + 1 \in 1 .. n /\ i + 1 # j /\ i + 1 # j - 1 /\ p[i] = q[i + 1]
      <4>1. p[i] = q[i + 1]
        BY <2>2, <1>12
      <4>2. j \in 1 .. n
        BY <1>4
      <4>3. i + 1 \in 1 .. n /\ i + 1 # j /\ i + 1 # j - 1
        BY <2>2, <4>2
      <4> QED  BY <4>1, <4>3
    <3>2. i # n - 1 => p[i + 1] = q[i + 2]
      BY <2>2, <1>12, <1>4
    <3>3. i + 1 = n <=> i = n - 1
      OBVIOUS
    <3>4. (i + 1) + 1 = i + 2
      OBVIOUS
    <3>5. m2.cell[q[i + 1]].next = IF i + 1 = n THEN NULL ELSE q[(i + 1) + 1]
      BY <3>1, <1>13
    <3> QED  BY <3>1, <3>2, <3>3, <3>4, <3>5
  <2> QED  BY <2>1, <2>2
<1>15. \A i \in 1 .. n - 1 : m2.cell[p[i]].prev = IF i = 1 THEN NULL ELSE p[i - 1]
  <2> TAKE i \in 1 .. n - 1
  <2>1. CASE i < j
    <3>1. i \in 1 .. n /\ i # j /\ i # j + 1 /\ p[i] = q[i]
      BY <2>1, <1>4, <1>12
    <3>2. i # 1 => i - 1 \in 1 .. n - 1 /\ i - 1 < j /\ p[i - 1] = q[i - 1]
      BY <2>1, <1>12, <1>4
    <3> QED  BY <3>1, <3>2, <1>13
  <2>2. CASE ~(i < j)
    <3>1. i + 1 \in 1 .. n /\ i + 1 # j /\ i + 1 # 1 /\ p[i] = q[i + 1] /\ (i + 1) - 1 = i
      BY <2>2, <1>4, <1>12
    <3>2. m2.cell[q[i + 1]].prev = IF i + 1 = j + 1 THEN (IF j = 1 THEN NULL ELSE q[j - 1])
                                   ELSE q[i]
      BY <3>1, <1>13
    <3>3. CASE i = j
      <4>1. j # 1 => i - 1 \in 1 .. n - 1 /\ i - 1 < j /\ p[i - 1] = q[i - 1]
        BY <3>3, <1>12, <1>4
      <4> QED  BY <4>1, <3>1, <3>2, <3>3
    <3>4. CASE i # j
      <4>1. i - 1 \in 1 .. n - 1 /\ ~(i - 1 < j) /\ (i - 1) + 1 = i /\ i # 1 /\ i + 1 # j + 1
        BY <3>4, <2>2, <1>4
      <4>2. p[i - 1] = q[i]
        BY <4>1, <1>12
      <4> QED  BY <4>1, <4>2, <3>1, <3>2
    <3> QED  BY <3>3, <3>4
  <2> QED  BY <2>1, <2>2
<1>16. \A i, k \in 1 .. n - 1 : p[i] = p[k] => i = k
  <2> TAKE i, k \in 1 .. n - 1
  <2>1. /\ i \in 1 .. n /\ i + 1 \in 1 .. n /\ k \in 1 .. n /\ k + 1 \in 1 .. n
    OBVIOUS
  <2>2. /\ p[i] = IF i < j THEN q[i] ELSE q[i + 1]
        /\ p[k] = IF k < j THEN q[k] ELSE q[k + 1]
    BY <1>12
  <2>3. CASE i < j
    BY <2>1, <2>2, <2>3, <1>4, <1>6
  <2>4. CASE ~(i < j)
    BY <2>1, <2>2, <2>4, <1>4, <1>6
  <2> QED  BY <2>3, <2>4
<1>17. m2.list[l].first = IF n - 1 = 0 THEN NULL ELSE p[1]
  <2>1. m2.list[l].first = IF j = 1 THEN nx ELSE q[1]
    BY <1>7, <1>8, <1>9, <1>3a DEF Removed, Holding, MemType
  <2>2. n - 1 # 0 => p[1] = IF 1 < j THEN q[1] ELSE q[2]
    <3>1. n - 1 # 0 => 1 \in 1 .. n - 1 /\ 1 + 1 = 2
      BY <1>4
    <3> QED  BY <3>1, <1>12
  <2>3. 1 < j <=> j # 1
    BY <1>4
  <2>4. j = 1 => j + 1 = 2 /\ (j = n <=> n - 1 = 0)
    BY <1>4
  <2>5. j # 1 => n - 1 # 0
    BY <1>4
  <2> QED  BY <2>1, <2>2, <2>3, <2>4, <2>5, <1>9
<1>18. m2.list[l].last = IF n - 1 = 0 THEN NULL ELSE p[n - 1]
  <2>1. m2.list[l].last = IF nx = NULL THEN (IF j = 1 THEN NULL ELSE pv) ELSE q[n]
    BY <1>7, <1>8, <1>9, <1>3a DEF Removed, Holding, MemType
  <2>2. nx = NULL <=> j = n
    <3>1. j # n => j + 1 \in 1 .. n
      BY <1>4
    <3> QED  BY <3>1, <1>4, <1>9
  <2>3. n - 1 # 0 => p[n - 1] = IF j = n THEN q[n - 1] ELSE q[n]
    <3>1. n - 1 # 0 => n - 1 \in 1 .. n - 1 /\ (n - 1 < j <=> j = n) /\ (n - 1) + 1 = n
      BY <1>4
    <3> QED  BY <3>1, <1>12
  <2>4. j = n => (j = 1 <=> n - 1 = 0) /\ j - 1 = n - 1
    BY <1>4
  <2>5. j # n => n - 1 # 0
    BY <1>4
  <2> QED  BY <2>1, <2>2, <2>3, <2>4, <2>5, <1>9
<1>19. IsList(m2, l, p)
  <2>1. Along(m2, p)
    BY <1>12, <1>14 DEF Along
  <2> QED  BY <2>1, <1>12, <1>15, <1>16, <1>17, <1>18 DEF IsList
<1> QED  BY <1>2, <1>10, <1>11, <1>19

\* What becomes of the cells and the items of the lists when l loses x.
Loses(m, m2, N, l, x) ==
    /\ Has(m2, l) = Has(m, l) \ {x}
    /\ \A k \in N : k # l => Has(m2, k) = Has(m, k)
    /\ \A k \in N : m2.list[k].current = m.list[k].current
    /\ HasRoom(m2)

\* Cell e leaves l, with its next pointer.
Leaves(m, m2, N, l, e) ==
    /\ m2.used = m.used \ {e} /\ m2.cell[e].next = m.cell[e].next
    /\ Cells(m2, l) = Cells(m, l) \ {e}
    /\ \A k \in N : k # l => Cells(m2, k) = Cells(m, k)

\* After the removal the lists hold one item less.
LEMMA RemoveSound ==
    ASSUME NEW m, NEW N, NEW S, Holding(m, N, S), NEW l \in N, NEW e \in Cells(m, l), NEW m2,
           m2 = hmFree([removeElem(m, l, e) EXCEPT !.cell[e].item = NULL], e)
    PROVE  /\ Holding(m2, N, S \ {m.cell[e].item})
           /\ Loses(m, m2, N, l, m.cell[e].item)
           /\ Leaves(m, m2, N, l, e)
<1>1. PICK q : q = Chain(m, l)
  OBVIOUS
<1>2. PICK n \in Nat : n = Len(q)
  BY <1>1, HoldingChain
<1>3. PICK j \in 1 .. n : e = q[j]
  BY <1>1, <1>2 DEF Cells
<1>4. /\ q \in Seq(Cell) /\ IsList(m, l, q) /\ n # 0
      /\ \A i \in 1 .. n : q[i] \in Cell /\ q[i] # NULL
  BY <1>1, <1>2, <1>3, HoldingChain, CellsAre
<1>5. MemType(m2, N) /\ Removed(m, m2, l, e)
  <2>1. e \in Cell /\ MemType(m, N)
    BY <1>3, <1>4 DEF Holding
  <2>2. /\ m.cell[e].next = IF j = n THEN NULL ELSE q[j + 1]
        /\ m.cell[e].prev = IF j = 1 THEN NULL ELSE q[j - 1]
        /\ m.list[l].first = q[1]
    BY <1>2, <1>3, <1>4 DEF IsList, Along
  <2>3. (j # n => j + 1 \in 1 .. n) /\ (j # 1 => j - 1 \in 1 .. n) /\ j + 1 # j /\ j - 1 # j
    OBVIOUS
  <2>4. \A i \in 1 .. n : q[i] = e => i = j
    BY <1>2, <1>3, <1>4 DEF IsList
  <2>5. m.cell[e].next # e /\ m.cell[e].prev # e
    BY <2>2, <2>3, <2>4, <1>3, <1>4
  <2>6. m.list[l].first # e => m.cell[e].prev \in Cell
    BY <2>2, <2>3, <1>3, <1>4
  <2> QED  BY <2>1, <2>5, <2>6, RemoveWrites
<1>6. /\ IsList(m2, l, Without(q, j))
      /\ \A k \in N : k # l => IsList(m2, k, Chain(m, k))
  <2>1. IsAt(m, l, j, e) /\ Removed(m, m2, l, e)
    BY <1>1, <1>2, <1>3, <1>5 DEF IsAt
  <2>2. /\ IsList(m2, l, Without(Chain(m, l), j))
        /\ \A k \in N : k # l => IsList(m2, k, Chain(m, k))
    BY <2>1, RemoveList
  <2> QED  BY <2>2, <1>1
<1>7. /\ Chain(m2, l) = Without(q, j)
      /\ \A k \in N : k # l => Chain(m2, k) = Chain(m, k)
  BY <1>6, ChainIs
<1>8. \A k \in N : IsList(m2, k, Chain(m2, k))
  BY <1>6, <1>7
<1>9. e \in Cell /\ e \in m.used /\ m2.used = m.used \ {e}
  BY <1>3, <1>4, <1>5, HoldingChain DEF Removed
<1>10. Cells(m2, l) = Cells(m, l) \ {e}
  <2>1. PICK p : p = Without(q, j)
    OBVIOUS
  <2>2. /\ Len(p) = n - 1
        /\ \A i \in 1 .. n - 1 : p[i] = IF i < j THEN q[i] ELSE q[i + 1]
    BY <2>1, <1>2, <1>4, WithoutIs
  <2>3. \A i \in 1 .. n : q[i] = e => i = j
    BY <1>2, <1>3, <1>4 DEF IsList
  <2>4. ASSUME NEW i \in 1 .. n - 1 PROVE p[i] \in {q[k] : k \in 1 .. n} \ {e}
    <3>1. i \in 1 .. n /\ i + 1 \in 1 .. n
      OBVIOUS
    <3>2. CASE i < j
      BY <3>1, <3>2, <2>2, <2>3
    <3>3. CASE ~(i < j)
      BY <3>1, <3>3, <2>2, <2>3
    <3> QED  BY <3>2, <3>3
  <2>5. ASSUME NEW i \in 1 .. n, q[i] # e PROVE q[i] \in {p[k] : k \in 1 .. n - 1}
    <3>1. CASE i < j
      <4>1. i \in 1 .. n - 1 /\ p[i] = q[i]
        BY <3>1, <2>2
      <4> QED  BY <4>1
    <3>2. CASE ~(i < j)
      <4>1. i - 1 \in 1 .. n - 1 /\ ~(i - 1 < j) /\ (i - 1) + 1 = i
        BY <3>2, <2>5, <1>3
      <4>2. p[i - 1] = q[i]
        BY <4>1, <2>2
      <4> QED  BY <4>1, <4>2
    <3> QED  BY <3>1, <3>2
  <2>6. {p[i] : i \in 1 .. n - 1} = {q[i] : i \in 1 .. n} \ {e}
    BY <2>4, <2>5
  <2>7. Cells(m2, l) = {p[i] : i \in 1 .. Len(p)} /\ Cells(m, l) = {q[i] : i \in 1 .. Len(q)}
    BY <2>1, <1>1, <1>7 DEF Cells
  <2>8. Len(p) = n - 1 /\ Len(q) = n
    BY <2>2, <1>2
  <2> QED  BY <2>6, <2>7, <2>8
<1>11. \A k \in N : k # l => Cells(m2, k) = Cells(m, k)
  BY <1>7 DEF Cells
<1>12. \A k \in N : Cells(m, k) \subseteq m.used
  BY HoldingChain
<1>13. \A c \in m2.used : c \in m.used /\ c # e /\ m2.cell[c].item = m.cell[c].item
  BY <1>9, <1>5 DEF Removed, Holding, MemType
<1>14. PICK x : x = m.cell[e].item
  OBVIOUS
<1>15. \A c \in m.used : c # e => m.cell[c].item # x
  BY <1>9, <1>14 DEF Holding
<1>16. \A k \in N : k # l => e \notin Cells(m, k)
  BY DEF Holding
<1>17. Has(m2, l) = Has(m, l) \ {x}
  <2>1. \A c \in Cells(m, l) \ {e} : m2.cell[c].item = m.cell[c].item /\ m.cell[c].item # x
    BY <1>9, <1>12, <1>13, <1>15
  <2> QED  BY <2>1, <1>10, <1>14 DEF Has
<1>18. \A k \in N : k # l => Has(m2, k) = Has(m, k)
  <2>1. ASSUME NEW k \in N, k # l PROVE \A c \in Cells(m, k) : m2.cell[c].item = m.cell[c].item
    BY <2>1, <1>9, <1>12, <1>13, <1>16
  <2> QED  BY <2>1, <1>11 DEF Has
<1>19. \A k \in N : m2.list[k].current = m.list[k].current
  <2>1. DOMAIN m.list = N
    BY DEF Holding, MemType
  <2> QED  BY <2>1, <1>5 DEF Removed
<1>20. HasRoom(m2)
  BY <1>9 DEF HasRoom
<1>21. \A k, i \in N : k # i => Cells(m2, k) \cap Cells(m2, i) = {}
  <2>1. \A k, i \in N : k # i => Cells(m, k) \cap Cells(m, i) = {}
    BY DEF Holding
  <2> QED  BY <2>1, <1>10, <1>11
<1>22. m2.used = UNION {Cells(m2, k) : k \in N}
  <2>1. m.used = UNION {Cells(m, k) : k \in N}
    BY DEF Holding
  <2>2. \A c \in m2.used : \E k \in N : c \in Cells(m2, k)
    BY <2>1, <1>9, <1>10, <1>11
  <2>3. \A k \in N : Cells(m2, k) \subseteq m2.used
    BY <1>9, <1>10, <1>11, <1>12, <1>16
  <2> QED  BY <2>2, <2>3
<1>23. \A c \in m2.used : m2.cell[c].item \in S \ {x}
  BY <1>13, <1>15 DEF Holding
<1>24. \A c, d \in m2.used : m2.cell[c].item = m2.cell[d].item => c = d
  BY <1>13 DEF Holding
<1>25. \A y \in S \ {x} : \E c \in m2.used : m2.cell[c].item = y
  <2>1. \A y \in S : \E c \in m.used : m.cell[c].item = y
    BY DEF Holding
  <2> QED  BY <2>1, <1>9, <1>13, <1>14
<1>26. Holding(m2, N, S \ {x})
  BY <1>5, <1>8, <1>21, <1>22, <1>23, <1>24, <1>25 DEF Holding
<1>27. Loses(m, m2, N, l, x)
  BY <1>17, <1>18, <1>19, <1>20 DEF Loses
<1>28. Leaves(m, m2, N, l, e)
  <2>1. m2.cell[e].next = m.cell[e].next
    <3>1. m.cell[e] \in [item : Nat, next : Link, prev : Link]
      BY <1>9 DEF Holding, MemType
    <3> QED  BY <3>1, <1>5 DEF Removed
  <2> QED  BY <2>1, <1>9, <1>10, <1>11 DEF Leaves
<1> QED  BY <1>14, <1>26, <1>27, <1>28

\* A memory that differs in its cursors only.
SameLinks(m, m2, N) ==
    /\ MemType(m2, N)
    /\ m2.cell = m.cell /\ m2.used = m.used
    /\ \A k \in N : m2.list[k].first = m.list[k].first /\ m2.list[k].last = m.list[k].last

\* The cursors have no part in the links.
LEMMA SameWalk ==
    ASSUME NEW m, NEW m2, m2.cell = m.cell
    PROVE  \A c : Walk(m2, c) = Walk(m, c)
BY DEF Walk

\* A cursor that moves changes no list.
LEMMA SameSound ==
    ASSUME NEW m, NEW N, NEW S, Holding(m, N, S), NEW m2, SameLinks(m, m2, N)
    PROVE  /\ Holding(m2, N, S)
           /\ \A k \in N : Chain(m2, k) = Chain(m, k) /\ Cells(m2, k) = Cells(m, k)
                           /\ Has(m2, k) = Has(m, k)
<1>1. m2.cell = m.cell /\ m2.used = m.used /\ MemType(m2, N)
  BY DEF SameLinks
<1>2. \A c : Walk(m2, c) = Walk(m, c)
  BY <1>1, SameWalk
<1>3. \A k \in N : Chain(m2, k) = Chain(m, k)
  BY <1>2 DEF SameLinks, Chain
<1>4. \A k \in N : Cells(m2, k) = Cells(m, k)
  BY <1>3 DEF Cells
<1>5. \A k \in N : Has(m2, k) = Has(m, k)
  BY <1>1, <1>4 DEF Has
<1>6. ASSUME NEW k \in N PROVE IsList(m2, k, Chain(m2, k))
  <2>1. IsList(m, k, Chain(m, k))
    BY DEF Holding
  <2>2. m2.list[k].first = m.list[k].first /\ m2.list[k].last = m.list[k].last
    BY DEF SameLinks
  <2>3. PICK q : q = Chain(m, k) /\ q = Chain(m2, k)
    BY <1>3
  <2>4. IsList(m2, k, q)
    BY <1>1, <2>1, <2>2, <2>3 DEF IsList, Along
  <2> QED  BY <2>3, <2>4
<1>7. /\ \A l, k \in N : l # k => Cells(m2, l) \cap Cells(m2, k) = {}
      /\ m2.used = UNION {Cells(m2, l) : l \in N}
  <2>1. {Cells(m2, l) : l \in N} = {Cells(m, l) : l \in N}
    BY <1>4
  <2> QED  BY <2>1, <1>1, <1>4 DEF Holding
<1>8. /\ \A c \in m2.used : m2.cell[c].item \in S
      /\ \A c, d \in m2.used : m2.cell[c].item = m2.cell[d].item => c = d
      /\ \A x \in S : \E c \in m2.used : m2.cell[c].item = x
  BY <1>1 DEF Holding
<1>9. Holding(m2, N, S)
  BY <1>1, <1>6, <1>7, <1>8 DEF Holding
<1> QED  BY <1>3, <1>4, <1>5, <1>9

\* Moves of cursors add up.
LEMMA SameTwice ==
    ASSUME NEW m, NEW m2, NEW m3, NEW N, SameLinks(m, m2, N), SameLinks(m2, m3, N)
    PROVE  SameLinks(m, m3, N)
BY DEF SameLinks

\* A memory differs in nothing from itself.
LEMMA SameSelf == ASSUME NEW m, NEW N, MemType(m, N) PROVE SameLinks(m, m, N)
BY DEF SameLinks

PutCursor(m, l, c) == [m EXCEPT !.list[l].current = c]

\* To set one cursor is to change cursors only.
LEMMA CursorSame ==
    ASSUME NEW m, NEW N, MemType(m, N), NEW l \in N, NEW c \in Link
    PROVE  /\ SameLinks(m, PutCursor(m, l, c), N)
           /\ PutCursor(m, l, c).list[l].current = c
           /\ \A k \in N : k # l => PutCursor(m, l, c).list[k].current = m.list[k].current
<1>0. PICK m2 : m2 = [m EXCEPT !.list[l].current = c]
  OBVIOUS
<1>1. m2.cell = m.cell /\ m2.used = m.used /\ m2.list = [m.list EXCEPT ![l].current = c]
      /\ m2 = [cell |-> m2.cell, used |-> m2.used, list |-> m2.list]
  BY <1>0 DEF MemType
<1>2. m.list \in [N -> [first : Link, current : Link, last : Link]]
  BY DEF MemType
<1>3. m2.list \in [N -> [first : Link, current : Link, last : Link]]
  BY <1>1, <1>2
<1>4. MemType(m2, N)
  BY <1>1, <1>3, MemParts DEF MemType
<1>5. \A k \in N : m2.list[k].first = m.list[k].first /\ m2.list[k].last = m.list[k].last
  BY <1>1, <1>2
<1>6. m2.list[l].current = c /\ \A k \in N : k # l => m2.list[k].current = m.list[k].current
  BY <1>1, <1>2
<1>7. SameLinks(m, m2, N)
  BY <1>1, <1>4, <1>5 DEF SameLinks
<1> QED  BY <1>0, <1>6, <1>7 DEF PutCursor

\* So is to take all of them off their lists.
LEMMA ParkedSame ==
    ASSUME NEW m, NEW N, MemType(m, N)
    PROVE  SameLinks(m, Parked(m), N) /\ \A k \in N : Parked(m).list[k].current = NULL
<1>1. PICK m2 : m2 = Parked(m)
  OBVIOUS
<1>2. m2.cell = m.cell /\ m2.used = m.used
      /\ m2.list = [l \in N |-> [m.list[l] EXCEPT !.current = NULL]]
      /\ m2 = [cell |-> m2.cell, used |-> m2.used, list |-> m2.list]
  BY <1>1 DEF MemType, Parked
<1>3. m.list \in [N -> [first : Link, current : Link, last : Link]] /\ NULL \in Link
  BY CellsAre DEF MemType, Link
<1>4. m2.list \in [N -> [first : Link, current : Link, last : Link]]
  <2>1. \A k \in N : [m.list[k] EXCEPT !.current = NULL] \in [first : Link, current : Link, last : Link]
    BY <1>3
  <2> QED  BY <2>1, <1>2
<1>5. MemType(m2, N)
  BY <1>2, <1>4, MemParts DEF MemType
<1>6. \A k \in N : /\ m2.list[k].first = m.list[k].first /\ m2.list[k].last = m.list[k].last
                   /\ m2.list[k].current = NULL
  BY <1>2, <1>3
<1> QED  BY <1>1, <1>2, <1>5, <1>6 DEF SameLinks

-----------------------------------------------------------------------------
(* Searches.                                                               *)

\* A search finds the first cell with one of the items, or that the list has none.
LEMMA FirstOfIs ==
    ASSUME NEW m, NEW N, NEW S, Holding(m, N, S), NEW l \in N, NEW items
    PROVE  \/ /\ FirstOf(m, l, items) = NULL
              /\ \A x \in Has(m, l) : x \notin items
           \/ /\ FirstOf(m, l, items) \in Cells(m, l)
              /\ m.cell[FirstOf(m, l, items)].item \in items
<1>1. PICK q : q = Chain(m, l)
  OBVIOUS
<1>2. q \in Seq(Cell) /\ DOMAIN q = 1 .. Len(q) /\ Len(q) \in Nat
  BY <1>1, HoldingChain
<1>3. PICK at : at = {i \in 1 .. Len(q) : m.cell[q[i]].item \in items}
  OBVIOUS
<1>4. FirstOf(m, l, items) = IF at = {} THEN NULL ELSE q[Min(at)]
  BY <1>1, <1>2, <1>3 DEF FirstOf
<1>5. CASE at = {}
  <2>1. \A i \in 1 .. Len(q) : m.cell[q[i]].item \notin items
    BY <1>3, <1>5
  <2> QED  BY <2>1, <1>1, <1>4, <1>5 DEF Has, Cells
<1>6. CASE at # {}
  <2>1. at \subseteq Nat
    BY <1>3, <1>2
  <2>2. Min(at) \in at
    BY <2>1, <1>6, MinIs
  <2>3. Min(at) \in 1 .. Len(q) /\ m.cell[q[Min(at)]].item \in items
    BY <2>2, <1>3
  <2> QED  BY <2>3, <1>1, <1>4, <1>6 DEF Cells
<1> QED  BY <1>5, <1>6

\* The walk for an item ends at it, or at the end of the list.
LEMMA CursorAtIs ==
    ASSUME NEW m, NEW N, NEW S, Holding(m, N, S), 0 \notin S, NEW l \in N, NEW items, NEW m2,
           m2 = CursorAt(m, l, items)
    PROVE  /\ SameLinks(m, m2, N)
           /\ \A k \in N : k # l => m2.list[k].current = m.list[k].current
           /\ \/ /\ m2.list[l].current = NULL /\ Item(m2, l) = NULL
                 /\ \A x \in Has(m, l) : x \notin items
              \/ /\ m2.list[l].current \in Cells(m, l)
                 /\ Item(m2, l) = m.cell[m2.list[l].current].item
                 /\ Item(m2, l) \in Has(m, l) /\ Item(m2, l) \in items
                 /\ Item(m2, l) # NULL
<1>1. PICK c : c = FirstOf(m, l, items)
  OBVIOUS
<1>2. \/ c = NULL /\ \A x \in Has(m, l) : x \notin items
      \/ c \in Cells(m, l) /\ m.cell[c].item \in items
  BY <1>1, FirstOfIs
<1>3. MemType(m, N) /\ Cells(m, l) \subseteq Cell /\ Cells(m, l) \subseteq m.used
  BY HoldingChain DEF Holding, MemType
<1>4. c \in Link
  BY <1>2, <1>3 DEF Link
<1>5. m2 = PutCursor(m, l, c)
  BY <1>1 DEF CursorAt, PutCursor
<1>6. /\ SameLinks(m, m2, N) /\ m2.list[l].current = c
      /\ \A k \in N : k # l => m2.list[k].current = m.list[k].current
  <2>1. MemType(m, N)
    BY <1>3
  <2> QED  BY <2>1, <1>4, <1>5, CursorSame
<1>7. m2.cell = m.cell
  BY <1>6 DEF SameLinks
<1>8. c \in Cells(m, l) => m.cell[c].item \in Has(m, l) /\ m.cell[c].item # NULL
  <2>1. c \in Cells(m, l) => m.cell[c].item \in S
    BY <1>3 DEF Holding
  <2> QED  BY <2>1, CellsAre DEF Has
<1>9. c \in Cells(m, l) => c # NULL
  BY <1>3, CellsAre
<1>10. Item(m2, l) = IF c = NULL THEN NULL ELSE m.cell[c].item
  BY <1>6, <1>7 DEF Item
<1> QED  BY <1>2, <1>6, <1>8, <1>9, <1>10

\* listRemove of an item that the list has finds its cell and takes it out.
LEMMA ListRemoveIs ==
    ASSUME NEW m, NEW N, NEW S, Holding(m, N, S), 0 \notin S, NEW l \in N, NEW x \in Has(m, l),
           NEW m2, m2 = listRemove(m, l, x, NULL)
    PROVE  \E e \in Cells(m, l) :
              /\ m.cell[e].item = x
              /\ Holding(m2, N, S \ {x}) /\ Loses(m, m2, N, l, x) /\ Leaves(m, m2, N, l, e)
<1>1. PICK e : e = FirstOf(m, l, {x})
  OBVIOUS
<1>2. e \in Cells(m, l) /\ m.cell[e].item = x
  BY <1>1, FirstOfIs
<1>3. Cells(m, l) \subseteq Cell /\ Cells(m, l) \subseteq m.used
  BY HoldingChain DEF Holding, MemType
<1>4. e # NULL /\ x # NULL
  <2>1. x \in S
    BY <1>2, <1>3 DEF Holding
  <2> QED  BY <2>1, <1>2, <1>3, CellsAre
<1>5. m2 = hmFree([removeElem(m, l, e) EXCEPT !.cell[e].item = NULL], e)
  BY <1>1, <1>4 DEF listRemove, IsHint, Search
<1> QED  BY <1>2, <1>5, RemoveSound

\* One step along a list.
LEMMA NextIs ==
    ASSUME NEW m, NEW N, NEW S, Holding(m, N, S), NEW l \in N, NEW c \in Cells(m, l)
    PROVE  /\ m.cell[c].next \in Cells(m, l) \cup {NULL} /\ m.cell[c].next # c
           /\ Walk(m, NULL) = << >>
           /\ Len(Walk(m, c)) \in Nat /\ Len(Walk(m, c)) > 0
           /\ Len(Walk(m, m.cell[c].next)) \in Nat
           /\ Len(Walk(m, m.cell[c].next)) = Len(Walk(m, c)) - 1
<1>1. PICK q : q = Chain(m, l)
  OBVIOUS
<1>2. PICK n \in Nat : n = Len(q)
  BY <1>1, HoldingChain
<1>3. PICK i \in 1 .. n : c = q[i]
  BY <1>1, <1>2 DEF Cells
<1>4. IsList(m, l, q) /\ q \in Seq(Cell) /\ \A j \in 1 .. n : q[j] \in Cells(m, l)
  BY <1>1, <1>2, HoldingChain
<1>5. Walk(m, NULL) = << >> /\ \A j \in 1 .. n : Walk(m, q[j]) = From(q, j)
  BY <1>2, <1>4, ChainIs
<1>6. \A j \in 1 .. n : Len(From(q, j)) = n - j + 1
  <2> TAKE j \in 1 .. n
  <2>1. n - j + 1 \in Nat /\ From(q, j) = [k \in 1 .. n - j + 1 |-> q[k + j - 1]]
    BY <1>2 DEF From
  <2> QED  BY <2>1
<1>7. m.cell[c].next = IF i = n THEN NULL ELSE q[i + 1]
  BY <1>2, <1>3, <1>4 DEF IsList, Along
<1>8. c # NULL
  BY <1>3, <1>4, <1>2, CellsAre
<1>9. CASE i = n
  <2>1. Len(Walk(m, c)) = n - i + 1
    BY <1>3, <1>5, <1>6
  <2>2. n - i + 1 = 1
    BY <1>9
  <2>3. Len(<< >>) = 0
    OBVIOUS
  <2>4. m.cell[c].next = NULL
    BY <1>7, <1>9
  <2>5. Len(Walk(m, NULL)) = 0
    BY <2>3, <1>5
  <2> QED  BY <2>1, <2>2, <2>4, <2>5, <1>5, <1>8
<1>10. CASE i # n
  <2>1. i + 1 \in 1 .. n /\ i + 1 # i
    BY <1>10
  <2>2. Len(Walk(m, c)) = n - i + 1 /\ Len(Walk(m, q[i + 1])) = n - (i + 1) + 1
    BY <2>1, <1>3, <1>5, <1>6
  <2>3. q[i + 1] # q[i]
    BY <2>1, <1>2, <1>4 DEF IsList
  <2>4. PICK w, v : w = Len(Walk(m, c)) /\ v = Len(Walk(m, q[i + 1]))
    OBVIOUS
  <2>5. w \in Nat /\ v \in Nat /\ w > 0 /\ v = w - 1
    BY <2>2, <2>4, <1>2
  <2>6. m.cell[c].next = q[i + 1] /\ q[i + 1] \in Cells(m, l)
    BY <2>1, <1>4, <1>7, <1>10
  <2> QED  BY <2>3, <2>4, <2>5, <2>6, <1>3, <1>5
<1> QED  BY <1>9, <1>10

-----------------------------------------------------------------------------
(* Room for another element.                                               *)

\* There is a free cell while the lists hold fewer items than there are cells.
LEMMA RoomIs ==
    ASSUME NEW m, NEW N, NEW n \in Nat, Holding(m, N, 1 .. n), n < NbCells
    PROVE  HasRoom(m)
<1> SUFFICES ASSUME m.used = Cell PROVE FALSE
  BY DEF HasRoom
<1> DEFINE f == [c \in Cell |-> m.cell[c].item]
<1>1. f \in Injection(Cell, 1 .. n)
  BY DEF Holding, Injection, IsInjective
<1>2. IsFiniteSet(1 .. n) /\ Cardinality(1 .. n) = n
  <2>1. IsFiniteSet(1 .. n) /\ Cardinality(1 .. n) = IF 1 > n THEN 0 ELSE n - 1 + 1
    BY FS_Interval
  <2> QED  BY <2>1
<1>3. IsFiniteSet(Cell) /\ Cardinality(Cell) = NbCells
  <2>1. IsFiniteSet(1 .. NbCells) /\ Cardinality(1 .. NbCells) = IF 1 > NbCells THEN 0 ELSE NbCells - 1 + 1
    BY CellsAre, FS_Interval
  <2> QED  BY <2>1, CellsAre
<1> HIDE DEF f
<1>4. Cardinality(Cell) <= Cardinality(1 .. n)
  BY <1>1, <1>2, FS_Injection
<1> QED  BY <1>2, <1>3, <1>4, CellsAre

-----------------------------------------------------------------------------
(* Pages and the layout of the address spaces.                             *)

\* Pages are not empty.
LEMMA PageSize == LOGICALPAGESIZE \in Nat /\ LOGICALPAGESIZE > 0
BY VmAssumption

\* The page of an address, and its place in it.
LEMMA PageOf ==
    ASSUME NEW L \in Nat \ {0}, NEW q \in Nat, NEW r \in 0 .. L - 1
    PROVE  (q * L + r) \div L = q /\ (q * L + r) % L = r
OBVIOUS

\* An address is its page and the place in it.
LEMMA PageParts ==
    ASSUME NEW L \in Nat \ {0}, NEW a \in Nat
    PROVE  a = (a \div L) * L + (a % L) /\ a \div L \in Nat /\ a % L \in 0 .. L - 1
OBVIOUS

\* Pages add up.
LEMMA Factor ==
    ASSUME NEW L \in Nat, NEW p \in Nat, NEW q \in Nat
    PROVE  p * L + q * L = (p + q) * L
OBVIOUS

L == LOGICALPAGESIZE

\* Of sizes in whole pages, roundToPageUp changes nothing.
LEMMA Whole ==
    ASSUME NEW x \in Nat \ {0}, LOGICALPAGEREMAINDER(x) = 0
    PROVE  /\ LOGICALPAGENUMBER(x) \in Nat \ {0} /\ x = LOGICALPAGENUMBER(x) * L
           /\ roundToPageUp(x) = LOGICALPAGENUMBER(x)
<1>1. L \in Nat \ {0}
  BY PageSize DEF L
<1>2. x = (x \div L) * L + (x % L) /\ x \div L \in Nat
  BY <1>1, PageParts
<1>3. x % L = 0
  BY DEF LOGICALPAGEREMAINDER, L
<1>4. x = (x \div L) * L
  BY <1>1, <1>2, <1>3
<1>5. x \div L # 0
  BY <1>1, <1>4
<1> QED  BY <1>2, <1>3, <1>4, <1>5 DEF LOGICALPAGENUMBER, LOGICALPAGEREMAINDER, roundToPageUp, L

\* roundToPageUp makes a size a number of pages, not zero.
LEMMA Rounded ==
    ASSUME NEW x \in Nat \ {0}
    PROVE  /\ roundToPageUp(x) \in Nat \ {0} /\ roundUp(x) = roundToPageUp(x) * L
<1>1. L \in Nat \ {0}
  BY PageSize DEF L
<1>2. x = (x \div L) * L + (x % L) /\ x \div L \in Nat /\ x % L \in 0 .. L - 1
  BY <1>1, PageParts
<1>3. PICK p, r \in Nat : p = x \div L /\ r = x % L
  BY <1>2
<1>4. roundToPageUp(x) = IF r > 0 THEN p + 1 ELSE p
  BY <1>3 DEF LOGICALPAGENUMBER, LOGICALPAGEREMAINDER, roundToPageUp, L
<1>5. r = 0 => p # 0
  BY <1>1, <1>2, <1>3
<1> QED  BY <1>4, <1>5 DEF roundUp, L

\* An address at the start of page p.
LEMMA AtPage ==
    ASSUME NEW p \in Nat
    PROVE  /\ LOGICALPAGENUMBER(p * L) = p /\ LOGICALPAGEREMAINDER(p * L) = 0
           /\ roundToPageUp(p * L) = p
           /\ \A x \in Nat \ {0} : roundToPageUp(p * L + x) = p + roundToPageUp(x)
<1>1. L \in Nat \ {0}
  BY PageSize DEF L
<1>2. (p * L) \div L = p /\ (p * L) % L = 0
  <2>1. (p * L + 0) \div L = p /\ (p * L + 0) % L = 0
    BY <1>1, PageOf
  <2>2. p * L + 0 = p * L
    BY <1>1
  <2> QED  BY <2>1, <2>2
<1>3. ASSUME NEW x \in Nat \ {0}
      PROVE  roundToPageUp(p * L + x) = p + roundToPageUp(x)
  <2>1. x = (x \div L) * L + (x % L) /\ x \div L \in Nat /\ x % L \in 0 .. L - 1
    BY <1>1, PageParts
  <2>2. PICK q \in Nat : q = x \div L
    BY <2>1
  <2>3. PICK r \in 0 .. L - 1 : r = x % L
    BY <2>1
  <2>4. p * L + q * L = (p + q) * L
    BY <1>1, Factor
  <2>5. PICK a, b, c \in Nat : a = p * L /\ b = q * L /\ c = (p + q) * L
    BY <1>1
  <2>6. p * L + x = (p + q) * L + r
    BY <2>1, <2>2, <2>3, <2>4, <2>5
  <2>7. ((p + q) * L + r) \div L = p + q /\ ((p + q) * L + r) % L = r
    BY <1>1, PageOf
  <2>8. (p * L + x) \div L = p + q /\ (p * L + x) % L = r
    BY <2>6, <2>7
  <2> QED  BY <2>2, <2>3, <2>8 DEF LOGICALPAGENUMBER, LOGICALPAGEREMAINDER, roundToPageUp, L
<1> QED  BY <1>2, <1>3 DEF LOGICALPAGENUMBER, LOGICALPAGEREMAINDER, roundToPageUp, L

\* Where the pages of the parts begin, and how many there are of each.
PartStart(i) == LOGICALPAGENUMBER(Parts[i].addr)
PartPages(i) == roundToPageUp(Parts[i].size)

K == LOGICALPAGENUMBER(KernelSize)
U == LOGICALPAGENUMBER(UserSize)

Tile ==
    /\ \A i \in 1 .. 10 : PartStart(i) \in Nat /\ PartPages(i) \in Nat \ {0}
    /\ K \in Nat /\ U \in Nat
    /\ PartStart(1) = 1
    /\ PartStart(2) = PartStart(1) + PartPages(1)
    /\ PartStart(3) = PartStart(2) + PartPages(2)
    /\ PartStart(4) = PartStart(3) + PartPages(3)
    /\ PartStart(5) = PartStart(4) + PartPages(4)
    /\ PartStart(6) = PartStart(5) + PartPages(5)
    /\ PartStart(7) = PartStart(6) + PartPages(6)
    /\ K + 1        = PartStart(7) + PartPages(7)
    /\ PartStart(8) = K + 2
    /\ PartStart(9) = PartStart(8) + PartPages(8)
    /\ PartStart(10) = PartStart(9) + PartPages(9)
    /\ K + 2 + U    = PartStart(10) + PartPages(10)
    /\ PagesOfSpace("KERNEL") = 1 .. K
    /\ PagesOfSpace("USER") = K + 2 .. K + 1 + U
    /\ LOGICALPAGENUMBER(KernelRest) = PartStart(7)
    /\ LOGICALPAGENUMBER(UserRest) = PartStart(10)
    /\ LOGICALPAGENUMBER(UserStart) = K + 2

\* The parts of mmVmInit, in pages: each begins where the one before ends, and the two spaces are full.
LEMMA Tiles == Tile
<1>1. L \in Nat \ {0} /\ KernelStart = L /\ UserStart = KernelStart + KernelSize + L
  BY PageSize DEF L, KernelStart, UserStart
<1>2. PICK b, h, t, k, u \in Nat \ {0} :
         /\ SegMap.bootStackSize = b * L /\ roundToPageUp(SegMap.bootStackSize) = b
         /\ SegMap.heapSize = h * L /\ roundToPageUp(SegMap.heapSize) = h
         /\ STACKSIZE = t * L /\ roundToPageUp(STACKSIZE) = t
         /\ KernelSize = k * L /\ k = K
         /\ UserSize = u * L /\ u = U
  <2>1. /\ SegMap.bootStackSize \in Nat \ {0} /\ LOGICALPAGEREMAINDER(SegMap.bootStackSize) = 0
        /\ SegMap.heapSize \in Nat \ {0} /\ LOGICALPAGEREMAINDER(SegMap.heapSize) = 0
        /\ STACKSIZE \in Nat \ {0} /\ LOGICALPAGEREMAINDER(STACKSIZE) = 0
        /\ KernelSize \in Nat \ {0} /\ LOGICALPAGEREMAINDER(KernelSize) = 0
        /\ UserSize \in Nat \ {0} /\ LOGICALPAGEREMAINDER(UserSize) = 0
    BY LayoutAssumption
  <2>2. PICK b \in Nat \ {0} :
           SegMap.bootStackSize = b * L /\ roundToPageUp(SegMap.bootStackSize) = b
    BY <2>1, Whole
  <2>3. PICK h \in Nat \ {0} : SegMap.heapSize = h * L /\ roundToPageUp(SegMap.heapSize) = h
    BY <2>1, Whole
  <2>4. PICK t \in Nat \ {0} : STACKSIZE = t * L /\ roundToPageUp(STACKSIZE) = t
    BY <2>1, Whole
  <2>5. PICK k \in Nat \ {0} : KernelSize = k * L /\ k = K
    BY <2>1, Whole DEF K
  <2>6. PICK u \in Nat \ {0} : UserSize = u * L /\ u = U
    BY <2>1, Whole DEF U
  <2> QED  BY <2>2, <2>3, <2>4, <2>5, <2>6
<1>3. PICK c, d, e, f \in Nat \ {0} :
         /\ roundToPageUp(SegMap.kernelCodeSize) = c /\ roundUp(SegMap.kernelCodeSize) = c * L
         /\ roundToPageUp(SegMap.kernelDataSize) = d
         /\ roundToPageUp(SegMap.userCodeSize) = e /\ roundUp(SegMap.userCodeSize) = e * L
         /\ roundToPageUp(SegMap.userDataSize) = f /\ roundUp(SegMap.userDataSize) = f * L
  <2>1. {SegMap.kernelCodeSize, SegMap.kernelDataSize, SegMap.userCodeSize, SegMap.userDataSize}
           \subseteq Nat \ {0}
    BY LayoutAssumption
  <2>2. \A x \in Nat \ {0} : roundToPageUp(x) \in Nat \ {0} /\ roundUp(x) = roundToPageUp(x) * L
    BY Rounded
  <2> QED  BY <2>1, <2>2
<1>4. KernelStart = 1 * L
  BY <1>1
<1>5. KernelCode = (1 + b) * L
  BY <1>1, <1>2, <1>4, Factor DEF KernelCode
<1>6. KernelData = (1 + b + c) * L
  BY <1>1, <1>3, <1>5, Factor DEF KernelData
<1>7. HeapStart = (1 + b + c + d) * L
  <2>1. SegMap.kernelDataSize \in Nat \ {0} /\ 1 + b + c \in Nat
    BY LayoutAssumption
  <2>2. roundToPageUp((1 + b + c) * L + SegMap.kernelDataSize) = 1 + b + c + d
    BY <2>1, <1>3, AtPage
  <2> QED  BY <2>2, <1>6 DEF HeapStart, roundUp, L
<1>8. MmStack = (1 + b + c + d + h) * L
  BY <1>1, <1>2, <1>7, Factor DEF MmStack
<1>9. TmStack = (1 + b + c + d + h + t) * L
  BY <1>1, <1>2, <1>8, Factor DEF TmStack
<1>10. KernelRest = (1 + b + c + d + h + t + t) * L
  BY <1>1, <1>2, <1>9, Factor DEF KernelRest
<1>11. UserStart = (k + 2) * L
  <2>1. 1 * L + k * L = (1 + k) * L /\ (1 + k) * L + 1 * L = (1 + k + 1) * L
    BY <1>1, Factor
  <2>2. 1 * L = L /\ 1 + k + 1 = k + 2
    BY <1>1
  <2> QED  BY <2>1, <2>2, <1>1, <1>2
<1>12. UserData = (k + 2 + e) * L
  BY <1>1, <1>3, <1>11, Factor DEF UserData
<1>13. UserRest = (k + 2 + e + f) * L
  <2>1. SegMap.userDataSize \in Nat \ {0} /\ k + 2 + e \in Nat
    BY LayoutAssumption
  <2>2. roundToPageUp((k + 2 + e) * L + SegMap.userDataSize) = k + 2 + e + f
    BY <2>1, <1>3, AtPage
  <2> QED  BY <2>2, <1>12 DEF UserRest, roundUp, L
<1>14. PICK g \in Nat \ {0} : k + 1 = 1 + b + c + d + h + t + t + g
  <2>1. (1 + b + c + d + h + t + t) * L < 1 * L + k * L
    BY <1>2, <1>4, <1>10, LayoutAssumption
  <2>2. 1 * L + k * L = (1 + k) * L
    BY <1>1, Factor
  <2>3. PICK x \in Nat : x = 1 + b + c + d + h + t + t
    OBVIOUS
  <2>4. x * L < (1 + k) * L
    BY <2>1, <2>2, <2>3
  <2>5. x < 1 + k
    BY <2>4, <1>1
  <2>6. k + 1 - x \in Nat \ {0} /\ k + 1 = x + (k + 1 - x)
    BY <2>5
  <2> QED  BY <2>3, <2>6
<1>15. KernelSize - (KernelRest - KernelStart) = g * L
  <2>1. PICK x \in Nat : x = b + c + d + h + t + t
    OBVIOUS
  <2>2. KernelRest = (1 + x) * L /\ (1 + x) * L = 1 * L + x * L
    BY <2>1, <1>1, <1>10, Factor
  <2>3. KernelSize = (x + g) * L /\ (x + g) * L = x * L + g * L
    <3>1. k = x + g
      BY <2>1, <1>14
    <3> QED  BY <3>1, <1>1, <1>2, Factor
  <2>4. PICK y, z, w \in Nat : y = x * L /\ z = g * L /\ w = 1 * L
    BY <1>1
  <2> QED  BY <2>2, <2>3, <2>4, <1>4
<1>16. PICK j \in Nat \ {0} : u = e + f + j
  <2>1. (k + 2 + e + f) * L < (k + 2) * L + u * L
    BY <1>2, <1>11, <1>13, LayoutAssumption
  <2>2. (k + 2) * L + u * L = (k + 2 + u) * L
    BY <1>1, Factor
  <2>3. PICK x, y \in Nat : x = k + 2 + e + f /\ y = k + 2 + u
    OBVIOUS
  <2>4. x * L < y * L
    BY <2>1, <2>2, <2>3
  <2>5. x < y
    BY <2>4, <1>1
  <2>6. u - e - f \in Nat \ {0} /\ u = e + f + (u - e - f)
    BY <2>3, <2>5
  <2> QED  BY <2>6
<1>17. UserSize - roundUp(SegMap.userDataSize) - roundUp(SegMap.userCodeSize) = j * L
  <2>1. e * L + f * L = (e + f) * L /\ (e + f) * L + j * L = (e + f + j) * L
    BY <1>1, Factor
  <2>2. PICK x, y, z \in Nat : x = e * L /\ y = f * L /\ z = j * L
    BY <1>1
  <2> QED  BY <2>1, <2>2, <1>2, <1>3, <1>16
<1>18. ASSUME NEW p \in Nat PROVE LOGICALPAGENUMBER(p * L) = p /\ roundToPageUp(p * L) = p
  BY AtPage
<1>19. /\ PartStart(1) = 1 /\ PartPages(1) = b
       /\ PartStart(2) = 1 + b /\ PartPages(2) = c
       /\ PartStart(3) = 1 + b + c /\ PartPages(3) = d
       /\ PartStart(4) = 1 + b + c + d /\ PartPages(4) = h
       /\ PartStart(5) = 1 + b + c + d + h /\ PartPages(5) = t
       /\ PartStart(6) = 1 + b + c + d + h + t /\ PartPages(6) = t
       /\ PartStart(7) = 1 + b + c + d + h + t + t /\ PartPages(7) = g
       /\ PartStart(8) = k + 2 /\ PartPages(8) = e
       /\ PartStart(9) = k + 2 + e /\ PartPages(9) = f
       /\ PartStart(10) = k + 2 + e + f /\ PartPages(10) = j
  <2>1. /\ Parts[1].addr = KernelStart /\ Parts[1].size = SegMap.bootStackSize
        /\ Parts[2].addr = KernelCode /\ Parts[2].size = SegMap.kernelCodeSize
        /\ Parts[3].addr = KernelData /\ Parts[3].size = SegMap.kernelDataSize
        /\ Parts[4].addr = HeapStart /\ Parts[4].size = SegMap.heapSize
        /\ Parts[5].addr = MmStack /\ Parts[5].size = STACKSIZE
        /\ Parts[6].addr = TmStack /\ Parts[6].size = STACKSIZE
        /\ Parts[7].addr = KernelRest /\ Parts[7].size = KernelSize - (KernelRest - KernelStart)
        /\ Parts[8].addr = UserStart /\ Parts[8].size = SegMap.userCodeSize
        /\ Parts[9].addr = UserData /\ Parts[9].size = SegMap.userDataSize
        /\ Parts[10].addr = UserRest
        /\ Parts[10].size = UserSize - roundUp(SegMap.userDataSize) - roundUp(SegMap.userCodeSize)
    BY DEF Parts, Part
  <2>2. /\ PartPages(1) = b /\ PartPages(2) = c /\ PartPages(3) = d /\ PartPages(4) = h
        /\ PartPages(5) = t /\ PartPages(6) = t /\ PartPages(8) = e /\ PartPages(9) = f
    BY <2>1, <1>2, <1>3 DEF PartPages
  <2>3. PartPages(7) = g /\ PartPages(10) = j
    BY <2>1, <1>15, <1>17, <1>18 DEF PartPages
  <2>4. /\ PartStart(1) = 1 /\ PartStart(2) = 1 + b /\ PartStart(3) = 1 + b + c
        /\ PartStart(4) = 1 + b + c + d /\ PartStart(5) = 1 + b + c + d + h
    BY <2>1, <1>4, <1>5, <1>6, <1>7, <1>8, <1>18 DEF PartStart
  <2>5. /\ PartStart(6) = 1 + b + c + d + h + t /\ PartStart(7) = 1 + b + c + d + h + t + t
        /\ PartStart(8) = k + 2 /\ PartStart(9) = k + 2 + e /\ PartStart(10) = k + 2 + e + f
    BY <2>1, <1>9, <1>10, <1>11, <1>12, <1>13, <1>18 DEF PartStart
  <2> QED  BY <2>2, <2>3, <2>4, <2>5
<1>20. PagesOfSpace("KERNEL") = 1 .. k
  <2>1. 1 * L + k * L = (1 + k) * L
    BY <1>1, Factor
  <2>2. LOGICALPAGENUMBER(KernelStart) = 1 /\ roundToPageUp(KernelStart + KernelSize) = 1 + k
    BY <2>1, <1>2, <1>4, <1>18
  <2> QED  BY <2>2 DEF PagesOfSpace, SpaceStart, SpaceSize
<1>21. PagesOfSpace("USER") = k + 2 .. k + 1 + u
  <2>1. (k + 2) * L + u * L = (k + 2 + u) * L
    BY <1>1, Factor
  <2>2. LOGICALPAGENUMBER(UserStart) = k + 2 /\ roundToPageUp(UserStart + UserSize) = k + 2 + u
    BY <2>1, <1>2, <1>11, <1>18
  <2> QED  BY <2>2 DEF PagesOfSpace, SpaceStart, SpaceSize
<1>22. /\ LOGICALPAGENUMBER(KernelRest) = PartStart(7)
       /\ LOGICALPAGENUMBER(UserRest) = PartStart(10)
       /\ LOGICALPAGENUMBER(UserStart) = k + 2
  BY <1>10, <1>11, <1>13, <1>18, <1>19
<1>23. \A i \in 1 .. 10 : PartStart(i) \in Nat /\ PartPages(i) \in Nat \ {0}
  BY <1>19
<1>24. k = K /\ u = U
  BY <1>2
<1>25. /\ PartStart(1) = 1
       /\ PartStart(2) = PartStart(1) + PartPages(1) /\ PartStart(3) = PartStart(2) + PartPages(2)
       /\ PartStart(4) = PartStart(3) + PartPages(3) /\ PartStart(5) = PartStart(4) + PartPages(4)
       /\ PartStart(6) = PartStart(5) + PartPages(5) /\ PartStart(7) = PartStart(6) + PartPages(6)
       /\ k + 1 = PartStart(7) + PartPages(7)
  BY <1>19, <1>14
<1>26. /\ PartStart(8) = k + 2 /\ PartStart(9) = PartStart(8) + PartPages(8)
       /\ PartStart(10) = PartStart(9) + PartPages(9)
       /\ k + 2 + u = PartStart(10) + PartPages(10)
  BY <1>19, <1>16
<1> QED  BY <1>20, <1>21, <1>22, <1>23, <1>24, <1>25, <1>26 DEF Tile

-----------------------------------------------------------------------------
(* Sound memories.                                                         *)

Names == {RegionList(s) : s \in Space} \cup {FreeList(s) : s \in Space}
Owners == Users \cup {TMTHREADID}

\* The four lists are four.
LEMMA NamesAre ==
    /\ \A s \in Space : RegionList(s) \in Names /\ FreeList(s) \in Names
    /\ \A s, t \in Space : /\ RegionList(s) # FreeList(t)
                           /\ RegionList(s) = RegionList(t) => s = t
                           /\ FreeList(s) = FreeList(t) => s = t
    /\ \A l \in Names : \E s \in Space : l = RegionList(s) \/ l = FreeList(s)
BY DEF Names, RegionList, FreeList

\* Users run in user mode, TM and MM in the kernel's; what the boot allocates counts as a user's.
LEMMA OwnersAre ==
    /\ \A u \in Owners : u \in Int /\ u # 0 /\ THREAD_MODE(u) \in Space
    /\ \A u \in Users : u \in Nat /\ u > 1 /\ THREAD_MODE(u) = "USER"
    /\ THREAD_MODE(TMTHREADID) = "KERNEL" /\ THREAD_MODE(MMTHREADID) = "KERNEL"
    /\ TMTHREADID \in Owners /\ THREAD_MODE(0) = "USER"
BY VmAssumption DEF Owners, THREAD_MODE, Space, ANY, TMTHREADID, MMTHREADID

Span(r) == r.startPage .. r.startPage + r.numOfPages - 1

\* The pages that mmVmInit allocates to nobody in particular.
Boot(p) ==
    \/ p < LOGICALPAGENUMBER(KernelRest)
    \/ LOGICALPAGENUMBER(UserStart) <= p /\ p < LOGICALPAGENUMBER(UserRest)

\* The regions of the boot lie at the start of either space, and the spaces are apart.
LEMMA BootIs ==
    /\ \A s \in Space : \A p, q \in PagesOfSpace(s) : p <= q /\ ~Boot(p) => ~Boot(q)
    /\ \A p \in PagesOfSpace("KERNEL") : p \notin PagesOfSpace("USER")
    /\ \A s \in Space : PagesOfSpace(s) \subseteq Nat
<1>1. /\ K \in Nat /\ U \in Nat /\ LOGICALPAGENUMBER(KernelRest) \in Nat
      /\ LOGICALPAGENUMBER(UserRest) \in Nat
      /\ LOGICALPAGENUMBER(KernelRest) <= K /\ K + 2 <= LOGICALPAGENUMBER(UserRest)
      /\ LOGICALPAGENUMBER(UserStart) = K + 2
      /\ PagesOfSpace("KERNEL") = 1 .. K /\ PagesOfSpace("USER") = K + 2 .. K + 1 + U
  <2>1. /\ K \in Nat /\ U \in Nat /\ LOGICALPAGENUMBER(KernelRest) = PartStart(7)
        /\ LOGICALPAGENUMBER(UserRest) = PartStart(10)
        /\ LOGICALPAGENUMBER(UserStart) = K + 2
        /\ PagesOfSpace("KERNEL") = 1 .. K /\ PagesOfSpace("USER") = K + 2 .. K + 1 + U
        /\ K + 1 = PartStart(7) + PartPages(7)
        /\ PartStart(8) = K + 2
        /\ PartStart(9) = PartStart(8) + PartPages(8)
        /\ PartStart(10) = PartStart(9) + PartPages(9)
    BY Tiles DEF Tile
  <2>2. /\ PartStart(7) \in Nat /\ PartPages(7) \in Nat \ {0} /\ PartStart(10) \in Nat
        /\ PartPages(8) \in Nat /\ PartPages(9) \in Nat
    BY Tiles DEF Tile
  <2> QED  BY <2>1, <2>2
<1> QED  BY <1>1 DEF Boot, Space

Shaped(R) ==
    /\ R \in Seq(RegionDesc) /\ Len(R) <= NbRegions
    /\ \A i \in 1 .. Len(R) : R[i].numOfPages > 0

ApartAll(R) == \A i, j \in 1 .. Len(R) : i # j => Span(R[i]) \cap Span(R[j]) = {}

Covers(R) == \A s \in Space : \A p \in PagesOfSpace(s) : \E i \in 1 .. Len(R) : p \in Span(R[i])

FreeOk(r, s) == Span(r) \subseteq PagesOfSpace(s) /\ ~Boot(r.startPage)

UsedOk(r, s) ==
    /\ Span(r) \subseteq PagesOfSpace(s)
    /\ \/ r.owner = 0 /\ Boot(r.startPage)
       \/ r.owner \in Owners /\ THREAD_MODE(r.owner) = s /\ ~Boot(r.startPage)

\* The descriptors that are in a list.
Listing(mem) == UNION {Has(mem.lists, l) : l \in Names}

\* Nothing else is in a list, and nothing twice; what is missing was split off when there
\* was no room for a list element.
ListsOk(mem) ==
    /\ Holding(mem.lists, Names, Listing(mem))
    /\ Listing(mem) \subseteq 1 .. Len(mem.regions)
    /\ Listing(mem) # 1 .. Len(mem.regions) => ~HasRoom(mem.lists)

Lists4(mem) ==
    /\ ListsOk(mem)
    /\ \A s \in Space : \A r \in Has(mem.lists, FreeList(s)) : FreeOk(mem.regions[r], s)
    /\ \A s \in Space : \A r \in Has(mem.lists, RegionList(s)) : UsedOk(mem.regions[r], s)

Sound(mem) ==
    /\ mem = [lists |-> mem.lists, regions |-> mem.regions]
    /\ Shaped(mem.regions) /\ ApartAll(mem.regions) /\ Covers(mem.regions)
    /\ Lists4(mem)

\* The items of the lists are the descriptors, and no descriptor is in two lists.
LEMMA HasIs ==
    ASSUME NEW m, NEW N, NEW S, Holding(m, N, S)
    PROVE  /\ \A l \in N : Has(m, l) \subseteq S
           /\ \A l, k \in N : l # k => Has(m, l) \cap Has(m, k) = {}
           /\ \A x \in S : \E l \in N : x \in Has(m, l)
<1>1. \A l \in N : Cells(m, l) \subseteq m.used
  BY HoldingChain
<1>2. \A l \in N : Has(m, l) \subseteq S
  BY <1>1 DEF Has, Holding
<1>3. ASSUME NEW l \in N, NEW k \in N, l # k, NEW x \in Has(m, l), x \in Has(m, k) PROVE FALSE
  <2>1. PICK c \in Cells(m, l) : m.cell[c].item = x
    BY <1>3 DEF Has
  <2>2. PICK d \in Cells(m, k) : m.cell[d].item = x
    BY <1>3 DEF Has
  <2>3. c \in m.used /\ d \in m.used
    BY <1>1
  <2>4. c = d
    BY <2>1, <2>2, <2>3 DEF Holding
  <2> QED  BY <2>4, <1>3 DEF Holding
<1>4. ASSUME NEW x \in S PROVE \E l \in N : x \in Has(m, l)
  <2>1. PICK c \in m.used : m.cell[c].item = x
    BY DEF Holding
  <2>2. PICK l \in N : c \in Cells(m, l)
    BY DEF Holding
  <2> QED  BY <2>1, <2>2 DEF Has
<1> QED  BY <1>2, <1>3, <1>4

\* What the lists hold is what is in them.
LEMMA ListingIs ==
    ASSUME NEW mem, NEW S, Holding(mem.lists, Names, S)
    PROVE  Listing(mem) = S
<1>1. PICK m : m = mem.lists
  OBVIOUS
<1>2. /\ \A l \in Names : Has(m, l) \subseteq S
      /\ \A x \in S : \E l \in Names : x \in Has(m, l)
  BY <1>1, HasIs
<1> QED  BY <1>1, <1>2 DEF Listing

\* A cell that is freed and taken again makes no room.
LEMMA NoNewRoom ==
    ASSUME NEW m, NEW out, NEW m2, NEW N, NEW l, NEW k, NEW e, NEW d,
           MemType(m, N), e \in m.used, Leaves(m, out, N, l, e), Enters(out, m2, N, k, d),
           HasRoom(m2)
    PROVE  HasRoom(m)
<1> SUFFICES ASSUME m.used = Cell PROVE FALSE
  BY DEF HasRoom
<1>1. out.used = Cell \ {e} /\ e \in Cell
  BY DEF Leaves
<1>2. d \in Cell \ out.used /\ m2.used = out.used \cup {d}
  BY DEF Enters
<1>3. m2.used = Cell
  BY <1>1, <1>2
<1> QED  BY <1>3 DEF HasRoom

\* The fields of a descriptor.
LEMMA DescIs ==
    ASSUME NEW R, Shaped(R), NEW i \in 1 .. Len(R)
    PROVE  /\ R[i].startPage \in Nat /\ R[i].numOfPages \in Nat \ {0} /\ R[i].owner \in Int
           /\ R[i] = [startPage |-> R[i].startPage, numOfPages |-> R[i].numOfPages,
                      owner |-> R[i].owner]
           /\ R[i].startPage \in Span(R[i])
<1>1. R[i] \in RegionDesc /\ R[i].numOfPages > 0
  BY DEF Shaped
<1> QED  BY <1>1 DEF RegionDesc, Span

\* Two regions that begin at the same page are one.
LEMMA StartIs ==
    ASSUME NEW R, Shaped(R), ApartAll(R), NEW i \in 1 .. Len(R), NEW j \in 1 .. Len(R),
           R[i].startPage = R[j].startPage
    PROVE  i = j
BY DescIs DEF ApartAll

-----------------------------------------------------------------------------
(* What requests do.                                                       *)

Same(mem, mem2) ==
    /\ mem2.regions = mem.regions
    /\ \A l \in Names : Has(mem2.lists, l) = Has(mem.lists, l)

\* f changes lists or is split; the new descriptor may find no room in a list.
Whole1(mem, mem2, f, s, owner) ==
    /\ mem2.regions = [mem.regions EXCEPT ![f].owner = owner]
    /\ Has(mem2.lists, FreeList(s)) = Has(mem.lists, FreeList(s)) \ {f}
    /\ Has(mem2.lists, RegionList(s)) = Has(mem.lists, RegionList(s)) \cup {f}

Split(R, f, pages, owner) ==
    Append([R EXCEPT ![f] = [startPage  |-> R[f].startPage + pages,
                             numOfPages |-> R[f].numOfPages - pages,
                             owner      |-> ANY]],
           [R[f] EXCEPT !.numOfPages = pages, !.owner = owner])

Split1(mem, mem2, f, pages, s, owner) ==
    /\ Len(mem.regions) < NbRegions
    /\ mem2.regions = Split(mem.regions, f, pages, owner)
    /\ Has(mem2.lists, FreeList(s)) = Has(mem.lists, FreeList(s))
    /\ \/ Has(mem2.lists, RegionList(s)) = Has(mem.lists, RegionList(s)) \cup {Len(mem.regions) + 1}
       \/ Has(mem2.lists, RegionList(s)) = Has(mem.lists, RegionList(s))

Elsewhere(mem, mem2, s) ==
    \A l \in Names : l # FreeList(s) /\ l # RegionList(s) => Has(mem2.lists, l) = Has(mem.lists, l)

Allocates(mem, mem2, f, pages, owner) ==
    LET s == THREAD_MODE(owner)
    IN  /\ owner \in Owners /\ f \in Has(mem.lists, FreeList(s))
        /\ pages \in 1 .. mem.regions[f].numOfPages
        /\ \/ mem.regions[f].numOfPages = pages /\ Whole1(mem, mem2, f, s, owner)
           \/ mem.regions[f].numOfPages > pages /\ Split1(mem, mem2, f, pages, s, owner)
        /\ Elsewhere(mem, mem2, s)

Frees(mem, mem2, r, s) ==
    /\ s \in Space /\ r \in Has(mem.lists, RegionList(s)) /\ ~Boot(mem.regions[r].startPage)
    /\ mem2.regions = mem.regions
    /\ Has(mem2.lists, RegionList(s)) = Has(mem.lists, RegionList(s)) \ {r}
    /\ Has(mem2.lists, FreeList(s)) = Has(mem.lists, FreeList(s)) \cup {r}
    /\ Elsewhere(mem, mem2, s)

Joined(mem2) ==
    /\ mem2 = [lists |-> mem2.lists, regions |-> mem2.regions]
    /\ ListsOk(mem2)

\* A request that fails leaves a sound memory.
LEMMA SameIsSound ==
    ASSUME NEW mem, Sound(mem), NEW mem2, Same(mem, mem2), Joined(mem2)
    PROVE  Sound(mem2)
<1>1. \A s \in Space : RegionList(s) \in Names /\ FreeList(s) \in Names
  BY NamesAre
<1>2. Lists4(mem2)
  BY <1>1 DEF Sound, Same, Joined, Lists4
<1> QED  BY <1>2 DEF Sound, Same, Joined

\* So does a free,
LEMMA FreesIsSound ==
    ASSUME NEW mem, Sound(mem), NEW mem2, NEW r, NEW s, Frees(mem, mem2, r, s), Joined(mem2)
    PROVE  Sound(mem2)
<1>1. s \in Space /\ mem2.regions = mem.regions
  BY DEF Frees
<1>2. FreeOk(mem.regions[r], s)
  BY DEF Frees, Sound, Lists4, FreeOk, UsedOk
<1>3. ASSUME NEW t \in Space, NEW q \in Has(mem2.lists, FreeList(t)) PROVE FreeOk(mem.regions[q], t)
  <2>1. CASE t = s
    BY <2>1, <1>2, <1>3 DEF Frees, Sound, Lists4
  <2>2. CASE t # s
    <3>1. FreeList(t) \in Names /\ FreeList(t) # FreeList(s) /\ FreeList(t) # RegionList(s)
      BY <2>2, <1>1, NamesAre
    <3> QED  BY <3>1, <1>3 DEF Frees, Elsewhere, Sound, Lists4
  <2> QED  BY <2>1, <2>2
<1>4. ASSUME NEW t \in Space, NEW q \in Has(mem2.lists, RegionList(t)) PROVE UsedOk(mem.regions[q], t)
  <2>1. CASE t = s
    BY <2>1, <1>4 DEF Frees, Sound, Lists4
  <2>2. CASE t # s
    <3>1. RegionList(t) \in Names /\ RegionList(t) # FreeList(s) /\ RegionList(t) # RegionList(s)
      BY <2>2, <1>1, NamesAre
    <3> QED  BY <3>1, <1>4 DEF Frees, Elsewhere, Sound, Lists4
  <2> QED  BY <2>1, <2>2
<1> QED  BY <1>1, <1>3, <1>4 DEF Sound, Joined, Lists4

IsSplit(R, R2, f, pages, owner) ==
    /\ R2 \in Seq(RegionDesc) /\ Len(R2) = Len(R) + 1
    /\ R2[f] = [startPage |-> R[f].startPage + pages,
                numOfPages |-> R[f].numOfPages - pages, owner |-> ANY]
    /\ R2[Len(R) + 1] = [startPage |-> R[f].startPage, numOfPages |-> pages, owner |-> owner]
    /\ \A i \in 1 .. Len(R) : i # f => R2[i] = R[i]

\* The descriptors after vmAllocRegion has split one.
LEMMA SplitIs ==
    ASSUME NEW R, Shaped(R), NEW f \in 1 .. Len(R), NEW pages \in 1 .. R[f].numOfPages - 1,
           NEW owner \in Int
    PROVE  IsSplit(R, Split(R, f, pages, owner), f, pages, owner)
<1>0. PICK R2 : R2 = Split(R, f, pages, owner)
  OBVIOUS
<1>1. PICK a, n \in Nat : a = R[f].startPage /\ n = R[f].numOfPages
  BY DescIs
<1>2. pages \in Nat /\ n - pages \in Nat /\ a + pages \in Nat /\ ANY \in Int
  BY <1>1 DEF ANY
<1>3. PICK rest : rest = [startPage |-> a + pages, numOfPages |-> n - pages, owner |-> ANY]
  OBVIOUS
<1>4. PICK front : front = [startPage |-> a, numOfPages |-> pages, owner |-> owner]
  OBVIOUS
<1>5. rest \in RegionDesc /\ front \in RegionDesc
  BY <1>2, <1>3, <1>4, <1>1 DEF RegionDesc
<1>6. front = [R[f] EXCEPT !.numOfPages = pages, !.owner = owner]
  <2>1. R[f] = [startPage |-> R[f].startPage, numOfPages |-> R[f].numOfPages,
                owner |-> R[f].owner]
    BY DescIs
  <2>2. PICK o : o = R[f].owner
    OBVIOUS
  <2>3. R[f] = [startPage |-> a, numOfPages |-> n, owner |-> o]
    BY <2>1, <2>2, <1>1
  <2>4. PICK g, h : /\ g = [startPage |-> a, numOfPages |-> n, owner |-> o]
                    /\ h = [startPage |-> a, numOfPages |-> pages, owner |-> o]
    OBVIOUS
  <2>5. [g EXCEPT !.numOfPages = pages] = h
    BY <2>4
  <2>6. [h EXCEPT !.owner = owner] = front
    BY <2>4, <1>4
  <2> QED  BY <2>3, <2>4, <2>5, <2>6
<1>7. PICK Q : Q = [R EXCEPT ![f] = rest]
  OBVIOUS
<1>8. R \in Seq(RegionDesc)
  BY DEF Shaped
<1>9. Q \in Seq(RegionDesc) /\ Len(Q) = Len(R) /\ Q[f] = rest
      /\ \A i \in 1 .. Len(R) : i # f => Q[i] = R[i]
  BY <1>5, <1>7, <1>8
<1>10. R2 = Append(Q, front)
  BY <1>0, <1>1, <1>3, <1>6, <1>7 DEF Split
<1>11. R2 \in Seq(RegionDesc) /\ Len(R2) = Len(R) + 1 /\ R2[Len(R) + 1] = front
       /\ \A i \in 1 .. Len(R) : R2[i] = Q[i]
  BY <1>5, <1>9, <1>10
<1> QED  BY <1>0, <1>1, <1>3, <1>4, <1>9, <1>11 DEF IsSplit

\* and an allocation: the two parts of a region that was split share no page and lose none.
LEMMA AllocatesIsSound ==
    ASSUME NEW mem, Sound(mem), NEW mem2, NEW f, NEW pages, NEW owner,
           Allocates(mem, mem2, f, pages, owner), Joined(mem2)
    PROVE  Sound(mem2)
<1>1. PICK s \in Space : s = THREAD_MODE(owner)
  BY OwnersAre DEF Allocates
<1>2. PICK R : R = mem.regions
  OBVIOUS
<1>3. PICK R2 : R2 = mem2.regions
  OBVIOUS
<1>4. /\ owner \in Owners /\ owner \in Int /\ f \in Has(mem.lists, FreeList(s))
      /\ pages \in 1 .. R[f].numOfPages
      /\ Elsewhere(mem, mem2, s)
  BY <1>1, <1>2, OwnersAre DEF Allocates
<1>5. /\ Shaped(R) /\ ApartAll(R) /\ Covers(R) /\ FreeOk(R[f], s)
  BY <1>2, <1>4 DEF Sound, Lists4
<1>6. /\ \A l \in Names : Has(mem.lists, l) \subseteq 1 .. Len(R)
      /\ \A l, k \in Names : l # k => Has(mem.lists, l) \cap Has(mem.lists, k) = {}
  BY <1>2, HasIs DEF Sound, Lists4, ListsOk, Listing
<1>7. f \in 1 .. Len(R)
  BY <1>4, <1>6, NamesAre
<1>8. PICK a, n \in Nat : a = R[f].startPage /\ n = R[f].numOfPages
  BY <1>5, <1>7, DescIs
<1>9. \A t \in Space : \A q \in Has(mem.lists, RegionList(t)) : q \in 1 .. Len(R) /\ q # f
  BY <1>1, <1>4, <1>6, NamesAre
<1>10. \A t \in Space : t # s => /\ Has(mem2.lists, FreeList(t)) = Has(mem.lists, FreeList(t))
                                 /\ Has(mem2.lists, RegionList(t)) = Has(mem.lists, RegionList(t))
  BY <1>1, <1>4, NamesAre DEF Elsewhere
<1>11. CASE n = pages
  <2>1. Whole1(mem, mem2, f, s, owner)
    BY <1>11, <1>1, <1>2, <1>8 DEF Allocates
  <2>2. R2 = [R EXCEPT ![f].owner = owner]
    BY <2>1, <1>2, <1>3 DEF Whole1
  <2>3. R \in Seq(RegionDesc) /\ R[f] \in RegionDesc
    BY <1>5, <1>7 DEF Shaped
  <2>4. PICK g : g = [R[f] EXCEPT !.owner = owner]
    OBVIOUS
  <2>5. g \in RegionDesc /\ g.startPage = a /\ g.numOfPages = n /\ g.owner = owner
    BY <2>3, <2>4, <1>4, <1>8 DEF RegionDesc
  <2>6. R2 = [R EXCEPT ![f] = g]
    BY <2>2, <2>4
  <2>7. R2 \in Seq(RegionDesc) /\ Len(R2) = Len(R) /\ R2[f] = g
        /\ \A i \in 1 .. Len(R) : i # f => R2[i] = R[i]
    BY <2>3, <2>5, <2>6, <1>7
  <2>8. \A i \in 1 .. Len(R) : Span(R2[i]) = Span(R[i]) /\ R2[i].startPage = R[i].startPage
                               /\ R2[i].numOfPages = R[i].numOfPages
    BY <2>5, <2>7, <1>8 DEF Span
  <2>9. Shaped(R2) /\ ApartAll(R2) /\ Covers(R2)
    BY <2>7, <2>8, <1>5 DEF Shaped, ApartAll, Covers
  <2>10. ASSUME NEW t \in Space, NEW q \in Has(mem2.lists, FreeList(t)) PROVE FreeOk(R2[q], t)
    <3>1. q \in Has(mem.lists, FreeList(t))
      BY <2>1, <2>10, <1>10 DEF Whole1
    <3>2. q \in 1 .. Len(R) /\ FreeOk(R[q], t)
      BY <3>1, <1>2, <1>6, NamesAre DEF Sound, Lists4
    <3> QED  BY <3>2, <2>8 DEF FreeOk
  <2>11. ASSUME NEW t \in Space, NEW q \in Has(mem2.lists, RegionList(t)) PROVE UsedOk(R2[q], t)
    <3>1. CASE q \in Has(mem.lists, RegionList(t))
      <4>1. q \in 1 .. Len(R) /\ q # f /\ UsedOk(R[q], t)
        BY <3>1, <1>2, <1>9 DEF Sound, Lists4
      <4> QED  BY <4>1, <2>7
    <3>2. CASE q \notin Has(mem.lists, RegionList(t))
      <4>1. q = f /\ t = s
        BY <3>2, <2>1, <2>11, <1>10 DEF Whole1
      <4>2. Span(R2[f]) = Span(R[f]) /\ R2[f].startPage = R[f].startPage /\ R2[f].owner = owner
        BY <2>5, <2>7, <2>8, <1>7
      <4> QED  BY <4>1, <4>2, <1>1, <1>4, <1>5 DEF FreeOk, UsedOk
    <3> QED  BY <3>1, <3>2
  <2> QED  BY <2>9, <2>10, <2>11, <1>3 DEF Sound, Joined, Lists4
<1>12. CASE n > pages
  <2>1. Split1(mem, mem2, f, pages, s, owner)
    BY <1>12, <1>1, <1>2, <1>8 DEF Allocates
  <2>2. R2 = Split(R, f, pages, owner) /\ Len(R) < NbRegions
    BY <2>1, <1>2, <1>3 DEF Split1
  <2>3. pages \in 1 .. R[f].numOfPages - 1
    BY <1>4, <1>8, <1>12
  <2>4. PICK len \in Nat : len = Len(R)
    BY <1>5 DEF Shaped
  <2>5. /\ R2 \in Seq(RegionDesc) /\ Len(R2) = len + 1
        /\ R2[f] = [startPage |-> a + pages, numOfPages |-> n - pages, owner |-> ANY]
        /\ R2[len + 1] = [startPage |-> a, numOfPages |-> pages, owner |-> owner]
        /\ \A i \in 1 .. len : i # f => R2[i] = R[i]
    <3>1. IsSplit(R, R2, f, pages, owner)
      BY <2>2, <2>3, <1>4, <1>5, <1>7, SplitIs
    <3> QED  BY <3>1, <2>4, <1>8 DEF IsSplit
  <2>6. /\ Span(R2[f]) = a + pages .. a + n - 1 /\ Span(R2[len + 1]) = a .. a + pages - 1
        /\ Span(R[f]) = a .. a + n - 1
        /\ R2[f].startPage = a + pages /\ R2[len + 1].startPage = a /\ R2[len + 1].owner = owner
        /\ R2[f].numOfPages = n - pages /\ R2[len + 1].numOfPages = pages
    <3>1. /\ R2[f].startPage = a + pages /\ R2[len + 1].startPage = a /\ R2[len + 1].owner = owner
          /\ R2[f].numOfPages = n - pages /\ R2[len + 1].numOfPages = pages
      BY <2>5
    <3>2. a + pages + (n - pages) - 1 = a + n - 1
      BY <1>4, <1>8
    <3> QED  BY <3>1, <3>2, <1>8 DEF Span
  <2>7. pages \in Nat /\ pages > 0 /\ pages < n
    BY <1>4, <1>12
  <2>8. \A i \in 1 .. len + 1 : i = f \/ i = len + 1 \/ (i \in 1 .. len /\ i # f)
    OBVIOUS
  <2>9. f \in 1 .. len /\ f # len + 1
    BY <1>7, <2>4
  <2>10. Shaped(R2)
    <3>1. len + 1 <= NbRegions
      BY <2>2, <2>4, VmAssumption
    <3>2. \A i \in 1 .. len + 1 : R2[i].numOfPages > 0
      <4>1. \A i \in 1 .. len : R[i].numOfPages > 0
        BY <1>5, <2>4 DEF Shaped
      <4>2. R2[f].numOfPages > 0 /\ R2[len + 1].numOfPages > 0
        BY <2>6, <2>7, <1>8
      <4> QED  BY <4>1, <4>2, <2>5, <2>8
    <3> QED  BY <3>1, <3>2, <2>5 DEF Shaped
  <2>11. Span(R2[f]) \subseteq Span(R[f]) /\ Span(R2[len + 1]) \subseteq Span(R[f])
         /\ Span(R2[f]) \cap Span(R2[len + 1]) = {}
         /\ Span(R[f]) \subseteq Span(R2[f]) \cup Span(R2[len + 1])
    <3>1. /\ a + pages .. a + n - 1 \subseteq a .. a + n - 1
          /\ a .. a + pages - 1 \subseteq a .. a + n - 1
          /\ (a + pages .. a + n - 1) \cap (a .. a + pages - 1) = {}
          /\ a .. a + n - 1 \subseteq (a + pages .. a + n - 1) \cup (a .. a + pages - 1)
      BY <2>7
    <3> QED  BY <3>1, <2>6
  <2>12. ApartAll(R2)
    <3>1. \A i, j \in 1 .. len : i # j => Span(R[i]) \cap Span(R[j]) = {}
      BY <1>5, <2>4 DEF ApartAll
    <3>2. ASSUME NEW i \in 1 .. len + 1, NEW j \in 1 .. len + 1, i # j
          PROVE  Span(R2[i]) \cap Span(R2[j]) = {}
      BY <3>1, <3>2, <2>5, <2>8, <2>9, <2>11
    <3> QED  BY <3>2, <2>5 DEF ApartAll
  <2>13. Covers(R2)
    <3> SUFFICES ASSUME NEW t \in Space, NEW p \in PagesOfSpace(t)
                 PROVE  \E i \in 1 .. len + 1 : p \in Span(R2[i])
      BY <2>5 DEF Covers
    <3>1. PICK i \in 1 .. len : p \in Span(R[i])
      BY <1>5, <2>4 DEF Covers
    <3>2. CASE i = f
      <4>1. f \in 1 .. len + 1 /\ len + 1 \in 1 .. len + 1
        BY <2>9
      <4> QED  BY <4>1, <3>1, <3>2, <2>11
    <3>3. CASE i # f
      <4>1. i \in 1 .. len + 1 /\ R2[i] = R[i]
        BY <3>3, <2>5
      <4> QED  BY <4>1, <3>1
    <3> QED  BY <3>2, <3>3
  <2>14. ~Boot(a) /\ ~Boot(a + pages) /\ Span(R[f]) \subseteq PagesOfSpace(s)
    <3>1. ~Boot(a) /\ Span(R[f]) \subseteq PagesOfSpace(s)
      BY <1>5, <1>8 DEF FreeOk
    <3>2. a \in Span(R[f]) /\ a + pages \in Span(R[f]) /\ a <= a + pages
      <4>1. a \in a .. a + n - 1 /\ a + pages \in a .. a + n - 1 /\ a <= a + pages
        BY <2>7
      <4> QED  BY <4>1, <2>6
    <3> QED  BY <3>1, <3>2, BootIs
  <2>15. ASSUME NEW t \in Space, NEW q \in Has(mem2.lists, FreeList(t)) PROVE FreeOk(R2[q], t)
    <3>1. q \in Has(mem.lists, FreeList(t))
      BY <2>1, <2>15, <1>10 DEF Split1
    <3>2. q \in 1 .. len /\ FreeOk(R[q], t)
      BY <3>1, <2>4, <1>2, <1>6, NamesAre DEF Sound, Lists4
    <3>3. CASE q = f
      <4>1. t = s
        <5>1. FreeList(t) # FreeList(s) => q \notin Has(mem.lists, FreeList(t))
          BY <3>3, <1>4, <1>6, <1>1, NamesAre
        <5> QED  BY <5>1, <3>1, <1>1, NamesAre
      <4> QED  BY <4>1, <3>3, <2>6, <2>11, <2>14 DEF FreeOk
    <3>4. CASE q # f
      BY <3>2, <3>4, <2>5
    <3> QED  BY <3>3, <3>4
  <2>16. ASSUME NEW t \in Space, NEW q \in Has(mem2.lists, RegionList(t)) PROVE UsedOk(R2[q], t)
    <3>1. CASE q \in Has(mem.lists, RegionList(t))
      <4>1. q \in 1 .. len /\ q # f /\ UsedOk(R[q], t)
        BY <3>1, <2>4, <1>2, <1>9 DEF Sound, Lists4
      <4> QED  BY <4>1, <2>5
    <3>2. CASE q \notin Has(mem.lists, RegionList(t))
      <4>1. q = len + 1 /\ t = s
        BY <3>2, <2>1, <2>4, <2>16, <1>2, <1>10 DEF Split1
      <4> QED  BY <4>1, <2>6, <2>11, <2>14, <1>1, <1>4 DEF UsedOk
    <3> QED  BY <3>1, <3>2
  <2> QED  BY <2>10, <2>12, <2>13, <2>15, <2>16, <1>3 DEF Sound, Joined, Lists4
<1>13. n = pages \/ n > pages
  BY <1>4, <1>8
<1> QED  BY <1>11, <1>12, <1>13

-----------------------------------------------------------------------------
(* Requests.                                                               *)

\* The memory with other lists.
LEMMA WithLists ==
    ASSUME NEW mem, Sound(mem), NEW x
    PROVE  /\ [mem EXCEPT !.lists = x] = [lists |-> x, regions |-> mem.regions]
           /\ [mem EXCEPT !.lists = x].lists = x
           /\ [mem EXCEPT !.lists = x].regions = mem.regions
<1>1. PICK y, z : mem = [lists |-> y, regions |-> z]
  BY DEF Sound
<1> QED  BY <1>1

\* What a sound memory gives the lemmas about lists.
LEMMA SoundIs ==
    ASSUME NEW mem, Sound(mem)
    PROVE  /\ Holding(mem.lists, Names, Listing(mem)) /\ 0 \notin Listing(mem)
           /\ MemType(mem.lists, Names)
           /\ Len(mem.regions) \in Nat /\ DOMAIN mem.regions = 1 .. Len(mem.regions)
           /\ Listing(mem) \subseteq 1 .. Len(mem.regions)
           /\ Listing(mem) # 1 .. Len(mem.regions) => ~HasRoom(mem.lists)
           /\ \A l \in Names : Has(mem.lists, l) \subseteq 1 .. Len(mem.regions)
           /\ Shaped(mem.regions) /\ ApartAll(mem.regions)
<1>1. /\ Holding(mem.lists, Names, Listing(mem))
      /\ Listing(mem) \subseteq 1 .. Len(mem.regions)
      /\ Listing(mem) # 1 .. Len(mem.regions) => ~HasRoom(mem.lists)
  BY DEF Sound, Lists4, ListsOk
<1>2. \A l \in Names : Has(mem.lists, l) \subseteq 1 .. Len(mem.regions)
  BY <1>1 DEF Listing
<1>3. mem.regions \in Seq(RegionDesc)
  BY DEF Sound, Shaped
<1>4. Len(mem.regions) \in Nat /\ DOMAIN mem.regions = 1 .. Len(mem.regions)
  BY <1>3
<1>5. 0 \notin Listing(mem)
  BY <1>1
<1> QED  BY <1>1, <1>2, <1>4, <1>5 DEF Holding, Sound

\* Lists that differ from a sound memory's in the cursors only.
LEMMA NewCursors ==
    ASSUME NEW mem, Sound(mem), NEW x, SameLinks(mem.lists, x, Names), NEW mem2,
           mem2 = [mem EXCEPT !.lists = x]
    PROVE  Sound(mem2) /\ Same(mem, mem2) /\ mem2.lists = x /\ mem2.regions = mem.regions
<1>1. mem2 = [lists |-> x, regions |-> mem.regions] /\ mem2.lists = x /\ mem2.regions = mem.regions
  BY WithLists
<1>2. Holding(x, Names, Listing(mem)) /\ \A l \in Names : Has(x, l) = Has(mem.lists, l)
  BY SoundIs, SameSound
<1>3. Listing(mem2) = Listing(mem)
  BY <1>1, <1>2, ListingIs
<1>4. HasRoom(x) = HasRoom(mem.lists)
  BY DEF HasRoom, SameLinks
<1>5. Same(mem, mem2) /\ Joined(mem2)
  BY <1>1, <1>2, <1>3, <1>4, SoundIs DEF Same, Joined, ListsOk
<1> QED  BY <1>1, <1>5, SameIsSound

\* getRegion finds the region that begins at the address.
Found(mem, address, found) ==
    LET l == RegionList("USER")
        page == LOGICALPAGENUMBER(address)
    IN  /\ SameLinks(mem.lists, found.lists, Names)
        /\ \/ /\ found.region = NULL
              /\ LOGICALPAGEREMAINDER(address) = 0 =>
                    \A s \in Space : \A r \in Has(mem.lists, RegionList(s)) :
                       mem.regions[r].startPage # page
           \/ /\ found.region # NULL /\ LOGICALPAGEREMAINDER(address) = 0
              /\ \E s \in Space : found.region \in Has(mem.lists, RegionList(s))
              /\ mem.regions[found.region].startPage = page
        /\ LOGICALPAGEREMAINDER(address) = 0 =>
              \/ \E r \in Has(mem.lists, RegionList("KERNEL")) : mem.regions[r].startPage = page
              \/ found.region = NULL /\ found.lists.list[l].current = NULL
              \/ /\ found.lists.list[l].current \in Cells(mem.lists, l)
                 /\ mem.lists.cell[found.lists.list[l].current].item = found.region

\* getRegion finds the region that begins at the address, in the list it is in, if there is one.
LEMMA GetRegionIs ==
    ASSUME NEW mem, Sound(mem), NEW address
    PROVE  Found(mem, address, getRegion(mem, address))
<1>1. PICK found : found = getRegion(mem, address)
  OBVIOUS
<1>2. PICK page, k, u : /\ page = LOGICALPAGENUMBER(address)
                        /\ k = RegionList("KERNEL") /\ u = RegionList("USER")
  OBVIOUS
<1>3. k \in Names /\ u \in Names /\ k # u /\ Space = {"KERNEL", "USER"}
  BY <1>2, NamesAre DEF Space
<1>4. PICK R, m : R = mem.regions /\ m = mem.lists
  OBVIOUS
<1>5. /\ Holding(m, Names, Listing(mem)) /\ 0 \notin Listing(mem) /\ MemType(m, Names)
      /\ DOMAIN R = 1 .. Len(R)
      /\ \A l \in Names : Has(m, l) \subseteq 1 .. Len(R)
  BY <1>4, SoundIs
<1>6. PICK here : here = {r \in DOMAIN R : isPageInRegion(R[r], page)}
  OBVIOUS
<1>7. \A l \in Names : \A r \in Has(m, l) : r \in here <=> R[r].startPage = page
  BY <1>5, <1>6 DEF isPageInRegion
<1>8. PICK one : one = CursorAt(m, k, here)
  OBVIOUS
<1>9. PICK two : two = CursorAt(one, u, here)
  OBVIOUS
<1>10. /\ SameLinks(m, one, Names)
       /\ one.list[u].current = m.list[u].current
       /\ \/ Item(one, k) = NULL /\ \A x \in Has(m, k) : x \notin here
          \/ Item(one, k) \in Has(m, k) /\ Item(one, k) \in here /\ Item(one, k) # NULL
  BY <1>3, <1>5, <1>8, CursorAtIs
<1>11. /\ Holding(one, Names, Listing(mem)) /\ Has(one, u) = Has(m, u) /\ Cells(one, u) = Cells(m, u)
       /\ one.cell = m.cell
  <2>1. Holding(one, Names, Listing(mem))
    BY <1>5, <1>10, SameSound
  <2>2. \A l \in Names : Has(one, l) = Has(m, l) /\ Cells(one, l) = Cells(m, l)
    BY <1>5, <1>10, SameSound
  <2>3. one.cell = m.cell
    BY <1>10 DEF SameLinks
  <2> QED  BY <2>1, <2>2, <2>3, <1>3
<1>12. /\ SameLinks(one, two, Names)
       /\ \/ /\ two.list[u].current = NULL /\ Item(two, u) = NULL
             /\ \A x \in Has(m, u) : x \notin here
          \/ /\ two.list[u].current \in Cells(m, u)
             /\ Item(two, u) = m.cell[two.list[u].current].item
             /\ Item(two, u) \in Has(m, u) /\ Item(two, u) \in here /\ Item(two, u) # NULL
  BY <1>3, <1>5, <1>9, <1>11, CursorAtIs
<1>13. SameLinks(m, two, Names) /\ SameLinks(m, m, Names)
  BY <1>5, <1>10, <1>12, SameTwice, SameSelf
<1>14. found = IF LOGICALPAGEREMAINDER(address) # 0 THEN [lists |-> m, region |-> NULL]
               ELSE IF Item(one, k) # NULL THEN [lists |-> one, region |-> Item(one, k)]
               ELSE [lists |-> two, region |-> Item(two, u)]
  BY <1>1, <1>2, <1>4, <1>6, <1>8, <1>9 DEF getRegion
<1>15. CASE LOGICALPAGEREMAINDER(address) # 0
  <2>1. found.lists = m /\ found.region = NULL
    BY <1>14, <1>15
  <2> QED  BY <2>1, <1>1, <1>4, <1>13, <1>15 DEF Found
<1>16. CASE LOGICALPAGEREMAINDER(address) = 0 /\ Item(one, k) # NULL
  <2>1. found.lists = one /\ found.region = Item(one, k)
    BY <1>14, <1>16
  <2>2. found.region \in Has(m, k) /\ R[found.region].startPage = page /\ found.region # NULL
    BY <2>1, <1>3, <1>7, <1>10, <1>16
  <2>3. "KERNEL" \in Space
    BY <1>3
  <2> QED  BY <2>1, <2>2, <2>3, <1>1, <1>2, <1>4, <1>10, <1>16 DEF Found
<1>17. CASE LOGICALPAGEREMAINDER(address) = 0 /\ Item(one, k) = NULL
  <2>1. found.lists = two /\ found.region = Item(two, u)
    BY <1>14, <1>17
  <2>2. \A r \in Has(m, k) : R[r].startPage # page
    BY <1>3, <1>7, <1>10, <1>17
  <2>3. CASE Item(two, u) = NULL
    <3>1. \A r \in Has(m, u) : R[r].startPage # page
      BY <2>3, <1>3, <1>7, <1>12
    <3>2. \A s \in Space : \A r \in Has(m, RegionList(s)) : R[r].startPage # page
      BY <3>1, <2>2, <1>2, <1>3
    <3>3. two.list[u].current = NULL
      BY <2>3, <1>12
    <3> QED  BY <3>2, <3>3, <2>1, <2>3, <1>1, <1>2, <1>4, <1>13, <1>17 DEF Found
  <2>4. CASE Item(two, u) # NULL
    <3>1. /\ found.region \in Has(m, u) /\ R[found.region].startPage = page /\ found.region # NULL
          /\ two.list[u].current \in Cells(m, u)
          /\ m.cell[two.list[u].current].item = found.region
      BY <2>1, <2>4, <1>3, <1>7, <1>12
    <3>2. "USER" \in Space
      BY <1>3
    <3> QED  BY <3>1, <3>2, <2>1, <1>1, <1>2, <1>4, <1>13, <1>17 DEF Found
  <2> QED  BY <2>3, <2>4
<1> QED  BY <1>15, <1>16, <1>17

-----------------------------------------------------------------------------
AllocResult(mem, got, pages, owner) ==
    /\ Sound(got.mem)
    /\ \/ ~got.ok /\ Same(mem, got.mem)
       \/ /\ got.ok
          /\ \E f : /\ Allocates(mem, got.mem, f, pages, owner)
                    /\ got.address = mem.regions[f].startPage * LOGICALPAGESIZE

\* vmAllocRegion splits the region, whether or not there is room for the new list element,
LEMMA SplitDone ==
    ASSUME NEW mem, Sound(mem), NEW owner \in Owners, NEW s, s = THREAD_MODE(owner),
           NEW f \in Has(mem.lists, FreeList(s)), NEW pages \in 1 .. mem.regions[f].numOfPages,
           mem.regions[f].numOfPages > pages, Len(mem.regions) < NbRegions, NEW mem2,
           mem2 = vmAllocRegion(mem, f, pages, s, owner)
    PROVE  Joined(mem2) /\ Allocates(mem, mem2, f, pages, owner)
<1>1. s \in Space /\ FreeList(s) \in Names /\ RegionList(s) \in Names /\ FreeList(s) # RegionList(s)
  BY NamesAre, OwnersAre
<1>2. PICK R, m : R = mem.regions /\ m = mem.lists
  OBVIOUS
<1>3. /\ Holding(m, Names, Listing(mem)) /\ Listing(mem) \subseteq 1 .. Len(R)
      /\ HasRoom(m) => Listing(mem) = 1 .. Len(R)
      /\ Shaped(R) /\ f \in 1 .. Len(R) /\ Len(R) \in Nat
  BY <1>1, <1>2, SoundIs
<1>4. PICK len \in Nat : len = Len(R)
  BY <1>3
<1>5. mem2.regions = Split(R, f, pages, owner)
      /\ mem2.lists = listAddInFront(m, RegionList(s), len + 1)
      /\ mem2 = [lists |-> mem2.lists, regions |-> mem2.regions]
  BY <1>2, <1>4 DEF vmAllocRegion, Split
<1>6. Len(mem2.regions) = len + 1
  <2>1. pages \in 1 .. R[f].numOfPages - 1
    <3>1. R[f].numOfPages \in Nat
      BY <1>3, DescIs
    <3> QED  BY <3>1, <1>2
  <2>2. owner \in Int
    BY OwnersAre
  <2>3. IsSplit(R, Split(R, f, pages, owner), f, pages, owner)
    BY <2>1, <2>2, <1>3, SplitIs
  <2> QED  BY <2>3, <1>4, <1>5 DEF IsSplit
<1>7. CASE HasRoom(m)
  <2>1. PICK x \in Nat : x = len + 1
    OBVIOUS
  <2>2. Holding(m, Names, 1 .. len) /\ x \notin 1 .. len /\ (1 .. len) \cup {x} = 1 .. x
    BY <2>1, <1>3, <1>4, <1>7
  <2>3. /\ Holding(listAddInFront(m, RegionList(s), x), Names, (1 .. len) \cup {x})
        /\ Gains(m, listAddInFront(m, RegionList(s), x), Names, RegionList(s), x)
    BY <2>2, <1>1, <1>7, AddSound
  <2>4. Holding(mem2.lists, Names, 1 .. x) /\ Gains(m, mem2.lists, Names, RegionList(s), x)
    BY <2>1, <2>2, <2>3, <1>5
  <2>5. Listing(mem2) = 1 .. Len(mem2.regions)
    BY <2>1, <2>4, <1>6, ListingIs
  <2>6. Joined(mem2)
    BY <2>1, <2>4, <2>5, <1>5, <1>6 DEF Joined, ListsOk
  <2>7. Split1(mem, mem2, f, pages, s, owner) /\ Elsewhere(mem, mem2, s)
    BY <2>1, <2>4, <1>1, <1>2, <1>4, <1>5 DEF Split1, Elsewhere, Gains
  <2> QED  BY <2>6, <2>7 DEF Allocates
<1>8. CASE ~HasRoom(m)
  <2>1. mem2.lists = m
    BY <1>5, <1>8 DEF listAddInFront
  <2>2. Listing(mem2) = Listing(mem) /\ 1 .. len \subseteq 1 .. len + 1
    BY <2>1, <1>2, <1>4 DEF Listing
  <2>3. Joined(mem2)
    BY <2>1, <2>2, <1>3, <1>4, <1>5, <1>6, <1>8 DEF Joined, ListsOk
  <2>4. Split1(mem, mem2, f, pages, s, owner) /\ Elsewhere(mem, mem2, s)
    BY <2>1, <1>1, <1>2, <1>5 DEF Split1, Elsewhere
  <2> QED  BY <2>3, <2>4 DEF Allocates
<1> QED  BY <1>7, <1>8

\* or moves it.
LEMMA WholeDone ==
    ASSUME NEW mem, Sound(mem), NEW owner \in Owners, NEW s, s = THREAD_MODE(owner),
           NEW f \in Has(mem.lists, FreeList(s)), NEW pages \in Nat \ {0},
           mem.regions[f].numOfPages = pages, NEW mem2,
           mem2 = vmAllocRegion(mem, f, pages, s, owner)
    PROVE  Joined(mem2) /\ Allocates(mem, mem2, f, pages, owner)
<1>1. s \in Space /\ FreeList(s) \in Names /\ RegionList(s) \in Names /\ FreeList(s) # RegionList(s)
  BY NamesAre, OwnersAre
<1>2. PICK R, m : R = mem.regions /\ m = mem.lists
  OBVIOUS
<1>3. /\ Holding(m, Names, Listing(mem)) /\ Shaped(R) /\ f \in 1 .. Len(R) /\ Len(R) \in Nat
      /\ 0 \notin Listing(mem) /\ f \in Listing(mem)
  BY <1>1, <1>2, SoundIs DEF Listing
<1>4. PICK out : out = listRemove(m, FreeList(s), f, NULL)
  OBVIOUS
<1>5. /\ mem2.regions = [R EXCEPT ![f].owner = owner]
      /\ mem2.lists = listAddInFront(out, RegionList(s), f)
      /\ mem2 = [lists |-> mem2.lists, regions |-> mem2.regions]
  <2>1. ~(R[f].numOfPages > pages)
    BY <1>2
  <2> QED  BY <2>1, <1>2, <1>4 DEF vmAllocRegion
<1>6. PICK e \in Cells(m, FreeList(s)) :
         /\ Holding(out, Names, Listing(mem) \ {f}) /\ Loses(m, out, Names, FreeList(s), f)
         /\ Leaves(m, out, Names, FreeList(s), e)
  <2>1. f \in Has(m, FreeList(s))
    BY <1>2
  <2> QED  BY <2>1, <1>1, <1>3, <1>4, ListRemoveIs
<1>7. /\ Holding(mem2.lists, Names, (Listing(mem) \ {f}) \cup {f})
      /\ Gains(out, mem2.lists, Names, RegionList(s), f)
      /\ \E d : Enters(out, mem2.lists, Names, RegionList(s), d)
  <2>1. f \in Nat /\ f \notin Listing(mem) \ {f} /\ HasRoom(out)
    BY <1>3, <1>6 DEF Loses
  <2> QED  BY <2>1, <1>1, <1>5, <1>6, AddSound
<1>8. (Listing(mem) \ {f}) \cup {f} = Listing(mem)
  BY <1>3
<1>9. Len(mem2.regions) = Len(R)
  <2>1. R \in Seq(RegionDesc)
    BY <1>3 DEF Shaped
  <2> QED  BY <2>1, <1>5
<1>10. Joined(mem2)
  <2>1. Listing(mem2) = Listing(mem)
    BY <1>7, <1>8, ListingIs
  <2>2. MemType(m, Names) /\ e \in m.used
    BY <1>1, <1>3, HoldingChain DEF Holding
  <2>3. HasRoom(mem2.lists) => HasRoom(m)
    BY <2>2, <1>6, <1>7, NoNewRoom
  <2> QED  BY <2>1, <2>3, <1>2, <1>5, <1>7, <1>8, <1>9, SoundIs DEF Joined, ListsOk
<1>11. Has(mem2.lists, FreeList(s)) = Has(m, FreeList(s)) \ {f}
  BY <1>1, <1>6, <1>7 DEF Loses, Gains
<1>12. Has(mem2.lists, RegionList(s)) = Has(m, RegionList(s)) \cup {f}
  BY <1>1, <1>6, <1>7 DEF Loses, Gains
<1>13. Whole1(mem, mem2, f, s, owner)
  BY <1>2, <1>5, <1>11, <1>12 DEF Whole1
<1>14. Elsewhere(mem, mem2, s)
  BY <1>1, <1>2, <1>6, <1>7 DEF Elsewhere, Loses, Gains
<1>15. pages \in 1 .. mem.regions[f].numOfPages
  OBVIOUS
<1> QED  BY <1>1, <1>10, <1>13, <1>14, <1>15 DEF Allocates

\* Where the cursors were before an allocation has no effect.
LEMMA AllocatesSame ==
    ASSUME NEW mem, NEW at, NEW mem2, Same(mem, at), NEW f, NEW pages, NEW owner \in Owners,
           Allocates(at, mem2, f, pages, owner)
    PROVE  Allocates(mem, mem2, f, pages, owner)
<1>1. PICK s \in Space : s = THREAD_MODE(owner)
  BY OwnersAre
<1>2. at.regions = mem.regions /\ \A l \in Names : Has(at.lists, l) = Has(mem.lists, l)
  BY DEF Same
<1>3. Has(at.lists, FreeList(s)) = Has(mem.lists, FreeList(s))
      /\ Has(at.lists, RegionList(s)) = Has(mem.lists, RegionList(s))
  BY <1>2, NamesAre
<1>4. /\ f \in Has(mem.lists, FreeList(s)) /\ pages \in 1 .. mem.regions[f].numOfPages
      /\ \/ mem.regions[f].numOfPages = pages /\ Whole1(at, mem2, f, s, owner)
         \/ mem.regions[f].numOfPages > pages /\ Split1(at, mem2, f, pages, s, owner)
      /\ Elsewhere(at, mem2, s)
  BY <1>1, <1>2, <1>3 DEF Allocates
<1>5. Whole1(at, mem2, f, s, owner) => Whole1(mem, mem2, f, s, owner)
  BY <1>2, <1>3 DEF Whole1
<1>6. Split1(at, mem2, f, pages, s, owner) => Split1(mem, mem2, f, pages, s, owner)
  BY <1>2, <1>3 DEF Split1
<1>7. Elsewhere(mem, mem2, s)
  BY <1>2, <1>4 DEF Elsewhere
<1> QED  BY <1>1, <1>4, <1>5, <1>6, <1>7 DEF Allocates

\* mmVmAlloc takes a free region of the caller's space that is large enough, or fails and changes nothing.
LEMMA AllocIs ==
    ASSUME NEW mem, Sound(mem), NEW size, NEW owner \in Owners, roundToPageUp(size) \in Nat \ {0}
    PROVE  AllocResult(mem, mmVmAlloc(mem, size, owner), roundToPageUp(size), owner)
<1>1. PICK got : got = mmVmAlloc(mem, size, owner)
  OBVIOUS
<1>2. PICK s \in Space : s = THREAD_MODE(owner)
  BY OwnersAre
<1>3. PICK pages \in Nat \ {0} : pages = roundToPageUp(size)
  OBVIOUS
<1>4. PICK R, m : R = mem.regions /\ m = mem.lists
  OBVIOUS
<1>5. /\ Holding(m, Names, Listing(mem)) /\ 0 \notin Listing(mem) /\ DOMAIN R = 1 .. Len(R)
      /\ \A l \in Names : Has(m, l) \subseteq 1 .. Len(R)
      /\ Shaped(R)
  BY <1>4, SoundIs
<1>6. PICK fitting : fitting = {r \in DOMAIN R : \/ R[r].numOfPages = pages
                                                 \/ /\ R[r].numOfPages > pages
                                                    /\ Len(R) < NbRegions}
  OBVIOUS
<1>7. PICK found : found = CursorAt(m, FreeList(s), fitting)
  OBVIOUS
<1>8. FreeList(s) \in Names
  BY NamesAre
<1>9. /\ SameLinks(m, found, Names)
      /\ \/ Item(found, FreeList(s)) = NULL
         \/ /\ Item(found, FreeList(s)) \in Has(m, FreeList(s))
            /\ Item(found, FreeList(s)) \in fitting
            /\ Item(found, FreeList(s)) # NULL
  BY <1>5, <1>7, <1>8, CursorAtIs
<1>10. PICK region : region = Item(found, FreeList(s))
  OBVIOUS
<1>11. PICK at : at = [mem EXCEPT !.lists = found]
  OBVIOUS
<1>12. Sound(at) /\ Same(mem, at) /\ at.lists = found /\ at.regions = R
  BY <1>4, <1>9, <1>11, NewCursors
<1>13. got = IF region = NULL THEN [mem |-> at, ok |-> FALSE, address |-> NULL]
             ELSE [mem |-> vmAllocRegion(at, region, pages, s, owner), ok |-> TRUE,
                   address |-> R[region].startPage * LOGICALPAGESIZE]
  BY <1>1, <1>2, <1>3, <1>4, <1>6, <1>7, <1>10, <1>11 DEF mmVmAlloc
<1>14. CASE region = NULL
  <2>1. got.mem = at /\ got.ok = FALSE
    BY <1>13, <1>14
  <2> QED  BY <2>1, <1>1, <1>12 DEF AllocResult
<1>15. CASE region # NULL
  <2>1. PICK mem2 : mem2 = vmAllocRegion(at, region, pages, s, owner)
    OBVIOUS
  <2>2. got.mem = mem2 /\ got.ok = TRUE /\ got.address = R[region].startPage * LOGICALPAGESIZE
    BY <2>1, <1>13, <1>15
  <2>3. region \in Has(m, FreeList(s)) /\ region \in fitting
    BY <1>9, <1>10, <1>15
  <2>4. region \in Has(at.lists, FreeList(s))
    BY <2>3, <1>4, <1>8, <1>12 DEF Same
  <2>5. region \in 1 .. Len(R) /\ R[region].numOfPages \in Nat
    BY <2>3, <1>5, <1>8, DescIs
  <2>6. Joined(mem2) /\ Allocates(at, mem2, region, pages, owner)
    <3>1. CASE R[region].numOfPages = pages
      <4>1. at.regions[region].numOfPages = pages
        BY <3>1, <1>12
      <4> QED  BY <4>1, <2>1, <2>4, <1>2, <1>12, WholeDone
    <3>2. CASE R[region].numOfPages > pages /\ Len(R) < NbRegions
      <4>1. /\ at.regions[region].numOfPages > pages /\ Len(at.regions) < NbRegions
            /\ pages \in 1 .. at.regions[region].numOfPages
        BY <3>2, <2>5, <1>12
      <4> QED  BY <4>1, <2>1, <2>4, <1>2, <1>12, SplitDone
    <3> QED  BY <3>1, <3>2, <2>3, <1>6
  <2>7. Sound(mem2) /\ Allocates(mem, mem2, region, pages, owner)
    BY <2>6, <1>12, AllocatesIsSound, AllocatesSame
  <2> QED  BY <2>2, <2>7, <1>1, <1>3, <1>4 DEF AllocResult
<1> QED  BY <1>14, <1>15

\* Where the walk of a cleanup can be: among the regions, or astray among the free ones.
Onward(m) == Cells(m, RegionList("USER")) \cup Cells(m, FreeList("USER")) \cup {NULL}

\* vmFreeRegion's lists.
Freeing(m, r, s) ==
    listAddInFront(listRemove(m, RegionList(s), r, NULL), FreeList(s), r)

\* A region that changes from one list to the other, and where the cursors are then.
LEMMA FreeingIs ==
    ASSUME NEW mem, Sound(mem), NEW s \in Space, NEW r \in Has(mem.lists, RegionList(s)),
           ~Boot(mem.regions[r].startPage), NEW mem2,
           mem2 = [lists |-> Freeing(mem.lists, r, s), regions |-> mem.regions]
    PROVE  /\ Joined(mem2) /\ Frees(mem, mem2, r, s)
           /\ \A k \in Names : mem2.lists.list[k].current = mem.lists.list[k].current
           /\ \A c \in Cells(mem.lists, RegionList(s)) :
                 mem.lists.cell[c].item = r /\ s = "USER" =>
                    mem2.lists.cell[c].next \in Onward(mem2.lists)
<1>1. FreeList(s) \in Names /\ RegionList(s) \in Names /\ FreeList(s) # RegionList(s)
  BY NamesAre
<1>2. PICK R, m : R = mem.regions /\ m = mem.lists
  OBVIOUS
<1>3. /\ Holding(m, Names, Listing(mem)) /\ r \in 1 .. Len(R) /\ 0 \notin Listing(mem)
      /\ r \in Has(m, RegionList(s)) /\ r \in Listing(mem)
  BY <1>1, <1>2, SoundIs DEF Listing
<1>4. PICK out : out = listRemove(m, RegionList(s), r, NULL)
  OBVIOUS
<1>5. PICK e \in Cells(m, RegionList(s)) :
         /\ m.cell[e].item = r
         /\ Holding(out, Names, Listing(mem) \ {r}) /\ Loses(m, out, Names, RegionList(s), r)
         /\ Leaves(m, out, Names, RegionList(s), e)
  BY <1>1, <1>3, <1>4, ListRemoveIs
<1>6. PICK m2 : m2 = listAddInFront(out, FreeList(s), r)
  OBVIOUS
<1>7. /\ Holding(m2, Names, (Listing(mem) \ {r}) \cup {r})
      /\ Gains(out, m2, Names, FreeList(s), r)
      /\ \E d : Enters(out, m2, Names, FreeList(s), d)
  <2>1. r \in Nat /\ r \notin Listing(mem) \ {r} /\ HasRoom(out)
    BY <1>3, <1>5 DEF Loses
  <2> QED  BY <2>1, <1>1, <1>5, <1>6, AddSound
<1>8. (Listing(mem) \ {r}) \cup {r} = Listing(mem)
  BY <1>3
<1>9. mem2 = [lists |-> m2, regions |-> R] /\ mem2.lists = m2 /\ mem2.regions = R
  BY <1>2, <1>4, <1>6 DEF Freeing
<1>10. Holding(m2, Names, Listing(mem)) /\ Joined(mem2)
  <2>1. Holding(m2, Names, Listing(mem))
    BY <1>7, <1>8
  <2>2. Listing(mem2) = Listing(mem)
    BY <2>1, <1>9, ListingIs
  <2>3. MemType(m, Names) /\ e \in m.used
    BY <1>1, <1>3, <1>5, HoldingChain DEF Holding
  <2>4. HasRoom(m2) => HasRoom(m)
    BY <2>3, <1>5, <1>7, NoNewRoom
  <2> QED  BY <2>1, <2>2, <2>4, <1>2, <1>9, SoundIs DEF Joined, ListsOk
<1>11. /\ Has(m2, RegionList(s)) = Has(m, RegionList(s)) \ {r}
       /\ Has(m2, FreeList(s)) = Has(m, FreeList(s)) \cup {r}
  BY <1>1, <1>5, <1>7 DEF Loses, Gains
<1>12. Elsewhere(mem, mem2, s)
  BY <1>1, <1>2, <1>5, <1>7, <1>9 DEF Elsewhere, Loses, Gains
<1>13. Frees(mem, mem2, r, s)
  BY <1>2, <1>3, <1>9, <1>11, <1>12 DEF Frees
<1>14. \A k \in Names : m2.list[k].current = m.list[k].current
  BY <1>5, <1>7 DEF Loses, Gains
<1>15. ASSUME NEW c \in Cells(m, RegionList(s)), m.cell[c].item = r, s = "USER"
       PROVE  m2.cell[c].next \in Onward(m2)
  <2>1. c \in m.used /\ e \in m.used
    BY <1>1, <1>3, HoldingChain
  <2>2. c = e
    BY <2>1, <1>3, <1>5, <1>15 DEF Holding
  <2>3. PICK d : Enters(out, m2, Names, FreeList(s), d)
    BY <1>7
  <2>4. CASE d = e
    <3>1. e \in Cells(m2, FreeList(s))
      BY <2>3, <2>4 DEF Enters
    <3>2. m2.cell[e].next \in Cells(m2, FreeList(s)) \cup {NULL}
      BY <3>1, <1>1, <1>10, NextIs
    <3> QED  BY <3>2, <2>2, <1>15 DEF Onward
  <2>5. CASE d # e
    <3>1. m.cell[e].next \in Cells(m, RegionList(s)) \cup {NULL} /\ m.cell[e].next # e
      BY <1>1, <1>3, NextIs
    <3>2. e \in Cell
      BY <2>1, <1>3 DEF Holding, MemType
    <3>3. m2.cell[e].next = m.cell[e].next
      BY <2>3, <2>5, <3>2, <1>5 DEF Enters, Leaves
    <3>4. Cells(m2, RegionList(s)) = Cells(m, RegionList(s)) \ {e}
      BY <2>3, <1>1, <1>5 DEF Enters, Leaves
    <3> QED  BY <3>1, <3>3, <3>4, <2>2, <1>15 DEF Onward
  <2> QED  BY <2>4, <2>5
<1> QED  BY <1>2, <1>9, <1>10, <1>13, <1>14, <1>15

\* The region at the address is not the sender's to free.
Kept(mem, address, sender) ==
    LOGICALPAGEREMAINDER(address) = 0 =>
        \A s \in Space : \A r \in Has(mem.lists, RegionList(s)) :
           mem.regions[r].startPage = LOGICALPAGENUMBER(address) =>
              ~MayFree(mem.regions[r].owner, sender)

FreesAt(mem, mem2, r, s, address, sender) ==
    /\ LOGICALPAGEREMAINDER(address) = 0
    /\ mem.regions[r].startPage = LOGICALPAGENUMBER(address)
    /\ MayFree(mem.regions[r].owner, sender)
    /\ Frees(mem, mem2, r, s)

\* Where a free leaves the cursor of the users' list.
FreeCursor(mem, mem2, address) ==
    LET c == mem2.lists.list[RegionList("USER")].current
        Begins(s) == \E r \in Has(mem.lists, RegionList(s)) :
                        mem.regions[r].startPage = LOGICALPAGENUMBER(address)
    IN  LOGICALPAGEREMAINDER(address) = 0 /\ ~Begins("KERNEL") =>
           IF Begins("USER") THEN c # NULL /\ mem2.lists.cell[c].next \in Onward(mem2.lists)
           ELSE c = NULL

FreeResult(mem, mem2, address, sender) ==
    /\ Sound(mem2)
    /\ \/ Same(mem, mem2) /\ Kept(mem, address, sender)
       \/ \E s, r : FreesAt(mem, mem2, r, s, address, sender)
    /\ FreeCursor(mem, mem2, address)

\* The cursor after the search.
LEMMA SearchCursor ==
    ASSUME NEW mem, Sound(mem), NEW address, NEW found, Found(mem, address, found), NEW mem2,
           mem2 = [mem EXCEPT !.lists = found.lists]
    PROVE  FreeCursor(mem, mem2, address)
<1>1. /\ Sound(mem2) /\ mem2.lists = found.lists
      /\ SameLinks(mem.lists, found.lists, Names)
  BY NewCursors DEF Found
<1>2. PICK page, k, u : /\ page = LOGICALPAGENUMBER(address)
                        /\ k = RegionList("KERNEL") /\ u = RegionList("USER")
  OBVIOUS
<1>3. k \in Names /\ u \in Names /\ Space = {"KERNEL", "USER"}
  BY <1>2, NamesAre DEF Space
<1>4. PICK c : c = found.lists.list[u].current
  OBVIOUS
<1>5. SUFFICES ASSUME LOGICALPAGEREMAINDER(address) = 0,
                      ~\E r \in Has(mem.lists, k) : mem.regions[r].startPage = page
               PROVE  IF \E r \in Has(mem.lists, u) : mem.regions[r].startPage = page
                      THEN c # NULL /\ mem2.lists.cell[c].next \in Onward(mem2.lists)
                      ELSE c = NULL
  BY <1>1, <1>2, <1>4 DEF FreeCursor
<1>6. \/ found.region = NULL /\ c = NULL
      \/ /\ c \in Cells(mem.lists, u) /\ mem.lists.cell[c].item = found.region
         /\ found.region # NULL
  <2>1. Holding(mem.lists, Names, Listing(mem)) /\ 0 \notin Listing(mem)
    BY SoundIs
  <2>2. c \in Cells(mem.lists, u) => mem.lists.cell[c].item # NULL
    <3>1. Cells(mem.lists, u) \subseteq mem.lists.used
      BY <2>1, <1>3, HoldingChain
    <3>2. \A d \in mem.lists.used : mem.lists.cell[d].item \in Listing(mem)
      BY <2>1 DEF Holding
    <3> QED  BY <3>1, <3>2, <2>1, CellsAre
  <2> QED  BY <2>2, <1>2, <1>4, <1>5 DEF Found
<1>7. CASE found.region = NULL
  <2>1. \A s \in Space : \A r \in Has(mem.lists, RegionList(s)) : mem.regions[r].startPage # page
    BY <1>2, <1>5, <1>7 DEF Found
  <2>2. ~\E r \in Has(mem.lists, u) : mem.regions[r].startPage = page
    BY <2>1, <1>2, <1>3
  <2> QED  BY <2>2, <1>6, <1>7
<1>8. CASE found.region # NULL
  <2>1. c \in Cells(mem.lists, u) /\ mem.lists.cell[c].item = found.region
    BY <1>6, <1>8
  <2>2. mem.regions[found.region].startPage = page /\ found.region \in Has(mem.lists, u)
    BY <2>1, <1>2, <1>8 DEF Found, Has
  <2>3. Holding(mem2.lists, Names, Listing(mem2)) /\ c \in Cells(mem2.lists, u)
    <3>1. Holding(mem.lists, Names, Listing(mem))
      BY SoundIs
    <3>2. Cells(found.lists, u) = Cells(mem.lists, u)
      BY <3>1, <1>1, <1>3, SameSound
    <3> QED  BY <3>2, <2>1, <1>1, SoundIs
  <2>4. mem2.lists.cell[c].next \in Cells(mem2.lists, u) \cup {NULL}
    BY <2>3, <1>3, NextIs
  <2>5. c # NULL
    <3>1. Cells(mem2.lists, u) \subseteq mem2.lists.used /\ mem2.lists.used \subseteq Cell
      BY <2>3, <1>3, HoldingChain DEF Holding, MemType
    <3> QED  BY <3>1, <2>3, CellsAre
  <2> QED  BY <2>2, <2>4, <2>5, <1>2 DEF Onward
<1> QED  BY <1>7, <1>8

\* mmVmFree frees the region at the address if the sender may, and changes nothing otherwise.
LEMMA FreeIs ==
    ASSUME NEW mem, Sound(mem), NEW address, NEW sender, sender # 0,
           THREAD_MODE(sender) = "KERNEL" => ~Boot(LOGICALPAGENUMBER(address))
    PROVE  FreeResult(mem, mmVmFree(mem, address, sender), address, sender)
<1>1. PICK mem2 : mem2 = mmVmFree(mem, address, sender)
  OBVIOUS
<1>2. PICK found : found = getRegion(mem, address)
  OBVIOUS
<1>3. Found(mem, address, found)
  BY <1>2, GetRegionIs
<1>4. PICK at : at = [mem EXCEPT !.lists = found.lists]
  OBVIOUS
<1>5. /\ Sound(at) /\ Same(mem, at) /\ at.lists = found.lists /\ at.regions = mem.regions
      /\ at = [lists |-> found.lists, regions |-> mem.regions]
  BY <1>3, <1>4, NewCursors, WithLists DEF Found
<1>6. FreeCursor(mem, at, address)
  BY <1>3, <1>4, SearchCursor
<1>7. PICK page, r, R : page = LOGICALPAGENUMBER(address) /\ r = found.region /\ R = mem.regions
  OBVIOUS
<1>8. PICK o, t : o = R[r].owner /\ t = THREAD_MODE(o)
  OBVIOUS
<1>9. mem2 = [mem EXCEPT !.lists = IF r # NULL /\ MayFree(o, sender)
                                   THEN Freeing(found.lists, r, t) ELSE found.lists]
  BY <1>1, <1>2, <1>7, <1>8 DEF mmVmFree, Freeing
<1>10. /\ Shaped(R) /\ ApartAll(R) /\ \A l \in Names : Has(mem.lists, l) \subseteq 1 .. Len(R)
  BY <1>7, SoundIs
<1>11. CASE r = NULL
  <2>1. mem2 = at
    BY <1>4, <1>9, <1>11
  <2>2. Kept(mem, address, sender)
    BY <1>3, <1>7, <1>11 DEF Found, Kept
  <2> QED  BY <2>1, <2>2, <1>1, <1>5, <1>6 DEF FreeResult
<1>12. CASE r # NULL
  <2>1. LOGICALPAGEREMAINDER(address) = 0 /\ R[r].startPage = page
    BY <1>3, <1>7, <1>12 DEF Found
  <2>2. PICK s \in Space : r \in Has(mem.lists, RegionList(s))
    BY <1>3, <1>7, <1>12 DEF Found
  <2>3. UsedOk(R[r], s) /\ r \in 1 .. Len(R)
    BY <2>2, <1>7, <1>10, NamesAre DEF Sound, Lists4
  <2>4. CASE ~MayFree(o, sender)
    <3>1. mem2 = at
      BY <1>4, <1>9, <2>4
    <3>2. Kept(mem, address, sender)
      <4>1. ASSUME NEW x \in Space, NEW q \in Has(mem.lists, RegionList(x)), R[q].startPage = page
            PROVE  q = r
        <5>1. q \in 1 .. Len(R)
          BY <1>10, NamesAre
        <5> QED  BY <5>1, <4>1, <2>1, <2>3, <1>10, StartIs
      <4> QED  BY <4>1, <2>4, <1>7, <1>8 DEF Kept
    <3> QED  BY <3>1, <3>2, <1>1, <1>5, <1>6 DEF FreeResult
  <2>5. CASE MayFree(o, sender)
    <3>1. ~(o = 0 /\ Boot(R[r].startPage))
      <4>1. SUFFICES ASSUME o = 0, Boot(R[r].startPage) PROVE FALSE
        OBVIOUS
      <4>2. THREAD_MODE(sender) = "KERNEL"
        BY <4>1, <2>5 DEF MayFree
      <4> QED  BY <4>1, <4>2, <2>1, <1>7
    <3>2. t = s /\ ~Boot(R[r].startPage)
      BY <3>1, <2>3, <1>8 DEF UsedOk
    <3>3. mem2 = [lists |-> Freeing(at.lists, r, s), regions |-> at.regions]
      BY <3>2, <2>5, <1>5, <1>7, <1>9, <1>12, WithLists
    <3>4. s \in Space /\ r \in Has(at.lists, RegionList(s)) /\ ~Boot(at.regions[r].startPage)
      BY <2>2, <3>2, <1>5, <1>7, NamesAre DEF Same
    <3>5. /\ Joined(mem2) /\ Frees(at, mem2, r, s)
          /\ \A k \in Names : mem2.lists.list[k].current = at.lists.list[k].current
          /\ \A c \in Cells(at.lists, RegionList(s)) :
                at.lists.cell[c].item = r /\ s = "USER" =>
                   mem2.lists.cell[c].next \in Onward(mem2.lists)
      BY <3>3, <3>4, <1>5, FreeingIs
    <3>6. Sound(mem2)
      BY <3>5, <1>5, FreesIsSound
    <3>7. Frees(mem, mem2, r, s)
      <4>1. /\ at.regions = mem.regions
            /\ \A l \in Names : Has(at.lists, l) = Has(mem.lists, l)
        BY <1>5 DEF Same
      <4>2. /\ Has(at.lists, RegionList(s)) = Has(mem.lists, RegionList(s))
            /\ Has(at.lists, FreeList(s)) = Has(mem.lists, FreeList(s))
        BY <4>1, NamesAre
      <4> QED  BY <4>1, <4>2, <3>5 DEF Frees, Elsewhere
    <3>8. FreesAt(mem, mem2, r, s, address, sender)
      BY <3>7, <2>1, <2>5, <1>7, <1>8 DEF FreesAt
    <3>9. FreeCursor(mem, mem2, address)
      <4>1. PICK u : u = RegionList("USER")
        OBVIOUS
      <4>2. u \in Names /\ Space = {"KERNEL", "USER"}
        BY <4>1, NamesAre DEF Space
      <4>3. PICK c : c = found.lists.list[u].current
        OBVIOUS
      <4>4. mem2.lists.list[u].current = c
        BY <4>2, <4>3, <3>5, <1>5
      <4>5. CASE s = "KERNEL"
        <5>1. \E q \in Has(mem.lists, RegionList("KERNEL")) : mem.regions[q].startPage = page
          BY <4>5, <2>1, <2>2, <1>7
        <5> QED  BY <5>1, <1>7 DEF FreeCursor
      <4>6. CASE s = "USER"
        <5>1. r \in Has(mem.lists, u) /\ mem.regions[r].startPage = page
          BY <4>1, <4>6, <2>1, <2>2, <1>7
        <5>2. ASSUME ~\E q \in Has(mem.lists, RegionList("KERNEL")) :
                          mem.regions[q].startPage = page
              PROVE  c # NULL /\ mem2.lists.cell[c].next \in Onward(mem2.lists)
          <6>1. c \in Cells(mem.lists, u) /\ mem.lists.cell[c].item = r
            BY <5>2, <4>1, <4>3, <2>1, <1>3, <1>7, <1>12 DEF Found
          <6>2. /\ Holding(mem.lists, Names, Listing(mem))
                /\ SameLinks(mem.lists, at.lists, Names)
            BY <1>3, <1>5, SoundIs DEF Found
          <6>3. c \in Cells(at.lists, u) /\ at.lists.cell = mem.lists.cell
            BY <6>1, <6>2, <4>2, SameSound DEF SameLinks
          <6>4. mem2.lists.cell[c].next \in Onward(mem2.lists)
            BY <6>1, <6>3, <4>1, <4>6, <3>5
          <6>5. c # NULL
            <7>1. Cells(mem.lists, u) \subseteq mem.lists.used /\ mem.lists.used \subseteq Cell
              BY <6>2, <4>2, HoldingChain DEF Holding, MemType
            <7> QED  BY <7>1, <6>1, CellsAre
          <6> QED  BY <6>4, <6>5
        <5> QED  BY <5>1, <5>2, <4>1, <4>4, <1>7 DEF FreeCursor
      <4> QED  BY <4>2, <4>5, <4>6
    <3> QED  BY <3>6, <3>8, <3>9, <1>1 DEF FreeResult
  <2> QED  BY <2>4, <2>5
<1> QED  BY <1>11, <1>12

-----------------------------------------------------------------------------
MoveResult(mem, got, address, owner) ==
    /\ Sound(got.mem)
    /\ \/ ~got.ok /\ Same(mem, got.mem)
       \/ /\ got.ok
          /\ \E f, r, s, mem1 :
                /\ s \in Space /\ r \in Has(mem.lists, RegionList(s))
                /\ LOGICALPAGEREMAINDER(address) = 0
                /\ mem.regions[r].startPage = LOGICALPAGENUMBER(address)
                /\ Allocates(mem, mem1, f, mem.regions[r].numOfPages, owner)
                /\ Sound(mem1) /\ Frees(mem1, got.mem, r, s)
                /\ got.address = mem.regions[f].startPage * LOGICALPAGESIZE

\* What a region in use is not changed by an allocation.
LEMMA AllocatesKeeps ==
    ASSUME NEW mem, Sound(mem), NEW mem1, NEW f, NEW pages, NEW owner \in Owners,
           Allocates(mem, mem1, f, pages, owner),
           NEW s \in Space, NEW r \in Has(mem.lists, RegionList(s))
    PROVE  /\ r \in Has(mem1.lists, RegionList(s)) /\ mem1.regions[r] = mem.regions[r] /\ r # f
           /\ r \in 1 .. Len(mem.regions)
<1>1. PICK t \in Space : t = THREAD_MODE(owner)
  BY OwnersAre
<1>2. PICK R : R = mem.regions
  OBVIOUS
<1>3. /\ Shaped(R) /\ \A l \in Names : Has(mem.lists, l) \subseteq 1 .. Len(R)
      /\ \A l, k \in Names : l # k => Has(mem.lists, l) \cap Has(mem.lists, k) = {}
  <2>1. Holding(mem.lists, Names, Listing(mem))
    BY SoundIs
  <2> QED  BY <2>1, <1>2, SoundIs, HasIs
<1>4. f \in Has(mem.lists, FreeList(t)) /\ r # f /\ f \in 1 .. Len(R) /\ r \in 1 .. Len(R)
  <2>1. f \in Has(mem.lists, FreeList(t))
    BY <1>1 DEF Allocates
  <2>2. FreeList(t) \in Names /\ RegionList(s) \in Names /\ RegionList(s) # FreeList(t)
    BY NamesAre
  <2> QED  BY <2>1, <2>2, <1>3
<1>5. CASE R[f].numOfPages = pages
  <2>1. R[f].numOfPages \in Nat
    BY <1>3, <1>4, DescIs
  <2>2. Whole1(mem, mem1, f, t, owner) /\ Elsewhere(mem, mem1, t)
    BY <2>1, <1>1, <1>2, <1>5 DEF Allocates
  <2>3. mem1.regions[r] = R[r]
    <3>1. R \in Seq(RegionDesc)
      BY <1>3 DEF Shaped
    <3> QED  BY <3>1, <2>2, <1>2, <1>4 DEF Whole1
  <2>4. r \in Has(mem1.lists, RegionList(s))
    <3>1. CASE s = t
      BY <3>1, <2>2 DEF Whole1
    <3>2. CASE s # t
      <4>1. RegionList(s) \in Names /\ RegionList(s) # FreeList(t) /\ RegionList(s) # RegionList(t)
        BY <3>2, NamesAre
      <4> QED  BY <4>1, <2>2 DEF Elsewhere
    <3> QED  BY <3>1, <3>2
  <2> QED  BY <2>3, <2>4, <1>2, <1>4
<1>6. CASE R[f].numOfPages # pages
  <2>1. R[f].numOfPages \in Nat
    BY <1>3, <1>4, DescIs
  <2>2. Split1(mem, mem1, f, pages, t, owner) /\ Elsewhere(mem, mem1, t)
        /\ pages \in 1 .. R[f].numOfPages - 1
    BY <2>1, <1>1, <1>2, <1>6 DEF Allocates
  <2>3. mem1.regions[r] = R[r]
    <3>1. owner \in Int
      BY OwnersAre
    <3>2. IsSplit(R, Split(R, f, pages, owner), f, pages, owner)
      BY <3>1, <2>2, <1>3, <1>4, SplitIs
    <3> QED  BY <3>2, <2>2, <1>2, <1>4 DEF Split1, IsSplit
  <2>4. r \in Has(mem1.lists, RegionList(s))
    <3>1. CASE s = t
      BY <3>1, <2>2 DEF Split1
    <3>2. CASE s # t
      <4>1. RegionList(s) \in Names /\ RegionList(s) # FreeList(t) /\ RegionList(s) # RegionList(t)
        BY <3>2, NamesAre
      <4> QED  BY <4>1, <2>2 DEF Elsewhere
    <3> QED  BY <3>1, <3>2
  <2> QED  BY <2>3, <2>4, <1>2, <1>4
<1> QED  BY <1>5, <1>6

\* mmVmMove allocates at the new owner's and frees the old region, or changes nothing.
LEMMA MoveIs ==
    ASSUME NEW mem, Sound(mem), NEW address, NEW owner \in Users,
           ~Boot(LOGICALPAGENUMBER(address))
    PROVE  MoveResult(mem, mmVmMove(mem, address, owner), address, owner)
<1>1. PICK got : got = mmVmMove(mem, address, owner)
  OBVIOUS
<1>2. PICK found : found = getRegion(mem, address)
  OBVIOUS
<1>3. Found(mem, address, found)
  BY <1>2, GetRegionIs
<1>4. PICK at : at = [mem EXCEPT !.lists = found.lists]
  OBVIOUS
<1>5. Sound(at) /\ Same(mem, at) /\ at.lists = found.lists /\ at.regions = mem.regions
  BY <1>3, <1>4, NewCursors DEF Found
<1>6. PICK page, r, R : page = LOGICALPAGENUMBER(address) /\ r = found.region /\ R = mem.regions
  OBVIOUS
<1>7. PICK size : size = R[r].numOfPages * LOGICALPAGESIZE
  OBVIOUS
<1>8. PICK ga : ga = mmVmAlloc(at, size, owner)
  OBVIOUS
<1>9. THREAD_MODE(owner) # "KERNEL" /\ owner \in Owners
  BY OwnersAre DEF Owners
<1>10. got = IF r = NULL THEN [mem |-> at, ok |-> FALSE, address |-> address]
             ELSE IF ~ga.ok THEN [ga EXCEPT !.address = address]
             ELSE [ga EXCEPT !.mem = mmVmFree(ga.mem, address, MMTHREADID)]
  BY <1>1, <1>2, <1>4, <1>6, <1>7, <1>8, <1>9 DEF mmVmMove
<1>11. CASE r = NULL
  <2>1. got.mem = at /\ got.ok = FALSE
    BY <1>10, <1>11
  <2> QED  BY <2>1, <1>1, <1>5 DEF MoveResult
<1>12. CASE r # NULL
  <2>1. LOGICALPAGEREMAINDER(address) = 0 /\ R[r].startPage = page
    BY <1>3, <1>6, <1>12 DEF Found
  <2>2. PICK s \in Space : r \in Has(mem.lists, RegionList(s))
    BY <1>3, <1>6, <1>12 DEF Found
  <2>3. r \in 1 .. Len(R) /\ Shaped(R) /\ R[r].numOfPages \in Nat \ {0}
    <3>1. r \in 1 .. Len(R) /\ Shaped(R)
      BY <2>2, <1>6, NamesAre, SoundIs
    <3> QED  BY <3>1, DescIs
  <2>4. roundToPageUp(size) = R[r].numOfPages
    BY <2>3, <1>7, AtPage DEF L
  <2>5. AllocResult(at, ga, R[r].numOfPages, owner)
    BY <2>3, <2>4, <1>5, <1>8, <1>9, AllocIs
  <2>6. \E x, y, z : ga = [mem |-> x, ok |-> y, address |-> z]
    BY <1>8 DEF mmVmAlloc
  <2>7. CASE ~ga.ok
    <3>1. got = [ga EXCEPT !.address = address]
      BY <2>7, <1>10, <1>12
    <3>2. got.mem = ga.mem /\ got.ok = ga.ok
      BY <3>1, <2>6
    <3>3. Sound(ga.mem) /\ Same(at, ga.mem)
      BY <2>5, <2>7 DEF AllocResult
    <3>4. Same(mem, ga.mem)
      BY <3>3, <1>5 DEF Same
    <3> QED  BY <3>2, <3>3, <3>4, <2>7, <1>1 DEF MoveResult
  <2>8. CASE ga.ok
    <3>1. PICK mem1, mem2 : mem1 = ga.mem /\ mem2 = mmVmFree(mem1, address, MMTHREADID)
      OBVIOUS
    <3>2. got = [ga EXCEPT !.mem = mem2]
      BY <3>1, <2>8, <1>10, <1>12
    <3>3. got.mem = mem2 /\ got.ok = ga.ok /\ got.address = ga.address
      BY <3>2, <2>6
    <3>4. PICK f : /\ Allocates(at, mem1, f, R[r].numOfPages, owner)
                   /\ ga.address = at.regions[f].startPage * LOGICALPAGESIZE
      BY <3>1, <2>5, <2>8 DEF AllocResult
    <3>5. Sound(mem1)
      BY <3>1, <2>5 DEF AllocResult
    <3>6. Allocates(mem, mem1, f, R[r].numOfPages, owner)
      BY <3>4, <1>5, <1>9, AllocatesSame
    <3>7. r \in Has(mem1.lists, RegionList(s)) /\ mem1.regions[r] = R[r]
      BY <3>6, <2>2, <1>6, <1>9, AllocatesKeeps
    <3>8. MMTHREADID # 0 /\ THREAD_MODE(MMTHREADID) = "KERNEL"
      BY OwnersAre DEF MMTHREADID
    <3>9. FreeResult(mem1, mem2, address, MMTHREADID)
      BY <3>1, <3>5, <3>8, FreeIs
    <3>10. ~Kept(mem1, address, MMTHREADID)
      <4>1. MayFree(mem1.regions[r].owner, MMTHREADID)
        BY <3>8 DEF MayFree
      <4> QED  BY <4>1, <3>7, <2>1, <1>6 DEF Kept
    <3>11. PICK t, q : FreesAt(mem1, mem2, q, t, address, MMTHREADID)
      BY <3>9, <3>10 DEF FreeResult
    <3>12. t \in Space /\ q \in Has(mem1.lists, RegionList(t)) /\ mem1.regions[q].startPage = page
           /\ Frees(mem1, mem2, q, t)
      BY <3>11, <1>6 DEF FreesAt, Frees
    <3>13. q = r /\ RegionList(t) = RegionList(s)
      <4>1. /\ \A l \in Names : Has(mem1.lists, l) \subseteq 1 .. Len(mem1.regions)
            /\ Shaped(mem1.regions) /\ ApartAll(mem1.regions)
            /\ Holding(mem1.lists, Names, Listing(mem1))
        BY <3>5, SoundIs
      <4>2. RegionList(t) \in Names /\ RegionList(s) \in Names
        BY <3>12, NamesAre
      <4>3. q \in 1 .. Len(mem1.regions) /\ r \in 1 .. Len(mem1.regions)
        BY <4>1, <4>2, <3>7, <3>12
      <4>4. mem1.regions[q].startPage = mem1.regions[r].startPage
        BY <3>7, <3>12, <2>1
      <4>5. q = r
        BY <4>1, <4>3, <4>4, StartIs
      <4> QED  BY <4>1, <4>2, <4>5, <3>7, <3>12, HasIs
    <3>14. t = s
      BY <3>12, <3>13, NamesAre
    <3>15. Sound(mem2) /\ Frees(mem1, mem2, r, s)
      BY <3>9, <3>12, <3>13, <3>14 DEF FreeResult
    <3> QED  BY <3>3, <3>4, <3>5, <3>6, <3>15, <2>1, <2>2, <2>8, <1>1, <1>5, <1>6 DEF MoveResult
  <2> QED  BY <2>7, <2>8
<1> QED  BY <1>11, <1>12

-----------------------------------------------------------------------------
(* The memory that mmVmInit leaves.                                        *)

NothingYet == [lists |-> listNew, regions |-> << >>]

\* The memories when the first parts have got their regions.
Made(f, n) ==
    f = [i \in 0 .. n |->
            IF i = 0 THEN NothingYet
            ELSE vmInitRegion(f[i - 1], Parts[i].list, Parts[i].addr, Parts[i].size)]

\* The recursion is well founded, as far as one likes.
LEMMA MadeExists ==
    ASSUME NEW N \in Nat
    PROVE  \E f : Made(f, N)
<1> DEFINE Step(i, g) == IF i = 0 THEN NothingYet
                         ELSE vmInitRegion(g, Parts[i].list, Parts[i].addr, Parts[i].size)
           S == {k \in 0 .. N : \E f : Made(f, k)}
<1>1. 0 \in S
  <2> DEFINE f == [i \in 0 .. 0 |-> NothingYet]
  <2>1. \A i \in 0 .. 0 : NothingYet = Step(i, f[i - 1])
    OBVIOUS
  <2>2. Made(f, 0)
    BY <2>1 DEF Made
  <2> QED BY <2>2
<1>2. ASSUME NEW k \in 0 .. N - 1, k \in S PROVE k + 1 \in S
  <2>1. PICK f : Made(f, k)
    BY <1>2
  <2> DEFINE g == [i \in 0 .. k + 1 |-> IF i = k + 1 THEN Step(k + 1, f[k]) ELSE f[i]]
  <2>2. \A i \in 0 .. k : f[i] = Step(i, f[i - 1])
    BY <2>1 DEF Made
  <2>3. \A i \in 0 .. k + 1 : g[i] = Step(i, g[i - 1])
    <3> TAKE i \in 0 .. k + 1
    <3>0. k \in Nat /\ i \in Nat
      OBVIOUS
    <3>1. CASE i = k + 1
      <4>1. g[i] = Step(k + 1, f[k]) /\ g[i - 1] = f[k]
        BY <3>1
      <4> QED BY <4>1, <3>1
    <3>2. CASE i \in 1 .. k
      <4>1. g[i] = f[i] /\ g[i - 1] = f[i - 1] /\ i \in 0 .. k
        BY <3>2
      <4> QED BY <4>1, <2>2
    <3>3. CASE i = 0
      <4>0. 0 \in 0 .. k /\ 0 \in 0 .. k + 1 /\ 0 # k + 1
        BY <3>0
      <4>1. g[0] = f[0] /\ f[0] = Step(0, f[0 - 1])
        BY <2>2, <4>0
      <4>2. \A x, y : Step(0, x) = Step(0, y)
        OBVIOUS
      <4>3. g[0] = Step(0, g[0 - 1])
        BY <4>1, <4>2
      <4> QED BY <4>3, <3>3
    <3>4. i = k + 1 \/ i \in 1 .. k \/ i = 0
      BY <3>0
    <3> HIDE DEF g, Step
    <3> QED BY <3>1, <3>2, <3>3, <3>4
  <2>4. g = [i \in 0 .. k + 1 |-> g[i]]
    OBVIOUS
  <2> HIDE DEF g
  <2>5. Made(g, k + 1)
    BY <2>3, <2>4 DEF Made
  <2> QED BY <2>5
<1> HIDE DEF S
<1>3. 0 .. N \subseteq S
  BY <1>1, <1>2, Induct
<1> QED BY <1>3 DEF S

\* Which part gets its region in which list.
LEMMA PartsAre ==
    /\ Len(Parts) = 10
    /\ \A s \in Space : \A j \in 1 .. 10 :
          /\ Parts[j].list = FreeList(s) =>
                j = (IF s = "KERNEL" THEN 7 ELSE 10)
          /\ Parts[j].list = RegionList(s) =>
                j \in (IF s = "KERNEL" THEN 1 .. 6 ELSE {8, 9})
    /\ \A j \in 1 .. 10 : Parts[j].list \in Names
    /\ Parts[7].list = FreeList("KERNEL") /\ Parts[10].list = FreeList("USER")
    /\ \A j \in 1 .. 6 : Parts[j].list = RegionList("KERNEL")
    /\ \A j \in {8, 9} : Parts[j].list = RegionList("USER")
<1>1. \A j \in 1 .. 10 : j \in 1 .. 6 \/ j = 7 \/ j \in {8, 9} \/ j = 10
  OBVIOUS
<1>2. \A j \in 1 .. 6 : j = 1 \/ j = 2 \/ j = 3 \/ j = 4 \/ j = 5 \/ j = 6
  OBVIOUS
<1>3. Len(Parts) = 10
  BY DEF Parts
<1>4. /\ Parts[1].list = RegionList("KERNEL") /\ Parts[2].list = RegionList("KERNEL")
      /\ Parts[3].list = RegionList("KERNEL") /\ Parts[4].list = RegionList("KERNEL")
      /\ Parts[5].list = RegionList("KERNEL") /\ Parts[6].list = RegionList("KERNEL")
      /\ Parts[7].list = FreeList("KERNEL")
      /\ Parts[8].list = RegionList("USER") /\ Parts[9].list = RegionList("USER")
      /\ Parts[10].list = FreeList("USER")
  BY DEF Parts, Part
<1>5. \A j \in 1 .. 6 : Parts[j].list = RegionList("KERNEL")
  BY <1>2, <1>4
<1>6. \A j \in {8, 9} : Parts[j].list = RegionList("USER")
  BY <1>4
<1>7. \A s \in Space : s = "KERNEL" \/ s = "USER"
  BY DEF Space
<1>8. "KERNEL" \in Space /\ "USER" \in Space
  BY DEF Space
<1>9. RegionList("KERNEL") \in Names /\ RegionList("USER") \in Names
      /\ FreeList("KERNEL") \in Names /\ FreeList("USER") \in Names
  BY <1>8, NamesAre
<1>10. \A j \in 1 .. 10 : Parts[j].list \in Names
  BY <1>1, <1>4, <1>5, <1>6, <1>9
<1>11. ASSUME NEW s \in Space, NEW j \in 1 .. 10
       PROVE  /\ Parts[j].list = FreeList(s) => j = (IF s = "KERNEL" THEN 7 ELSE 10)
              /\ Parts[j].list = RegionList(s) => j \in (IF s = "KERNEL" THEN 1 .. 6 ELSE {8, 9})
  <2>1. CASE j \in 1 .. 6
    <3>1. Parts[j].list = RegionList("KERNEL")
      BY <1>5, <2>1
    <3>2. RegionList("KERNEL") # FreeList(s) /\ (RegionList("KERNEL") = RegionList(s) => s = "KERNEL")
      BY <1>8, NamesAre
    <3> QED  BY <3>1, <3>2, <2>1
  <2>2. CASE j = 7
    <3>1. FreeList("KERNEL") # RegionList(s) /\ (FreeList("KERNEL") = FreeList(s) => s = "KERNEL")
      BY <1>8, NamesAre
    <3> QED  BY <3>1, <2>2, <1>4
  <2>3. CASE j \in {8, 9}
    <3>1. Parts[j].list = RegionList("USER")
      BY <1>6, <2>3
    <3>2. RegionList("USER") # FreeList(s) /\ (RegionList("USER") = RegionList(s) => s = "USER")
      BY <1>8, NamesAre
    <3>3. "USER" # "KERNEL"
      OBVIOUS
    <3> QED  BY <3>1, <3>2, <3>3, <2>3
  <2>4. CASE j = 10
    <3>1. FreeList("USER") # RegionList(s) /\ (FreeList("USER") = FreeList(s) => s = "USER")
      BY <1>8, NamesAre
    <3>2. "USER" # "KERNEL"
      OBVIOUS
    <3> QED  BY <3>1, <3>2, <2>4, <1>4
  <2> QED  BY <2>1, <2>2, <2>3, <2>4, <1>1
<1> QED  BY <1>3, <1>4, <1>5, <1>6, <1>10, <1>11

\* mmVmInit is the last of them.
LEMMA MadeIs == \E f : Made(f, 10) /\ mmVmInit = f[10]
<1>1. PICK h : Made(h, 10)
  BY MadeExists
<1> DEFINE f == CHOOSE f : f = [i \in 0 .. Len(Parts) |->
            IF i = 0 THEN [lists |-> listNew, regions |-> << >>]
            ELSE vmInitRegion(f[i - 1], Parts[i].list, Parts[i].addr, Parts[i].size)]
<1>2. Made(f, Len(Parts))
  BY <1>1, PartsAre DEF Made, NothingYet
<1>3. mmVmInit = f[Len(Parts)]
  BY DEF mmVmInit
<1> QED BY <1>2, <1>3, PartsAre

\* What is built when the first n parts have their regions.
Built(mem, n) ==
    /\ mem = [lists |-> mem.lists, regions |-> mem.regions]
    /\ Holding(mem.lists, Names, 1 .. n)
    /\ mem.regions \in Seq(RegionDesc) /\ Len(mem.regions) = n
    /\ \A j \in 1 .. n : mem.regions[j] = [startPage |-> PartStart(j), numOfPages |-> PartPages(j),
                                           owner |-> 0]
    /\ \A l \in Names : /\ Has(mem.lists, l) = {j \in 1 .. n : Parts[j].list = l}
                        /\ mem.lists.list[l].current = NULL

\* listNew: empty lists.
LEMMA NewBuilt == Built(NothingYet, 0)
<1>1. PICK m : m = listNew
  OBVIOUS
<1>2. NULL = 0 /\ NULL \in Link /\ NULL \in Nat
  BY CellsAre DEF Link
<1>3. /\ m = [cell |-> m.cell, used |-> m.used, list |-> m.list]
      /\ m.cell = [c \in Cell |-> [item |-> NULL, next |-> NULL, prev |-> NULL]]
      /\ m.used = {}
      /\ m.list = [l \in Names |-> [first |-> NULL, current |-> NULL, last |-> NULL]]
  BY <1>1 DEF listNew, Names
<1>4. m.cell \in [Cell -> [item : Nat, next : Link, prev : Link]]
  BY <1>2, <1>3
<1>5. m.list \in [Names -> [first : Link, current : Link, last : Link]]
  BY <1>2, <1>3
<1>6. MemType(m, Names)
  BY <1>3, <1>4, <1>5 DEF MemType
<1>7. ASSUME NEW l \in Names
      PROVE  IsList(m, l, Chain(m, l)) /\ Cells(m, l) = {} /\ Has(m, l) = {}
             /\ m.list[l].current = NULL
  <2>1. PICK q : q = << >>
    OBVIOUS
  <2>2. q \in Seq(Cell) /\ Len(q) = 0
    BY <2>1
  <2>3. IsList(m, l, q)
    BY <2>2, <1>3 DEF IsList, Along
  <2>4. Chain(m, l) = q
    BY <2>3, ChainIs
  <2>5. Cells(m, l) = {}
    BY <2>2, <2>4 DEF Cells
  <2> QED  BY <2>3, <2>4, <2>5, <1>3 DEF Has
<1>8. Holding(m, Names, {})
  BY <1>3, <1>6, <1>7 DEF Holding
<1>9. 1 .. 0 = {}
  OBVIOUS
<1>10. << >> \in Seq(RegionDesc) /\ Len(<< >>) = 0
  OBVIOUS
<1>11. PICK mem : mem = NothingYet
  OBVIOUS
<1>12. mem = [lists |-> m, regions |-> << >>]
  BY <1>1, <1>11 DEF NothingYet
<1>13. mem.lists = m /\ mem.regions = << >>
  BY <1>12
<1>14. Built(mem, 0)
  BY <1>7, <1>8, <1>9, <1>10, <1>12, <1>13 DEF Built
<1> QED  BY <1>11, <1>14

\* vmInitRegion puts one more into its list.
LEMMA MoreBuilt ==
    ASSUME NEW mem, NEW n \in 0 .. 9, Built(mem, n), NEW k, k = n + 1
    PROVE  Built(vmInitRegion(mem, Parts[k].list, Parts[k].addr, Parts[k].size), k)
<1>0. n \in Nat /\ k \in 1 .. 10 /\ n < 10 /\ k \in Nat /\ k \notin 1 .. n /\ 1 .. k = (1 .. n) \cup {k}
  OBVIOUS
<1>1. PICK m, l, R : m = mem.lists /\ l = Parts[k].list /\ R = mem.regions
  OBVIOUS
<1>2. l \in Names
  BY <1>0, <1>1, PartsAre
<1>3. Holding(m, Names, 1 .. n) /\ R \in Seq(RegionDesc) /\ Len(R) = n
  BY <1>1 DEF Built
<1>4. HasRoom(m)
  <2>1. n < NbCells
    BY <1>0, VmAssumption
  <2> QED  BY <2>1, <1>0, <1>3, RoomIs
<1>5. PICK m2 : m2 = listAddInFront(m, l, k)
  OBVIOUS
<1>6. Holding(m2, Names, (1 .. n) \cup {k}) /\ Gains(m, m2, Names, l, k)
  BY <1>0, <1>2, <1>3, <1>4, <1>5, AddSound
<1>7. PICK d : d = [startPage |-> PartStart(k), numOfPages |-> PartPages(k), owner |-> 0]
  OBVIOUS
<1>8. d \in RegionDesc
  <2>1. PartStart(k) \in Nat /\ PartPages(k) \in Nat
    BY <1>0, Tiles DEF Tile
  <2> QED  BY <2>1, <1>7 DEF RegionDesc
<1>9. PICK mem2 : mem2 = vmInitRegion(mem, Parts[k].list, Parts[k].addr, Parts[k].size)
  OBVIOUS
<1>10. mem2 = [lists |-> m2, regions |-> Append(R, d)]
  <2>1. Len(mem.regions) + 1 = k
    BY <1>1, <1>3
  <2> QED  BY <2>1, <1>1, <1>5, <1>7, <1>9 DEF vmInitRegion, PartStart, PartPages
<1>11. mem2.lists = m2 /\ mem2.regions = Append(R, d)
       /\ mem2 = [lists |-> mem2.lists, regions |-> mem2.regions]
  BY <1>10
<1>12. /\ Append(R, d) \in Seq(RegionDesc) /\ Len(Append(R, d)) = k /\ Append(R, d)[k] = d
       /\ \A j \in 1 .. n : Append(R, d)[j] = R[j]
  BY <1>3, <1>8
<1>13. \A j \in 1 .. k : mem2.regions[j] = [startPage |-> PartStart(j), numOfPages |-> PartPages(j),
                                           owner |-> 0]
  <2>1. \A j \in 1 .. n : R[j] = [startPage |-> PartStart(j), numOfPages |-> PartPages(j),
                                  owner |-> 0]
    BY <1>1 DEF Built
  <2>2. \A j \in 1 .. k : j \in 1 .. n \/ j = k
    BY <1>0
  <2> QED  BY <2>1, <2>2, <1>7, <1>11, <1>12
<1>14. ASSUME NEW t \in Names
       PROVE  /\ Has(m2, t) = {j \in 1 .. k : Parts[j].list = t}
              /\ m2.list[t].current = NULL
  <2>1. Has(m, t) = {j \in 1 .. n : Parts[j].list = t} /\ m.list[t].current = NULL
    BY <1>1 DEF Built
  <2>2. m2.list[t].current = NULL
    BY <2>1, <1>6 DEF Gains
  <2>3. CASE t = l
    <3>1. Has(m2, t) = Has(m, t) \cup {k}
      BY <2>3, <1>6 DEF Gains
    <3> QED  BY <3>1, <2>1, <2>2, <2>3, <1>0, <1>1
  <2>4. CASE t # l
    <3>1. Has(m2, t) = Has(m, t)
      BY <2>4, <1>6 DEF Gains
    <3> QED  BY <3>1, <2>1, <2>2, <2>4, <1>0, <1>1
  <2> QED  BY <2>3, <2>4
<1>15. Built(mem2, k)
  BY <1>0, <1>6, <1>11, <1>12, <1>13, <1>14 DEF Built
<1> QED  BY <1>9, <1>15

\* All ten are built.
LEMMA AllBuilt == Built(mmVmInit, 10)
<1>1. PICK f : Made(f, 10) /\ mmVmInit = f[10]
  BY MadeIs
<1> DEFINE S == {i \in 0 .. 10 : Built(f[i], i)}
<1>2. 0 \in S
  <2>1. f[0] = NothingYet
    BY <1>1 DEF Made
  <2> QED  BY <2>1, NewBuilt
<1>3. ASSUME NEW n \in 0 .. 9, n \in S PROVE n + 1 \in S
  <2>1. PICK k : k = n + 1
    OBVIOUS
  <2>2. k \in 1 .. 10 /\ k - 1 = n
    BY <2>1
  <2>3. f[k] = vmInitRegion(f[n], Parts[k].list, Parts[k].addr, Parts[k].size)
    BY <2>2, <1>1 DEF Made
  <2>4. Built(f[k], k)
    BY <2>1, <2>3, <1>3, MoreBuilt
  <2> QED  BY <2>1, <2>2, <2>4
<1>4. 0 .. 10 \subseteq S
  <2>1. 10 \in Nat /\ 10 - 1 = 9
    OBVIOUS
  <2> HIDE DEF S
  <2> QED  BY <2>1, <1>2, <1>3, Induct
<1> QED  BY <1>1, <1>4

\* The parts follow one another.
LEMMA PartOrder ==
    /\ \A i \in 1 .. 10 : PartStart(i) \in Nat /\ PartPages(i) \in Nat \ {0}
    /\ \A i, j \in 1 .. 10 : i < j => PartStart(i) + PartPages(i) <= PartStart(j)
<1>1. \A i \in 1 .. 10 : PartStart(i) \in Nat /\ PartPages(i) \in Nat \ {0}
  BY Tiles DEF Tile
<1>2. ASSUME NEW i \in 1 .. 9
      PROVE  PartStart(i) + PartPages(i) <= PartStart(i + 1)
  <2>1. i = 1 \/ i = 2 \/ i = 3 \/ i = 4 \/ i = 5 \/ i = 6 \/ i = 7 \/ i = 8 \/ i = 9
    OBVIOUS
  <2>2. /\ PartStart(2) = PartStart(1) + PartPages(1)
        /\ PartStart(3) = PartStart(2) + PartPages(2)
        /\ PartStart(4) = PartStart(3) + PartPages(3)
        /\ PartStart(5) = PartStart(4) + PartPages(4)
        /\ PartStart(6) = PartStart(5) + PartPages(5)
        /\ PartStart(7) = PartStart(6) + PartPages(6)
        /\ K + 1        = PartStart(7) + PartPages(7)
        /\ PartStart(8) = K + 2 /\ K \in Nat
        /\ PartStart(9) = PartStart(8) + PartPages(8)
        /\ PartStart(10) = PartStart(9) + PartPages(9)
    BY Tiles DEF Tile
  <2>3. CASE i = 7
    <3>1. i + 1 = 8 /\ PartPages(7) \in Nat /\ PartStart(7) \in Nat
      BY <2>3, <1>1
    <3> QED  BY <3>1, <2>2, <2>3
  <2>4. CASE i # 7
    <3>1. PartStart(i) \in Nat /\ PartPages(i) \in Nat
      BY <1>1
    <3>2. PartStart(i + 1) = PartStart(i) + PartPages(i)
      BY <2>1, <2>2, <2>4
    <3> QED  BY <3>1, <3>2
  <2> QED  BY <2>3, <2>4
<1>3. ASSUME NEW i \in 1 .. 10, NEW j \in 1 .. 10, i < j
      PROVE  PartStart(i) + PartPages(i) <= PartStart(j)
  <2>1. PICK n \in Nat : n = 9 - i /\ i + 1 + n = 10
    <3>1. i <= 9
      BY <1>3
    <3> QED  BY <3>1
  <2> DEFINE S == {k \in 0 .. n : PartStart(i) + PartPages(i) <= PartStart(i + 1 + k)}
  <2>2. 0 \in S
    <3>1. i \in 1 .. 9 /\ i + 1 + 0 = i + 1
      BY <1>3
    <3>2. 0 \in 0 .. n
      OBVIOUS
    <3> QED  BY <3>1, <3>2, <1>2
  <2>3. ASSUME NEW k \in 0 .. n - 1, k \in S PROVE k + 1 \in S
    <3>1. PICK e : e = i + 1 + k
      OBVIOUS
    <3>2. e \in 1 .. 9 /\ e + 1 = i + 1 + (k + 1)
      BY <3>1, <2>1
    <3>3. PartStart(e) + PartPages(e) <= PartStart(e + 1)
      BY <3>2, <1>2
    <3>4. PartStart(e) \in Nat /\ PartPages(e) \in Nat /\ PartStart(e + 1) \in Nat
      BY <3>2, <1>1
    <3>5. PartStart(i) + PartPages(i) <= PartStart(e)
      BY <3>1, <2>3
    <3>6. PartStart(i) \in Nat /\ PartPages(i) \in Nat
      BY <1>1
    <3>7. PartStart(i) + PartPages(i) <= PartStart(e + 1)
      BY <3>3, <3>4, <3>5, <3>6
    <3> QED  BY <3>2, <3>7
  <2>4. 0 .. n \subseteq S
    <3> HIDE DEF S
    <3> QED  BY <2>2, <2>3, Induct
  <2>5. PICK k : k = j - (i + 1)
    OBVIOUS
  <2>6. k \in 0 .. n /\ i + 1 + k = j
    BY <2>1, <2>5, <1>3
  <2> QED  BY <2>4, <2>6
<1> QED  BY <1>1, <1>3

\* The regions at the start.
LEMMA FirstDesc ==
    ASSUME NEW R, R = mmVmInit.regions, NEW j \in 1 .. 10
    PROVE  /\ R[j].startPage = PartStart(j) /\ R[j].numOfPages = PartPages(j) /\ R[j].owner = 0
           /\ Span(R[j]) = PartStart(j) .. PartStart(j) + PartPages(j) - 1
<1>1. R[j] = [startPage |-> PartStart(j), numOfPages |-> PartPages(j), owner |-> 0]
  BY AllBuilt DEF Built
<1>2. R[j].startPage = PartStart(j) /\ R[j].numOfPages = PartPages(j) /\ R[j].owner = 0
  BY <1>1
<1> QED  BY <1>2 DEF Span

\* The first regions cover both spaces.
LEMMA FirstCovers == Covers(mmVmInit.regions)
<1>1. PICK R : R = mmVmInit.regions
  OBVIOUS
<1>2. Len(R) = 10
  BY <1>1, AllBuilt DEF Built
<1>3. \A j \in 1 .. 10 : Span(R[j]) = PartStart(j) .. PartStart(j) + PartPages(j) - 1
  BY <1>1, FirstDesc
<1>4. \A i \in 1 .. 10 : PartStart(i) \in Nat /\ PartPages(i) \in Nat
  BY PartOrder
<1>5. /\ PartStart(1) = 1
      /\ PartStart(2) = PartStart(1) + PartPages(1)
      /\ PartStart(3) = PartStart(2) + PartPages(2)
      /\ PartStart(4) = PartStart(3) + PartPages(3)
      /\ PartStart(5) = PartStart(4) + PartPages(4)
      /\ PartStart(6) = PartStart(5) + PartPages(5)
      /\ PartStart(7) = PartStart(6) + PartPages(6)
      /\ K + 1        = PartStart(7) + PartPages(7)
      /\ PartStart(8) = K + 2
      /\ PartStart(9) = PartStart(8) + PartPages(8)
      /\ PartStart(10) = PartStart(9) + PartPages(9)
      /\ K + 2 + U    = PartStart(10) + PartPages(10)
      /\ PagesOfSpace("KERNEL") = 1 .. K
      /\ PagesOfSpace("USER") = K + 2 .. K + 1 + U
      /\ K \in Nat /\ U \in Nat
  BY Tiles DEF Tile
<1>6. ASSUME NEW p \in Int, NEW j \in 1 .. 10, PartStart(j) <= p, p < PartStart(j) + PartPages(j)
      PROVE  \E i \in 1 .. Len(R) : p \in Span(R[i])
  <2>1. p \in Span(R[j])
    <3>1. PICK a \in Nat, n \in Nat : a = PartStart(j) /\ n = PartPages(j)
      BY <1>4
    <3>2. Span(R[j]) = a .. a + n - 1
      BY <3>1, <1>3
    <3>3. p \in a .. a + n - 1
      BY <3>1, <1>6
    <3> QED  BY <3>2, <3>3
  <2> QED  BY <2>1, <1>2
<1>7. ASSUME NEW p \in 1 .. K
      PROVE  \E j \in 1 .. 10 : PartStart(j) <= p /\ p < PartStart(j) + PartPages(j)
  <2>1. PartStart(1) <= p /\ p < PartStart(7) + PartPages(7)
    BY <1>5
  <2>2. /\ PartStart(1) \in Nat /\ PartStart(2) \in Nat /\ PartStart(3) \in Nat /\ PartStart(4) \in Nat
        /\ PartStart(5) \in Nat /\ PartStart(6) \in Nat /\ PartStart(7) \in Nat
    BY <1>4
  <2>3. CASE p < PartStart(2)
    BY <2>1, <2>3, <1>5
  <2>4. CASE PartStart(2) <= p /\ p < PartStart(3)
    BY <2>4, <1>5
  <2>5. CASE PartStart(3) <= p /\ p < PartStart(4)
    BY <2>5, <1>5
  <2>6. CASE PartStart(4) <= p /\ p < PartStart(5)
    BY <2>6, <1>5
  <2>7. CASE PartStart(5) <= p /\ p < PartStart(6)
    BY <2>7, <1>5
  <2>8. CASE PartStart(6) <= p /\ p < PartStart(7)
    BY <2>8, <1>5
  <2>9. CASE PartStart(7) <= p
    BY <2>1, <2>9
  <2> QED  BY <2>2, <2>3, <2>4, <2>5, <2>6, <2>7, <2>8, <2>9
<1>8. ASSUME NEW p \in K + 2 .. K + 1 + U
      PROVE  \E j \in 1 .. 10 : PartStart(j) <= p /\ p < PartStart(j) + PartPages(j)
  <2>1. PartStart(8) <= p /\ p < PartStart(10) + PartPages(10)
    BY <1>5
  <2>2. PartStart(8) \in Nat /\ PartStart(9) \in Nat /\ PartStart(10) \in Nat
    BY <1>4
  <2>3. CASE p < PartStart(9)
    BY <2>1, <2>3, <1>5
  <2>4. CASE PartStart(9) <= p /\ p < PartStart(10)
    BY <2>4, <1>5
  <2>5. CASE PartStart(10) <= p
    BY <2>1, <2>5
  <2>6. p \in Int
    BY <1>5
  <2> QED  BY <2>2, <2>3, <2>4, <2>5, <2>6
<1>9. ASSUME NEW s \in Space, NEW p \in PagesOfSpace(s)
      PROVE  \E i \in 1 .. Len(R) : p \in Span(R[i])
  <2>1. p \in Int /\ (p \in 1 .. K \/ p \in K + 2 .. K + 1 + U)
    BY <1>5 DEF Space
  <2>2. PICK j \in 1 .. 10 : PartStart(j) <= p /\ p < PartStart(j) + PartPages(j)
    BY <2>1, <1>7, <1>8
  <2> QED  BY <2>1, <2>2, <1>6
<1> QED  BY <1>1, <1>9 DEF Covers

\* mmVmInit leaves a sound memory.
LEMMA FirstSound == Sound(mmVmInit)
<1>1. PICK mem : mem = mmVmInit
  OBVIOUS
<1>2. PICK R : R = mem.regions
  OBVIOUS
<1>3. Built(mem, 10)
  BY <1>1, AllBuilt
<1>4. R \in Seq(RegionDesc) /\ Len(R) = 10
  BY <1>2, <1>3 DEF Built
<1>5. \A j \in 1 .. 10 :
         /\ R[j].startPage = PartStart(j) /\ R[j].numOfPages = PartPages(j) /\ R[j].owner = 0
         /\ Span(R[j]) = PartStart(j) .. PartStart(j) + PartPages(j) - 1
  BY <1>1, <1>2, FirstDesc
<1>6. Shaped(R)
  <2>1. \A j \in 1 .. 10 : R[j].numOfPages > 0
    <3> TAKE j \in 1 .. 10
    <3>1. R[j].numOfPages = PartPages(j)
      BY <1>5
    <3>2. PartPages(j) \in Nat \ {0}
      BY PartOrder
    <3> QED  BY <3>1, <3>2
  <2>2. 10 <= NbRegions
    BY VmAssumption
  <2> QED  BY <2>1, <2>2, <1>4 DEF Shaped
<1>7. ApartAll(R)
  <2>1. ASSUME NEW i \in 1 .. 10, NEW j \in 1 .. 10, i < j
        PROVE  Span(R[i]) \cap Span(R[j]) = {}
    <3>1. PartStart(i) + PartPages(i) <= PartStart(j)
      BY <2>1, PartOrder
    <3>2. PartStart(i) \in Nat /\ PartPages(i) \in Nat /\ PartStart(j) \in Nat /\ PartPages(j) \in Nat
      BY PartOrder
    <3>3. /\ Span(R[i]) = PartStart(i) .. PartStart(i) + PartPages(i) - 1
          /\ Span(R[j]) = PartStart(j) .. PartStart(j) + PartPages(j) - 1
      BY <1>5
    <3> QED  BY <3>1, <3>2, <3>3
  <2>2. ASSUME NEW i \in 1 .. 10, NEW j \in 1 .. 10, i # j
        PROVE  Span(R[i]) \cap Span(R[j]) = {}
    <3>1. CASE i < j
      BY <3>1, <2>1
    <3>2. CASE j < i
      BY <3>2, <2>1
    <3> QED  BY <3>1, <3>2, <2>2
  <2> QED  BY <2>2, <1>4 DEF ApartAll
<1>8. Covers(R)
  BY <1>1, <1>2, FirstCovers
<1>9. /\ K \in Nat /\ U \in Nat
      /\ PartStart(1) = 1 /\ K + 1 = PartStart(7) + PartPages(7)
      /\ PartStart(8) = K + 2 /\ K + 2 + U = PartStart(10) + PartPages(10)
      /\ PagesOfSpace("KERNEL") = 1 .. K
      /\ PagesOfSpace("USER") = K + 2 .. K + 1 + U
      /\ LOGICALPAGENUMBER(KernelRest) = PartStart(7)
      /\ LOGICALPAGENUMBER(UserRest) = PartStart(10)
      /\ LOGICALPAGENUMBER(UserStart) = K + 2
  BY Tiles DEF Tile
<1>10. ASSUME NEW j \in 1 .. 10
       PROVE  PartStart(j) \in Nat /\ PartPages(j) \in Nat \ {0}
  BY PartOrder
<1>11. ASSUME NEW j \in 1 .. 7
       PROVE  1 <= PartStart(j) /\ PartStart(j) + PartPages(j) <= K + 1
  <2>1. 1 <= PartStart(j)
    <3>1. CASE j = 1
      BY <3>1, <1>9
    <3>2. CASE j # 1
      <4>1. 1 < j /\ 1 \in 1 .. 10 /\ j \in 1 .. 10
        BY <3>2
      <4>2. PartStart(1) + PartPages(1) <= PartStart(j)
        BY <4>1, PartOrder
      <4>3. PartPages(1) \in Nat /\ PartStart(j) \in Nat
        BY <4>1, <1>10
      <4> QED  BY <4>2, <4>3, <1>9
    <3> QED  BY <3>1, <3>2
  <2>2. PartStart(j) + PartPages(j) <= K + 1
    <3>1. CASE j = 7
      BY <3>1, <1>9
    <3>2. CASE j # 7
      <4>1. j < 7 /\ 7 \in 1 .. 10 /\ j \in 1 .. 10
        BY <3>2
      <4>2. PartStart(j) + PartPages(j) <= PartStart(7)
        BY <4>1, PartOrder
      <4>3. PartPages(7) \in Nat /\ PartStart(7) \in Nat /\ PartStart(j) \in Nat /\ PartPages(j) \in Nat
        BY <4>1, <1>10
      <4> QED  BY <4>2, <4>3, <1>9
    <3> QED  BY <3>1, <3>2
  <2> QED  BY <2>1, <2>2
<1>12. ASSUME NEW j \in 8 .. 10
       PROVE  K + 2 <= PartStart(j) /\ PartStart(j) + PartPages(j) <= K + 2 + U
  <2>1. K + 2 <= PartStart(j)
    <3>1. CASE j = 8
      BY <3>1, <1>9
    <3>2. CASE j # 8
      <4>1. 8 < j /\ 8 \in 1 .. 10 /\ j \in 1 .. 10
        BY <3>2
      <4>2. PartStart(8) + PartPages(8) <= PartStart(j)
        BY <4>1, PartOrder
      <4>3. PartPages(8) \in Nat /\ PartStart(j) \in Nat
        BY <4>1, <1>10
      <4> QED  BY <4>2, <4>3, <1>9
    <3> QED  BY <3>1, <3>2
  <2>2. PartStart(j) + PartPages(j) <= K + 2 + U
    <3>1. CASE j = 10
      BY <3>1, <1>9
    <3>2. CASE j # 10
      <4>1. j < 10 /\ 10 \in 1 .. 10 /\ j \in 1 .. 10
        BY <3>2
      <4>2. PartStart(j) + PartPages(j) <= PartStart(10)
        BY <4>1, PartOrder
      <4>3. PartPages(10) \in Nat /\ PartStart(10) \in Nat /\ PartStart(j) \in Nat /\ PartPages(j) \in Nat
        BY <4>1, <1>10
      <4> QED  BY <4>2, <4>3, <1>9
    <3> QED  BY <3>1, <3>2
  <2> QED  BY <2>1, <2>2
<1>13. \A j \in 1 .. 7 : Span(R[j]) \subseteq PagesOfSpace("KERNEL")
  <2> TAKE j \in 1 .. 7
  <2>1. PICK a \in Nat, n \in Nat : a = PartStart(j) /\ n = PartPages(j)
    BY <1>10
  <2>2. Span(R[j]) = a .. a + n - 1
    BY <2>1, <1>5
  <2>3. 1 <= a /\ a + n <= K + 1
    BY <2>1, <1>11
  <2> QED  BY <2>2, <2>3, <1>9
<1>14. \A j \in 8 .. 10 : Span(R[j]) \subseteq PagesOfSpace("USER")
  <2> TAKE j \in 8 .. 10
  <2>1. PICK a \in Nat, n \in Nat : a = PartStart(j) /\ n = PartPages(j)
    BY <1>10
  <2>2. Span(R[j]) = a .. a + n - 1
    BY <2>1, <1>5
  <2>3. K + 2 <= a /\ a + n <= K + 2 + U
    BY <2>1, <1>12
  <2> QED  BY <2>2, <2>3, <1>9
<1>15. FreeOk(R[7], "KERNEL")
  <2>1. R[7].startPage = PartStart(7) /\ PartStart(7) \in Nat /\ PartPages(7) \in Nat
    BY <1>5, <1>10
  <2>2. PartStart(7) <= K + 1
    BY <2>1, <1>9
  <2>3. ~Boot(R[7].startPage)
    BY <2>1, <2>2, <1>9 DEF Boot
  <2> QED  BY <2>3, <1>13 DEF FreeOk
<1>16. FreeOk(R[10], "USER")
  <2>1. R[10].startPage = PartStart(10) /\ PartStart(10) \in Nat /\ PartStart(7) \in Nat
    BY <1>5, <1>10
  <2>2. PartStart(7) < PartStart(10)
    <3>1. PartStart(7) + PartPages(7) <= PartStart(10)
      BY PartOrder
    <3>2. PartPages(7) \in Nat \ {0}
      BY <1>10
    <3> QED  BY <3>1, <3>2, <2>1
  <2>3. ~Boot(R[10].startPage)
    BY <2>1, <2>2, <1>9 DEF Boot
  <2> QED  BY <2>3, <1>14 DEF FreeOk
<1>17. \A j \in 1 .. 6 : UsedOk(R[j], "KERNEL")
  <2> TAKE j \in 1 .. 6
  <2>1. j < 7 /\ j \in 1 .. 10 /\ 7 \in 1 .. 10
    OBVIOUS
  <2>2. PartStart(j) + PartPages(j) <= PartStart(7)
    BY <2>1, PartOrder
  <2>3. PartStart(j) \in Nat /\ PartPages(j) \in Nat \ {0} /\ PartStart(7) \in Nat
    BY <2>1, <1>10
  <2>4. PartStart(j) < PartStart(7)
    BY <2>2, <2>3
  <2>5. R[j].startPage = PartStart(j) /\ R[j].owner = 0
    BY <2>1, <1>5
  <2>6. Boot(R[j].startPage)
    BY <2>4, <2>5, <1>9 DEF Boot
  <2>7. Span(R[j]) \subseteq PagesOfSpace("KERNEL")
    BY <1>13
  <2> QED  BY <2>5, <2>6, <2>7 DEF UsedOk
<1>18. \A j \in {8, 9} : UsedOk(R[j], "USER")
  <2> TAKE j \in {8, 9}
  <2>1. j < 10 /\ j \in 1 .. 10 /\ 10 \in 1 .. 10 /\ j \in 8 .. 10
    OBVIOUS
  <2>2. PartStart(j) + PartPages(j) <= PartStart(10)
    BY <2>1, PartOrder
  <2>3. PartStart(j) \in Nat /\ PartPages(j) \in Nat \ {0} /\ PartStart(10) \in Nat
    BY <2>1, <1>10
  <2>4. PartStart(j) < PartStart(10) /\ K + 2 <= PartStart(j)
    BY <2>1, <2>2, <2>3, <1>12
  <2>5. R[j].startPage = PartStart(j) /\ R[j].owner = 0
    BY <2>1, <1>5
  <2>6. Boot(R[j].startPage)
    BY <2>4, <2>5, <1>9 DEF Boot
  <2>7. Span(R[j]) \subseteq PagesOfSpace("USER")
    BY <2>1, <1>14
  <2> QED  BY <2>5, <2>6, <2>7 DEF UsedOk
<1>19. \A l \in Names : Has(mem.lists, l) = {j \in 1 .. 10 : Parts[j].list = l}
  BY <1>3 DEF Built
<1>20. ASSUME NEW s \in Space, NEW r \in Has(mem.lists, FreeList(s)) PROVE FreeOk(R[r], s)
  <2>1. r \in 1 .. 10 /\ Parts[r].list = FreeList(s)
    BY <1>19, NamesAre
  <2>2. r = IF s = "KERNEL" THEN 7 ELSE 10
    BY <2>1, PartsAre
  <2> QED  BY <2>2, <1>15, <1>16 DEF Space
<1>21. ASSUME NEW s \in Space, NEW r \in Has(mem.lists, RegionList(s)) PROVE UsedOk(R[r], s)
  <2>1. r \in 1 .. 10 /\ Parts[r].list = RegionList(s)
    BY <1>19, NamesAre
  <2>2. r \in IF s = "KERNEL" THEN 1 .. 6 ELSE {8, 9}
    BY <2>1, PartsAre
  <2> QED  BY <2>2, <1>17, <1>18 DEF Space
<1>22. Lists4(mem)
  <2>1. Holding(mem.lists, Names, 1 .. Len(R))
    BY <1>3, <1>4 DEF Built
  <2>2. Listing(mem) = 1 .. Len(R)
    BY <2>1, ListingIs
  <2> QED  BY <2>1, <2>2, <1>2, <1>20, <1>21 DEF Lists4, ListsOk
<1>23. Sound(mem)
  BY <1>2, <1>3, <1>6, <1>7, <1>8, <1>22 DEF Sound, Built
<1> QED  BY <1>1, <1>23

-----------------------------------------------------------------------------
(* The inductive invariant.                                                *)

\* Addresses of regions that TM may free: nobody's at the start.
OnPage(a) == a \in Nat /\ LOGICALPAGEREMAINDER(a) = 0 /\ ~Boot(LOGICALPAGENUMBER(a))

StackOk == stack \in [Users -> Nat] /\ \A u \in Users : stack[u] # NULL => OnPage(stack[u])

TmOk ==
    /\ tm \in [doing : {"idle", "move", "undo", "cleanup"}, thread : Nat, address : Nat]
    /\ tm.doing # "idle" => tm.thread \in Users
    /\ tm.doing \in {"move", "undo"} =>
          OnPage(tm.address) /\ LOGICALPAGENUMBER(tm.address) \in PagesOfSpace("KERNEL")

UserCursor == lists.list[RegionList("USER")].current

WalkOk ==
    \/ walk = << >>
    \/ \E t \in Users :
          walk = <<t, Item(lists, RegionList("USER"))>> /\ UserCursor \in Onward(lists)

IInv == Sound(Mem) /\ StackOk /\ TmOk /\ WalkOk

\* The memory of a state and of the next one.
LEMMA MemIs ==
    /\ Mem.lists = lists /\ Mem.regions = regions
    /\ Mem' = [lists |-> lists', regions |-> regions']
    /\ (Mem').lists = lists' /\ (Mem').regions = regions'
BY DEF Mem

\* The cursors are dropped after a request.
LEMMA BecomesIs ==
    ASSUME NEW x, Sound(x), Becomes(x)
    PROVE  Sound(Mem') /\ Same(x, Mem')
<1>1. PICK m : m = lists'
  OBVIOUS
<1>2. m = Parked(x.lists) /\ regions' = x.regions
  BY <1>1 DEF Becomes
<1>3. MemType(x.lists, Names)
  BY SoundIs
<1>4. SameLinks(x.lists, m, Names)
  BY <1>2, <1>3, ParkedSame
<1>5. PICK y : y = [x EXCEPT !.lists = m]
  OBVIOUS
<1>6. Sound(y) /\ Same(x, y)
  BY <1>4, <1>5, NewCursors
<1>7. y = [lists |-> m, regions |-> x.regions]
  BY <1>5, WithLists
<1>8. y = Mem'
  BY <1>1, <1>2, <1>7, MemIs
<1> QED  BY <1>6, <1>8

\* What is the same afterwards, in the end.
LEMMA AllocatesThen ==
    ASSUME NEW mem, NEW x, NEW y, Same(x, y), NEW f, NEW pages, NEW owner \in Owners,
           Allocates(mem, x, f, pages, owner)
    PROVE  Allocates(mem, y, f, pages, owner)
<1>1. PICK s \in Space : s = THREAD_MODE(owner)
  BY OwnersAre
<1>2. y.regions = x.regions /\ \A l \in Names : Has(y.lists, l) = Has(x.lists, l)
  BY DEF Same
<1>3. Has(y.lists, FreeList(s)) = Has(x.lists, FreeList(s))
      /\ Has(y.lists, RegionList(s)) = Has(x.lists, RegionList(s))
  BY <1>2, NamesAre
<1>4. /\ f \in Has(mem.lists, FreeList(s)) /\ pages \in 1 .. mem.regions[f].numOfPages
      /\ \/ mem.regions[f].numOfPages = pages /\ Whole1(mem, x, f, s, owner)
         \/ mem.regions[f].numOfPages > pages /\ Split1(mem, x, f, pages, s, owner)
      /\ Elsewhere(mem, x, s)
  BY <1>1 DEF Allocates
<1>5. Whole1(mem, x, f, s, owner) => Whole1(mem, y, f, s, owner)
  BY <1>2, <1>3 DEF Whole1
<1>6. Split1(mem, x, f, pages, s, owner) => Split1(mem, y, f, pages, s, owner)
  BY <1>2, <1>3 DEF Split1
<1>7. Elsewhere(mem, y, s)
  BY <1>2, <1>4 DEF Elsewhere
<1> QED  BY <1>1, <1>4, <1>5, <1>6, <1>7 DEF Allocates

\* What mmMain does to the cursors after a request has no effect on what was freed,
LEMMA FreesThen ==
    ASSUME NEW mem, NEW x, NEW y, Same(x, y), NEW r, NEW s, Frees(mem, x, r, s)
    PROVE  Frees(mem, y, r, s)
<1>1. s \in Space
  BY DEF Frees
<1>2. y.regions = x.regions /\ \A l \in Names : Has(y.lists, l) = Has(x.lists, l)
  BY DEF Same
<1>3. Has(y.lists, FreeList(s)) = Has(x.lists, FreeList(s))
      /\ Has(y.lists, RegionList(s)) = Has(x.lists, RegionList(s))
  BY <1>1, <1>2, NamesAre
<1>4. Elsewhere(mem, y, s)
  BY <1>2 DEF Frees, Elsewhere
<1> QED  BY <1>2, <1>3, <1>4 DEF Frees

\* nor on what was left alone.
LEMMA SameThen ==
    ASSUME NEW mem, NEW x, NEW y, Same(mem, x), Same(x, y)
    PROVE  Same(mem, y)
BY DEF Same

\* A region that is allocated is nobody's at the start.
LEMMA AllocatedPage ==
    ASSUME NEW mem, Sound(mem), NEW mem2, NEW f, NEW pages, NEW owner \in Owners,
           Allocates(mem, mem2, f, pages, owner), NEW a, a = mem.regions[f].startPage * LOGICALPAGESIZE
    PROVE  /\ OnPage(a) /\ a # NULL
           /\ LOGICALPAGENUMBER(a) \in PagesOfSpace(THREAD_MODE(owner))
<1>1. PICK s \in Space : s = THREAD_MODE(owner)
  BY OwnersAre
<1>2. f \in Has(mem.lists, FreeList(s))
  BY <1>1 DEF Allocates
<1>3. FreeOk(mem.regions[f], s) /\ f \in 1 .. Len(mem.regions)
  BY <1>2, NamesAre, SoundIs DEF Sound, Lists4
<1>4. PICK p \in Nat : p = mem.regions[f].startPage
  BY <1>3, SoundIs, DescIs
<1>5. p \in PagesOfSpace(s) /\ ~Boot(p)
  BY <1>3, <1>4, SoundIs, DescIs DEF FreeOk
<1>6. a = p * L /\ LOGICALPAGENUMBER(a) = p /\ LOGICALPAGEREMAINDER(a) = 0
  BY <1>4, AtPage DEF L
<1>7. p > 0
  <2>1. /\ K \in Nat /\ PagesOfSpace("KERNEL") = 1 .. K /\ PagesOfSpace("USER") = K + 2 .. K + 1 + U
        /\ U \in Nat
    BY Tiles DEF Tile
  <2> QED  BY <2>1, <1>5 DEF Space
<1>8. a \in Nat /\ a # 0
  BY <1>6, <1>7, PageSize DEF L
<1> QED  BY <1>1, <1>5, <1>6, <1>8, CellsAre DEF OnPage

-----------------------------------------------------------------------------
(* The steps.                                                              *)

\* vmAlloc of a user.
LEMMA VmAllocIs ==
    ASSUME IInv, NEW u \in Users, VmAlloc(u)
    PROVE  /\ Sound(Mem') /\ walk = << >>
           /\ Same(Mem, Mem') \/ \E f, n : Allocates(Mem, Mem', f, n, u)
<1>1. PICK n \in Sizes : Becomes(mmVmAlloc(Mem, n, u).mem)
  BY DEF VmAlloc
<1>2. u \in Owners /\ Sound(Mem)
  BY DEF Owners, IInv
<1>3. roundToPageUp(n) \in Nat \ {0}
  <2>1. n \in Nat \ {0}
    BY VmAssumption
  <2> QED  BY <2>1, Rounded
<1>4. PICK got : got = mmVmAlloc(Mem, n, u)
  OBVIOUS
<1>5. AllocResult(Mem, got, roundToPageUp(n), u)
  BY <1>2, <1>3, <1>4, AllocIs
<1>6. Sound(got.mem) /\ Becomes(got.mem)
  BY <1>1, <1>4, <1>5 DEF AllocResult
<1>7. Sound(Mem') /\ Same(got.mem, Mem')
  BY <1>6, BecomesIs
<1>8. walk = << >>
  BY DEF VmAlloc, UserRequest, Receives
<1>9. CASE Same(Mem, got.mem)
  BY <1>7, <1>8, <1>9, SameThen
<1>10. CASE ~Same(Mem, got.mem)
  <2>1. PICK f : Allocates(Mem, got.mem, f, roundToPageUp(n), u)
    BY <1>5, <1>10 DEF AllocResult
  <2>2. Allocates(Mem, Mem', f, roundToPageUp(n), u)
    BY <2>1, <1>2, <1>7, AllocatesThen
  <2> QED  BY <2>2, <1>7, <1>8
<1> QED  BY <1>9, <1>10

\* A request to free a region, from whomever.
LEMMA FreesIs ==
    ASSUME IInv, NEW a, NEW t, t # 0, THREAD_MODE(t) = "KERNEL" => ~Boot(LOGICALPAGENUMBER(a)),
           Becomes(mmVmFree(Mem, a, t))
    PROVE  /\ Sound(Mem')
           /\ Same(Mem, Mem') \/ \E s, r : FreesAt(Mem, Mem', r, s, a, t)
<1>1. PICK x : x = mmVmFree(Mem, a, t)
  OBVIOUS
<1>2. Sound(Mem)
  BY DEF IInv
<1>3. FreeResult(Mem, x, a, t)
  BY <1>1, <1>2, FreeIs
<1>4. Sound(x) /\ Becomes(x)
  BY <1>1, <1>3 DEF FreeResult
<1>5. Sound(Mem') /\ Same(x, Mem')
  BY <1>4, BecomesIs
<1>6. CASE Same(Mem, x)
  BY <1>5, <1>6, SameThen
<1>7. CASE ~Same(Mem, x)
  <2>1. PICK s, r : FreesAt(Mem, x, r, s, a, t)
    BY <1>3, <1>7 DEF FreeResult
  <2>2. Frees(Mem, Mem', r, s)
    BY <2>1, <1>5, FreesThen DEF FreesAt
  <2>3. FreesAt(Mem, Mem', r, s, a, t)
    BY <2>1, <2>2 DEF FreesAt
  <2> QED  BY <2>3, <1>5
<1> QED  BY <1>6, <1>7

\* vmFree of a user.
LEMMA VmFreeIs ==
    ASSUME IInv, NEW u \in Users, VmFree(u)
    PROVE  /\ Sound(Mem') /\ walk = << >>
           /\ Same(Mem, Mem') \/ \E s, r, a : FreesAt(Mem, Mem', r, s, a, u)
<1>1. PICK a \in Named : Becomes(mmVmFree(Mem, a, u))
  BY DEF VmFree
<1>2. u # 0 /\ THREAD_MODE(u) # "KERNEL"
  BY OwnersAre
<1>3. /\ Sound(Mem')
      /\ Same(Mem, Mem') \/ \E s, r : FreesAt(Mem, Mem', r, s, a, u)
  BY <1>1, <1>2, FreesIs
<1>4. walk = << >>
  BY DEF VmFree, UserRequest, Receives
<1> QED  BY <1>3, <1>4

\* TM gets a stack, and knows its address.
LEMMA TmAllocStackIs ==
    ASSUME IInv, NEW u \in Users, TmAllocStack(u)
    PROVE  /\ Sound(Mem') /\ walk = << >> /\ TmOk'
           /\ Same(Mem, Mem') \/ \E f, n : Allocates(Mem, Mem', f, n, TMTHREADID)
<1>1. PICK got : got = mmVmAlloc(Mem, STACKSIZE, TMTHREADID)
  OBVIOUS
<1>2. /\ Becomes(got.mem) /\ walk = << >>
      /\ tm' = IF got.ok THEN [doing |-> "move", thread |-> u, address |-> got.address] ELSE tm
  BY <1>1 DEF TmAllocStack, Receives
<1>3. TMTHREADID \in Owners /\ THREAD_MODE(TMTHREADID) = "KERNEL" /\ Sound(Mem)
  BY OwnersAre DEF IInv
<1>4. PICK n : n = roundToPageUp(STACKSIZE)
  OBVIOUS
<1>5. n \in Nat \ {0}
  <2>1. STACKSIZE \in Nat \ {0}
    BY LayoutAssumption
  <2> QED  BY <2>1, <1>4, Rounded
<1>6. AllocResult(Mem, got, n, TMTHREADID)
  BY <1>1, <1>3, <1>4, <1>5, AllocIs
<1>7. Sound(Mem') /\ Same(got.mem, Mem')
  BY <1>2, <1>6, BecomesIs DEF AllocResult
<1>8. CASE ~got.ok
  <2>1. Same(Mem, got.mem)
    BY <1>6, <1>8 DEF AllocResult
  <2>2. tm' = tm
    BY <1>2, <1>8
  <2>3. TmOk'
    BY <2>2 DEF IInv, TmOk
  <2> QED  BY <2>1, <2>3, <1>2, <1>7, SameThen
<1>9. CASE got.ok
  <2>1. PICK f : Allocates(Mem, got.mem, f, n, TMTHREADID)
                 /\ got.address = Mem.regions[f].startPage * LOGICALPAGESIZE
    BY <1>6, <1>9 DEF AllocResult
  <2>2. OnPage(got.address) /\ LOGICALPAGENUMBER(got.address) \in PagesOfSpace("KERNEL")
    BY <2>1, <1>3, AllocatedPage
  <2>3. tm' = [doing |-> "move", thread |-> u, address |-> got.address]
    BY <1>2, <1>9
  <2>4. u \in Nat /\ got.address \in Nat
    BY <2>2, OwnersAre DEF OnPage
  <2>5. /\ tm' \in [doing : {"idle", "move", "undo", "cleanup"}, thread : Nat, address : Nat]
        /\ tm'.thread = u /\ tm'.address = got.address
    BY <2>3, <2>4
  <2>6. TmOk'
    BY <2>2, <2>5 DEF TmOk
  <2>7. Allocates(Mem, Mem', f, n, TMTHREADID)
    BY <2>1, <1>3, <1>7, AllocatesThen
  <2> QED  BY <2>6, <2>7, <1>2, <1>7
<1> QED  BY <1>8, <1>9

\* What a move does to the memory.
Moves(mem, mem2, f, r, s, address, owner) ==
    /\ s \in Space /\ r \in Has(mem.lists, RegionList(s))
    /\ LOGICALPAGEREMAINDER(address) = 0
    /\ mem.regions[r].startPage = LOGICALPAGENUMBER(address)
    /\ \E mem1 : /\ Allocates(mem, mem1, f, mem.regions[r].numOfPages, owner)
                 /\ Sound(mem1) /\ Frees(mem1, mem2, r, s)

\* TM has the stack moved to the thread, or has it still.
LEMMA TmMoveStackIs ==
    ASSUME IInv, TmMoveStack
    PROVE  /\ Sound(Mem') /\ walk = << >> /\ TmOk' /\ StackOk' /\ tm.doing = "move"
           /\ \/ Same(Mem, Mem')
              \/ \E f, r, s : Moves(Mem, Mem', f, r, s, tm.address, tm.thread)
<1>1. PICK got : got = mmVmMove(Mem, tm.address, tm.thread)
  OBVIOUS
<1>2. /\ Becomes(got.mem) /\ walk = << >> /\ tm.doing = "move"
      /\ stack' = IF got.ok THEN [stack EXCEPT ![tm.thread] = got.address] ELSE stack
      /\ tm' = [tm EXCEPT !.doing = IF got.ok THEN "idle" ELSE "undo"]
  BY <1>1 DEF TmMoveStack, Receives
<1>3. /\ tm.thread \in Users /\ OnPage(tm.address) /\ Sound(Mem)
      /\ LOGICALPAGENUMBER(tm.address) \in PagesOfSpace("KERNEL")
      /\ tm \in [doing : {"idle", "move", "undo", "cleanup"}, thread : Nat, address : Nat]
      /\ stack \in [Users -> Nat] /\ \A u \in Users : stack[u] # NULL => OnPage(stack[u])
  BY <1>2 DEF IInv, TmOk, StackOk
<1>4. MoveResult(Mem, got, tm.address, tm.thread)
  BY <1>1, <1>3, MoveIs DEF OnPage
<1>5. Sound(Mem') /\ Same(got.mem, Mem')
  BY <1>2, <1>4, BecomesIs DEF MoveResult
<1>6. TmOk'
  <2>1. /\ tm' \in [doing : {"idle", "move", "undo", "cleanup"}, thread : Nat, address : Nat]
        /\ tm'.thread = tm.thread /\ tm'.address = tm.address
    BY <1>2, <1>3
  <2> QED  BY <2>1, <1>3 DEF TmOk
<1>7. CASE ~got.ok
  <2>1. Same(Mem, got.mem)
    BY <1>4, <1>7 DEF MoveResult
  <2>2. StackOk'
    BY <1>2, <1>3, <1>7 DEF StackOk
  <2> QED  BY <2>1, <2>2, <1>2, <1>5, <1>6, SameThen
<1>8. CASE got.ok
  <2>1. PICK f, r, s, mem1 :
           /\ s \in Space /\ r \in Has(Mem.lists, RegionList(s))
           /\ LOGICALPAGEREMAINDER(tm.address) = 0
           /\ Mem.regions[r].startPage = LOGICALPAGENUMBER(tm.address)
           /\ Allocates(Mem, mem1, f, Mem.regions[r].numOfPages, tm.thread)
           /\ Sound(mem1) /\ Frees(mem1, got.mem, r, s)
           /\ got.address = Mem.regions[f].startPage * LOGICALPAGESIZE
    BY <1>4, <1>8 DEF MoveResult
  <2>2. tm.thread \in Owners
    BY <1>3 DEF Owners
  <2>3. OnPage(got.address)
    BY <2>1, <2>2, <1>3, AllocatedPage
  <2>4. stack' = [stack EXCEPT ![tm.thread] = got.address]
    BY <1>2, <1>8
  <2>5. StackOk'
    BY <2>3, <2>4, <1>3 DEF StackOk, OnPage
  <2>6. Frees(mem1, Mem', r, s)
    BY <2>1, <1>5, FreesThen
  <2>7. Moves(Mem, Mem', f, r, s, tm.address, tm.thread)
    BY <2>1, <2>6 DEF Moves
  <2> QED  BY <2>5, <2>7, <1>2, <1>5, <1>6
<1> QED  BY <1>7, <1>8

\* TM gives the stack back.
LEMMA TmUndoIs ==
    ASSUME IInv, TmUndo
    PROVE  /\ Sound(Mem') /\ walk = << >> /\ TmOk' /\ tm.doing = "undo"
           /\ Same(Mem, Mem') \/ \E s, r : FreesAt(Mem, Mem', r, s, tm.address, TMTHREADID)
<1>1. /\ Becomes(mmVmFree(Mem, tm.address, TMTHREADID)) /\ walk = << >> /\ tm.doing = "undo"
      /\ tm' = [tm EXCEPT !.doing = "idle"]
  BY DEF TmUndo, Receives
<1>2. /\ OnPage(tm.address)
      /\ tm \in [doing : {"idle", "move", "undo", "cleanup"}, thread : Nat, address : Nat]
  BY <1>1 DEF IInv, TmOk
<1>3. TMTHREADID # 0
  BY DEF TMTHREADID
<1>4. /\ Sound(Mem')
      /\ Same(Mem, Mem') \/ \E s, r : FreesAt(Mem, Mem', r, s, tm.address, TMTHREADID)
  BY <1>1, <1>2, <1>3, FreesIs DEF OnPage
<1>5. TmOk'
  <2>1. /\ tm' \in [doing : {"idle", "move", "undo", "cleanup"}, thread : Nat, address : Nat]
        /\ tm'.doing = "idle"
    BY <1>1, <1>2
  <2> QED  BY <2>1 DEF TmOk
<1> QED  BY <1>1, <1>4, <1>5

\* TM takes the stack of a thread that ends.
LEMMA TmFreeStackIs ==
    ASSUME IInv, NEW u \in Users, TmFreeStack(u)
    PROVE  /\ Sound(Mem') /\ walk = << >> /\ TmOk' /\ StackOk'
           /\ Same(Mem, Mem') \/ \E s, r : FreesAt(Mem, Mem', r, s, stack[u], TMTHREADID)
<1>1. /\ Becomes(mmVmFree(Mem, stack[u], TMTHREADID)) /\ walk = << >> /\ stack[u] # NULL
      /\ tm' = [doing |-> "cleanup", thread |-> u, address |-> NULL]
      /\ stack' = [stack EXCEPT ![u] = NULL]
  BY DEF TmFreeStack, Receives
<1>2. /\ OnPage(stack[u])
      /\ stack \in [Users -> Nat] /\ \A t \in Users : stack[t] # NULL => OnPage(stack[t])
  BY <1>1 DEF IInv, StackOk
<1>3. TMTHREADID # 0
  BY DEF TMTHREADID
<1>4. /\ Sound(Mem')
      /\ Same(Mem, Mem') \/ \E s, r : FreesAt(Mem, Mem', r, s, stack[u], TMTHREADID)
  BY <1>1, <1>2, <1>3, FreesIs DEF OnPage
<1>5. u \in Nat /\ NULL \in Nat
  BY OwnersAre, CellsAre
<1>6. TmOk'
  <2>1. /\ tm' \in [doing : {"idle", "move", "undo", "cleanup"}, thread : Nat, address : Nat]
        /\ tm'.doing = "cleanup" /\ tm'.thread = u
    BY <1>1, <1>5
  <2> QED  BY <2>1 DEF TmOk
<1>7. StackOk'
  BY <1>1, <1>2, <1>5 DEF StackOk
<1> QED  BY <1>1, <1>4, <1>6, <1>7

\* A step along the cursor, or to where it is wanted.
LEMMA CursorStep ==
    ASSUME NEW mem, Sound(mem), NEW l \in Names, NEW c \in Link, NEW m,
           m = PutCursor(mem.lists, l, c),
           lists' = m, regions' = mem.regions
    PROVE  /\ Sound(Mem') /\ Same(mem, Mem')
           /\ m.list[l].current = c /\ m.cell = mem.lists.cell
           /\ \A k \in Names : Cells(m, k) = Cells(mem.lists, k)
           /\ Onward(m) = Onward(mem.lists)
           /\ \A e : Walk(m, e) = Walk(mem.lists, e)
<1>1. MemType(mem.lists, Names) /\ Holding(mem.lists, Names, Listing(mem))
  BY SoundIs
<1>2. SameLinks(mem.lists, m, Names) /\ m.list[l].current = c
  BY <1>1, CursorSame
<1>3. PICK y : y = [mem EXCEPT !.lists = m]
  OBVIOUS
<1>4. Sound(y) /\ Same(mem, y)
  BY <1>2, <1>3, NewCursors
<1>5. y = [lists |-> m, regions |-> mem.regions]
  BY <1>3, WithLists
<1>6. y = Mem'
  BY <1>5, MemIs
<1>7. \A k \in Names : Cells(m, k) = Cells(mem.lists, k)
  BY <1>1, <1>2, SameSound
<1>8. m.cell = mem.lists.cell
  BY <1>2 DEF SameLinks
<1>9. \A e : Walk(m, e) = Walk(mem.lists, e)
  BY <1>8, SameWalk
<1>10. Onward(m) = Onward(mem.lists)
  <2>1. RegionList("USER") \in Names /\ FreeList("USER") \in Names
    BY NamesAre DEF Space
  <2> QED  BY <2>1, <1>7 DEF Onward
<1> QED  BY <1>2, <1>4, <1>6, <1>7, <1>8, <1>9, <1>10

\* The walk of mmVmCleanup begins at the users' first region.
LEMMA CleanupBeginIs ==
    ASSUME IInv, CleanupBegin
    PROVE  Sound(Mem') /\ Same(Mem, Mem') /\ WalkOk' /\ TmOk' /\ walk = << >>
<1>1. PICK l : l = RegionList("USER")
  OBVIOUS
<1>2. tm.doing = "cleanup" /\ walk = << >> /\ tm' = [tm EXCEPT !.doing = "idle"]
      /\ regions' = regions
  BY DEF CleanupBegin, Receives
<1>3. /\ tm.thread \in Users /\ Sound(Mem)
      /\ tm \in [doing : {"idle", "move", "undo", "cleanup"}, thread : Nat, address : Nat]
  BY <1>2 DEF IInv, TmOk
<1>4. RegionList(THREAD_MODE(tm.thread)) = l /\ l \in Names
  BY <1>1, <1>3, OwnersAre, NamesAre DEF Space
<1>5. PICK c : c = lists.list[l].first
  OBVIOUS
<1>6. PICK m : m = PutCursor(lists, l, c)
  OBVIOUS
<1>7. lists' = m /\ walk' = <<tm.thread, Item(m, l)>>
  BY <1>4, <1>5, <1>6 DEF CleanupBegin, listGetFirst, PutCursor
<1>8. c \in Cells(lists, l) \cup {NULL} /\ Cells(lists, l) \subseteq Cell
  <2>1. Holding(lists, Names, Listing(Mem))
    BY <1>3, SoundIs, MemIs
  <2>2. c \in Cells(lists, l) \cup {NULL} /\ Cells(lists, l) \subseteq lists.used
    BY <2>1, <1>4, <1>5, HoldingChain
  <2>3. lists.used \subseteq Cell
    BY <2>1 DEF Holding, MemType
  <2> QED  BY <2>2, <2>3
<1>9. c \in Link
  BY <1>8 DEF Link
<1>10. /\ Sound(Mem') /\ Same(Mem, Mem')
       /\ m.list[l].current = c /\ Onward(m) = Onward(lists)
  BY <1>2, <1>3, <1>4, <1>6, <1>7, <1>9, MemIs, CursorStep
<1>11. c \in Onward(lists)
  BY <1>1, <1>8 DEF Onward
<1>12. WalkOk'
  <2>1. walk' = <<tm.thread, Item(lists', RegionList("USER"))>>
    BY <1>1, <1>7
  <2>2. lists'.list[RegionList("USER")].current \in Onward(lists')
    BY <1>1, <1>7, <1>10, <1>11
  <2> QED  BY <2>1, <2>2, <1>3 DEF WalkOk, UserCursor
<1>13. TmOk'
  <2>1. /\ tm' \in [doing : {"idle", "move", "undo", "cleanup"}, thread : Nat, address : Nat]
        /\ tm'.doing = "idle"
    BY <1>2, <1>3
  <2> QED  BY <2>1 DEF TmOk
<1> QED  BY <1>2, <1>10, <1>12, <1>13

\* It ends and leaves the lists as they are.
LEMMA CleanupEndIs ==
    ASSUME IInv, CleanupEnd
    PROVE  Sound(Mem') /\ Same(Mem, Mem') /\ WalkOk'
<1>1. lists' = Parked(lists) /\ regions' = regions /\ walk' = << >>
  BY DEF CleanupEnd
<1>2. Becomes(Mem) /\ Sound(Mem)
  BY <1>1, MemIs DEF Becomes, IInv
<1>3. Sound(Mem') /\ Same(Mem, Mem')
  BY <1>2, BecomesIs
<1> QED  BY <1>1, <1>3 DEF WalkOk

\* A step of the cleanup frees a region of the thread, or has less before it.
LEMMA CleanupStepIs ==
    ASSUME IInv, CleanupStep
    PROVE  /\ Sound(Mem') /\ WalkOk' /\ walk # << >>
           /\ \E t \in Users :
                 /\ walk[1] = t /\ walk'[1] = t
                 /\ \/ \E s, r, a : FreesAt(Mem, Mem', r, s, a, t)
                    \/ Same(Mem, Mem') /\ Len(Walk(lists', UserCursor')) < Len(Walk(lists, UserCursor))
                       /\ Len(Walk(lists', UserCursor')) \in Nat /\ Len(Walk(lists, UserCursor)) \in Nat
<1>1. PICK l : l = RegionList("USER")
  OBVIOUS
<1>2. walk # << >> /\ walk[2] # NULL
  BY DEF CleanupStep
<1>3. PICK t \in Users : walk = <<t, Item(lists, l)>> /\ UserCursor \in Onward(lists)
  BY <1>1, <1>2 DEF IInv, WalkOk
<1>4. PICK c, q : c = UserCursor /\ q = walk[2]
  OBVIOUS
<1>5. walk[1] = t /\ q = Item(lists, l) /\ c = lists.list[l].current
  BY <1>1, <1>3, <1>4 DEF UserCursor
<1>6. THREAD_MODE(t) = "USER" /\ t # 0
  BY OwnersAre
<1>7. Sound(Mem)
  BY DEF IInv
<1>8. /\ Holding(lists, Names, Listing(Mem)) /\ Shaped(regions) /\ ApartAll(regions)
      /\ \A k \in Names : Has(lists, k) \subseteq 1 .. Len(regions)
  BY <1>7, SoundIs, MemIs
<1>9. /\ l \in Names /\ FreeList("USER") \in Names /\ RegionList("KERNEL") \in Names
      /\ RegionList("KERNEL") # l /\ RegionList("KERNEL") # FreeList("USER")
      /\ l # FreeList("USER")
  BY <1>1, NamesAre DEF Space
<1>10. c # NULL /\ q = lists.cell[c].item
  BY <1>2, <1>4, <1>5 DEF Item
<1>11. PICK k \in {l, FreeList("USER")} : c \in Cells(lists, k)
  BY <1>1, <1>3, <1>4, <1>10 DEF Onward
<1>12. q \in Has(lists, k) /\ k \in Names /\ q \in 1 .. Len(regions)
  BY <1>8, <1>9, <1>10, <1>11 DEF Has
<1>13. /\ lists.cell[c].next \in Cells(lists, k) \cup {NULL}
       /\ Walk(lists, NULL) = << >>
       /\ Len(Walk(lists, c)) \in Nat /\ Len(Walk(lists, c)) > 0
       /\ Len(Walk(lists, lists.cell[c].next)) \in Nat
       /\ Len(Walk(lists, lists.cell[c].next)) = Len(Walk(lists, c)) - 1
  BY <1>8, <1>11, <1>12, NextIs
<1>14. PICK r : r = regions[q]
  OBVIOUS
<1>15. PICK mem : mem = IF r.owner = t THEN mmVmFree(Mem, r.startPage * LOGICALPAGESIZE, t) ELSE Mem
  OBVIOUS
<1>16. /\ lists' = listGetNext(mem.lists, l) /\ regions' = mem.regions
       /\ walk' = <<t, Item(lists', l)>>
  BY <1>1, <1>4, <1>5, <1>6, <1>14, <1>15 DEF CleanupStep
<1>17. Cells(lists, k) \subseteq Cell
  <2>1. Cells(lists, k) \subseteq lists.used
    BY <1>8, <1>12, HoldingChain
  <2>2. lists.used \subseteq Cell
    BY <1>8 DEF Holding, MemType
  <2> QED  BY <2>1, <2>2
<1>18. CASE r.owner # t
  <2>1. mem = Mem
    BY <1>15, <1>18
  <2>2. PICK e : e = lists.cell[c].next
    OBVIOUS
  <2>3. e \in Link /\ e \in Onward(lists)
    BY <2>2, <1>1, <1>11, <1>13, <1>17 DEF Link, Onward
  <2>4. PICK m : m = PutCursor(lists, l, e)
    OBVIOUS
  <2>5. lists' = m /\ regions' = regions
    BY <2>1, <2>2, <2>4, <1>5, <1>10, <1>16, MemIs DEF listGetNext, PutCursor
  <2>6. /\ Sound(Mem') /\ Same(Mem, Mem')
        /\ m.list[l].current = e /\ Onward(m) = Onward(lists)
        /\ \A d : Walk(m, d) = Walk(lists, d)
    BY <2>3, <2>4, <2>5, <1>7, <1>9, MemIs, CursorStep
  <2>7. UserCursor' = e
    BY <2>5, <2>6, <1>1 DEF UserCursor
  <2>8. Len(Walk(lists', UserCursor')) < Len(Walk(lists, UserCursor))
        /\ Len(Walk(lists', UserCursor')) \in Nat /\ Len(Walk(lists, UserCursor)) \in Nat
    <3>1. Walk(lists', UserCursor') = Walk(lists, e) /\ Walk(lists, UserCursor) = Walk(lists, c)
      BY <2>5, <2>6, <2>7, <1>4
    <3> QED  BY <3>1, <2>2, <1>13
  <2>9. WalkOk'
    <3>1. UserCursor' \in Onward(lists')
      BY <2>3, <2>5, <2>6, <2>7
    <3>2. walk' = <<t, Item(lists', RegionList("USER"))>>
      BY <1>1, <1>16
    <3> QED  BY <3>1, <3>2 DEF WalkOk
  <2>10. walk'[1] = t
    BY <1>16
  <2> QED  BY <2>6, <2>8, <2>9, <2>10, <1>2, <1>5
<1>19. CASE r.owner = t
  <2>1. PICK a : a = r.startPage * LOGICALPAGESIZE
    OBVIOUS
  <2>2. mem = mmVmFree(Mem, a, t)
    BY <2>1, <1>15, <1>19
  <2>3. r.startPage \in Nat
    BY <1>8, <1>12, <1>14, DescIs
  <2>4. LOGICALPAGENUMBER(a) = r.startPage /\ LOGICALPAGEREMAINDER(a) = 0
    BY <2>1, <2>3, AtPage DEF L
  <2>5. FreeResult(Mem, mem, a, t)
    BY <2>2, <1>6, <1>7, FreeIs
  <2>6. Sound(mem)
    BY <2>5 DEF FreeResult
  \* Only the region itself begins there.
  <2>7. ASSUME NEW n \in Names, NEW z \in Has(lists, n), regions[z].startPage = LOGICALPAGENUMBER(a)
        PROVE  n = k /\ z = q
    <3>1. z \in 1 .. Len(regions)
      BY <1>8
    <3>2. regions[z].startPage = regions[q].startPage
      BY <2>4, <2>7, <1>14
    <3>3. z = q
      BY <3>1, <3>2, <1>8, <1>12, StartIs
    <3>4. \A i, j \in Names : i # j => Has(lists, i) \cap Has(lists, j) = {}
      BY <1>8, HasIs
    <3> QED  BY <3>3, <3>4, <1>12
  <2>8. ~\E z \in Has(Mem.lists, RegionList("KERNEL")) : Mem.regions[z].startPage = LOGICALPAGENUMBER(a)
    BY <2>7, <1>9, <1>11, MemIs
  <2>9. PICK d : d = mem.lists.list[l].current
    OBVIOUS
  <2>10. IF \E z \in Has(Mem.lists, l) : Mem.regions[z].startPage = LOGICALPAGENUMBER(a)
         THEN d # NULL /\ mem.lists.cell[d].next \in Onward(mem.lists)
         ELSE d = NULL
    BY <2>4, <2>5, <2>8, <2>9, <1>1 DEF FreeResult, FreeCursor
  <2>11. PICK e : e = IF d = NULL THEN NULL ELSE mem.lists.cell[d].next
    OBVIOUS
  <2>12. e \in Onward(mem.lists)
    <3>1. NULL \in Onward(mem.lists)
      BY DEF Onward
    <3> QED  BY <3>1, <2>10, <2>11
  <2>13. e \in Link /\ mem.lists \in [cell : [Cell -> [item : Nat, next : Link, prev : Link]],
                                      used : SUBSET Cell,
                                      list : [Names -> [first : Link, current : Link, last : Link]]]
    <3>1. MemType(mem.lists, Names) /\ Holding(mem.lists, Names, Listing(mem))
      BY <2>6, SoundIs
    <3>2. Cells(mem.lists, l) \subseteq Cell /\ Cells(mem.lists, FreeList("USER")) \subseteq Cell
      <4>1. mem.lists.used \subseteq Cell
        BY <3>1 DEF MemType
      <4> QED  BY <4>1, <3>1, <1>9, HoldingChain
    <3>3. Onward(mem.lists) \subseteq Link
      BY <3>2, <1>1 DEF Onward, Link
    <3> QED  BY <3>1, <3>3, <2>12 DEF MemType
  <2>14. PICK m : m = PutCursor(mem.lists, l, e)
    OBVIOUS
  <2>15. listGetNext(mem.lists, l) = m
    <3>1. CASE d # NULL
      BY <3>1, <2>9, <2>11, <2>14 DEF listGetNext, PutCursor
    <3>2. CASE d = NULL
      <4>1. PICK x : x = mem.lists
        OBVIOUS
      <4>2. PICK ls : ls = x.list
        OBVIOUS
      <4>3. ls \in [Names -> [first : Link, current : Link, last : Link]] /\ ls[l].current = NULL
        BY <4>1, <4>2, <3>2, <2>9, <2>13
      <4>4. PICK w : w = ls[l]
        OBVIOUS
      <4>5. w \in [first : Link, current : Link, last : Link] /\ w.current = NULL
        BY <4>3, <4>4, <1>9
      <4>6. [w EXCEPT !.current = NULL] = w
        BY <4>5
      <4>7. [ls EXCEPT ![l].current = NULL] = [ls EXCEPT ![l] = [w EXCEPT !.current = NULL]]
        BY <4>4
      <4>8. [ls EXCEPT ![l] = w] = ls
        BY <4>3, <4>4
      <4>9. [ls EXCEPT ![l].current = NULL] = ls
        BY <4>6, <4>7, <4>8
      <4>10. m = [x EXCEPT !.list = [ls EXCEPT ![l].current = NULL]]
        BY <4>1, <4>2, <3>2, <2>11, <2>14 DEF PutCursor
      <4>11. m = [x EXCEPT !.list = ls]
        BY <4>9, <4>10
      <4>12. m = x
        BY <4>11, <4>1, <4>2, <2>13
      <4>13. listGetNext(x, l) = x
        BY <4>1, <3>2, <2>9 DEF listGetNext
      <4> QED  BY <4>1, <4>12, <4>13
    <3> QED  BY <3>1, <3>2
  <2>16. lists' = m /\ regions' = mem.regions
    BY <2>15, <1>16
  <2>17. /\ Sound(Mem') /\ Same(mem, Mem')
         /\ m.list[l].current = e /\ Onward(m) = Onward(mem.lists)
         /\ \A x : Walk(m, x) = Walk(mem.lists, x)
    <3>1. e \in Link /\ l \in Names
      BY <2>13, <1>9
    <3> QED  BY <3>1, <2>6, <2>14, <2>16, CursorStep
  <2>18. UserCursor' = e
    BY <2>16, <2>17, <1>1 DEF UserCursor
  <2>19. WalkOk'
    <3>1. UserCursor' \in Onward(lists')
      BY <2>12, <2>16, <2>17, <2>18
    <3>2. walk' = <<t, Item(lists', RegionList("USER"))>>
      BY <1>1, <1>16
    <3> QED  BY <3>1, <3>2 DEF WalkOk
  <2>20. walk'[1] = t
    BY <1>16
  <2>21. CASE \E s, z : FreesAt(Mem, mem, z, s, a, t)
    <3>1. PICK s, z : FreesAt(Mem, mem, z, s, a, t)
      BY <2>21
    <3>2. Frees(Mem, Mem', z, s)
      BY <3>1, <2>17, FreesThen DEF FreesAt
    <3>3. FreesAt(Mem, Mem', z, s, a, t)
      BY <3>1, <3>2 DEF FreesAt
    <3> QED  BY <3>3, <2>17, <2>19, <2>20, <1>2, <1>5
  <2>22. CASE ~\E s, z : FreesAt(Mem, mem, z, s, a, t)
    <3>1. Same(Mem, mem) /\ Kept(Mem, a, t)
      BY <2>5, <2>22 DEF FreeResult
    <3>2. Same(Mem, Mem')
      BY <3>1, <2>17, SameThen
    <3>3. ~\E z \in Has(Mem.lists, l) : Mem.regions[z].startPage = LOGICALPAGENUMBER(a)
      <4> SUFFICES ASSUME NEW z \in Has(Mem.lists, l),
                          Mem.regions[z].startPage = LOGICALPAGENUMBER(a)
                   PROVE  FALSE
        OBVIOUS
      <4>1. z = q
        BY <2>7, <1>9, MemIs
      <4>2. MayFree(Mem.regions[z].owner, t)
        BY <4>1, <1>14, <1>19, MemIs DEF MayFree
      <4>3. "USER" \in Space
        BY DEF Space
      <4> QED  BY <4>2, <4>3, <3>1, <2>4, <1>1 DEF Kept
    <3>4. e = NULL
      BY <3>3, <2>10, <2>11
    <3>5. Walk(lists', UserCursor') = << >>
      <4>1. Holding(mem.lists, Names, Listing(mem)) /\ l \in Names
        BY <2>6, <1>9, SoundIs
      <4>2. IsList(mem.lists, l, Chain(mem.lists, l))
        BY <4>1 DEF Holding
      <4>3. Walk(mem.lists, NULL) = << >>
        BY <4>2, ChainIs
      <4> QED  BY <4>3, <3>4, <2>16, <2>17, <2>18
    <3>6. Len(Walk(lists', UserCursor')) < Len(Walk(lists, UserCursor))
          /\ Len(Walk(lists', UserCursor')) \in Nat /\ Len(Walk(lists, UserCursor)) \in Nat
      <4>1. Len(Walk(lists', UserCursor')) = 0
        BY <3>5
      <4>2. Walk(lists, UserCursor) = Walk(lists, c)
        BY <1>4
      <4> QED  BY <4>1, <4>2, <1>13
    <3> QED  BY <3>2, <3>6, <2>17, <2>19, <2>20, <1>2, <1>5
  <2> QED  BY <2>21, <2>22
<1> QED  BY <1>18, <1>19

\* A request leaves the rest as it is.
LEMMA IdleWalk ==
    ASSUME walk = << >>, walk' = walk
    PROVE  WalkOk'
BY DEF WalkOk

\* The invariant holds of what mmVmInit leaves.
LEMMA InvInit == Init => IInv
<1> SUFFICES ASSUME Init PROVE IInv
  OBVIOUS
<1>1. lists = mmVmInit.lists /\ regions = mmVmInit.regions
  BY DEF Init
<1>2. Sound(Mem)
  <2>1. mmVmInit = [lists |-> mmVmInit.lists, regions |-> mmVmInit.regions]
    BY FirstSound DEF Sound
  <2>2. Mem = mmVmInit
    BY <1>1, <2>1 DEF Mem
  <2> QED  BY <2>2, FirstSound
<1>3. NULL \in Nat
  BY CellsAre
<1>4. StackOk
  BY <1>3 DEF Init, StackOk
<1>5. TmOk
  BY <1>3 DEF Init, TmOk
<1>6. WalkOk
  BY DEF Init, WalkOk
<1> QED  BY <1>2, <1>4, <1>5, <1>6 DEF IInv

\* The parts of the invariant after a step.
LEMMA SoundNext ==
    ASSUME Sound(Mem'), StackOk', TmOk', WalkOk'
    PROVE  IInv'
BY DEF IInv

\* Every step preserves the invariant.
LEMMA InvNext == IInv /\ [Next]_vars => IInv'
<1> SUFFICES ASSUME IInv, [Next]_vars PROVE IInv'
  OBVIOUS
<1>0. StackOk /\ TmOk /\ WalkOk
  BY DEF IInv
<1>1. ASSUME NEW u \in Users, VmAlloc(u) PROVE IInv'
  <2>1. UNCHANGED <<stack, tm, walk>>
    BY <1>1 DEF VmAlloc, UserRequest
  <2>2. StackOk' /\ TmOk'
    BY <2>1, <1>0 DEF StackOk, TmOk
  <2>3. WalkOk'
    BY <2>1, <1>1, VmAllocIs, IdleWalk
  <2> QED  BY <2>2, <2>3, <1>1, VmAllocIs, SoundNext
<1>2. ASSUME NEW u \in Users, VmFree(u) PROVE IInv'
  <2>1. UNCHANGED <<stack, tm, walk>>
    BY <1>2 DEF VmFree, UserRequest
  <2>2. StackOk' /\ TmOk'
    BY <2>1, <1>0 DEF StackOk, TmOk
  <2>3. WalkOk'
    BY <2>1, <1>2, VmFreeIs, IdleWalk
  <2> QED  BY <2>2, <2>3, <1>2, VmFreeIs, SoundNext
<1>3. ASSUME NEW u \in Users, TmAllocStack(u) PROVE IInv'
  <2>1. UNCHANGED <<stack, walk>>
    BY <1>3 DEF TmAllocStack
  <2>2. StackOk'
    BY <2>1, <1>0 DEF StackOk
  <2>3. WalkOk'
    BY <2>1, <1>3, TmAllocStackIs, IdleWalk
  <2> QED  BY <2>2, <2>3, <1>3, TmAllocStackIs, SoundNext
<1>4. ASSUME TmMoveStack PROVE IInv'
  <2>1. UNCHANGED walk
    BY <1>4 DEF TmMoveStack
  <2>2. WalkOk'
    BY <2>1, <1>4, TmMoveStackIs, IdleWalk
  <2> QED  BY <2>2, <1>4, TmMoveStackIs, SoundNext
<1>5. ASSUME TmUndo PROVE IInv'
  <2>1. UNCHANGED <<stack, walk>>
    BY <1>5 DEF TmUndo
  <2>2. StackOk'
    BY <2>1, <1>0 DEF StackOk
  <2>3. WalkOk'
    BY <2>1, <1>5, TmUndoIs, IdleWalk
  <2> QED  BY <2>2, <2>3, <1>5, TmUndoIs, SoundNext
<1>6. ASSUME NEW u \in Users, TmFreeStack(u) PROVE IInv'
  <2>1. UNCHANGED walk
    BY <1>6 DEF TmFreeStack
  <2>2. WalkOk'
    BY <2>1, <1>6, TmFreeStackIs, IdleWalk
  <2> QED  BY <2>2, <1>6, TmFreeStackIs, SoundNext
<1>7. ASSUME CleanupBegin PROVE IInv'
  <2>1. stack' = stack
    BY <1>7 DEF CleanupBegin
  <2>2. StackOk'
    BY <2>1, <1>0 DEF StackOk
  <2> QED  BY <2>2, <1>7, CleanupBeginIs, SoundNext
<1>8. ASSUME CleanupStep PROVE IInv'
  <2>1. UNCHANGED <<stack, tm>>
    BY <1>8 DEF CleanupStep
  <2>2. StackOk' /\ TmOk'
    BY <2>1, <1>0 DEF StackOk, TmOk
  <2> QED  BY <2>2, <1>8, CleanupStepIs, SoundNext
<1>9. ASSUME CleanupEnd PROVE IInv'
  <2>1. UNCHANGED <<stack, tm>>
    BY <1>9 DEF CleanupEnd
  <2>2. StackOk' /\ TmOk'
    BY <2>1, <1>0 DEF StackOk, TmOk
  <2> QED  BY <2>2, <1>9, CleanupEndIs, SoundNext
<1>10. CASE UNCHANGED vars
  BY <1>10 DEF vars, IInv, Mem, StackOk, TmOk, WalkOk, UserCursor
<1> QED  BY <1>1, <1>2, <1>3, <1>4, <1>5, <1>6, <1>7, <1>8, <1>9, <1>10 DEF Next, MM, TM

\* Whatever happens, the memory stays sound.
THEOREM MemorySound == Spec => []IInv
BY InvInit, InvNext, PTL DEF Spec

-----------------------------------------------------------------------------
(* What the properties speak of.                                           *)

UsedItems(mem) == Has(mem.lists, RegionList("KERNEL")) \cup Has(mem.lists, RegionList("USER"))
FreeItems(mem) == Has(mem.lists, FreeList("KERNEL")) \cup Has(mem.lists, FreeList("USER"))

\* The items of a list as TLC computes them are those that it holds.
LEMMA ItemsAre ==
    ASSUME NEW m, NEW N, NEW S, Holding(m, N, S), NEW l \in N
    PROVE  ToSet(Items(m, l)) = Has(m, l)
<1>1. PICK q : q = Chain(m, l)
  OBVIOUS
<1>2. q \in Seq(Cell) /\ DOMAIN q = 1 .. Len(q)
  BY <1>1, HoldingChain
<1>3. PICK it : it = Items(m, l)
  OBVIOUS
<1>4. it = [i \in 1 .. Len(q) |-> m.cell[q[i]].item]
  BY <1>1, <1>2, <1>3 DEF Items
<1>5. ToSet(it) = {it[i] : i \in 1 .. Len(q)}
  BY <1>4 DEF ToSet
<1>6. ToSet(it) = {m.cell[q[i]].item : i \in 1 .. Len(q)}
  BY <1>4, <1>5
<1>7. Has(m, l) = {m.cell[q[i]].item : i \in 1 .. Len(q)}
  BY <1>1 DEF Has, Cells
<1> QED  BY <1>3, <1>6, <1>7

\* The regions in use and the free ones: a descriptor in a list is one or the other.
LEMMA ListedIs ==
    ASSUME NEW mem, Sound(mem)
    PROVE  /\ UNION {ToSet(Items(mem.lists, RegionList(s))) : s \in Space} = UsedItems(mem)
           /\ UNION {ToSet(Items(mem.lists, FreeList(s))) : s \in Space} = FreeItems(mem)
           /\ \A r \in UsedItems(mem) : \E s \in Space : r \in Has(mem.lists, RegionList(s))
           /\ \A r \in FreeItems(mem) : \E s \in Space : r \in Has(mem.lists, FreeList(s))
           /\ \A s \in Space : Has(mem.lists, RegionList(s)) \subseteq UsedItems(mem)
           /\ \A s \in Space : Has(mem.lists, FreeList(s)) \subseteq FreeItems(mem)
           /\ UsedItems(mem) \cap FreeItems(mem) = {}
           /\ UsedItems(mem) \cup FreeItems(mem) = Listing(mem)
           /\ UsedItems(mem) \cup FreeItems(mem) \subseteq 1 .. Len(mem.regions)
<1>1. Holding(mem.lists, Names, Listing(mem))
  BY SoundIs
<1>2. Space = {"KERNEL", "USER"} /\ "KERNEL" \in Space /\ "USER" \in Space
  BY DEF Space
<1>3. \A s \in Space : RegionList(s) \in Names /\ FreeList(s) \in Names
  BY NamesAre
<1>4. \A s \in Space : /\ ToSet(Items(mem.lists, RegionList(s))) = Has(mem.lists, RegionList(s))
                       /\ ToSet(Items(mem.lists, FreeList(s))) = Has(mem.lists, FreeList(s))
  BY <1>1, <1>3, ItemsAre
<1>5. UNION {ToSet(Items(mem.lists, RegionList(s))) : s \in Space} = UsedItems(mem)
  BY <1>2, <1>4 DEF UsedItems
<1>6. UNION {ToSet(Items(mem.lists, FreeList(s))) : s \in Space} = FreeItems(mem)
  BY <1>2, <1>4 DEF FreeItems
<1>7. \A r \in UsedItems(mem) : \E s \in Space : r \in Has(mem.lists, RegionList(s))
  BY <1>2 DEF UsedItems
<1>8. \A r \in FreeItems(mem) : \E s \in Space : r \in Has(mem.lists, FreeList(s))
  BY <1>2 DEF FreeItems
<1>9. \A s \in Space : Has(mem.lists, RegionList(s)) \subseteq UsedItems(mem)
  BY <1>2 DEF UsedItems
<1>10. \A s \in Space : Has(mem.lists, FreeList(s)) \subseteq FreeItems(mem)
  BY <1>2 DEF FreeItems
<1>11. /\ \A k \in Names : Has(mem.lists, k) \subseteq Listing(mem)
       /\ \A l, k \in Names : l # k => Has(mem.lists, l) \cap Has(mem.lists, k) = {}
       /\ \A x \in Listing(mem) : \E l \in Names : x \in Has(mem.lists, l)
  <2>1. PICK m, S : m = mem.lists /\ S = Listing(mem)
    OBVIOUS
  <2>2. Holding(m, Names, S)
    BY <2>1, <1>1
  <2>3. /\ \A l \in Names : Has(m, l) \subseteq S
        /\ \A l, k \in Names : l # k => Has(m, l) \cap Has(m, k) = {}
        /\ \A x \in S : \E l \in Names : x \in Has(m, l)
    BY <2>2, HasIs
  <2> QED  BY <2>1, <2>3
<1>12. UsedItems(mem) \cap FreeItems(mem) = {}
  <2> SUFFICES ASSUME NEW r \in UsedItems(mem), r \in FreeItems(mem) PROVE FALSE
    OBVIOUS
  <2>1. PICK s \in Space, t \in Space : r \in Has(mem.lists, RegionList(s)) /\ r \in Has(mem.lists, FreeList(t))
    BY <1>7, <1>8
  <2>2. RegionList(s) # FreeList(t)
    BY NamesAre
  <2> QED  BY <2>1, <2>2, <1>3, <1>11
<1>13. UsedItems(mem) \cup FreeItems(mem) = Listing(mem)
  <2>1. ASSUME NEW x \in Listing(mem) PROVE x \in UsedItems(mem) \cup FreeItems(mem)
    <3>1. PICK l \in Names : x \in Has(mem.lists, l)
      BY <1>11
    <3>2. PICK s \in Space : l = RegionList(s) \/ l = FreeList(s)
      BY NamesAre
    <3> QED  BY <3>1, <3>2, <1>9, <1>10
  <2>2. UsedItems(mem) \cup FreeItems(mem) \subseteq Listing(mem)
    BY <1>3, <1>7, <1>8, <1>11
  <2> QED  BY <2>1, <2>2
<1> QED  BY <1>5, <1>6, <1>7, <1>8, <1>9, <1>10, <1>12, <1>13, SoundIs

\* The lists of a state
LEMMA ListedNow == ASSUME IInv PROVE Listed(RegionList) = UsedItems(Mem) /\ Listed(FreeList) = FreeItems(Mem)
<1>1. Sound(Mem)
  BY DEF IInv
<1> QED  BY <1>1, ListedIs, MemIs DEF Listed, InList

\* and of the next one.
LEMMA ListedThen ==
    ASSUME Sound(Mem')
    PROVE  Listed(RegionList)' = UsedItems(Mem') /\ Listed(FreeList)' = FreeItems(Mem')
<1>1. PICK y : y = Mem'
  OBVIOUS
<1>2. y.lists = lists'
  BY <1>1, MemIs
<1>3. /\ UNION {ToSet(Items(lists', RegionList(s))) : s \in Space} = UsedItems(y)
      /\ UNION {ToSet(Items(lists', FreeList(s))) : s \in Space} = FreeItems(y)
  BY <1>1, <1>2, ListedIs
<1> QED  BY <1>1, <1>3 DEF Listed, InList

\* What requests do to the regions in use.
LEMMA SameUsed ==
    ASSUME NEW mem, NEW mem2, Same(mem, mem2)
    PROVE  /\ UsedItems(mem2) = UsedItems(mem) /\ FreeItems(mem2) = FreeItems(mem)
           /\ mem2.regions = mem.regions
<1>1. "KERNEL" \in Space /\ "USER" \in Space
  BY DEF Space
<1> QED  BY <1>1, NamesAre DEF Same, UsedItems, FreeItems

\* An allocation takes nothing out of use,
LEMMA AllocatesUsed ==
    ASSUME NEW mem, Sound(mem), NEW mem2, NEW f, NEW pages, NEW owner \in Owners,
           Allocates(mem, mem2, f, pages, owner), NEW r \in UsedItems(mem)
    PROVE  r \in UsedItems(mem2)
<1>1. PICK s \in Space : r \in Has(mem.lists, RegionList(s))
  BY ListedIs
<1>2. r \in Has(mem2.lists, RegionList(s))
  BY <1>1, AllocatesKeeps
<1> QED  BY <1>2 DEF Space, UsedItems

\* and a free nothing but one region.
LEMMA FreesUsed ==
    ASSUME NEW mem, Sound(mem), NEW mem2, NEW z, NEW s, Frees(mem, mem2, z, s)
    PROVE  /\ UsedItems(mem2) = UsedItems(mem) \ {z} /\ FreeItems(mem2) = FreeItems(mem) \cup {z}
           /\ mem2.regions = mem.regions /\ z \in UsedItems(mem)
<1>1. /\ s \in Space /\ z \in Has(mem.lists, RegionList(s)) /\ mem2.regions = mem.regions
      /\ Has(mem2.lists, RegionList(s)) = Has(mem.lists, RegionList(s)) \ {z}
      /\ Has(mem2.lists, FreeList(s)) = Has(mem.lists, FreeList(s)) \cup {z}
      /\ Elsewhere(mem, mem2, s)
  BY DEF Frees
<1>2. PICK t \in Space : t # s /\ Space = {s, t}
  BY <1>1 DEF Space
<1>3. /\ RegionList(s) \in Names /\ FreeList(s) \in Names /\ RegionList(t) \in Names
      /\ FreeList(t) \in Names /\ RegionList(t) # RegionList(s) /\ FreeList(t) # FreeList(s)
      /\ RegionList(t) # FreeList(s) /\ FreeList(t) # RegionList(s)
  BY <1>1, <1>2, NamesAre
<1>4. /\ Has(mem2.lists, RegionList(t)) = Has(mem.lists, RegionList(t))
      /\ Has(mem2.lists, FreeList(t)) = Has(mem.lists, FreeList(t))
  BY <1>1, <1>3 DEF Elsewhere
<1>5. z \notin Has(mem.lists, RegionList(t))
  <2>1. Holding(mem.lists, Names, Listing(mem))
    BY SoundIs
  <2> QED  BY <2>1, <1>1, <1>3, HasIs
<1>6. \A m : /\ UsedItems(m) = Has(m.lists, RegionList(s)) \cup Has(m.lists, RegionList(t))
             /\ FreeItems(m) = Has(m.lists, FreeList(s)) \cup Has(m.lists, FreeList(t))
  BY <1>1, <1>2 DEF UsedItems, FreeItems, Space
<1>7. UsedItems(mem2) = UsedItems(mem) \ {z}
  BY <1>1, <1>4, <1>5, <1>6
<1>8. FreeItems(mem2) = FreeItems(mem) \cup {z}
  BY <1>1, <1>4, <1>6
<1>9. z \in UsedItems(mem)
  BY <1>1, <1>6
<1> QED  BY <1>1, <1>7, <1>8, <1>9

-----------------------------------------------------------------------------
\* Nothing is taken from u but in these steps.
Excused(u, r) ==
    \/ VmFree(u)
    \/ walk # << >> /\ walk[1] = u
    \/ \E v \in Users :
          /\ TmFreeStack(v)
          /\ stack[v] = regions[r].startPage * LOGICALPAGESIZE

\* No user has regions in the kernel's space.
LEMMA KernelPages ==
    ASSUME NEW mem, Sound(mem), NEW s \in Space, NEW r \in Has(mem.lists, RegionList(s)),
           mem.regions[r].startPage \in PagesOfSpace("KERNEL"), NEW u \in Users
    PROVE  mem.regions[r].owner # u
<1>1. r \in 1 .. Len(mem.regions) /\ Shaped(mem.regions)
  BY NamesAre, SoundIs
<1>2. UsedOk(mem.regions[r], s)
  BY DEF Sound, Lists4
<1>3. mem.regions[r].startPage \in PagesOfSpace(s)
  BY <1>1, <1>2, DescIs DEF UsedOk
<1>4. s # "USER"
  BY <1>3, BootIs
<1>5. u # 0 /\ THREAD_MODE(u) = "USER"
  BY OwnersAre
<1> QED  BY <1>2, <1>4, <1>5 DEF UsedOk

\* A user's region goes out of use only for one of the three reasons.
LEMMA Theft ==
    ASSUME IInv, Next, NEW u \in Users, NEW r \in UsedItems(Mem),
           regions[r].owner = u, r \notin UsedItems(Mem')
    PROVE  Excused(u, r)
<1>0. Sound(Mem) /\ Mem.regions = regions /\ Mem.lists = lists /\ TmOk /\ StackOk
  BY MemIs DEF IInv
<1>1. ~Same(Mem, Mem')
  <2>1. PICK y : y = Mem'
    OBVIOUS
  <2>2. r \notin UsedItems(y)
    BY <2>1
  <2>3. ~Same(Mem, y)
    BY <2>2, SameUsed
  <2> QED  BY <2>1, <2>3
<1>2. ASSUME NEW f, NEW n, NEW t \in Owners, Allocates(Mem, Mem', f, n, t) PROVE FALSE
  <2>1. PICK y : y = Mem'
    OBVIOUS
  <2>2. Allocates(Mem, y, f, n, t)
    BY <2>1, <1>2
  <2>3. r \in UsedItems(y)
    BY <2>2, <1>0, AllocatesUsed
  <2> QED  BY <2>1, <2>3
<1>3. ASSUME NEW s, NEW z, NEW a, NEW t, FreesAt(Mem, Mem', z, s, a, t)
      PROVE  /\ z = r /\ s \in Space /\ r \in Has(lists, RegionList(s))
             /\ regions[r].startPage = LOGICALPAGENUMBER(a) /\ LOGICALPAGEREMAINDER(a) = 0
             /\ MayFree(u, t)
  <2>1. PICK y : y = Mem'
    OBVIOUS
  <2>2. FreesAt(Mem, y, z, s, a, t)
    BY <2>1, <1>3
  <2>3. Frees(Mem, y, z, s)
    BY <2>2 DEF FreesAt
  <2>4. UsedItems(y) = UsedItems(Mem) \ {z}
    BY <2>3, <1>0, FreesUsed
  <2>5. z = r
    BY <2>1, <2>4
  <2> QED  BY <2>2, <2>3, <2>5, <1>0 DEF FreesAt, Frees
<1>4. ASSUME NEW v \in Users, VmAlloc(v) PROVE Excused(u, r)
  <2>1. v \in Owners
    BY DEF Owners
  <2> QED  BY <2>1, <1>1, <1>2, <1>4, VmAllocIs
<1>5. ASSUME NEW v \in Users, VmFree(v) PROVE Excused(u, r)
  <2>1. PICK s, z, a : FreesAt(Mem, Mem', z, s, a, v)
    BY <1>1, <1>5, VmFreeIs
  <2>2. MayFree(u, v)
    BY <2>1, <1>3
  <2>3. u = v
    BY <2>2, OwnersAre DEF MayFree
  <2> QED  BY <2>3, <1>5 DEF Excused
<1>6. ASSUME NEW v \in Users, TmAllocStack(v) PROVE Excused(u, r)
  <2>1. TMTHREADID \in Owners
    BY DEF Owners
  <2> QED  BY <2>1, <1>1, <1>2, <1>6, TmAllocStackIs
<1>7. ASSUME TmMoveStack PROVE Excused(u, r)
  <2>1. tm.doing = "move"
    BY <1>7, TmMoveStackIs
  <2>2. tm.thread \in Users /\ LOGICALPAGENUMBER(tm.address) \in PagesOfSpace("KERNEL")
    BY <2>1, <1>0 DEF TmOk
  <2>3. PICK f, z, s : Moves(Mem, Mem', f, z, s, tm.address, tm.thread)
    BY <1>1, <1>7, TmMoveStackIs
  <2>4. PICK y : y = Mem'
    OBVIOUS
  <2>5. PICK mem1 :
           /\ Allocates(Mem, mem1, f, Mem.regions[z].numOfPages, tm.thread)
           /\ Sound(mem1) /\ Frees(mem1, y, z, s)
    BY <2>3, <2>4 DEF Moves
  <2>6. tm.thread \in Owners
    BY <2>2 DEF Owners
  <2>7. r \in UsedItems(mem1)
    BY <2>5, <2>6, <1>0, AllocatesUsed
  <2>8. UsedItems(y) = UsedItems(mem1) \ {z}
    BY <2>5, FreesUsed
  <2>9. z = r
    BY <2>4, <2>7, <2>8
  <2>10. s \in Space /\ r \in Has(Mem.lists, RegionList(s))
         /\ Mem.regions[r].startPage = LOGICALPAGENUMBER(tm.address)
    BY <2>3, <2>9 DEF Moves
  <2>11. Mem.regions[r].owner # u
    BY <2>2, <2>10, <1>0, KernelPages
  <2> QED  BY <2>11, <1>0
<1>8. ASSUME TmUndo PROVE Excused(u, r)
  <2>1. tm.doing = "undo"
    BY <1>8, TmUndoIs
  <2>2. LOGICALPAGENUMBER(tm.address) \in PagesOfSpace("KERNEL")
    BY <2>1, <1>0 DEF TmOk
  <2>3. PICK s, z : FreesAt(Mem, Mem', z, s, tm.address, TMTHREADID)
    BY <1>1, <1>8, TmUndoIs
  <2>4. /\ s \in Space /\ r \in Has(lists, RegionList(s))
        /\ regions[r].startPage = LOGICALPAGENUMBER(tm.address)
    BY <2>3, <1>3
  <2>5. Mem.regions[r].owner # u
    BY <2>2, <2>4, <1>0, KernelPages
  <2> QED  BY <2>5, <1>0
<1>9. ASSUME NEW v \in Users, TmFreeStack(v) PROVE Excused(u, r)
  <2>1. PICK s, z : FreesAt(Mem, Mem', z, s, stack[v], TMTHREADID)
    BY <1>1, <1>9, TmFreeStackIs
  <2>2. regions[r].startPage = LOGICALPAGENUMBER(stack[v]) /\ LOGICALPAGEREMAINDER(stack[v]) = 0
    BY <2>1, <1>3
  <2>3. stack[v] \in Nat
    BY <1>0 DEF StackOk
  <2>4. PICK a \in Nat : a = stack[v]
    BY <2>3
  <2>5. a = (a \div LOGICALPAGESIZE) * LOGICALPAGESIZE + (a % LOGICALPAGESIZE)
    BY VmAssumption, PageParts
  <2>6. a \div LOGICALPAGESIZE = LOGICALPAGENUMBER(a) /\ a % LOGICALPAGESIZE = 0
    BY <2>2, <2>4 DEF LOGICALPAGENUMBER, LOGICALPAGEREMAINDER
  <2>7. stack[v] = regions[r].startPage * LOGICALPAGESIZE
    <3>1. a \div LOGICALPAGESIZE \in Nat /\ LOGICALPAGESIZE \in Nat
      BY VmAssumption, PageParts
    <3>2. (a \div LOGICALPAGESIZE) * LOGICALPAGESIZE \in Nat
      BY <3>1
    <3>3. a = (a \div LOGICALPAGESIZE) * LOGICALPAGESIZE
      BY <3>2, <2>5, <2>6
    <3> QED  BY <3>3, <2>2, <2>4, <2>6
  <2> QED  BY <2>7, <1>9 DEF Excused
<1>10. ASSUME CleanupBegin \/ CleanupEnd PROVE Excused(u, r)
  BY <1>1, <1>10, CleanupBeginIs, CleanupEndIs
<1>11. ASSUME CleanupStep PROVE Excused(u, r)
  <2>1. PICK t \in Users : walk[1] = t /\ \E s, z, a : FreesAt(Mem, Mem', z, s, a, t)
    BY <1>1, <1>11, CleanupStepIs
  <2>2. MayFree(u, t)
    BY <2>1, <1>3
  <2>3. u = t
    BY <2>2, OwnersAre DEF MayFree
  <2>4. walk # << >>
    BY <1>11, CleanupStepIs
  <2> QED  BY <2>1, <2>3, <2>4 DEF Excused
<1> QED  BY <1>4, <1>5, <1>6, <1>7, <1>8, <1>9, <1>10, <1>11 DEF Next, MM, TM

NoTheft ==
    \A u \in Users : \A r \in Listed(RegionList) :
          (regions[r].owner = u /\ r \notin Listed(RegionList)') =>
              \/ VmFree(u)
              \/ walk # << >> /\ walk[1] = u
              \/ \E v \in Users :
                    /\ TmFreeStack(v)
                    /\ stack[v] = regions[r].startPage * LOGICALPAGESIZE

\* What u has is taken away by u, in its cleanup, or as a stack that TM has on record.
THEOREM RegionsNotStolen == Spec => NotStolen
<1>1. IInv /\ [Next]_vars => [NoTheft]_vars
  <2> SUFFICES ASSUME IInv, Next PROVE NoTheft
    OBVIOUS
  <2>1. Listed(RegionList) = UsedItems(Mem)
    BY ListedNow
  <2>2. IInv'
    BY InvNext
  <2>3. Listed(RegionList)' = UsedItems(Mem')
    BY <2>2, ListedThen DEF IInv
  <2>4. ASSUME NEW u \in Users, NEW r \in UsedItems(Mem), regions[r].owner = u,
               r \notin UsedItems(Mem')
        PROVE  Excused(u, r)
    BY <2>4, Theft
  <2> QED  BY <2>1, <2>3, <2>4 DEF NoTheft, Excused
<1> QED  BY <1>1, MemorySound, PTL DEF Spec, NotStolen, NoTheft

Progress ==
    (walk # << >> /\ walk' # << >>) =>
          \/ Cardinality(Mine') < Cardinality(Mine)
          \/ Mine' = Mine /\ Ahead' < Ahead

\* To lose an element makes a finite set smaller.
LEMMA FewerLeft ==
    ASSUME NEW A, IsFiniteSet(A), NEW z \in A
    PROVE  Cardinality(A \ {z}) < Cardinality(A)
<1>1. IsFiniteSet(A \ {z}) /\ Cardinality(A \ {z}) = Cardinality(A) - 1
  BY FS_RemoveElement
<1>2. Cardinality(A) \in Nat
  BY FS_CardinalityType
<1> QED  BY <1>1, <1>2

\* A step of mmVmCleanup gives a region back or has fewer ahead.
LEMMA StepProgress == ASSUME IInv, CleanupStep PROVE Progress
<1>1. PICK t \in Users :
         /\ walk[1] = t /\ walk'[1] = t
         /\ \/ \E s, r, a : FreesAt(Mem, Mem', r, s, a, t)
            \/ Same(Mem, Mem') /\ Len(Walk(lists', UserCursor')) < Len(Walk(lists, UserCursor))
  BY CleanupStepIs
<1>2. Sound(Mem) /\ Sound(Mem')
  BY CleanupStepIs DEF IInv
<1>3. THREAD_MODE(t) = "USER"
  BY OwnersAre
<1>4. Mine = {r \in UsedItems(Mem) : regions[r].owner = t}
  BY <1>1, ListedNow DEF Mine
<1>5. Mine' = {r \in UsedItems(Mem') : regions'[r].owner = t}
  BY <1>1, <1>2, ListedThen DEF Mine
<1>6. Ahead = Len(Walk(lists, UserCursor))
  BY <1>1, <1>3 DEF Ahead, UserCursor
<1>7. Ahead' = Len(Walk(lists', UserCursor'))
  BY <1>1, <1>3 DEF Ahead, UserCursor
<1>8. PICK y : y = Mem'
  OBVIOUS
<1>9. y.regions = regions' /\ Mem.regions = regions
  BY <1>8, MemIs
<1>10. CASE Same(Mem, Mem') /\ Len(Walk(lists', UserCursor')) < Len(Walk(lists, UserCursor))
  <2>1. Same(Mem, y)
    BY <1>8, <1>10
  <2>2. UsedItems(y) = UsedItems(Mem) /\ y.regions = Mem.regions
    BY <2>1, SameUsed
  <2>3. Mine' = Mine
    BY <2>2, <1>4, <1>5, <1>8, <1>9
  <2> QED  BY <2>3, <1>6, <1>7, <1>10 DEF Progress
<1>11. CASE \E s, r, a : FreesAt(Mem, Mem', r, s, a, t)
  <2>1. PICK s, z, a : FreesAt(Mem, y, z, s, a, t)
    BY <1>8, <1>11
  <2>2. Frees(Mem, y, z, s) /\ MayFree(Mem.regions[z].owner, t)
    BY <2>1 DEF FreesAt
  <2>3. /\ UsedItems(y) = UsedItems(Mem) \ {z} /\ y.regions = Mem.regions
        /\ z \in UsedItems(Mem)
    BY <2>2, <1>2, FreesUsed
  <2>4. Mem.regions[z].owner = t
    BY <2>2, <1>3 DEF MayFree
  <2>5. z \in Mine /\ Mine' = Mine \ {z}
    BY <2>3, <2>4, <1>4, <1>5, <1>8, <1>9
  <2>6. IsFiniteSet(Mine)
    <3>1. UsedItems(Mem) \subseteq 1 .. Len(Mem.regions) /\ Len(Mem.regions) \in Nat
      BY <1>2, ListedIs, SoundIs
    <3>2. IsFiniteSet(1 .. Len(Mem.regions))
      BY <3>1, FS_Interval
    <3>3. Mine \in SUBSET (1 .. Len(Mem.regions))
      BY <3>1, <1>4
    <3> QED  BY <3>2, <3>3, FS_Subset
  <2>7. Cardinality(Mine \ {z}) < Cardinality(Mine)
    BY <2>5, <2>6, FewerLeft
  <2> QED  BY <2>5, <2>7 DEF Progress
<1> QED  BY <1>1, <1>10, <1>11

\* A cleanup comes to an end, although its cursor is moved under it.
THEOREM CleanupAdvances == Spec => CleanupProgress
<1>1. IInv /\ [Next]_vars => [Progress]_vars
  <2> SUFFICES ASSUME IInv, Next PROVE Progress
    OBVIOUS
  <2>1. CASE CleanupStep
    BY <2>1, StepProgress
  <2>2. CASE ~CleanupStep
    <3>1. walk = << >> \/ walk' = << >>
      BY <2>2 DEF Next, MM, TM, CleanupBegin, CleanupEnd, TmMoveStack, TmUndo, TmAllocStack,
                  TmFreeStack, VmAlloc, VmFree, UserRequest, Receives
    <3> QED  BY <3>1 DEF Progress
  <2> QED  BY <2>1, <2>2
<1> QED  BY <1>1, MemorySound, PTL DEF Spec, CleanupProgress, Progress

-----------------------------------------------------------------------------
\* What is in one-to-one correspondence has the same size.
LEMMA SameSize ==
    ASSUME NEW S, NEW T, IsFiniteSet(S), NEW f \in [S -> T],
           \A x, y \in S : f[x] = f[y] => x = y, \A z \in T : \E x \in S : f[x] = z
    PROVE  Cardinality(T) = Cardinality(S)
<1>1. f \in Bijection(S, T)
  BY DEF Bijection, Injection, Surjection, IsInjective
<1>2. ExistsBijection(S, T)
  BY <1>1 DEF ExistsBijection
<1> QED  BY <1>2, FS_Bijection

\* A chain has as many members as it is long.
LEMMA ChainSize ==
    ASSUME NEW m, NEW l, NEW q, IsList(m, l, q)
    PROVE  /\ Range(q) = {q[i] : i \in 1 .. Len(q)} /\ Cardinality(Range(q)) = Len(q)
           /\ DOMAIN q = 1 .. Len(q)
<1>1. q \in Seq(Cell) /\ Len(q) \in Nat /\ DOMAIN q = 1 .. Len(q)
  BY DEF IsList, Along
<1>2. Range(q) = {q[i] : i \in 1 .. Len(q)}
  BY <1>1 DEF Range
<1>3. PICK n \in Nat : n = Len(q)
  BY <1>1
<1>4. q \in [1 .. n -> Range(q)]
  BY <1>1, <1>2, <1>3
<1>5. IsFiniteSet(1 .. n) /\ Cardinality(1 .. n) = n
  BY FS_Interval
<1>6. \A i, j \in 1 .. n : q[i] = q[j] => i = j
  BY <1>3 DEF IsList
<1>7. \A z \in Range(q) : \E i \in 1 .. n : q[i] = z
  BY <1>2, <1>3
<1>8. Cardinality(Range(q)) = Cardinality(1 .. n)
  BY <1>4, <1>5, <1>6, <1>7, SameSize
<1> QED  BY <1>1, <1>2, <1>3, <1>5, <1>8

\* Lists that hold items are linked in both directions, and use one cell for each item.
LEMMA LinkedIs ==
    ASSUME NEW m, NEW S, Holding(m, Names, S)
    PROVE  Linked(m, {}) /\ Cardinality(m.used) = Cardinality(S)
<1>1. ASSUME NEW l \in Names
      PROVE  LET ch == Chain(m, l)
                 k == Cardinality(Range(Chain(m, l)))
             IN  /\ DOMAIN ch = 1 .. k
                 /\ k = 0 => m.list[l].last = NULL
                 /\ k > 0 => m.list[l].last = ch[k]
                 /\ \A i \in 1 .. k : m.cell[ch[i]].prev = IF i = 1 THEN NULL ELSE ch[i - 1]
  <2>1. PICK q : q = Chain(m, l)
    OBVIOUS
  <2>2. IsList(m, l, q)
    BY <2>1 DEF Holding
  <2>3. Cardinality(Range(q)) = Len(q) /\ DOMAIN q = 1 .. Len(q)
    BY <2>2, ChainSize
  <2>4. PICK k : k = Len(q)
    OBVIOUS
  <2>5. /\ DOMAIN q = 1 .. k
        /\ k = 0 => m.list[l].last = NULL
        /\ k > 0 => m.list[l].last = q[k]
        /\ \A i \in 1 .. k : m.cell[q[i]].prev = IF i = 1 THEN NULL ELSE q[i - 1]
    BY <2>2, <2>3, <2>4 DEF IsList
  <2> QED  BY <2>1, <2>3, <2>4, <2>5
<1>2. \A l \in Names : Range(Chain(m, l)) = Cells(m, l)
  <2> TAKE l \in Names
  <2>1. PICK q : q = Chain(m, l)
    OBVIOUS
  <2>2. IsList(m, l, q)
    BY <2>1 DEF Holding
  <2>3. Range(q) = {q[i] : i \in 1 .. Len(q)}
    BY <2>2, ChainSize
  <2> QED  BY <2>1, <2>3 DEF Cells
<1>3. \A l, k \in Names : l # k => Range(Chain(m, l)) \cap Range(Chain(m, k)) = {}
  BY <1>2 DEF Holding
<1>4. m.used = {} \cup UNION {Range(Chain(m, l)) : l \in Names}
  <2>1. {Range(Chain(m, l)) : l \in Names} = {Cells(m, l) : l \in Names}
    BY <1>2
  <2> QED  BY <2>1 DEF Holding
<1>5. Linked(m, {})
  BY <1>1, <1>3, <1>4 DEF Linked, Names
<1>6. Cardinality(m.used) = Cardinality(S)
  <2>1. PICK f : f = [c \in m.used |-> m.cell[c].item]
    OBVIOUS
  <2>2. /\ \A c \in m.used : m.cell[c].item \in S
        /\ \A c, d \in m.used : m.cell[c].item = m.cell[d].item => c = d
        /\ \A x \in S : \E c \in m.used : m.cell[c].item = x
    BY DEF Holding
  <2>3. f \in [m.used -> S]
    BY <2>1, <2>2
  <2>4. IsFiniteSet(m.used)
    <3>1. m.used \in SUBSET (1 .. NbCells)
      BY CellsAre DEF Holding, MemType
    <3>2. IsFiniteSet(1 .. NbCells)
      BY CellsAre, FS_Interval
    <3> QED  BY <3>1, <3>2, FS_Subset
  <2>5. \A c, d \in m.used : f[c] = f[d] => c = d
    BY <2>1, <2>2
  <2>6. \A x \in S : \E c \in m.used : f[c] = x
    BY <2>1, <2>2
  <2> QED  BY <2>3, <2>4, <2>5, <2>6, SameSize
<1> QED  BY <1>5, <1>6

\* What TLC computes as lost is what is in no list.
LEMMA LostIs ==
    ASSUME IInv
    PROVE  /\ Listed(RegionList) \cup Listed(FreeList) = Listing(Mem)
           /\ Lost = (1 .. Len(regions)) \ Listing(Mem)
           /\ Listing(Mem) \subseteq 1 .. Len(regions)
<1>1. Sound(Mem) /\ Mem.regions = regions
  BY MemIs DEF IInv
<1>2. Listed(RegionList) \cup Listed(FreeList) = Listing(Mem)
  BY <1>1, ListedNow, ListedIs
<1>3. DOMAIN regions = 1 .. Len(regions) /\ Listing(Mem) \subseteq 1 .. Len(regions)
  BY <1>1, SoundIs
<1> QED  BY <1>2, <1>3 DEF Lost

\* The lists stay linked, and lose no descriptor: one that is in none of them was split
\* off when there was no room for a list element, and there is none since.
THEOREM ListsStayLinked == Spec => []ListsLinked
<1>1. IInv => ListsLinked
  <2> SUFFICES ASSUME IInv PROVE ListsLinked
    OBVIOUS
  <2>1. Sound(Mem) /\ Mem.lists = lists /\ Mem.regions = regions
    BY MemIs DEF IInv
  <2>2. /\ Holding(lists, Names, Listing(Mem)) /\ DOMAIN regions = 1 .. Len(regions)
        /\ Listing(Mem) # 1 .. Len(regions) => ~HasRoom(lists)
    BY <2>1, SoundIs
  <2>3. Linked(lists, {}) /\ Cardinality(lists.used) = Cardinality(Listing(Mem))
    BY <2>2, LinkedIs
  <2>4. regions \in Seq(RegionDesc)
    BY <2>1 DEF Sound, Shaped
  <2>5. DOMAIN regions \ Lost = Listing(Mem)
    BY <2>2, LostIs
  <2>6. Lost # {} => ~HasRoom(lists)
    BY <2>2, LostIs
  <2> QED  BY <2>3, <2>4, <2>5, <2>6 DEF ListsLinked
<1> QED  BY <1>1, MemorySound, PTL

\* Every page is in one region: one of an owner, a free one, or one that is lost.
THEOREM PagesTiled == Spec => []RegionsTile
<1>1. IInv => RegionsTile
  <2> SUFFICES ASSUME IInv PROVE RegionsTile
    OBVIOUS
  <2>1. Sound(Mem) /\ Mem.regions = regions
    BY MemIs DEF IInv
  <2>2. /\ ApartAll(regions) /\ Shaped(regions) /\ Covers(regions)
    BY <2>1 DEF Sound
  <2>3. PICK A, B, C : A = Listed(RegionList) /\ B = Listed(FreeList) /\ C = Lost
    OBVIOUS
  <2>4. A \cap B = {}
    BY <2>1, <2>3, ListedNow, ListedIs
  <2>5. A \cup B \cup C = 1 .. Len(regions) /\ (A \cup B) \cap C = {}
    BY <2>3, LostIs
  <2>6. ASSUME NEW r \in 1 .. Len(regions)
        PROVE  Regions!PagesOf(Owned(r)) = Span(regions[r]) /\ Regions!PagesOf(Unowned(r)) = Span(regions[r])
    BY DEF Regions!PagesOf, Owned, Unowned, Span
  <2>7. \A i, j \in 1 .. Len(regions) : i # j => Span(regions[i]) \cap Span(regions[j]) = {}
    BY <2>2 DEF ApartAll
  <2>8. PICK u, f, o : /\ u = {Owned(r) : r \in A} /\ f = {Unowned(r) : r \in B}
                       /\ o = {Owned(r) : r \in C}
    OBVIOUS
  <2>9. \A s \in Space : \A p \in PagesOfSpace(s) :
           \E S \in {u, f, o} : \E r \in S : p \in Regions!PagesOf(r)
    <3> SUFFICES ASSUME NEW s \in Space, NEW p \in PagesOfSpace(s)
                 PROVE  \/ \E r \in u : p \in Regions!PagesOf(r)
                        \/ \E r \in f : p \in Regions!PagesOf(r)
                        \/ \E r \in o : p \in Regions!PagesOf(r)
      OBVIOUS
    <3>1. PICK i \in 1 .. Len(regions) : p \in Span(regions[i])
      BY <2>2 DEF Covers
    <3>2. p \in Regions!PagesOf(Owned(i)) /\ p \in Regions!PagesOf(Unowned(i))
      BY <3>1, <2>6
    <3> QED  BY <3>2, <2>5, <2>8
  <2>10. \A r, q \in u : r # q => Regions!PagesOf(r) \cap Regions!PagesOf(q) = {}
    <3> TAKE r \in u, q \in u
    <3>1. PICK i \in A, j \in A : r = Owned(i) /\ q = Owned(j)
      BY <2>8
    <3> QED  BY <3>1, <2>5, <2>6, <2>7
  <2>11. \A r, q \in f : r # q => Regions!PagesOf(r) \cap Regions!PagesOf(q) = {}
    <3> TAKE r \in f, q \in f
    <3>1. PICK i \in B, j \in B : r = Unowned(i) /\ q = Unowned(j)
      BY <2>8
    <3> QED  BY <3>1, <2>5, <2>6, <2>7
  <2>12. \A r, q \in o : r # q => Regions!PagesOf(r) \cap Regions!PagesOf(q) = {}
    <3> TAKE r \in o, q \in o
    <3>1. PICK i \in C, j \in C : r = Owned(i) /\ q = Owned(j)
      BY <2>8
    <3> QED  BY <3>1, <2>5, <2>6, <2>7
  <2>13. \A r \in u, q \in f : Regions!PagesOf(r) \cap Regions!PagesOf(q) = {}
    <3> TAKE r \in u, q \in f
    <3>1. PICK i \in A, j \in B : r = Owned(i) /\ q = Unowned(j)
      BY <2>8
    <3> QED  BY <3>1, <2>4, <2>5, <2>6, <2>7
  <2>14. \A r \in o, q \in u \cup f : Regions!PagesOf(r) \cap Regions!PagesOf(q) = {}
    <3> TAKE r \in o, q \in u \cup f
    <3>1. PICK i \in C, j \in A \cup B : r = Owned(i) /\ q \in {Owned(j), Unowned(j)}
      BY <2>8
    <3> QED  BY <3>1, <2>5, <2>6, <2>7
  <2>15. \A S \in {u, f, o} : \A r, q \in S :
            r # q => Regions!PagesOf(r) \cap Regions!PagesOf(q) = {}
    BY <2>10, <2>11, <2>12
  <2>16. Regions!Space = Space
    BY DEF Regions!Space, Space
  <2> QED  BY <2>3, <2>8, <2>9, <2>13, <2>14, <2>15, <2>16 DEF RegionsTile, Regions!RegionsTile
<1> QED  BY <1>1, MemorySound, PTL

-----------------------------------------------------------------------------
(* The lists as sets of regions.                                           *)

Own(R, r)   == [start |-> R[r].startPage, pages |-> R[r].numOfPages, owner |-> R[r].owner]
Unown(R, r) == [start |-> R[r].startPage, pages |-> R[r].numOfPages]

UsedOf(mem) == {Own(mem.regions, r) : r \in UsedItems(mem)}
FreeOf(mem) == {Unown(mem.regions, r) : r \in FreeItems(mem)}
LostItems(mem) == (1 .. Len(mem.regions)) \ (UsedItems(mem) \cup FreeItems(mem))
LostOf(mem) == {Own(mem.regions, r) : r \in LostItems(mem)}

\* Different descriptors are different regions.
LEMMA OwnIs ==
    ASSUME NEW mem, Sound(mem), NEW i \in 1 .. Len(mem.regions), NEW j \in 1 .. Len(mem.regions)
    PROVE  /\ Own(mem.regions, i) = Own(mem.regions, j) => i = j
           /\ Unown(mem.regions, i) = Unown(mem.regions, j) => i = j
<1>1. Shaped(mem.regions) /\ ApartAll(mem.regions)
  BY SoundIs
<1>2. mem.regions[i].startPage = mem.regions[j].startPage => i = j
  BY <1>1, StartIs
<1> QED  BY <1>2 DEF Own, Unown

\* The lists of the other space stay as they are.
LEMMA AllocatesItems ==
    ASSUME NEW mem, Sound(mem), NEW mem2, NEW f, NEW n, NEW t \in Owners,
           Allocates(mem, mem2, f, n, t)
    PROVE  /\ f \in FreeItems(mem) /\ FreeOk(mem.regions[f], THREAD_MODE(t))
           /\ n \in 1 .. mem.regions[f].numOfPages
           /\ \/ /\ mem.regions[f].numOfPages = n
                 /\ mem2.regions = [mem.regions EXCEPT ![f].owner = t]
                 /\ UsedItems(mem2) = UsedItems(mem) \cup {f}
                 /\ FreeItems(mem2) = FreeItems(mem) \ {f}
              \/ /\ mem.regions[f].numOfPages > n
                 /\ IsSplit(mem.regions, mem2.regions, f, n, t)
                 /\ UsedItems(mem2) \in {UsedItems(mem), UsedItems(mem) \cup {Len(mem.regions) + 1}}
                 /\ FreeItems(mem2) = FreeItems(mem)
<1>1. PICK s \in Space : s = THREAD_MODE(t)
  BY OwnersAre
<1>2. /\ f \in Has(mem.lists, FreeList(s)) /\ n \in 1 .. mem.regions[f].numOfPages
      /\ \/ mem.regions[f].numOfPages = n /\ Whole1(mem, mem2, f, s, t)
         \/ mem.regions[f].numOfPages > n /\ Split1(mem, mem2, f, n, s, t)
      /\ Elsewhere(mem, mem2, s)
  BY <1>1 DEF Allocates
<1>3. PICK q \in Space : q # s /\ Space = {s, q}
  BY <1>1 DEF Space
<1>4. /\ RegionList(s) \in Names /\ FreeList(s) \in Names /\ RegionList(q) \in Names
      /\ FreeList(q) \in Names /\ RegionList(q) # RegionList(s) /\ FreeList(q) # FreeList(s)
      /\ RegionList(q) # FreeList(s) /\ FreeList(q) # RegionList(s)
  BY <1>1, <1>3, NamesAre
<1>5. /\ Has(mem2.lists, RegionList(q)) = Has(mem.lists, RegionList(q))
      /\ Has(mem2.lists, FreeList(q)) = Has(mem.lists, FreeList(q))
  BY <1>2, <1>4 DEF Elsewhere
<1>6. \A m : /\ UsedItems(m) = Has(m.lists, RegionList(s)) \cup Has(m.lists, RegionList(q))
             /\ FreeItems(m) = Has(m.lists, FreeList(s)) \cup Has(m.lists, FreeList(q))
  BY <1>1, <1>3 DEF UsedItems, FreeItems, Space
<1>7. f \notin Has(mem.lists, FreeList(q))
  <2>1. Holding(mem.lists, Names, Listing(mem))
    BY SoundIs
  <2> QED  BY <2>1, <1>2, <1>4, HasIs
<1>8. f \in FreeItems(mem) /\ FreeOk(mem.regions[f], s)
  BY <1>1, <1>2, <1>6 DEF Sound, Lists4
<1>9. CASE mem.regions[f].numOfPages = n /\ Whole1(mem, mem2, f, s, t)
  <2>1. /\ mem2.regions = [mem.regions EXCEPT ![f].owner = t]
        /\ Has(mem2.lists, FreeList(s)) = Has(mem.lists, FreeList(s)) \ {f}
        /\ Has(mem2.lists, RegionList(s)) = Has(mem.lists, RegionList(s)) \cup {f}
    BY <1>9 DEF Whole1
  <2>2. UsedItems(mem2) = UsedItems(mem) \cup {f}
    BY <2>1, <1>5, <1>6
  <2>3. FreeItems(mem2) = FreeItems(mem) \ {f}
    BY <2>1, <1>5, <1>6, <1>7
  <2> QED  BY <2>1, <2>2, <2>3, <1>1, <1>2, <1>8, <1>9
<1>10. CASE mem.regions[f].numOfPages > n /\ Split1(mem, mem2, f, n, s, t)
  <2>1. /\ mem2.regions = Split(mem.regions, f, n, t)
        /\ Has(mem2.lists, FreeList(s)) = Has(mem.lists, FreeList(s))
        /\ \/ Has(mem2.lists, RegionList(s)) = Has(mem.lists, RegionList(s)) \cup {Len(mem.regions) + 1}
           \/ Has(mem2.lists, RegionList(s)) = Has(mem.lists, RegionList(s))
    BY <1>10 DEF Split1
  <2>2. UsedItems(mem2) \in {UsedItems(mem), UsedItems(mem) \cup {Len(mem.regions) + 1}}
    BY <2>1, <1>5, <1>6
  <2>3. FreeItems(mem2) = FreeItems(mem)
    BY <2>1, <1>5, <1>6
  <2>4. IsSplit(mem.regions, mem2.regions, f, n, t)
    <3>1. f \in 1 .. Len(mem.regions) /\ Shaped(mem.regions)
      BY <1>2, <1>4, SoundIs
    <3>2. mem.regions[f].numOfPages \in Nat /\ t \in Int
      BY <3>1, DescIs, OwnersAre
    <3>3. n \in 1 .. mem.regions[f].numOfPages - 1
      BY <3>2, <1>2, <1>10
    <3> QED  BY <2>1, <3>1, <3>2, <3>3, SplitIs
  <2> QED  BY <2>2, <2>3, <2>4, <1>1, <1>2, <1>8, <1>10
<1> QED  BY <1>2, <1>9, <1>10

\* A region that is split off may be lost.
EntersSets(u, o, u2, o2, new, split) ==
    \/ u2 = u \cup {new} /\ o2 = o
    \/ split /\ u2 = u /\ o2 = o \cup {new}

AllocSets(u, g, o, u2, g2, o2, x, n, t) ==
    /\ x \in g /\ n \in 1 .. x.pages
    /\ x.start .. x.start + x.pages - 1 \subseteq PagesOfSpace(THREAD_MODE(t))
    /\ EntersSets(u, o, u2, o2, [start |-> x.start, pages |-> n, owner |-> t], n < x.pages)
    /\ g2 = (g \ {x}) \cup (IF n = x.pages THEN {}
                           ELSE {[start |-> x.start + n, pages |-> x.pages - n]})

\* An allocation in terms of sets.
LEMMA AllocatesMaps ==
    ASSUME NEW mem, Sound(mem), NEW mem2, NEW f, NEW n, NEW t \in Owners,
           Allocates(mem, mem2, f, n, t)
    PROVE  AllocSets(UsedOf(mem), FreeOf(mem), LostOf(mem), UsedOf(mem2), FreeOf(mem2), LostOf(mem2),
                     Unown(mem.regions, f), n, t)
<1>1. PICK R, x, R2 : R = mem.regions /\ x = Unown(R, f) /\ R2 = mem2.regions
  OBVIOUS
<1>2. PICK len \in Nat : len = Len(R)
  BY <1>1, SoundIs
<1>3. /\ f \in FreeItems(mem) /\ FreeOk(R[f], THREAD_MODE(t))
      /\ n \in 1 .. R[f].numOfPages
  BY <1>1, AllocatesItems
<1>4. /\ UsedItems(mem) \cap FreeItems(mem) = {} /\ UsedItems(mem) \cup FreeItems(mem) \subseteq 1 .. len
  BY <1>1, <1>2, ListedIs
<1>5. x.start = R[f].startPage /\ x.pages = R[f].numOfPages
  BY <1>1 DEF Unown
<1>6. x \in FreeOf(mem)
  BY <1>1, <1>3 DEF FreeOf
<1>7. x.start .. x.start + x.pages - 1 \subseteq PagesOfSpace(THREAD_MODE(t))
  BY <1>3, <1>5 DEF FreeOk, Span
<1>8. \A i, j \in 1 .. len : /\ Own(R, i) = Own(R, j) => i = j
                             /\ Unown(R, i) = Unown(R, j) => i = j
  BY <1>1, <1>2, OwnIs
<1>9. R \in Seq(RegionDesc) /\ DOMAIN R = 1 .. len /\ f \in 1 .. len
  <2>1. R \in Seq(RegionDesc)
    BY <1>1 DEF Sound, Shaped
  <2> QED  BY <2>1, <1>2, <1>3, <1>4
<1>10. PICK new : new = [start |-> x.start, pages |-> n, owner |-> t]
  OBVIOUS
<1>11. FreeOf(mem) \ {x} = {Unown(R, r) : r \in FreeItems(mem) \ {f}}
  <2>1. FreeOf(mem) = {Unown(R, r) : r \in FreeItems(mem)}
    BY <1>1 DEF FreeOf
  <2>2. \A r \in FreeItems(mem) : Unown(R, r) = x <=> r = f
    BY <1>1, <1>4, <1>8, <1>9
  <2> QED  BY <2>1, <2>2
<1>12. CASE /\ R[f].numOfPages = n
            /\ R2 = [R EXCEPT ![f].owner = t]
            /\ UsedItems(mem2) = UsedItems(mem) \cup {f}
            /\ FreeItems(mem2) = FreeItems(mem) \ {f}
  <2>1. \A r \in 1 .. len : r # f => R2[r] = R[r]
    BY <1>9, <1>12
  <2>2. R2[f] = [R[f] EXCEPT !.owner = t]
    BY <1>9, <1>12
  <2>3. R2[f].startPage = R[f].startPage /\ R2[f].numOfPages = n /\ R2[f].owner = t
    <3>1. R[f] \in RegionDesc
      BY <1>9
    <3> QED  BY <3>1, <2>2, <1>12 DEF RegionDesc
  <2>4. Own(R2, f) = new
    BY <2>3, <1>5, <1>10 DEF Own
  <2>5. \A r \in UsedItems(mem) : Own(R2, r) = Own(R, r)
    BY <2>1, <1>3, <1>4 DEF Own
  <2>6. \A r \in FreeItems(mem) \ {f} : Unown(R2, r) = Unown(R, r)
    BY <2>1, <1>4 DEF Unown
  <2>7. UsedOf(mem2) = UsedOf(mem) \cup {new}
    <3>1. UsedOf(mem2) = {Own(R2, r) : r \in UsedItems(mem) \cup {f}}
      BY <1>1, <1>12 DEF UsedOf
    <3>2. UsedOf(mem) = {Own(R, r) : r \in UsedItems(mem)}
      BY <1>1 DEF UsedOf
    <3> QED  BY <3>1, <3>2, <2>4, <2>5
  <2>8. FreeOf(mem2) = FreeOf(mem) \ {x}
    <3>1. FreeOf(mem2) = {Unown(R2, r) : r \in FreeItems(mem) \ {f}}
      BY <1>1, <1>12 DEF FreeOf
    <3> QED  BY <3>1, <2>6, <1>11
  <2>9. LostOf(mem2) = LostOf(mem)
    <3>1. Len(R2) = len /\ LostItems(mem) = (1 .. len) \ (UsedItems(mem) \cup FreeItems(mem))
      BY <1>1, <1>2, <1>9, <1>12 DEF LostItems
    <3>2. LostItems(mem2) = (1 .. len) \ (UsedItems(mem2) \cup FreeItems(mem2))
      BY <3>1, <1>1 DEF LostItems
    <3>3. LostItems(mem2) = LostItems(mem)
      BY <3>1, <3>2, <1>3, <1>12
    <3>4. \A r \in LostItems(mem) : Own(R2, r) = Own(R, r)
      BY <3>1, <2>1, <1>3 DEF Own
    <3> QED  BY <3>3, <3>4, <1>1 DEF LostOf
  <2>10. EntersSets(UsedOf(mem), LostOf(mem), UsedOf(mem2), LostOf(mem2), new, n < x.pages)
    BY <2>7, <2>9 DEF EntersSets
  <2> QED  BY <2>8, <2>10, <1>1, <1>3, <1>5, <1>6, <1>7, <1>10, <1>12 DEF AllocSets
<1>13. CASE /\ R[f].numOfPages > n
            /\ IsSplit(R, R2, f, n, t)
            /\ UsedItems(mem2) \in {UsedItems(mem), UsedItems(mem) \cup {len + 1}}
            /\ FreeItems(mem2) = FreeItems(mem)
  <2>1. \A r \in 1 .. len : r # f => R2[r] = R[r]
    BY <1>2, <1>13 DEF IsSplit
  <2>2. R2[f] = [startPage |-> R[f].startPage + n,
                 numOfPages |-> R[f].numOfPages - n, owner |-> ANY]
        /\ R2[len + 1] = [startPage |-> R[f].startPage, numOfPages |-> n, owner |-> t]
    BY <1>2, <1>13 DEF IsSplit
  <2>3. Own(R2, len + 1) = new
    BY <2>2, <1>5, <1>10 DEF Own
  <2>4. PICK rest : rest = [start |-> x.start + n, pages |-> x.pages - n]
    OBVIOUS
  <2>5. Unown(R2, f) = rest
    BY <2>2, <2>4, <1>5 DEF Unown
  <2>6. \A r \in UsedItems(mem) : Own(R2, r) = Own(R, r)
    BY <2>1, <1>3, <1>4 DEF Own
  <2>7. \A r \in FreeItems(mem) \ {f} : Unown(R2, r) = Unown(R, r)
    BY <2>1, <1>4 DEF Unown
  <2>8. EntersSets(UsedOf(mem), LostOf(mem), UsedOf(mem2), LostOf(mem2), new, n < x.pages)
    <3>1. /\ LostItems(mem) = (1 .. len) \ (UsedItems(mem) \cup FreeItems(mem))
          /\ LostItems(mem2) = (1 .. len + 1) \ (UsedItems(mem2) \cup FreeItems(mem2))
      BY <1>1, <1>2, <1>13 DEF LostItems, IsSplit
    <3>2. /\ UsedOf(mem) = {Own(R, r) : r \in UsedItems(mem)}
          /\ UsedOf(mem2) = {Own(R2, r) : r \in UsedItems(mem2)}
          /\ LostOf(mem) = {Own(R, r) : r \in LostItems(mem)}
          /\ LostOf(mem2) = {Own(R2, r) : r \in LostItems(mem2)}
      BY <1>1 DEF UsedOf, LostOf
    <3>3. \A r \in LostItems(mem) : Own(R2, r) = Own(R, r)
      BY <3>1, <2>1, <1>3 DEF Own
    <3>4. (1 .. len + 1) = (1 .. len) \cup {len + 1} /\ len + 1 \notin 1 .. len
      OBVIOUS
    <3>5. CASE UsedItems(mem2) = UsedItems(mem) \cup {len + 1}
      <4>1. LostItems(mem2) = LostItems(mem)
        BY <3>1, <3>4, <3>5, <1>4, <1>13
      <4>2. UsedOf(mem2) = UsedOf(mem) \cup {new}
        BY <3>2, <3>5, <2>3, <2>6
      <4>3. LostOf(mem2) = LostOf(mem)
        BY <4>1, <3>2, <3>3
      <4> QED  BY <4>2, <4>3 DEF EntersSets
    <3>6. CASE UsedItems(mem2) = UsedItems(mem)
      <4>1. LostItems(mem2) = LostItems(mem) \cup {len + 1}
        BY <3>1, <3>4, <3>6, <1>4, <1>13
      <4>2. UsedOf(mem2) = UsedOf(mem)
        BY <3>2, <3>6, <2>6
      <4>3. LostOf(mem2) = LostOf(mem) \cup {new}
        BY <4>1, <3>2, <3>3, <2>3
      <4>4. n < x.pages
        <5>1. R[f] \in RegionDesc
          BY <1>9
        <5>2. R[f].numOfPages \in Nat
          BY <5>1 DEF RegionDesc
        <5> QED  BY <5>2, <1>3, <1>5, <1>13
      <4> QED  BY <4>2, <4>3, <4>4 DEF EntersSets
    <3> QED  BY <3>5, <3>6, <1>13
  <2>9. FreeOf(mem2) = (FreeOf(mem) \ {x}) \cup {rest}
    <3>1. FreeOf(mem2) = {Unown(R2, r) : r \in (FreeItems(mem) \ {f}) \cup {f}}
      BY <1>1, <1>3, <1>13 DEF FreeOf
    <3> QED  BY <3>1, <2>5, <2>7, <1>11
  <2>10. n # x.pages
    <3>1. R[f] \in RegionDesc
      BY <1>9
    <3>2. R[f].numOfPages \in Nat
      BY <3>1 DEF RegionDesc
    <3> QED  BY <3>2, <1>3, <1>5, <1>13
  <2> QED  BY <2>4, <2>8, <2>9, <2>10, <1>1, <1>3, <1>5, <1>6, <1>7, <1>10 DEF AllocSets
<1>14. \/ /\ R[f].numOfPages = n
          /\ R2 = [R EXCEPT ![f].owner = t]
          /\ UsedItems(mem2) = UsedItems(mem) \cup {f}
          /\ FreeItems(mem2) = FreeItems(mem) \ {f}
       \/ /\ R[f].numOfPages > n
          /\ IsSplit(R, R2, f, n, t)
          /\ UsedItems(mem2) \in {UsedItems(mem), UsedItems(mem) \cup {Len(R) + 1}}
          /\ FreeItems(mem2) = FreeItems(mem)
  <2>1. \/ /\ mem.regions[f].numOfPages = n
           /\ mem2.regions = [mem.regions EXCEPT ![f].owner = t]
           /\ UsedItems(mem2) = UsedItems(mem) \cup {f}
           /\ FreeItems(mem2) = FreeItems(mem) \ {f}
        \/ /\ mem.regions[f].numOfPages > n
           /\ IsSplit(mem.regions, mem2.regions, f, n, t)
           /\ UsedItems(mem2) \in {UsedItems(mem), UsedItems(mem) \cup {Len(mem.regions) + 1}}
           /\ FreeItems(mem2) = FreeItems(mem)
    BY AllocatesItems, Zenon
  <2> QED  BY <2>1, <1>1, Zenon
<1> QED  BY <1>2, <1>12, <1>13, <1>14

FreeSets(u, g, o, u2, g2, o2, x) ==
    /\ x \in u /\ x.owner \in Owners
    /\ u2 = u \ {x} /\ o2 = o
    /\ g2 = g \cup {[start |-> x.start, pages |-> x.pages]}

\* And a free.
LEMMA FreesMaps ==
    ASSUME NEW mem, Sound(mem), NEW mem2, NEW z, NEW s, Frees(mem, mem2, z, s)
    PROVE  FreeSets(UsedOf(mem), FreeOf(mem), LostOf(mem), UsedOf(mem2), FreeOf(mem2), LostOf(mem2),
                    Own(mem.regions, z))
<1>1. PICK R, x : R = mem.regions /\ x = Own(R, z)
  OBVIOUS
<1>2. /\ UsedItems(mem2) = UsedItems(mem) \ {z} /\ FreeItems(mem2) = FreeItems(mem) \cup {z}
      /\ mem2.regions = R /\ z \in UsedItems(mem)
  BY <1>1, FreesUsed
<1>3. UsedItems(mem) \cup FreeItems(mem) \subseteq 1 .. Len(R)
  BY <1>1, ListedIs
<1>4. \A i, j \in 1 .. Len(R) : Own(R, i) = Own(R, j) => i = j
  BY <1>1, OwnIs
<1>5. UsedOf(mem) = {Own(R, r) : r \in UsedItems(mem)} /\ UsedOf(mem2) = {Own(R, r) : r \in UsedItems(mem) \ {z}}
  BY <1>1, <1>2 DEF UsedOf
<1>6. \A r \in UsedItems(mem) : Own(R, r) = x <=> r = z
  BY <1>1, <1>2, <1>3, <1>4
<1>7. UsedOf(mem2) = UsedOf(mem) \ {x} /\ x \in UsedOf(mem)
  BY <1>1, <1>2, <1>5, <1>6
<1>8. x.start = R[z].startPage /\ x.pages = R[z].numOfPages /\ x.owner = R[z].owner
  BY <1>1 DEF Own
<1>9. FreeOf(mem2) = FreeOf(mem) \cup {[start |-> x.start, pages |-> x.pages]}
  <2>1. Unown(R, z) = [start |-> x.start, pages |-> x.pages]
    BY <1>8 DEF Unown
  <2>2. FreeOf(mem) = {Unown(R, r) : r \in FreeItems(mem)}
        /\ FreeOf(mem2) = {Unown(R, r) : r \in FreeItems(mem) \cup {z}}
    BY <1>1, <1>2 DEF FreeOf
  <2> QED  BY <2>1, <2>2
<1>10. R[z].owner \in Owners
  <2>1. s \in Space /\ z \in Has(mem.lists, RegionList(s)) /\ ~Boot(R[z].startPage)
    BY <1>1 DEF Frees
  <2>2. UsedOk(R[z], s)
    BY <2>1, <1>1 DEF Sound, Lists4
  <2> QED  BY <2>1, <2>2 DEF UsedOk
<1>11. LostOf(mem2) = LostOf(mem)
  <2>1. LostItems(mem2) = LostItems(mem)
    BY <1>1, <1>2 DEF LostItems
  <2> QED  BY <2>1, <1>1, <1>2 DEF LostOf
<1> QED  BY <1>1, <1>7, <1>8, <1>9, <1>10, <1>11 DEF FreeSets

MoveSets(u, g, o, u2, g2, o2, x, y, t) ==
    /\ x \in g /\ y \in u /\ y.owner \in Owners /\ x.pages >= y.pages
    /\ x.start .. x.start + x.pages - 1 \subseteq PagesOfSpace("USER")
    /\ EntersSets(u \ {y}, o, u2, o2, [start |-> x.start, pages |-> y.pages, owner |-> t],
                  y.pages < x.pages)
    /\ g2 = (g \ {x}) \cup (IF y.pages = x.pages THEN {}
                           ELSE {[start |-> x.start + y.pages, pages |-> x.pages - y.pages]})
                      \cup {[start |-> y.start, pages |-> y.pages]}

\* A move in terms of sets: what is taken is never what is given back.
LEMMA MovesMaps ==
    ASSUME NEW mem, Sound(mem), NEW mem2, NEW f, NEW r, NEW s, NEW a, NEW t \in Users,
           Moves(mem, mem2, f, r, s, a, t)
    PROVE  MoveSets(UsedOf(mem), FreeOf(mem), LostOf(mem), UsedOf(mem2), FreeOf(mem2), LostOf(mem2),
                    Unown(mem.regions, f), Own(mem.regions, r), t)
<1>1. PICK R, n : R = mem.regions /\ n = R[r].numOfPages
  OBVIOUS
<1>2. /\ s \in Space /\ r \in Has(mem.lists, RegionList(s))
      /\ \E mem1 : /\ Allocates(mem, mem1, f, n, t)
                   /\ Sound(mem1) /\ Frees(mem1, mem2, r, s)
  BY <1>1 DEF Moves
<1>3. PICK mem1 : Allocates(mem, mem1, f, n, t) /\ Sound(mem1) /\ Frees(mem1, mem2, r, s)
  BY <1>2
<1>4. t \in Owners /\ THREAD_MODE(t) = "USER"
  BY OwnersAre DEF Owners
<1>5. mem1.regions[r] = R[r] /\ r # f /\ r \in 1 .. Len(R)
  BY <1>1, <1>2, <1>3, <1>4, AllocatesKeeps
<1>6. PICK x, y : x = Unown(R, f) /\ y = Own(R, r)
  OBVIOUS
<1>7. PICK u, g, o, u1, g1, o1, u2, g2, o2 :
         /\ u = UsedOf(mem) /\ g = FreeOf(mem) /\ o = LostOf(mem)
         /\ u1 = UsedOf(mem1) /\ g1 = FreeOf(mem1) /\ o1 = LostOf(mem1)
         /\ u2 = UsedOf(mem2) /\ g2 = FreeOf(mem2) /\ o2 = LostOf(mem2)
  OBVIOUS
<1>8. AllocSets(u, g, o, u1, g1, o1, x, n, t)
  BY <1>1, <1>3, <1>4, <1>6, <1>7, AllocatesMaps
<1>9. FreeSets(u1, g1, o1, u2, g2, o2, y)
  <2>1. Own(mem1.regions, r) = y
    BY <1>5, <1>6 DEF Own
  <2> QED  BY <2>1, <1>3, <1>7, FreesMaps
<1>10. /\ x.start = R[f].startPage /\ y.start = R[r].startPage /\ y.pages = n
       /\ x.pages = R[f].numOfPages
  BY <1>1, <1>6 DEF Own, Unown
<1>19. f \in 1 .. Len(R)
  <2>1. f \in FreeItems(mem)
    BY <1>3, <1>4, AllocatesItems
  <2>2. UsedItems(mem) \cup FreeItems(mem) \subseteq 1 .. Len(mem.regions)
    BY ListedIs
  <2> QED  BY <2>1, <2>2, <1>1
<1>11. x.start # y.start
  <2>1. Shaped(R) /\ ApartAll(R)
    BY <1>1, SoundIs
  <2> QED  BY <2>1, <1>19, <1>5, <1>10, StartIs
<1>12. PICK new : new = [start |-> x.start, pages |-> n, owner |-> t]
  OBVIOUS
<1>13. new # y
  <2>1. new.start = x.start
    BY <1>12
  <2> QED  BY <2>1, <1>11
<1>14. /\ x \in g /\ n \in 1 .. x.pages
       /\ x.start .. x.start + x.pages - 1 \subseteq PagesOfSpace("USER")
       /\ EntersSets(u, o, u1, o1, new, n < x.pages)
       /\ g1 = (g \ {x}) \cup (IF n = x.pages THEN {}
                           ELSE {[start |-> x.start + n, pages |-> x.pages - n]})
  BY <1>4, <1>8, <1>12 DEF AllocSets
<1>15. /\ y \in u1 /\ y.owner \in Owners /\ u2 = u1 \ {y} /\ o2 = o1
       /\ g2 = g1 \cup {[start |-> y.start, pages |-> y.pages]}
  BY <1>9 DEF FreeSets
<1>16. y \in u /\ EntersSets(u \ {y}, o, u2, o2, new, n < x.pages)
  BY <1>13, <1>14, <1>15 DEF EntersSets
<1>17. x.pages >= n
  <2>1. x.pages \in Nat
    <3>1. Shaped(R) /\ f \in 1 .. Len(R)
      BY <1>1, <1>19, SoundIs
    <3> QED  BY <3>1, <1>10, DescIs
  <2> QED  BY <2>1, <1>14
<1>18. MoveSets(u, g, o, u2, g2, o2, x, y, t)
  BY <1>10, <1>12, <1>14, <1>15, <1>16, <1>17 DEF MoveSets
<1> QED  BY <1>1, <1>6, <1>7, <1>18

-----------------------------------------------------------------------------
(* The steps of the abstract specification.                                *)

AbsUsed == {Owned(r) : r \in Listed(RegionList)}
AbsFree == {Unowned(r) : r \in Listed(FreeList)}
AbsLost == {Owned(r) : r \in Lost}

\* The sets of regions that VmRegions sees, in a state
LEMMA MapsNow ==
    ASSUME IInv
    PROVE  AbsUsed = UsedOf(Mem) /\ AbsFree = FreeOf(Mem) /\ AbsLost = LostOf(Mem)
<1>1. Mem.regions = regions
  BY MemIs
<1>2. AbsUsed = {Own(regions, r) : r \in UsedItems(Mem)}
  BY ListedNow DEF AbsUsed, Owned, Own
<1>3. AbsFree = {Unown(regions, r) : r \in FreeItems(Mem)}
  BY ListedNow DEF AbsFree, Unowned, Unown
<1>4. DOMAIN regions = 1 .. Len(regions)
  BY <1>1, SoundIs DEF IInv
<1>5. AbsLost = {Own(regions, r) : r \in LostItems(Mem)}
  BY <1>1, <1>4, ListedNow DEF AbsLost, Owned, Own, Lost, LostItems
<1> QED  BY <1>1, <1>2, <1>3, <1>5 DEF UsedOf, FreeOf, LostOf

\* and in the next one.
LEMMA MapsThen ==
    ASSUME Sound(Mem')
    PROVE  AbsUsed' = UsedOf(Mem') /\ AbsFree' = FreeOf(Mem') /\ AbsLost' = LostOf(Mem')
<1>1. PICK y : y = Mem'
  OBVIOUS
<1>2. y.regions = regions'
  BY <1>1, MemIs
<1>3. AbsUsed' = {Own(regions', r) : r \in UsedItems(y)}
  BY <1>1, ListedThen DEF AbsUsed, Owned, Own
<1>4. AbsFree' = {Unown(regions', r) : r \in FreeItems(y)}
  BY <1>1, ListedThen DEF AbsFree, Unowned, Unown
<1>5. DOMAIN regions' = 1 .. Len(regions')
  BY <1>1, <1>2, SoundIs
<1>6. AbsLost' = {Own(regions', r) : r \in LostItems(y)}
  BY <1>1, <1>2, <1>5, ListedThen DEF AbsLost, Owned, Own, Lost, LostItems
<1> QED  BY <1>1, <1>2, <1>3, <1>4, <1>6 DEF UsedOf, FreeOf, LostOf

\* A request that fails is a stutter.
LEMMA SameMaps ==
    ASSUME IInv, Sound(Mem'), Same(Mem, Mem')
    PROVE  AbsUsed' = AbsUsed /\ AbsFree' = AbsFree /\ AbsLost' = AbsLost
<1>1. PICK m, y : m = Mem /\ y = Mem'
  OBVIOUS
<1>2. UsedItems(y) = UsedItems(m) /\ FreeItems(y) = FreeItems(m) /\ y.regions = m.regions
  BY <1>1, SameUsed
<1>3. UsedOf(y) = UsedOf(m) /\ FreeOf(y) = FreeOf(m) /\ LostOf(y) = LostOf(m)
  BY <1>2 DEF UsedOf, FreeOf, LostOf, LostItems
<1> QED  BY <1>1, <1>3, MapsNow, MapsThen

\* An allocation is one of VmRegions,
LEMMA AllocStep ==
    ASSUME IInv, Sound(Mem'), NEW t \in Owners, NEW f, NEW n, Allocates(Mem, Mem', f, n, t)
    PROVE  Regions!Next
<1>1. PICK m, y, x : m = Mem /\ y = Mem' /\ x = Unown(m.regions, f)
  OBVIOUS
<1>2. Sound(m) /\ Allocates(m, y, f, n, t)
  BY <1>1 DEF IInv
<1>3. AllocSets(UsedOf(m), FreeOf(m), LostOf(m), UsedOf(y), FreeOf(y), LostOf(y), x, n, t)
  BY <1>1, <1>2, AllocatesMaps
<1>4. AllocSets(AbsUsed, AbsFree, AbsLost, AbsUsed', AbsFree', AbsLost', x, n, t)
  BY <1>1, <1>3, MapsNow, MapsThen
<1>5. Regions!In(Regions!THREAD_MODE(t), x)
  <2>1. THREAD_MODE(t) \in Space
    BY OwnersAre
  <2>2. Regions!THREAD_MODE(t) = THREAD_MODE(t)
    BY DEF Regions!THREAD_MODE, THREAD_MODE, Regions!MMTHREADID, MMTHREADID
  <2>3. x.start .. x.start + x.pages - 1 \subseteq PagesOfSpace(THREAD_MODE(t))
    BY <1>4 DEF AllocSets
  <2> QED  BY <2>1, <2>2, <2>3 DEF Regions!In, Regions!PagesOf
<1>6. /\ x \in AbsFree /\ n \in 1 .. x.pages
      /\ EntersSets(AbsUsed, AbsLost, AbsUsed', AbsLost', Regions!Taken(x, n, t), n < x.pages)
      /\ AbsFree' = (AbsFree \ {x}) \cup Regions!Rest(x, n)
  BY <1>4 DEF AllocSets, Regions!Taken, Regions!Rest
<1>7. Regions!Enters(Regions!Taken(x, n, t), AbsUsed, n < x.pages)
  BY <1>6 DEF EntersSets, Regions!Enters, AbsUsed, AbsLost
<1>8. Regions!Alloc(t)
  BY <1>5, <1>6, <1>7 DEF Regions!Alloc, AbsUsed, AbsFree
<1>9. t \in Users \cup {TMTHREADID}
  BY DEF Owners
<1> QED  BY <1>8, <1>9 DEF Regions!Next

\* a free is a release,
LEMMA FreeStep ==
    ASSUME IInv, Sound(Mem'), NEW s, NEW r, NEW a, NEW t, FreesAt(Mem, Mem', r, s, a, t)
    PROVE  Regions!Next
<1>1. PICK m, y, x : m = Mem /\ y = Mem' /\ x = Own(m.regions, r)
  OBVIOUS
<1>2. Sound(m) /\ Frees(m, y, r, s)
  BY <1>1 DEF IInv, FreesAt
<1>3. FreeSets(UsedOf(m), FreeOf(m), LostOf(m), UsedOf(y), FreeOf(y), LostOf(y), x)
  BY <1>1, <1>2, FreesMaps
<1>4. FreeSets(AbsUsed, AbsFree, AbsLost, AbsUsed', AbsFree', AbsLost', x)
  BY <1>1, <1>3, MapsNow, MapsThen
<1>5. x \in AbsUsed /\ x.owner \in Users \cup {TMTHREADID}
  BY <1>4 DEF FreeSets, Owners
<1>6. Regions!Release(x)
  BY <1>4 DEF FreeSets, Regions!Release, Regions!Freed, AbsUsed, AbsFree, AbsLost
<1> QED  BY <1>5, <1>6 DEF Regions!Next, AbsUsed

\* and a move of a stack is one move.
LEMMA MoveStep ==
    ASSUME IInv, Sound(Mem'), NEW f, NEW r, NEW s, NEW a, NEW t \in Users,
           Moves(Mem, Mem', f, r, s, a, t)
    PROVE  Regions!Next
<1>1. PICK m, z, x, y : /\ m = Mem /\ z = Mem'
                        /\ x = Unown(m.regions, f) /\ y = Own(m.regions, r)
  OBVIOUS
<1>2. Sound(m) /\ Moves(m, z, f, r, s, a, t)
  BY <1>1 DEF IInv
<1>3. MoveSets(UsedOf(m), FreeOf(m), LostOf(m), UsedOf(z), FreeOf(z), LostOf(z), x, y, t)
  BY <1>1, <1>2, MovesMaps
<1>4. MoveSets(AbsUsed, AbsFree, AbsLost, AbsUsed', AbsFree', AbsLost', x, y, t)
  BY <1>1, <1>3, MapsNow, MapsThen
<1>5. Regions!In("USER", x)
  BY <1>4 DEF MoveSets, Regions!In, Regions!PagesOf, Space
<1>6. Regions!THREAD_MODE(t) = "USER"
  BY OwnersAre DEF Regions!THREAD_MODE, THREAD_MODE, Regions!MMTHREADID, MMTHREADID
<1>7. /\ x \in AbsFree /\ x.pages >= y.pages
      /\ EntersSets(AbsUsed \ {y}, AbsLost, AbsUsed', AbsLost', Regions!Taken(x, y.pages, t),
                    y.pages < x.pages)
      /\ AbsFree' = (AbsFree \ {x}) \cup Regions!Rest(x, y.pages) \cup {Regions!Freed(y)}
  BY <1>4 DEF MoveSets, Regions!Taken, Regions!Rest, Regions!Freed
<1>8. Regions!Enters(Regions!Taken(x, y.pages, t), AbsUsed \ {y}, y.pages < x.pages)
  BY <1>7 DEF EntersSets, Regions!Enters, AbsUsed, AbsLost
<1>9. Regions!Move(y, t)
  BY <1>5, <1>6, <1>7, <1>8 DEF Regions!Move, AbsUsed, AbsFree
<1>10. y \in AbsUsed /\ y.owner \in Users \cup {TMTHREADID}
  BY <1>4 DEF MoveSets, Owners
<1> QED  BY <1>9, <1>10 DEF Regions!Next, AbsUsed

\* The regions that mmVmInit makes are those that the abstract one begins with.
LEMMA InitMaps == ASSUME Init PROVE Regions!Init
<1>1. IInv
  BY InvInit
<1>2. PICK m, R : m = mmVmInit /\ R = m.regions
  OBVIOUS
<1>3. lists = m.lists /\ regions = R
  BY <1>2 DEF Init
<1>4. \A j \in 1 .. 10 : R[j].owner = 0
  BY <1>2, FirstDesc
<1>5. \A l \in Names : Has(m.lists, l) = {j \in 1 .. 10 : Parts[j].list = l}
  BY <1>2, AllBuilt DEF Built
<1>6. UsedItems(m) = (1 .. 10) \ {7, 10} /\ FreeItems(m) = {7, 10}
  <2>1. "KERNEL" \in Space /\ "USER" \in Space
    BY DEF Space
  <2>2. PICK rk, ru, fk, fu : /\ rk = RegionList("KERNEL") /\ ru = RegionList("USER")
                              /\ fk = FreeList("KERNEL") /\ fu = FreeList("USER")
    OBVIOUS
  <2>3. rk \in Names /\ ru \in Names /\ fk \in Names /\ fu \in Names
    BY <2>1, <2>2, NamesAre
  <2>4. \A j \in 1 .. 10 : /\ Parts[j].list = rk <=> j \in 1 .. 6
                           /\ Parts[j].list = ru <=> j \in {8, 9}
                           /\ Parts[j].list = fk <=> j = 7
                           /\ Parts[j].list = fu <=> j = 10
    BY <2>1, <2>2, PartsAre
  <2>5. /\ Has(m.lists, rk) = 1 .. 6 /\ Has(m.lists, ru) = {8, 9}
        /\ Has(m.lists, fk) = {7} /\ Has(m.lists, fu) = {10}
    BY <2>3, <2>4, <1>5
  <2>6. UsedItems(m) = (1 .. 6) \cup {8, 9} /\ FreeItems(m) = {7} \cup {10}
    BY <2>2, <2>5 DEF UsedItems, FreeItems
  <2>7. (1 .. 6) \cup {8, 9} = (1 .. 10) \ {7, 10}
    OBVIOUS
  <2> QED  BY <2>6, <2>7
<1>7. Mem.lists = m.lists /\ Mem.regions = R
  BY <1>3, MemIs
<1>8. UsedItems(Mem) = (1 .. 10) \ {7, 10} /\ FreeItems(Mem) = {7, 10}
  BY <1>6, <1>7 DEF UsedItems, FreeItems
<1>9. AbsUsed = {[start |-> r.startPage, pages |-> r.numOfPages, owner |-> 0] :
                     r \in {R[i] : i \in (1 .. 10) \ {7, 10}}}
  <2>1. AbsUsed = {Own(R, i) : i \in (1 .. 10) \ {7, 10}}
    BY <1>1, <1>7, <1>8, MapsNow DEF UsedOf
  <2>2. \A i \in (1 .. 10) \ {7, 10} :
           Own(R, i) = [start |-> R[i].startPage, pages |-> R[i].numOfPages, owner |-> 0]
    BY <1>4 DEF Own
  <2> QED  BY <2>1, <2>2
<1>10. AbsFree = {[start |-> r.startPage, pages |-> r.numOfPages] : r \in {R[i] : i \in {7, 10}}}
  <2>1. AbsFree = {Unown(R, i) : i \in {7, 10}}
    BY <1>1, <1>7, <1>8, MapsNow DEF FreeOf
  <2> QED  BY <2>1 DEF Unown
<1>11. AbsLost = {}
  <2>1. Len(R) = 10
    BY <1>2, AllBuilt DEF Built
  <2>2. LostItems(Mem) = {}
    BY <2>1, <1>7, <1>8 DEF LostItems
  <2> QED  BY <2>2, <1>1, MapsNow DEF LostOf
<1> QED  BY <1>2, <1>9, <1>10, <1>11 DEF Regions!Init, AbsUsed, AbsFree, AbsLost

\* Every step is a step of VmRegions or changes none of its regions.
LEMMA StepMaps == IInv /\ [Next]_vars => [Regions!Next]_Regions!vars
<1> SUFFICES ASSUME IInv, [Next]_vars PROVE [Regions!Next]_Regions!vars
  OBVIOUS
<1>0. ASSUME AbsUsed' = AbsUsed, AbsFree' = AbsFree, AbsLost' = AbsLost PROVE UNCHANGED Regions!vars
  BY <1>0 DEF Regions!vars, AbsUsed, AbsFree, AbsLost
<1>a. ASSUME Sound(Mem'), Same(Mem, Mem') PROVE UNCHANGED Regions!vars
  BY <1>0, <1>a, SameMaps
<1>1. ASSUME NEW u \in Users, VmAlloc(u) PROVE [Regions!Next]_Regions!vars
  <2>1. u \in Owners
    BY DEF Owners
  <2>2. Sound(Mem') /\ (Same(Mem, Mem') \/ \E f, n : Allocates(Mem, Mem', f, n, u))
    BY <1>1, VmAllocIs
  <2> QED  BY <2>1, <2>2, <1>a, AllocStep
<1>2. ASSUME NEW u \in Users, VmFree(u) PROVE [Regions!Next]_Regions!vars
  <2>2. Sound(Mem') /\ (Same(Mem, Mem') \/ \E s, r, a : FreesAt(Mem, Mem', r, s, a, u))
    BY <1>2, VmFreeIs
  <2> QED  BY <2>2, <1>a, FreeStep
<1>3. ASSUME NEW u \in Users, TmAllocStack(u) PROVE [Regions!Next]_Regions!vars
  <2>1. TMTHREADID \in Owners
    BY DEF Owners
  <2>2. Sound(Mem') /\ (Same(Mem, Mem') \/ \E f, n : Allocates(Mem, Mem', f, n, TMTHREADID))
    BY <1>3, TmAllocStackIs
  <2> QED  BY <2>1, <2>2, <1>a, AllocStep
<1>4. ASSUME TmMoveStack PROVE [Regions!Next]_Regions!vars
  <2>1. /\ Sound(Mem') /\ tm.doing = "move"
        /\ Same(Mem, Mem') \/ \E f, r, s : Moves(Mem, Mem', f, r, s, tm.address, tm.thread)
    BY <1>4, TmMoveStackIs
  <2>2. PICK a, t : a = tm.address /\ t = tm.thread
    OBVIOUS
  <2>3. t \in Users
    BY <2>1, <2>2 DEF IInv, TmOk
  <2> QED  BY <2>1, <2>2, <2>3, <1>a, MoveStep
<1>5. ASSUME TmUndo PROVE [Regions!Next]_Regions!vars
  <2>1. PICK a, t : a = tm.address /\ t = TMTHREADID
    OBVIOUS
  <2>2. Sound(Mem') /\ (Same(Mem, Mem') \/ \E s, r : FreesAt(Mem, Mem', r, s, a, t))
    BY <1>5, <2>1, TmUndoIs
  <2> QED  BY <2>2, <1>a, FreeStep
<1>6. ASSUME NEW u \in Users, TmFreeStack(u) PROVE [Regions!Next]_Regions!vars
  <2>1. PICK a, t : a = stack[u] /\ t = TMTHREADID
    OBVIOUS
  <2>2. Sound(Mem') /\ (Same(Mem, Mem') \/ \E s, r : FreesAt(Mem, Mem', r, s, a, t))
    BY <1>6, <2>1, TmFreeStackIs
  <2> QED  BY <2>2, <1>a, FreeStep
<1>7. ASSUME CleanupBegin PROVE [Regions!Next]_Regions!vars
  BY <1>7, <1>a, CleanupBeginIs
<1>8. ASSUME CleanupStep PROVE [Regions!Next]_Regions!vars
  <2>1. /\ Sound(Mem')
        /\ \/ \E t \in Users : \E s, r, a : FreesAt(Mem, Mem', r, s, a, t)
           \/ Same(Mem, Mem')
    BY <1>8, CleanupStepIs
  <2> QED  BY <2>1, <1>a, FreeStep
<1>9. ASSUME CleanupEnd PROVE [Regions!Next]_Regions!vars
  BY <1>9, <1>a, CleanupEndIs
<1>10. ASSUME UNCHANGED vars PROVE [Regions!Next]_Regions!vars
  <2>1. AbsUsed' = AbsUsed /\ AbsFree' = AbsFree /\ AbsLost' = AbsLost
    BY <1>10 DEF vars, AbsUsed, AbsFree, AbsLost, Owned, Unowned, Lost, Listed, InList
  <2> QED  BY <2>1, <1>0
<1> QED  BY <1>1, <1>2, <1>3, <1>4, <1>5, <1>6, <1>7, <1>8, <1>9, <1>10 DEF Next, MM, TM

\* Memory/MMVirtualMemory.c keeps its promise: seen as sets of regions, what the
\* requests do is an allocation, a release or a move, or nothing at all.
THEOREM RegionsImplemented == Spec => ImplementsRegions
<1>1. Init => Regions!Init
  BY InitMaps
<1>2. IInv /\ [Next]_vars => [Regions!Next]_Regions!vars
  BY StepMaps
<1> QED  BY <1>1, <1>2, MemorySound, PTL DEF Spec, ImplementsRegions, Regions!Spec

-----------------------------------------------------------------------------
(* VmRegions by itself: whatever the spaces, the threads and the regions   *)
(* at the start are, as long as these tile them.                           *)

CONSTANTS ThreadId, Pages, FirstUsed, FirstFree
VARIABLES used, free, lost

Abstract == INSTANCE VmRegions

Apart(A) == \A r, q \in A : r # q => Abstract!PagesOf(r) \cap Abstract!PagesOf(q) = {}

Shapes(A) == \A r \in A : r.start \in Int /\ r.pages \in Nat

\* Abstract!RegionsTile says nothing of pages outside the spaces; here regions are apart
\* wherever they are, since a region may be freed into either list.
Tiled(u, f, o) ==
    /\ Shapes(u) /\ Shapes(f) /\ Shapes(o)
    /\ Apart(u) /\ Apart(f) /\ Apart(o)
    /\ \A r \in u, q \in f : Abstract!PagesOf(r) \cap Abstract!PagesOf(q) = {}
    /\ \A r \in o, q \in u \cup f : Abstract!PagesOf(r) \cap Abstract!PagesOf(q) = {}
    /\ \A s \in Abstract!Space : \A p \in Pages[s] :
          \E r \in u \cup f \cup o : p \in Abstract!PagesOf(r)

TiledNow == Tiled(used, free, lost)

-----------------------------------------------------------------------------
\* vmAllocRegion cuts a region in two: what is taken and the rest.
LEMMA Cut ==
    ASSUME NEW f, f.start \in Int, f.pages \in Nat,
           NEW n \in 0 .. f.pages, NEW t
    PROVE  /\ Abstract!Taken(f, n, t).start \in Int /\ Abstract!Taken(f, n, t).pages \in Nat
           /\ Shapes(Abstract!Rest(f, n))
           /\ Apart(Abstract!Rest(f, n))
           /\ Abstract!PagesOf(Abstract!Taken(f, n, t)) \subseteq Abstract!PagesOf(f)
           /\ \A q \in Abstract!Rest(f, n) : /\ Abstract!PagesOf(q) \subseteq Abstract!PagesOf(f)
                                    /\ Abstract!PagesOf(q) \cap Abstract!PagesOf(Abstract!Taken(f, n, t)) = {}
           /\ \A p \in Abstract!PagesOf(f) :
                 \/ p \in Abstract!PagesOf(Abstract!Taken(f, n, t))
                 \/ \E q \in Abstract!Rest(f, n) : p \in Abstract!PagesOf(q)
<1>1. CASE n = f.pages
  BY <1>1 DEF Abstract!Taken, Abstract!Rest, Shapes, Apart, Abstract!PagesOf
<1>2. CASE n # f.pages
  <2> DEFINE q == [start |-> f.start + n, pages |-> f.pages - n]
  <2>1. Abstract!Rest(f, n) = {q}
    BY <1>2 DEF Abstract!Rest
  <2>2. q.start = f.start + n /\ q.pages = f.pages - n /\ q.pages \in Nat
    OBVIOUS
  <2> HIDE DEF q
  <2>3. Abstract!PagesOf(q) = f.start + n .. f.start + f.pages - 1
    <3>1. q.start + q.pages - 1 = f.start + f.pages - 1
      BY <2>2
    <3> QED
      BY <2>2, <3>1 DEF Abstract!PagesOf
  <2>4. Abstract!PagesOf(Abstract!Taken(f, n, t)) = f.start .. f.start + n - 1
    BY DEF Abstract!PagesOf, Abstract!Taken
  <2>5. Abstract!PagesOf(f) = f.start .. f.start + f.pages - 1
    BY DEF Abstract!PagesOf
  <2> QED
    BY <2>1, <2>2, <2>3, <2>4, <2>5 DEF Shapes, Apart, Abstract!Taken
<1> QED
  BY <1>1, <1>2

\* A free region serves an allocation, whether what is taken is listed or lost.
LEMMA AllocTiled ==
    ASSUME NEW u, NEW g, NEW o, Tiled(u, g, o),
           NEW f \in g, NEW n \in 0 .. f.pages, NEW t
    PROVE  /\ Tiled(u \cup {Abstract!Taken(f, n, t)}, (g \ {f}) \cup Abstract!Rest(f, n), o)
           /\ Tiled(u, (g \ {f}) \cup Abstract!Rest(f, n), o \cup {Abstract!Taken(f, n, t)})
<1> DEFINE new == Abstract!Taken(f, n, t)
<1>1. f.start \in Int /\ f.pages \in Nat
  BY DEF Tiled, Shapes
<1>2. /\ new.start \in Int /\ new.pages \in Nat
      /\ Shapes(Abstract!Rest(f, n))
      /\ Apart(Abstract!Rest(f, n))
      /\ Abstract!PagesOf(new) \subseteq Abstract!PagesOf(f)
      /\ \A q \in Abstract!Rest(f, n) : /\ Abstract!PagesOf(q) \subseteq Abstract!PagesOf(f)
                               /\ Abstract!PagesOf(q) \cap Abstract!PagesOf(new) = {}
      /\ \A p \in Abstract!PagesOf(f) : \/ p \in Abstract!PagesOf(new)
                               \/ \E q \in Abstract!Rest(f, n) : p \in Abstract!PagesOf(q)
  BY <1>1, Cut
<1> HIDE DEF new
<1> DEFINE rest == (g \ {f}) \cup Abstract!Rest(f, n)
<1>3. Shapes(u \cup {new}) /\ Shapes(rest) /\ Shapes(o \cup {new})
  BY <1>2 DEF Tiled, Shapes
<1>4. Apart(u \cup {new}) /\ Apart(o \cup {new})
  BY <1>2 DEF Tiled, Apart
<1>5. Apart(rest)
  BY <1>2 DEF Tiled, Apart
<1>6. /\ \A q \in rest : Abstract!PagesOf(new) \cap Abstract!PagesOf(q) = {}
      /\ \A r \in u \cup o, q \in rest : Abstract!PagesOf(r) \cap Abstract!PagesOf(q) = {}
      /\ \A r \in u \cup o : Abstract!PagesOf(r) \cap Abstract!PagesOf(new) = {}
  BY <1>2 DEF Tiled, Apart
<1>7. \A s \in Abstract!Space : \A p \in Pages[s] :
         \E r \in u \cup {new} \cup rest \cup o : p \in Abstract!PagesOf(r)
  <2> SUFFICES ASSUME NEW s \in Abstract!Space, NEW p \in Pages[s]
               PROVE  \E r \in u \cup {new} \cup rest \cup o : p \in Abstract!PagesOf(r)
    OBVIOUS
  <2>1. PICK r \in u \cup g \cup o : p \in Abstract!PagesOf(r)
    BY DEF Tiled
  <2> QED
    BY <1>2, <2>1
<1> HIDE DEF rest
<1>8. Tiled(u \cup {new}, rest, o)
  <2>1. \A r \in u \cup {new}, q \in rest : Abstract!PagesOf(r) \cap Abstract!PagesOf(q) = {}
    BY <1>6
  <2>2. \A r \in o, q \in (u \cup {new}) \cup rest : Abstract!PagesOf(r) \cap Abstract!PagesOf(q) = {}
    BY <1>6 DEF Tiled
  <2> QED  BY <2>1, <2>2, <1>3, <1>4, <1>5, <1>7 DEF Tiled
<1>9. Tiled(u, rest, o \cup {new})
  <2>1. \A r \in u, q \in rest : Abstract!PagesOf(r) \cap Abstract!PagesOf(q) = {}
    BY <1>6
  <2>2. \A r \in o \cup {new}, q \in u \cup rest : Abstract!PagesOf(r) \cap Abstract!PagesOf(q) = {}
    BY <1>6 DEF Tiled
  <2>3. \A s \in Abstract!Space : \A p \in Pages[s] :
           \E r \in u \cup rest \cup (o \cup {new}) : p \in Abstract!PagesOf(r)
    BY <1>7
  <2> QED  BY <2>1, <2>2, <2>3, <1>3, <1>4, <1>5 DEF Tiled
<1> QED  BY <1>8, <1>9 DEF new, rest

\* A region becomes free (vmFreeRegion).
LEMMA ReleaseTiled ==
    ASSUME NEW u, NEW g, NEW o, Tiled(u, g, o), NEW r \in u
    PROVE  Tiled(u \ {r}, g \cup {Abstract!Freed(r)}, o)
<1>1. /\ r.start \in Int /\ r.pages \in Nat
      /\ Abstract!Freed(r).start \in Int /\ Abstract!Freed(r).pages \in Nat
  BY DEF Tiled, Shapes, Abstract!Freed
<1>2. Abstract!PagesOf(Abstract!Freed(r)) = Abstract!PagesOf(r)
  BY DEF Abstract!PagesOf, Abstract!Freed
<1>3. Shapes(u \ {r}) /\ Shapes(g \cup {Abstract!Freed(r)})
  BY <1>1 DEF Tiled, Shapes
<1>4. Apart(u \ {r}) /\ Apart(g \cup {Abstract!Freed(r)})
  BY <1>2 DEF Tiled, Apart
<1>5. \A q \in u \ {r}, f \in g \cup {Abstract!Freed(r)} : Abstract!PagesOf(q) \cap Abstract!PagesOf(f) = {}
  BY <1>2 DEF Tiled, Apart
<1>6. \A s \in Abstract!Space : \A p \in Pages[s] :
         \E q \in (u \ {r}) \cup (g \cup {Abstract!Freed(r)}) \cup o : p \in Abstract!PagesOf(q)
  BY <1>2 DEF Tiled
<1>7. \A q \in o, f \in (u \ {r}) \cup (g \cup {Abstract!Freed(r)}) :
         Abstract!PagesOf(q) \cap Abstract!PagesOf(f) = {}
  BY <1>2 DEF Tiled
<1> QED
  BY <1>3, <1>4, <1>5, <1>6, <1>7 DEF Tiled

\* A region without pages does no harm.
LEMMA EmptyTiled ==
    ASSUME NEW u, NEW g, NEW o, Tiled(u, g, o),
           NEW e, e.start \in Int, e.pages \in Nat, Abstract!PagesOf(e) = {}
    PROVE  Tiled(u, g \cup {e}, o)
<1>1. Shapes(g \cup {e}) /\ Apart(g \cup {e})
  BY DEF Tiled, Shapes, Apart
<1> QED
  BY <1>1 DEF Tiled

-----------------------------------------------------------------------------
\* Regions that tile the spaces go on tiling them.
LEMMA TiledStep == TiledNow /\ [Abstract!Next]_Abstract!vars => TiledNow'
<1> SUFFICES ASSUME TiledNow, [Abstract!Next]_Abstract!vars
             PROVE  TiledNow'
  OBVIOUS
<1>1. ASSUME NEW t \in ThreadId, Abstract!Alloc(t)
      PROVE  TiledNow'
  <2>1. PICK f \in free : \E n \in 1 .. f.pages :
           /\ Abstract!Enters(Abstract!Taken(f, n, t), used, n < f.pages)
           /\ free' = (free \ {f}) \cup Abstract!Rest(f, n)
    BY <1>1 DEF Abstract!Alloc
  <2>2. PICK n \in 1 .. f.pages :
           /\ Abstract!Enters(Abstract!Taken(f, n, t), used, n < f.pages)
           /\ free' = (free \ {f}) \cup Abstract!Rest(f, n)
    BY <2>1
  <2>3. n \in 0 .. f.pages
    BY DEF TiledNow, Tiled, Shapes
  <2> DEFINE new  == Abstract!Taken(f, n, t)
             rest == (free \ {f}) \cup Abstract!Rest(f, n)
  <2>4. Tiled(used \cup {new}, rest, lost) /\ Tiled(used, rest, lost \cup {new})
    BY <2>3, AllocTiled DEF TiledNow
  <2> QED
    BY <2>2, <2>4 DEF TiledNow, Abstract!Enters
<1>2. ASSUME NEW r \in used, Abstract!Release(r)
      PROVE  TiledNow'
  BY <1>2, ReleaseTiled DEF TiledNow, Abstract!Release
<1>3. ASSUME NEW r \in used, NEW t \in ThreadId, Abstract!Move(r, t)
      PROVE  TiledNow'
  <2>1. PICK f \in free :
           /\ f.pages >= r.pages
           /\ Abstract!Enters(Abstract!Taken(f, r.pages, t), used \ {r}, r.pages < f.pages)
           /\ free' = (free \ {f}) \cup Abstract!Rest(f, r.pages) \cup {Abstract!Freed(r)}
    BY <1>3 DEF Abstract!Move
  <2> DEFINE new  == Abstract!Taken(f, r.pages, t)
             rest == (free \ {f}) \cup Abstract!Rest(f, r.pages)
  <2>2. r.pages \in 0 .. f.pages
    BY <2>1 DEF TiledNow, Tiled, Shapes
  <2>3. Tiled(used \cup {new}, rest, lost) /\ Tiled(used, rest, lost \cup {new})
    BY <2>2, AllocTiled DEF TiledNow
  <2>4. CASE used' = used \ {r} /\ lost' = lost \cup {new}
    <3>1. Tiled(used \ {r}, rest \cup {Abstract!Freed(r)}, lost \cup {new})
      BY <2>3, ReleaseTiled
    <3> QED
      BY <2>1, <2>4, <3>1 DEF TiledNow
  <2>5. CASE used' = (used \ {r}) \cup {new} /\ lost' = lost /\ new # r
    <3>1. Tiled((used \cup {new}) \ {r}, rest \cup {Abstract!Freed(r)}, lost)
      BY <2>3, ReleaseTiled
    <3>2. (used \cup {new}) \ {r} = (used \ {r}) \cup {new}
      BY <2>5
    <3> QED
      BY <2>1, <2>5, <3>1, <3>2 DEF TiledNow
  <2>6. CASE used' = (used \ {r}) \cup {new} /\ lost' = lost /\ new = r
    <3>1. Abstract!PagesOf(new) \subseteq Abstract!PagesOf(f) /\ Abstract!PagesOf(r) \cap Abstract!PagesOf(f) = {}
      BY <2>2, Cut DEF TiledNow, Tiled, Shapes
    <3>2. Abstract!PagesOf(Abstract!Freed(r)) = {}
      BY <2>6, <3>1 DEF Abstract!PagesOf, Abstract!Freed
    <3>3. Abstract!Freed(r).start \in Int /\ Abstract!Freed(r).pages \in Nat
      BY DEF TiledNow, Tiled, Shapes, Abstract!Freed
    <3>4. Tiled(used \cup {new}, rest \cup {Abstract!Freed(r)}, lost)
      BY <2>3, <3>2, <3>3, EmptyTiled
    <3>5. used' = used \cup {new}
      BY <2>6
    <3> QED
      BY <2>1, <2>6, <3>4, <3>5 DEF TiledNow
  <2> QED
    BY <2>1, <2>4, <2>5, <2>6 DEF Abstract!Enters
<1>4. CASE UNCHANGED Abstract!vars
  BY <1>4 DEF Abstract!vars, TiledNow
<1> QED
  BY <1>1, <1>2, <1>3, <1>4 DEF Abstract!Next

\* What mmVmInit leaves tiled stays tiled: no request to MM makes two regions share a
\* page, or leaves a page in none, not even one that MM itself loses track of.
THEOREM Tiling ==
    ASSUME Tiled(FirstUsed, FirstFree, {})
    PROVE  Abstract!Spec => []Abstract!RegionsTile
<1>1. Abstract!Init => TiledNow
  BY DEF Abstract!Init, TiledNow
<1>2. TiledNow => Abstract!RegionsTile
  BY DEF TiledNow, Tiled, Apart, Abstract!RegionsTile
<1> QED
  BY <1>1, <1>2, TiledStep, PTL DEF Abstract!Spec
===============================================================================
