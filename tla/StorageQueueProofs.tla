------------------------- MODULE StorageQueueProofs -------------------------
(***************************************************************************)
(* The storage queue is consistent and implements a sequence, for every    *)
(* set of values and every bound on the positions.                         *)
(***************************************************************************)
EXTENDS StorageQueue, TLAPS

(* The positions bound the used cells: all the invariants of the queue     *)
(* together, which every operation of queue.rs preserves.                  *)
QueueInv == QueueTypeOK /\ FreedCells

(* initialize_queue establishes the invariant.                             *)
LEMMA InitQueueInv == QueueInit => QueueInv
  BY QueueAssumption DEF QueueInit, QueueInv, QueueTypeOK, FreedCells, Cell

(* Put, get, shift and peek preserve the invariant.                        *)
LEMMA NextQueueInv == QueueInv /\ [QueueNext]_queueVars => QueueInv'
<1> SUFFICES ASSUME QueueInv, [QueueNext]_queueVars PROVE QueueInv'
  OBVIOUS
<1> USE QueueAssumption DEF QueueInv, QueueTypeOK, FreedCells, Cell
<1>1. ASSUME NEW v \in Value, Put(v) PROVE QueueInv'
  BY <1>1 DEF Put
<1>2. CASE Get
  BY <1>2 DEF Get, IsEmpty
<1>3. CASE Shift
  BY <1>3 DEF Shift, IsEmpty
<1>4. CASE Peek
  BY <1>4 DEF Peek, IsEmpty
<1>5. CASE UNCHANGED queueVars
  BY <1>5 DEF queueVars
<1> QED
  BY <1>1, <1>2, <1>3, <1>4, <1>5 DEF QueueNext

(* The positions stay ordered and in range, whatever is put and taken.     *)
THEOREM QueueTypeCorrect == QueueSpec => []QueueTypeOK
<1>1. QueueInv => QueueTypeOK
  BY DEF QueueInv
<1> QED
  BY InitQueueInv, NextQueueInv, <1>1, PTL DEF QueueSpec

(* Cells outside the window from the get to the put position are zero      *)
(* again: get and shift give back the storage of what they return.         *)
THEOREM CellsFreed == QueueSpec => []FreedCells
<1>1. QueueInv => FreedCells
  BY DEF QueueInv
<1> QED
  BY InitQueueInv, NextQueueInv, <1>1, PTL DEF QueueSpec

(* What for_each visits between two positions of an array of cells.       *)
Window(c, g, p) == [i \in 1 .. p - g |-> c[g + i - 1]]

(* A window whose cells all hold values is a sequence of values.           *)
LEMMA WindowSeq ==
    ASSUME NEW c, NEW g \in Int, NEW p \in Int, g <= p,
           \A i \in g .. p - 1 : c[i] \in Value
    PROVE  /\ Window(c, g, p) \in Seq(Value)
           /\ Len(Window(c, g, p)) = p - g
           /\ \A i \in 1 .. p - g : Window(c, g, p)[i] = c[g + i - 1]
<1>1. p - g \in Nat /\ \A i \in 1 .. p - g : g + i - 1 \in g .. p - 1
  OBVIOUS
<1>2. Window(c, g, p) \in [1 .. p - g -> Value]
  BY <1>1 DEF Window
<1> QED
  BY <1>1, <1>2 DEF Window

(* Two sequences of the same length with the same elements are equal.      *)
LEMMA SeqEqual ==
    ASSUME NEW s \in Seq(Value), NEW t \in Seq(Value), Len(s) = Len(t),
           \A i \in 1 .. Len(s) : s[i] = t[i]
    PROVE  s = t
  OBVIOUS

(* Writing the cell at the put position appends to the window.             *)
LEMMA WindowAppend ==
    ASSUME NEW c, NEW d, NEW g \in Int, NEW p \in Int, g <= p, NEW v \in Value,
           \A i \in g .. p - 1 : c[i] \in Value /\ d[i] = c[i],
           d[p] = v
    PROVE  Window(d, g, p + 1) = Append(Window(c, g, p), v)
<1> DEFINE w == Window(c, g, p)  x == Window(d, g, p + 1)
<1>1. /\ w \in Seq(Value) /\ Len(w) = p - g
      /\ \A i \in 1 .. p - g : w[i] = c[g + i - 1]
  BY WindowSeq
<1>2. \A i \in g .. (p + 1) - 1 : d[i] \in Value
  OBVIOUS
<1>3. /\ x \in Seq(Value) /\ Len(x) = p + 1 - g
      /\ \A i \in 1 .. p + 1 - g : x[i] = d[g + i - 1]
  BY <1>2, WindowSeq
<1>5. \A i \in 1 .. p - g : x[i] = w[i]
  <2> TAKE i \in 1 .. p - g
  <2>1. g + i - 1 \in g .. p - 1 /\ i \in 1 .. p + 1 - g
    OBVIOUS
  <2> QED
    BY <1>1, <1>3, <2>1
<1>6. x[p + 1 - g] = v
  BY <1>3
<1> HIDE DEF w, x
<1>7. Append(w, v) \in Seq(Value) /\ Len(Append(w, v)) = p - g + 1
  BY <1>1
<1>8. \A i \in 1 .. Len(x) : x[i] = Append(w, v)[i]
  <2> TAKE i \in 1 .. Len(x)
  <2>1. CASE i \in 1 .. p - g
    BY <1>1, <1>5, <2>1
  <2>2. CASE i = p + 1 - g
    BY <1>1, <1>6, <2>2
  <2>3. i \in 1 .. p + 1 - g
    BY <1>3
  <2>4. i \in 1 .. p - g \/ i = p + 1 - g
    BY <2>3
  <2> QED
    BY <2>1, <2>2, <2>4
<1>9. x = Append(w, v)
  BY <1>3, <1>7, <1>8, SeqEqual
<1> QED
  BY <1>9 DEF w, x

(* Moving the get position up removes the first value of the window.       *)
LEMMA WindowTail ==
    ASSUME NEW c, NEW d, NEW g \in Int, NEW p \in Int, g < p,
           \A i \in g .. p - 1 : c[i] \in Value,
           \A i \in g + 1 .. p - 1 : d[i] = c[i]
    PROVE  /\ Window(d, g + 1, p) = Tail(Window(c, g, p))
           /\ Head(Window(c, g, p)) = c[g]
<1> DEFINE w == Window(c, g, p)  x == Window(d, g + 1, p)
<1>1. /\ w \in Seq(Value) /\ Len(w) = p - g
      /\ \A i \in 1 .. p - g : w[i] = c[g + i - 1]
  BY WindowSeq
<1>2. \A i \in g + 1 .. p - 1 : d[i] \in Value
  OBVIOUS
<1>3. /\ x \in Seq(Value) /\ Len(x) = p - (g + 1)
      /\ \A i \in 1 .. p - (g + 1) : x[i] = d[g + 1 + i - 1]
  BY <1>2, WindowSeq
<1>4. \A i \in 1 .. p - (g + 1) : x[i] = w[i + 1]
  <2> TAKE i \in 1 .. p - (g + 1)
  <2>1. g + i \in g + 1 .. p - 1 /\ i + 1 \in 1 .. p - g
    OBVIOUS
  <2> QED
    BY <1>1, <1>3, <2>1
<1> HIDE DEF w, x
<1>5. w # <<>> /\ Tail(w) \in Seq(Value) /\ Len(Tail(w)) = p - g - 1
  BY <1>1
<1>6. \A i \in 1 .. Len(x) : x[i] = Tail(w)[i]
  BY <1>1, <1>3, <1>4, <1>5
<1>7. x = Tail(w)
  BY <1>3, <1>5, <1>6, SeqEqual
<1>8. Head(w) = c[g]
  BY <1>1, <1>5
<1> QED
  BY <1>7, <1>8 DEF w, x

(* Moving the put position down removes the last value of the window.      *)
LEMMA WindowFront ==
    ASSUME NEW c, NEW d, NEW g \in Int, NEW p \in Int, g < p,
           \A i \in g .. p - 1 : c[i] \in Value,
           \A i \in g .. p - 2 : d[i] = c[i]
    PROVE  /\ Window(d, g, p - 1)
                = SubSeq(Window(c, g, p), 1, Len(Window(c, g, p)) - 1)
           /\ Window(c, g, p)[Len(Window(c, g, p))] = c[p - 1]
<1> DEFINE w == Window(c, g, p)  x == Window(d, g, p - 1)
<1>1. /\ w \in Seq(Value) /\ Len(w) = p - g
      /\ \A i \in 1 .. p - g : w[i] = c[g + i - 1]
  BY WindowSeq
<1>2. \A i \in g .. (p - 1) - 1 : d[i] \in Value
  OBVIOUS
<1>3. /\ x \in Seq(Value) /\ Len(x) = (p - 1) - g
      /\ \A i \in 1 .. (p - 1) - g : x[i] = d[g + i - 1]
  BY <1>2, WindowSeq
<1>4. \A i \in 1 .. (p - 1) - g : x[i] = w[i]
  <2> TAKE i \in 1 .. (p - 1) - g
  <2>1. g + i - 1 \in g .. p - 2 /\ i \in 1 .. p - g
    OBVIOUS
  <2> QED
    BY <1>1, <1>3, <2>1
<1>5. w[p - g] = c[p - 1]
  BY <1>1
<1> HIDE DEF w, x
<1>6. /\ SubSeq(w, 1, Len(w) - 1) \in Seq(Value)
      /\ Len(SubSeq(w, 1, Len(w) - 1)) = p - g - 1
      /\ \A i \in 1 .. p - g - 1 : SubSeq(w, 1, Len(w) - 1)[i] = w[i]
  BY <1>1
<1>7. x = SubSeq(w, 1, Len(w) - 1)
  BY <1>3, <1>4, <1>6, SeqEqual
<1> QED
  BY <1>1, <1>5, <1>7 DEF w, x

(* The cells of the window hold values.                                    *)
LEMMA Occupied ==
    QueueInv => /\ nextGet \in Int /\ nextPut \in Int /\ nextGet <= nextPut
                /\ \A i \in nextGet .. nextPut - 1 : i \in Cell /\ cells[i] \in Value
                /\ IsEmpty <=> ForEach = <<>>
<1> SUFFICES ASSUME QueueInv
             PROVE  /\ nextGet \in Int /\ nextPut \in Int /\ nextGet <= nextPut
                    /\ \A i \in nextGet .. nextPut - 1 : i \in Cell /\ cells[i] \in Value
                    /\ IsEmpty <=> ForEach = <<>>
  OBVIOUS
<1>1. /\ nextGet \in Int /\ nextPut \in Int /\ nextGet <= nextPut
      /\ \A i \in nextGet .. nextPut - 1 : i \in Cell /\ cells[i] \in Value
  BY QueueAssumption DEF QueueInv, QueueTypeOK, FreedCells, Cell
<1>2. ForEach = Window(cells, nextGet, nextPut)
  BY DEF ForEach, Window
<1>3. ForEach \in Seq(Value) /\ Len(ForEach) = nextPut - nextGet
  BY <1>1, <1>2, WindowSeq
<1>4. IsEmpty <=> ForEach = <<>>
  BY <1>1, <1>3 DEF IsEmpty
<1> QED
  BY <1>1, <1>4

(* Every operation of the storage queue is one of the sequence's.          *)
LEMMA NextDeque == QueueInv /\ [QueueNext]_queueVars => [D!Next]_(D!vars)
<1> SUFFICES ASSUME QueueInv, [QueueNext]_queueVars PROVE [D!Next]_(D!vars)
  OBVIOUS
<1>a. /\ nextGet \in Int /\ nextPut \in Int /\ nextGet <= nextPut
      /\ \A i \in nextGet .. nextPut - 1 : i \in Cell /\ cells[i] \in Value
      /\ IsEmpty <=> ForEach = <<>>
  BY Occupied
<1>b. cells \in [Cell -> Value \cup {None}]
  BY DEF QueueInv, QueueTypeOK
<1>c. /\ ForEach = Window(cells, nextGet, nextPut)
      /\ ForEach' = Window(cells', nextGet', nextPut')
  BY DEF ForEach, Window
<1>1. ASSUME NEW v \in Value, Put(v) PROVE D!Put(v)
  <2>1. /\ nextGet' = nextGet /\ nextPut' = nextPut + 1 /\ out' = None
        /\ cells'[nextPut] = v
        /\ \A i \in nextGet .. nextPut - 1 : cells'[i] = cells[i]
    BY <1>1, <1>a, <1>b DEF Put
  <2>2. Window(cells', nextGet, nextPut + 1)
          = Append(Window(cells, nextGet, nextPut), v)
    <3>1. \A i \in nextGet .. nextPut - 1 : cells[i] \in Value /\ cells'[i] = cells[i]
      BY <1>a, <2>1
    <3> QED
      BY <1>a, <2>1, <3>1, WindowAppend
  <2> QED
    BY <1>c, <2>1, <2>2 DEF D!Put
<1>2. CASE IsEmpty /\ (Get \/ Shift)
  <2>1. out' = None /\ nextPut' = nextPut /\ nextGet' = nextGet /\ cells' = cells
    BY <1>2 DEF Get, Shift
  <2>2. ForEach' = ForEach
    BY <1>c, <2>1
  <2> QED
    BY <1>a, <1>2, <2>1, <2>2 DEF D!Get, D!Next
<1>3. CASE ~IsEmpty /\ Get
  <2>1. /\ nextGet' = nextGet + 1 /\ nextPut' = nextPut /\ out' = cells[nextGet]
        /\ \A i \in nextGet + 1 .. nextPut - 1 : cells'[i] = cells[i]
    BY <1>3, <1>a, <1>b DEF Get
  <2>2. nextGet < nextPut
    BY <1>3, <1>a DEF IsEmpty
  <2>3. /\ Window(cells', nextGet + 1, nextPut) = Tail(Window(cells, nextGet, nextPut))
        /\ Head(Window(cells, nextGet, nextPut)) = cells[nextGet]
    BY <1>a, <2>1, <2>2, WindowTail
  <2>4. D!Get
    BY <1>a, <1>c, <1>3, <2>1, <2>3 DEF D!Get
  <2> QED
    BY <2>4 DEF D!Next
<1>4. CASE ~IsEmpty /\ Shift
  <2>1. /\ nextGet' = nextGet /\ nextPut' = nextPut - 1 /\ out' = cells[nextPut - 1]
        /\ \A i \in nextGet .. nextPut - 2 : cells'[i] = cells[i]
    BY <1>4, <1>a, <1>b DEF Shift
  <2>2. nextGet < nextPut
    BY <1>4, <1>a DEF IsEmpty
  <2>3. /\ Window(cells', nextGet, nextPut - 1)
             = SubSeq(Window(cells, nextGet, nextPut), 1, Len(Window(cells, nextGet, nextPut)) - 1)
        /\ Window(cells, nextGet, nextPut)[Len(Window(cells, nextGet, nextPut))]
             = cells[nextPut - 1]
    BY <1>a, <2>1, <2>2, WindowFront
  <2>4. D!Shift
    BY <1>a, <1>c, <1>4, <2>1, <2>3 DEF D!Shift
  <2> QED
    BY <2>4 DEF D!Next
<1>5. CASE Peek
  <2>1. nextPut' = nextPut /\ nextGet' = nextGet /\ cells' = cells
    BY <1>5 DEF Peek
  <2>2. ForEach' = ForEach
    BY <1>c, <2>1
  <2>3. ~IsEmpty => Head(ForEach) = cells[nextGet]
    <3>1. ~IsEmpty => nextGet < nextPut
      BY <1>a DEF IsEmpty
    <3> QED
      BY <1>a, <1>c, <3>1, WindowTail
  <2>4. D!Peek
    BY <1>a, <1>5, <2>2, <2>3 DEF Peek, D!Peek
  <2> QED
    BY <2>4 DEF D!Next
<1>6. CASE UNCHANGED queueVars
  BY <1>6, <1>c DEF queueVars, D!vars
<1> QED
  BY <1>1, <1>2, <1>3, <1>4, <1>5, <1>6 DEF QueueNext, D!Next

(* The storage queue implements a sequence: every value put is handed out  *)
(* once, oldest first by get and newest first by shift.                    *)
THEOREM QueueIsDeque == QueueSpec => ImplementsDeque
<1>1. QueueInit => D!Init
  <2> SUFFICES ASSUME QueueInit PROVE D!Init
    OBVIOUS
  <2>1. QueueInv /\ IsEmpty /\ out = None
    BY InitQueueInv DEF QueueInit, IsEmpty
  <2> QED
    BY <2>1, Occupied DEF D!Init
<1> QED
  BY <1>1, InitQueueInv, NextQueueInv, NextDeque, PTL DEF QueueSpec, ImplementsDeque, D!Spec
=============================================================================
