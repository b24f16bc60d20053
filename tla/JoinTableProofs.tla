--------------------------- MODULE JoinTableProofs ---------------------------
(***************************************************************************)
(* The steps of JoinTable keep its invariant, and what follows: the hash   *)
(* table of a join is right for any keys and hash function, any load       *)
(* factor below one, and any number of rows.                               *)
(***************************************************************************)
EXTENDS JoinTableInv, FiniteSetTheorems, SequenceTheorems, WellFoundedInduction, TLAPS

-----------------------------------------------------------------------------
(* A non-empty set of naturals has a least element. *)
LEMMA LeastNatural ==
  ASSUME NEW S \in SUBSET Nat, S # {}
  PROVE  \E x \in S : \A y \in S : x <= y
<1>1. PICK x \in S : \A y \in S : ~(<<y, x>> \in OpToRel(<, Nat))
  BY NatLessThanWellFounded, WFMin, Zenon
<1>2. \A y \in S : ~(y < x)
  BY <1>1, Zenon DEF OpToRel
<1>3. \A y \in S : x <= y
  BY <1>2
<1> QED BY <1>3, Zenon

(* The quotient of a number below c * q. *)
LEMMA QuotientBelow ==
  ASSUME NEW h \in Nat, NEW c \in Nat, NEW q \in Nat \ {0}, h < c * q
  PROVE  h \div q \in 0 .. c - 1
<1> DEFINE d == h \div q
<1>1. d \in Nat /\ q * d <= h
  OBVIOUS
<1> HIDE DEF d
<1>2. d >= c => q * d >= q * c
  BY <1>1
<1>3. q * c = c * q
  OBVIOUS
<1>4. d < c
  BY <1>1, <1>2, <1>3
<1> QED BY <1>1, <1>4 DEF d

(* The quotient of a number from c * q on. *)
LEMMA QuotientFrom ==
  ASSUME NEW h \in Nat, NEW c \in Nat, NEW q \in Nat \ {0}, c * q <= h
  PROVE  c <= h \div q
<1> DEFINE d == h \div q
<1>1. d \in Nat /\ h < q * (d + 1)
  OBVIOUS
<1> HIDE DEF d
<1>2. c >= d + 1 => q * c >= q * (d + 1)
  BY <1>1
<1>3. q * c = c * q
  OBVIOUS
<1>4. c <= d
  BY <1>1, <1>2, <1>3
<1> QED BY <1>4, Zenon DEF d

(* The size of a slot array. *)
LEMMA SizeOf ==
  ASSUME NEW c \in Capacities, NEW S, NEW sl \in [0 .. c - 1 -> S]
  PROVE  /\ c \in Nat \ {0} /\ DOMAIN sl = 0 .. c - 1 /\ Cap(sl) = c
         /\ IsFiniteSet(DOMAIN sl) /\ Cardinality(DOMAIN sl) = c
<1>1. c \in Nat \ {0}
  BY JoinTableAssumption DEF Capacities
<1>2. DOMAIN sl = 0 .. c - 1
  BY Zenon
<1>3. IsFiniteSet(0 .. c - 1) /\ Cardinality(0 .. c - 1) = c
  BY <1>1, FS_Interval
<1> QED BY <1>1, <1>2, <1>3, Zenon DEF Cap

(* slotFor stays inside the slot array. *)
LEMMA SlotForInside ==
  ASSUME NEW c \in Capacities, NEW S, NEW sl \in [0 .. c - 1 -> S], NEW k \in Keys
  PROVE  SlotFor(sl, k) \in 0 .. c - 1
<1>1. c \in Nat \ {0} /\ Cap(sl) = c
  BY SizeOf, Zenon
<1>2. HashSpace \in Nat \ {0} /\ HashSpace % c = 0 /\ Hash[k] \in Nat /\ Hash[k] < HashSpace
  BY JoinTableAssumption DEF Capacities
<1> DEFINE q == HashSpace \div c
<1>3. q \in Nat /\ HashSpace = c * q
  BY <1>1, <1>2
<1>4. q # 0
  BY <1>1, <1>2, <1>3
<1> HIDE DEF q
<1>5. Hash[k] \div q \in 0 .. c - 1
  BY <1>1, <1>2, <1>3, <1>4, QuotientBelow, Zenon
<1> QED BY <1>1, <1>5, Zenon DEF SlotFor, q

(* A table doubles before it is full. *)
LEMMA GrowLimitBelow ==
  ASSUME NEW c \in Nat \ {0}
  PROVE  GrowLimit(c) \in 0 .. c - 1
<1>1. /\ joinTableLoadNum \in Nat \ {0} /\ joinTableLoadDen \in Nat \ {0}
      /\ joinTableLoadNum < joinTableLoadDen
  BY JoinTableAssumption
<1>2. c * joinTableLoadNum \in Nat /\ c * joinTableLoadNum < c * joinTableLoadDen
  BY <1>1
<1> QED BY <1>1, <1>2, QuotientBelow, Zenon DEF GrowLimit

(* A table sized for some rows holds them without doubling. *)
LEMMA NeededSuffices ==
  ASSUME NEW e \in Nat, NEW c \in Nat, c >= Needed(e)
  PROVE  GrowLimit(c) >= e
<1>1. /\ joinTableLoadNum \in Nat \ {0} /\ joinTableLoadDen \in Nat \ {0}
  BY JoinTableAssumption
<1> DEFINE a == joinTableLoadNum  b == joinTableLoadDen  x == e * b + a - 1  d == x \div a
<1>2. e * b \in Nat /\ x \in Nat
  BY <1>1
<1>3. d \in Nat /\ x < a * (d + 1)
  <2> HIDE DEF x
  <2> QED BY <1>1, <1>2
<1>4. c >= d
  BY Zenon DEF Needed
<1> HIDE DEF d
<1>5. a * (d + 1) = a * d + a /\ a * d \in Nat
  BY <1>1, <1>3
<1>6. a * d <= a * c /\ a * c = c * a /\ a * c \in Nat
  BY <1>1, <1>3, <1>4
<1>7. e * b <= c * a
  BY <1>1, <1>2, <1>3, <1>5, <1>6
<1>8. e <= (c * a) \div b
  BY <1>1, <1>6, <1>7, QuotientFrom, Zenon
<1> QED BY <1>1, <1>6, <1>8, Zenon DEF GrowLimit

(* More rows need no fewer slots. *)
LEMMA NeededGrows ==
  ASSUME NEW e \in Nat, NEW f \in Nat, e <= f
  PROVE  Needed(e) \in Nat /\ Needed(f) \in Nat /\ Needed(e) <= Needed(f)
<1>1. /\ joinTableLoadNum \in Nat \ {0} /\ joinTableLoadDen \in Nat \ {0}
  BY JoinTableAssumption
<1> DEFINE a == joinTableLoadNum  b == joinTableLoadDen
           x == e * b + a - 1  y == f * b + a - 1  d == x \div a
<1>2. e * b <= f * b /\ e * b \in Nat /\ f * b \in Nat
  BY <1>1
<1>3. x \in Nat /\ y \in Nat /\ x <= y
  BY <1>1, <1>2
<1> HIDE DEF x, y
<1>4. d \in Nat /\ a * d <= x /\ y \div a \in Nat
  BY <1>1, <1>3
<1> HIDE DEF d
<1>5. d * a = a * d
  BY <1>1, <1>4
<1>6. d <= y \div a
  BY <1>1, <1>3, <1>4, <1>5, QuotientFrom
<1> QED BY <1>4, <1>6, Zenon DEF Needed, d, x, y

(* joinTableCapacity finds a capacity, and it is large enough. *)
LEMMA TableCapacityFits ==
  ASSUME NEW e \in 0 .. maxBuildRows
  PROVE  TableCapacity(e) \in Capacities /\ GrowLimit(TableCapacity(e)) >= e
<1>1. maxBuildRows \in Nat /\ e \in Nat /\ e <= maxBuildRows
  BY JoinTableAssumption
<1>2. Capacities \subseteq Nat
  BY JoinTableAssumption DEF Capacities
<1>3. PICK big \in Capacities : big >= Needed(maxBuildRows)
  BY HashIsWide, Zenon
<1>4. Needed(e) \in Nat /\ Needed(maxBuildRows) \in Nat /\ Needed(e) <= Needed(maxBuildRows)
  BY <1>1, NeededGrows, Zenon
<1> DEFINE T == {c \in Capacities : c >= Needed(e)}
<1>5. T \in SUBSET Nat /\ big \in T
  <2>1. big \in Nat /\ big >= Needed(e)
    BY <1>2, <1>3, <1>4
  <2> QED BY <1>2, <2>1, Zenon
<1>6. PICK c \in T : \A d \in T : c <= d
  BY <1>5, LeastNatural, Zenon
<1>7. c \in Capacities /\ c >= Needed(e) /\ \A d \in Capacities : d >= Needed(e) => c <= d
  BY <1>6, Zenon
<1>8. TableCapacity(e) \in Capacities /\ TableCapacity(e) >= Needed(e)
  BY <1>7, Zenon DEF TableCapacity
<1> QED BY <1>1, <1>2, <1>8, NeededSuffices, Zenon

-----------------------------------------------------------------------------
(* The slots a probe passes are slots of the array, and not where it stops. *)
LEMMA PassedInside ==
  ASSUME NEW c \in Nat, NEW sl, Cap(sl) = c, NEW i \in 0 .. c - 1, NEW j \in 0 .. c - 1
  PROVE  Passed(sl, i, j) \subseteq 0 .. c - 1 /\ j \notin Passed(sl, i, j)
  BY DEF Passed

(* Of two slots, a probe passes one before it gets to the other. *)
LEMMA PassedTotal ==
  ASSUME NEW c \in Nat, NEW sl, Cap(sl) = c,
         NEW i \in 0 .. c - 1, NEW j \in 0 .. c - 1, NEW l \in 0 .. c - 1, j # l
  PROVE  j \in Passed(sl, i, l) \/ l \in Passed(sl, i, j)
  BY DEF Passed

(* A probe for a key stops at one slot only. *)
LEMMA StopsOnce ==
  ASSUME NEW c \in Capacities, NEW S, NEW sl \in [0 .. c - 1 -> S], NEW k \in Keys,
         NEW s \in DOMAIN sl, NEW t \in DOMAIN sl, StopsAt(sl, k, s), StopsAt(sl, k, t)
  PROVE  s = t
<1>1. c \in Nat /\ Cap(sl) = c /\ DOMAIN sl = 0 .. c - 1 /\ SlotFor(sl, k) \in 0 .. c - 1
  BY SizeOf, SlotForInside, Zenon
<1>2. s # t => s \in Passed(sl, SlotFor(sl, k), t) \/ t \in Passed(sl, SlotFor(sl, k), s)
  BY <1>1, PassedTotal, Zenon
<1> QED BY <1>2, Zenon DEF StopsAt

(* The first empty slot from i on. *)
LEMMA FirstEmpty ==
  ASSUME NEW c \in Nat, NEW sl, Cap(sl) = c, DOMAIN sl = 0 .. c - 1, NEW i \in 0 .. c - 1,
         NEW e0 \in 0 .. c - 1, sl[e0].head = noRow
  PROVE  \E s \in 0 .. c - 1 :
           sl[s].head = noRow /\ \A p \in Passed(sl, i, s) : sl[p].head # noRow
<1> DEFINE E == {e \in 0 .. c - 1 : sl[e].head = noRow}
           A == {e \in E : e >= i}
<1>1. E \in SUBSET Nat /\ E # {} /\ A \in SUBSET Nat
  OBVIOUS
<1>2. CASE A # {}
  <2>1. PICK s \in A : \A y \in A : s <= y
    BY <1>1, <1>2, LeastNatural, Zenon
  <2>2. ASSUME NEW p \in Passed(sl, i, s) PROVE sl[p].head # noRow
    <3>1. p \in i .. s - 1
      BY <2>1, Zenon DEF Passed
    <3> QED BY <2>1, <3>1
  <2> QED BY <2>1, <2>2, Zenon
<1>3. CASE A = {}
  <2>1. PICK s \in E : \A y \in E : s <= y
    BY <1>1, LeastNatural, Zenon
  <2>2. s < i
    BY <1>3, <2>1
  <2>3. ASSUME NEW p \in Passed(sl, i, s) PROVE sl[p].head # noRow
    <3>1. p \in i .. c - 1 \/ p \in 0 .. s - 1
      BY <2>1, <2>2 DEF Passed
    <3> QED BY <1>3, <2>1, <3>1
  <2> QED BY <2>1, <2>3, Zenon
<1> QED BY <1>2, <1>3, Zenon

(* Where a probe stops: at the slot of a key that is there, ... *)
LEMMA StopsAtKey ==
  ASSUME NEW c \in Capacities, NEW S, NEW sl \in [0 .. c - 1 -> S],
         NEW s \in Occupied(sl), sl[s].key \in Keys, Reachable(sl), DistinctKeys(sl)
  PROVE  StopsAt(sl, sl[s].key, s)
<1>1. c \in Nat /\ Cap(sl) = c /\ DOMAIN sl = 0 .. c - 1 /\ s \in 0 .. c - 1
      /\ SlotFor(sl, sl[s].key) \in 0 .. c - 1
  BY SizeOf, SlotForInside, Zenon DEF Occupied
<1>2. ASSUME NEW p \in Passed(sl, SlotFor(sl, sl[s].key), s)
      PROVE  sl[p].head # noRow /\ sl[p].key # sl[s].key
  <2>1. p \in 0 .. c - 1 /\ p # s
    BY <1>1, PassedInside, Zenon
  <2>2. sl[p].head # noRow
    BY Zenon DEF Reachable
  <2>3. p \in Occupied(sl)
    BY <1>1, <2>1, <2>2, Zenon DEF Occupied
  <2> QED BY <2>1, <2>2, <2>3, Zenon DEF DistinctKeys
<1> QED BY <1>2, Zenon DEF StopsAt

(* ... and at an empty slot otherwise. *)
LEMMA StopsAtEmpty ==
  ASSUME NEW c \in Capacities, NEW S, NEW sl \in [0 .. c - 1 -> S], NEW k \in Keys,
         \A s \in Occupied(sl) : sl[s].key # k, \E e \in DOMAIN sl : sl[e].head = noRow
  PROVE  \E s \in DOMAIN sl : StopsAt(sl, k, s) /\ sl[s].head = noRow
<1>1. c \in Nat /\ Cap(sl) = c /\ DOMAIN sl = 0 .. c - 1 /\ SlotFor(sl, k) \in 0 .. c - 1
  BY SizeOf, SlotForInside, Zenon
<1>2. PICK s \in 0 .. c - 1 :
        sl[s].head = noRow /\ \A p \in Passed(sl, SlotFor(sl, k), s) : sl[p].head # noRow
  <2>1. PICK e \in 0 .. c - 1 : sl[e].head = noRow
    BY <1>1, Zenon
  <2> DEFINE i == SlotFor(sl, k)
  <2>2. i \in 0 .. c - 1
    BY <1>1, Zenon
  <2> HIDE DEF i
  <2>3. \E s \in 0 .. c - 1 : sl[s].head = noRow /\ \A p \in Passed(sl, i, s) : sl[p].head # noRow
    BY <1>1, <2>1, <2>2, FirstEmpty, Zenon
  <2> QED BY <2>3, Zenon DEF i
<1>3. ASSUME NEW p \in Passed(sl, SlotFor(sl, k), s) PROVE sl[p].key # k
  <2>1. p \in Occupied(sl)
    BY <1>1, <1>2, PassedInside, Zenon DEF Occupied
  <2> QED BY <2>1, Zenon
<1> QED BY <1>1, <1>2, <1>3, Zenon DEF StopsAt

(* The slots of the table. *)
LEMMA SlotFields ==
  ASSUME NEW x \in Slot
  PROVE  x.key \in Keys /\ x.head \in {noRow} \cup Rows /\ x.tail \in {noRow} \cup Rows
  BY Zenon DEF Slot

(* Filling an empty slot that a probe for its key gets to keeps the array  *)
(* in order, if the key is new to it.                                      *)
LEMMA FillSlot ==
  ASSUME NEW c \in Capacities, NEW sl \in [0 .. c - 1 -> Slot], NEW new \in [0 .. c - 1 -> Slot],
         NEW s \in 0 .. c - 1, \A t \in 0 .. c - 1 : t # s => new[t] = sl[t],
         Reachable(sl), DistinctKeys(sl), new[s].head # noRow,
         FreeFor(sl, new[s].key, s), \A t \in Occupied(sl) : sl[t].key # new[s].key
  PROVE  /\ Reachable(new) /\ DistinctKeys(new)
         /\ Occupied(new) = Occupied(sl) \cup {s} /\ s \notin Occupied(sl)
<1>1. DOMAIN new = 0 .. c - 1 /\ DOMAIN sl = 0 .. c - 1
  BY Zenon
<1>2. Cap(new) = Cap(sl) /\ \A k : SlotFor(new, k) = SlotFor(sl, k)
  BY <1>1, Zenon DEF Cap, SlotFor
<1>3. \A i, j : Passed(new, i, j) = Passed(sl, i, j)
  BY <1>2, Zenon DEF Passed
<1>4. Occupied(new) = Occupied(sl) \cup {s} /\ s \notin Occupied(sl)
  BY <1>1 DEF Occupied, FreeFor
<1>5. DistinctKeys(new)
  BY <1>1, <1>4 DEF DistinctKeys, Occupied
<1>6. ASSUME NEW t \in Occupied(new), NEW p \in Passed(new, SlotFor(new, new[t].key), t)
      PROVE  new[p].head # noRow
  <2>1. t \in DOMAIN sl /\ DOMAIN sl = 0 .. c - 1 /\ c \in Nat /\ Cap(sl) = c /\ new[t].key \in Keys
    BY <1>1, SizeOf, SlotFields, Zenon DEF Occupied
  <2>2. SlotFor(sl, new[t].key) \in 0 .. c - 1 /\ p \in Passed(sl, SlotFor(sl, new[t].key), t)
    BY <1>2, <1>3, <2>1, SlotForInside, Zenon
  <2>3. p \in DOMAIN sl
    BY <2>1, <2>2, PassedInside, Zenon
  <2>4. sl[p].head # noRow
    <3>1. CASE t = s
      BY <1>1, <2>2, <3>1, Zenon DEF FreeFor
    <3>2. CASE t # s
      BY <1>1, <1>4, <2>1, <2>2, <3>2, Zenon DEF Reachable
    <3> QED BY <3>1, <3>2, Zenon
  <2> QED BY <1>1, <2>3, <2>4, Zenon
<1>7. Reachable(new)
  BY <1>6, Zenon DEF Reachable
<1> QED BY <1>4, <1>5, <1>7, Zenon

(* Changing only the ends of chains keeps the array in order. *)
LEMMA SameHeads ==
  ASSUME NEW c \in Capacities, NEW sl \in [0 .. c - 1 -> Slot], NEW new \in [0 .. c - 1 -> Slot],
         \A s \in 0 .. c - 1 : new[s].key = sl[s].key /\ new[s].head = sl[s].head
  PROVE  /\ Occupied(new) = Occupied(sl)
         /\ Reachable(sl) => Reachable(new)
         /\ DistinctKeys(sl) => DistinctKeys(new)
<1>1. c \in Nat /\ DOMAIN sl = 0 .. c - 1 /\ DOMAIN new = 0 .. c - 1 /\ Cap(sl) = c /\ Cap(new) = c
  BY SizeOf, Zenon
<1>2. Occupied(new) = Occupied(sl)
  BY <1>1, Zenon DEF Occupied
<1>3. DistinctKeys(sl) => DistinctKeys(new)
  BY <1>1, <1>2, Zenon DEF DistinctKeys, Occupied
<1>4. ASSUME Reachable(sl), NEW t \in Occupied(new),
             NEW p \in Passed(new, SlotFor(new, new[t].key), t)
      PROVE  new[p].head # noRow
  <2>1. t \in 0 .. c - 1 /\ t \in Occupied(sl) /\ sl[t].key \in Keys /\ new[t].key = sl[t].key
    BY <1>1, <1>2, SlotFields, Zenon DEF Occupied
  <2>2. /\ SlotFor(new, new[t].key) = SlotFor(sl, sl[t].key)
        /\ SlotFor(sl, sl[t].key) \in 0 .. c - 1
    BY <1>1, <2>1, SlotForInside, Zenon DEF SlotFor
  <2>3. p \in Passed(sl, SlotFor(sl, sl[t].key), t)
    BY <1>1, <2>2, Zenon DEF Passed
  <2>4. p \in 0 .. c - 1
    BY <1>1, <2>1, <2>2, <2>3, PassedInside, Zenon
  <2>5. sl[p].head # noRow
    BY <1>4, <2>1, <2>3, Zenon DEF Reachable
  <2> QED BY <2>4, <2>5, Zenon
<1> QED BY <1>2, <1>3, <1>4, Zenon DEF Reachable

(* A slot array just made. *)
LEMMA EmptyArray ==
  ASSUME NEW c \in Capacities, NEW X
  PROVE  /\ EmptySlots(c) \in [0 .. c - 1 -> [key : Keys, head : {noRow} \cup X, tail : {noRow} \cup X]]
         /\ EmptySlot.key \in Keys
         /\ Cap(EmptySlots(c)) = c /\ Occupied(EmptySlots(c)) = {}
         /\ Reachable(EmptySlots(c)) /\ DistinctKeys(EmptySlots(c))
<1>1. EmptySlot.key \in Keys /\ EmptySlot.head = noRow /\ EmptySlot.tail = noRow
      /\ EmptySlot \in [key : Keys, head : {noRow} \cup X, tail : {noRow} \cup X]
  BY JoinTableAssumption, Zenon DEF EmptySlot
<1> HIDE DEF EmptySlot
<1>2. EmptySlots(c) \in [0 .. c - 1 -> [key : Keys, head : {noRow} \cup X, tail : {noRow} \cup X]]
  BY <1>1, Zenon DEF EmptySlots
<1>3. Occupied(EmptySlots(c)) = {}
  BY <1>1, Zenon DEF EmptySlots, Occupied
<1>4. Cap(EmptySlots(c)) = c
  BY <1>2, SizeOf, Zenon
<1> QED BY <1>1, <1>2, <1>3, <1>4, Zenon DEF Reachable, DistinctKeys

(* The first of a set of rows is one number. *)
LEMMA FirstIsFirstOf ==
  ASSUME NEW S \in SUBSET Nat, NEW x, IsFirst(x, S)
  PROVE  x = FirstOf(S)
<1>1. CASE S = {}
  BY <1>1, Zenon DEF IsFirst, FirstOf
<1>2. CASE S # {}
  <2>1. x \in S /\ \A q \in S : x <= q
    BY <1>2, Zenon DEF IsFirst
  <2>2. \A y \in S : (\A q \in S : y <= q) => y = x
    BY <2>1
  <2> QED BY <1>2, <2>1, <2>2, Zenon DEF FirstOf
<1> QED BY <1>1, <1>2, Zenon

(* The array the table has all its entries in is a slot array. *)
LEMMA TableTyped ==
  ASSUME TypeOK
  PROVE  \E c \in Capacities : Table \in [0 .. c - 1 -> Slot]
  BY Zenon DEF TypeOK, Table

(* The table never fills up. *)
LEMMA RoomLeft ==
  ASSUME IndInv
  PROVE  EmptySlotExists
<1>1. PICK c \in Capacities : slots \in [0 .. c - 1 -> Slot]
  BY Zenon DEF IndInv, TypeOK
<1>2. c \in Nat /\ IsFiniteSet(DOMAIN slots) /\ Cardinality(DOMAIN slots) = c /\ Cap(slots) = c
  BY <1>1, SizeOf, Zenon
<1>3. keys \in Nat /\ keys < c
  BY <1>2 DEF IndInv, TypeOK, Room
<1>4. Cardinality(Occupied(slots)) <= keys
  <2>1. CASE pc # "grow"
    BY <1>3, <2>1 DEF IndInv, Room, Table
  <2>2. CASE pc = "grow"
    <3>1. PICK d \in Capacities : old \in [0 .. d - 1 -> Slot]
      BY <2>2, Zenon DEF IndInv, TypeOK
    <3>2. IsFiniteSet(Occupied(old))
      BY <3>1, SizeOf, FS_Subset, Zenon DEF Occupied
    <3>3. Cardinality(Moved) <= Cardinality(Occupied(old))
      BY <3>2, FS_Subset, Zenon DEF Moved
    <3> QED BY <2>2, <3>3, Zenon DEF IndInv, Room, Table, Probing
  <2> QED BY <2>1, <2>2, Zenon
<1>5. Occupied(slots) # DOMAIN slots
  BY <1>2, <1>3, <1>4
<1> QED BY <1>5, Zenon DEF EmptySlotExists, Occupied

(* lookupHashed finds the first row of a key, or none. *)
LEMMA LookupIsFirst ==
  ASSUME IndInv, ~Inserting, NEW k \in Keys
  PROVE  IsFirst(Lookup(k), RowsOf(k))
<1>1. PICK c \in Capacities : slots \in [0 .. c - 1 -> Slot]
  BY Zenon DEF IndInv, TypeOK
<1>2. Table = slots /\ Linked = Rows /\ LinkedOf(k) = RowsOf(k)
  BY Zenon DEF Inserting, Table, Linked, LinkedOf, Rows, RowsOf
<1>3. Reachable(slots) /\ DistinctKeys(slots)
  BY <1>2, Zenon DEF IndInv, Probing
<1>4. CASE \E s \in Occupied(slots) : slots[s].key = k
  <2>1. PICK s \in Occupied(slots) : slots[s].key = k
    BY <1>4, Zenon
  <2>2. StopsAt(slots, k, s) /\ s \in DOMAIN slots
    BY <1>1, <1>3, <2>1, StopsAtKey, Zenon DEF Occupied
  <2>3. \A t \in DOMAIN slots : StopsAt(slots, k, t) => t = s
    BY <1>1, <2>2, StopsOnce, Zenon
  <2>4. Lookup(k) = slots[s].head
    BY <2>2, <2>3, Zenon DEF Lookup
  <2>5. slots[s].head \in RowsOf(k) /\ \A r \in RowsOf(k) : slots[s].head <= r
    BY <1>2, <2>1, Zenon DEF IndInv, Chains
  <2> QED BY <2>4, <2>5, Zenon DEF IsFirst
<1>5. CASE \A s \in Occupied(slots) : slots[s].key # k
  <2>1. PICK s \in DOMAIN slots : StopsAt(slots, k, s) /\ slots[s].head = noRow
    BY <1>1, <1>5, RoomLeft, StopsAtEmpty, Zenon DEF EmptySlotExists
  <2>2. \A t \in DOMAIN slots : StopsAt(slots, k, t) => t = s
    BY <1>1, <2>1, StopsOnce, Zenon
  <2>3. Lookup(k) = noRow
    BY <2>1, <2>2, Zenon DEF Lookup
  <2>4. RowsOf(k) = {}
    BY <1>2, <1>5, Zenon DEF IndInv, Chains, RowsOf
  <2> QED BY <2>3, <2>4, Zenon DEF IsFirst
<1> QED BY <1>4, <1>5, Zenon

-----------------------------------------------------------------------------

(* The state a build starts from, the first one or one after a failure. *)
Fresh ==
  /\ pc = "build"  /\ bound \in RowBounds
  /\ pos \in Nat  /\ wanted \in Keys  /\ ri = noRow  /\ matches = <<>>
  /\ n = 0  /\ capRows = PresizeRows(bound)  /\ grows = 0
  /\ rowKey = <<>>  /\ next = <<>>
  /\ slots = EmptySlots(TableCapacity(PresizeRows(bound)))  /\ keys = 0

(* How many rows a store is made for. *)
LEMMA PresizeBounds ==
  ASSUME bound \in RowBounds
  PROVE  /\ PresizeRows(bound) \in 0 .. maxBuildRows
         /\ PresizeRows(bound) > 0 => PresizeRows(bound) = bound
  BY JoinTableAssumption DEF PresizeRows

(* A build starts in order. *)
LEMMA FreshInv == Fresh => IndInv
<1> SUFFICES ASSUME Fresh PROVE IndInv
  BY Zenon
<1>1. /\ PresizeRows(bound) \in 0 .. maxBuildRows
      /\ PresizeRows(bound) > 0 => PresizeRows(bound) = bound
  BY PresizeBounds, Zenon DEF Fresh
<1> DEFINE c == TableCapacity(PresizeRows(bound))
<1>2. c \in Capacities /\ GrowLimit(c) >= PresizeRows(bound) /\ slots = EmptySlots(c)
  BY <1>1, TableCapacityFits, Zenon DEF Fresh
<1> HIDE DEF c
<1>3. /\ slots \in [0 .. c - 1 -> Slot] /\ Cap(slots) = c /\ c \in Nat \ {0}
      /\ Occupied(slots) = {} /\ Reachable(slots) /\ DistinctKeys(slots)
  BY <1>2, EmptyArray, SizeOf, Zenon DEF Slot
<1>4. n = 0 /\ Rows = {} /\ ~Inserting /\ Linked = {} /\ Table = slots
  BY DEF Fresh, Rows, Inserting, Linked, Table
<1>5. TypeOK
  <2>1. rowKey \in [Rows -> Keys] /\ next \in [Rows -> {noRow} \cup Rows] /\ matches \in Seq(Rows)
    BY <1>4 DEF Fresh
  <2> QED BY <1>1, <1>2, <1>3, <1>4, <2>1, JoinTableAssumption DEF TypeOK, Fresh
<1>6. Probing
  BY <1>3, <1>4, Zenon DEF Probing, Fresh
<1>7. Room
  BY <1>3, <1>4, FS_EmptySet DEF Room, Fresh
<1>8. Chains
  BY <1>3, <1>4, Zenon DEF Chains
<1>9. Allocation
  BY <1>1, <1>2, <1>3, <1>4 DEF Allocation, Fresh
<1>10. Walking
  BY Zenon DEF Fresh, Walking
<1> QED BY <1>5, <1>6, <1>7, <1>8, <1>9, <1>10, Zenon DEF IndInv

(* The invariant holds initially. *)
LEMMA InitInv == Init => IndInv
<1> SUFFICES ASSUME Init PROVE IndInv
  BY Zenon
<1>1. wanted \in Keys
  BY JoinTableAssumption, Zenon DEF Init, EmptySlot
<1> QED BY <1>1, FreshInv, Zenon DEF Init, Fresh

(* And it holds wherever a build starts over. *)
LEMMA FreshNext == Fresh' => IndInv'
  BY FreshInv, PTL

-----------------------------------------------------------------------------
(* A row more in the store. *)
LEMMA AppendedRow ==
  ASSUME IndInv, AppendRow
  PROVE  /\ n \in Nat /\ n < maxBuildRows /\ n' = n + 1 /\ Rows' = Rows \cup {n}
         /\ rowKey' \in [Rows' -> Keys] /\ next' \in [Rows' -> {noRow} \cup Rows']
         /\ \A r \in Rows : rowKey'[r] = rowKey[r] /\ next'[r] = next[r]
         /\ next'[n] = noRow
         /\ Linked' = Rows /\ Linked = Rows /\ Inserting' /\ ~Inserting /\ Table = slots
         /\ \A k : LinkedOf(k)' = LinkedOf(k)
         /\ \A x \in Slot : x \in Slot'
<1>1. n \in Nat /\ n < maxBuildRows /\ n' = n + 1
  BY JoinTableAssumption DEF IndInv, TypeOK, AppendRow
<1>2. Rows' = 0 .. n /\ Rows' = Rows \cup {n} /\ n \notin Rows
  BY <1>1 DEF Rows
<1>3. PICK v \in Keys : rowKey' = WithRow(rowKey, v)
  BY Zenon DEF AppendRow
<1>4. rowKey \in [Rows -> Keys] /\ next \in [Rows -> {noRow} \cup Rows]
  BY Zenon DEF IndInv, TypeOK
<1>5. rowKey' \in [Rows' -> Keys] /\ \A r \in Rows : rowKey'[r] = rowKey[r]
  BY <1>2, <1>3, <1>4, Zenon DEF WithRow
<1>6. /\ next' \in [Rows' -> {noRow} \cup Rows'] /\ next'[n] = noRow
      /\ \A r \in Rows : next'[r] = next[r]
  BY <1>2, <1>4, Zenon DEF AppendRow, WithRow
<1>7. Inserting' /\ ~Inserting /\ Table = slots
  BY Zenon DEF AppendRow, Inserting, Table
<1>8. Linked = Rows /\ Linked' = Rows
  BY <1>1, <1>7 DEF Linked, Rows
<1>9. \A k : LinkedOf(k)' = LinkedOf(k)
  BY <1>5, <1>8, Zenon DEF LinkedOf
<1>10. \A x \in Slot : x \in Slot'
  BY <1>2, Zenon DEF Slot
<1> QED BY <1>1, <1>2, <1>5, <1>6, <1>7, <1>8, <1>9, <1>10, Zenon

(* nextRowCap: the new allocation has room for the row it is made for. *)
LEMMA NextRowCapFits ==
  ASSUME NEW cur \in Nat, NEW need \in Nat, need <= maxBuildRows
  PROVE  NextRowCap(cur, need) \in Nat /\ need <= NextRowCap(cur, need)
<1>1. maxBuildRows \in Nat /\ rowStoreMinRows \in Nat
  BY JoinTableAssumption, Zenon
<1> DEFINE doubled == IF cur * 2 < need THEN need ELSE cur * 2
           floored == IF doubled < rowStoreMinRows THEN rowStoreMinRows ELSE doubled
<1>2. doubled \in Nat /\ need <= doubled
  OBVIOUS
<1> HIDE DEF doubled
<1>3. floored \in Nat /\ need <= floored
  BY <1>1, <1>2
<1>4. NextRowCap(cur, need) = IF floored > maxBuildRows THEN maxBuildRows ELSE floored
  BY Zenon DEF NextRowCap, doubled
<1> HIDE DEF floored
<1> QED BY <1>1, <1>3, <1>4, Zenon

(* AppendRow keeps the invariant, whether or not the slot array doubles. *)
LEMMA AppendRowStep == ASSUME IndInv, AppendRow PROVE IndInv'
<1> USE AppendedRow
<1>1. PICK c \in Capacities : slots \in [0 .. c - 1 -> Slot]
  BY Zenon DEF IndInv, TypeOK
<1>2. c \in Nat \ {0} /\ Cap(slots) = c /\ GrowLimit(c) \in 0 .. c - 1
  BY <1>1, SizeOf, GrowLimitBelow, Zenon
<1>3. keys \in Nat /\ keys < c /\ keys <= n /\ Cardinality(Occupied(slots)) = keys
  BY <1>2, Zenon DEF IndInv, TypeOK, Room
<1>4. capRows' \in Nat /\ grows' \in Nat /\ n' <= capRows'
  <2>1. /\ n \in Nat /\ n < maxBuildRows /\ n' = n + 1
        /\ capRows \in Nat /\ grows \in Nat /\ n <= capRows
    BY Zenon DEF IndInv, TypeOK, Allocation
  <2>2. CASE n + 1 > capRows
    <3>1. capRows' = NextRowCap(capRows, n + 1) /\ grows' = grows + 1
      BY <2>2, Zenon DEF AppendRow
    <3>2. n + 1 \in Nat /\ n + 1 <= maxBuildRows
      BY ONLY <2>1, JoinTableAssumption
    <3>3. NextRowCap(capRows, n + 1) \in Nat /\ n + 1 <= NextRowCap(capRows, n + 1)
      BY ONLY <2>1, <3>2, NextRowCapFits, Zenon
    <3> QED BY ONLY <2>1, <3>1, <3>3
  <2>3. CASE ~(n + 1 > capRows)
    <3>1. capRows' = capRows /\ grows' = grows
      BY <2>3, Zenon DEF AppendRow
    <3> QED BY ONLY <2>1, <2>3, <3>1
  <2> QED BY ONLY <2>2, <2>3, Zenon
<1>5. ASSUME PresizeRows(bound) > 0
      PROVE  /\ ~MustGrow /\ grows' = 0 /\ capRows' = bound /\ n' <= bound
             /\ GrowLimit(c) >= bound
  <2>1. /\ bound \in Nat /\ bound # 0 /\ n < bound /\ capRows = bound /\ grows = 0
        /\ GrowLimit(c) >= bound
    BY <1>2, <1>5, JoinTableAssumption DEF AppendRow, IndInv, TypeOK, Allocation, PresizeRows
  <2> QED BY <1>2, <1>3, <2>1 DEF AppendRow, MustGrow
<1>6. slots \in [0 .. c - 1 -> Slot']
  BY <1>1, Zenon
<1>7. TypeOK' <=> /\ \E d \in Capacities : slots' \in [0 .. d - 1 -> Slot']
                  /\ pos' \in Nat
                  /\ pc' = "grow" => \E d \in Capacities :
                       old' \in [0 .. d - 1 -> Slot'] /\ 2 * d = Cap(slots')
  <2>1. pc' \in {"grow", "insert"} /\ bound' = bound /\ keys' = keys /\ wanted' = wanted
        /\ ri' = ri /\ matches' = matches
    BY Zenon DEF AppendRow, probe
  <2>2. n' \in 0 .. maxBuildRows
    BY JoinTableAssumption
  <2>3. ri \in {noRow} \cup Rows' /\ matches \in Seq(Rows')
    <3>1. ri \in {noRow} \cup Rows /\ matches \in Seq(Rows)
      BY Zenon DEF IndInv, TypeOK
    <3> QED BY <3>1
  <2> QED BY <1>4, <2>1, <2>2, <2>3, Zenon DEF IndInv, TypeOK
<1>8. Table' = slots
  BY Zenon DEF AppendRow, Table
<1>9. Chains'
  <2>1. /\ \A s \in Occupied(slots) :
             /\ slots[s].head \in LinkedOf(slots[s].key) /\ slots[s].tail \in LinkedOf(slots[s].key)
             /\ \A r \in LinkedOf(slots[s].key) : slots[s].head <= r /\ r <= slots[s].tail
        /\ \A r \in Rows : \E s \in Occupied(slots) : slots[s].key = rowKey[r]
        /\ \A r \in Rows : IsFirst(next[r], {q \in LinkedOf(rowKey[r]) : q > r})
    BY Zenon DEF IndInv, Chains
  <2>2. \A k : {r \in Linked' : rowKey'[r] = k} = LinkedOf(k)
    BY Zenon DEF LinkedOf
  <2>3. \A s \in Occupied(Table') :
          /\ Table'[s].head \in LinkedOf(Table[s].key)' /\ Table'[s].tail \in LinkedOf(Table[s].key)'
          /\ \A r \in LinkedOf(Table[s].key)' : Table'[s].head <= r /\ r <= Table'[s].tail
    BY <1>8, <2>1, <2>2 DEF LinkedOf
  <2>4. \A r \in Linked' : \E s \in Occupied(Table') : Table'[s].key = rowKey'[r]
    BY <1>8, <2>1, Zenon
  <2>5. \A r \in Linked' : IsFirst(next'[r], {q \in LinkedOf(rowKey[r])' : q > r})
    BY <2>1, <2>2, Zenon DEF LinkedOf
  <2>6. next'[n' - 1] = noRow
    OBVIOUS
  <2> QED BY <2>3, <2>4, <2>5, <2>6, Zenon DEF Chains
<1>10. Walking'
  BY Zenon DEF AppendRow, probe, IndInv, Walking
<1>11. CASE ~MustGrow
  <2>1. slots' = slots /\ pc' = "insert" /\ pos' = pos /\ bound' = bound /\ keys' = keys
    BY <1>11, Zenon DEF AppendRow
  <2>2. TypeOK'
    BY <1>6, <1>7, <2>1, Zenon DEF IndInv, TypeOK
  <2>3. Probing'
    BY <1>8, <2>1, Zenon DEF IndInv, Probing
  <2>4. keys + 1 < c
    BY <1>2, <1>3, <1>11 DEF MustGrow
  <2>5. Room'
    BY <1>2, <1>3, <1>8, <2>1, <2>4 DEF Room
  <2>6. Allocation'
    BY <1>2, <1>4, <1>5, <2>1, Zenon DEF Allocation
  <2> QED BY <1>9, <1>10, <2>2, <2>3, <2>5, <2>6, Zenon DEF IndInv
<1>12. CASE MustGrow
  <2>1. slots' = EmptySlots(2 * c) /\ old' = slots /\ pos' = 0 /\ pc' = "grow"
        /\ bound' = bound /\ keys' = keys
    BY <1>2, <1>12, Zenon DEF AppendRow, Grown
  <2>2. 2 * c \in Capacities
    BY <1>2, <1>3, <1>12, HashIsWide, JoinTableAssumption DEF MustGrow
  <2>3. /\ slots' \in [0 .. 2 * c - 1 -> Slot'] /\ Cap(slots') = 2 * c
        /\ Occupied(slots') = {} /\ Reachable(slots') /\ DistinctKeys(slots')
    BY <2>1, <2>2, EmptyArray, Zenon DEF Slot
  <2>4. TypeOK'
    BY <1>6, <1>7, <2>1, <2>2, <2>3, Zenon
  <2>5. Moved' = {}
    <3>1. \A i \in Occupied(slots) : i \in 0 .. c - 1
      BY <1>1, Zenon DEF Occupied
    <3>2. Moved' = {i \in Occupied(slots) : i < 0}
      BY <2>1, Zenon DEF Moved, Occupied
    <3> QED BY <3>1, <3>2
  <2>6. Probing'
    <3>1. DistinctKeys(slots)
      BY Zenon DEF IndInv, Probing
    <3>2. pos' \in 0 .. Cap(old')
      BY <1>2, <2>1
    <3>3. {slots'[s] : s \in Occupied(slots')} = {old'[i] : i \in Moved'}
      BY <2>3, <2>5, Zenon
    <3>4. Cardinality(Occupied(slots')) = Cardinality(Moved')
      BY <2>3, <2>5, Zenon
    <3> QED BY <1>8, <2>3, <3>1, <3>2, <3>3, <3>4, Zenon DEF Probing
  <2>7. Room'
    BY <1>2, <1>3, <1>8, <2>1, <2>3 DEF Room
  <2>8. Allocation'
    BY <1>4, <1>5, <1>12, <2>1, Zenon DEF Allocation
  <2> QED BY <1>9, <1>10, <2>4, <2>6, <2>7, <2>8, Zenon DEF IndInv
<1> QED BY <1>11, <1>12, Zenon

-----------------------------------------------------------------------------
(* Chains are about the table with all entries and the store. *)
LEMMA SameChains ==
  ASSUME Chains, Table' = Table, Linked' = Linked, Inserting' = Inserting,
         UNCHANGED <<n, rowKey, next>>
  PROVE  Chains'
<1>1. \A k : {r \in Linked' : rowKey'[r] = k} = LinkedOf(k)
  BY Zenon DEF LinkedOf
<1>2. \A s \in Occupied(Table') :
        /\ Table'[s].head \in LinkedOf(Table[s].key)' /\ Table'[s].tail \in LinkedOf(Table[s].key)'
        /\ \A r \in LinkedOf(Table[s].key)' : Table'[s].head <= r /\ r <= Table'[s].tail
  BY <1>1, Zenon DEF Chains, LinkedOf
<1>3. \A r \in Linked' : \E s \in Occupied(Table') : Table'[s].key = rowKey'[r]
  BY Zenon DEF Chains
<1>4. \A r \in Linked' : IsFirst(next'[r], {q \in LinkedOf(rowKey[r])' : q > r})
  BY <1>1, Zenon DEF Chains, LinkedOf
<1> QED BY <1>2, <1>3, <1>4, Zenon DEF Chains

(* One slot of the old array is moved. *)
LEMMA MoveSlotStep == ASSUME IndInv, MoveSlot PROVE IndInv'
<1>1. /\ pc = "grow" /\ pc' = "grow" /\ pos < Cap(old) /\ pos' = pos + 1
      /\ UNCHANGED <<bound, n, capRows, grows, rowKey, next, keys, old, wanted, ri, matches>>
  BY Zenon DEF MoveSlot, store, probe
<1>2. PICK c \in Capacities : slots \in [0 .. c - 1 -> Slot]
  BY Zenon DEF IndInv, TypeOK
<1>3. PICK d \in Capacities : old \in [0 .. d - 1 -> Slot] /\ 2 * d = Cap(slots)
  BY <1>1, Zenon DEF IndInv, TypeOK
<1>4. /\ Cap(slots) = c /\ c \in Nat /\ Cap(old) = d /\ d \in Nat /\ pos \in 0 .. d - 1
      /\ DOMAIN old = 0 .. d - 1 /\ IsFiniteSet(DOMAIN old) /\ IsFiniteSet(DOMAIN slots)
  <2>1. pos \in Nat
    BY Zenon DEF IndInv, TypeOK
  <2>2. Cap(slots) = c /\ c \in Nat /\ IsFiniteSet(DOMAIN slots)
    BY <1>2, SizeOf, Zenon
  <2>3. Cap(old) = d /\ d \in Nat /\ DOMAIN old = 0 .. d - 1 /\ IsFiniteSet(DOMAIN old)
    BY <1>3, SizeOf, Zenon
  <2> QED BY <1>1, <2>1, <2>2, <2>3
<1>5. /\ Reachable(slots) /\ DistinctKeys(old) /\ DistinctKeys(slots)
      /\ {slots[s] : s \in Occupied(slots)} = {old[i] : i \in Moved}
      /\ Cardinality(Occupied(slots)) = Cardinality(Moved)
  BY <1>1, Zenon DEF IndInv, Probing, Table
<1>6. Rows' = Rows /\ Slot' = Slot /\ Table' = Table /\ Table = old /\ Linked' = Linked
      /\ Inserting' = Inserting
  BY <1>1, Zenon DEF Rows, Slot, Table, Linked, Inserting
<1>7. ASSUME slots' \in [0 .. c - 1 -> Slot], Reachable(slots'), DistinctKeys(slots'),
             {slots'[s] : s \in Occupied(slots')} = {old[i] : i \in Moved'},
             Cardinality(Occupied(slots')) = Cardinality(Moved')
      PROVE  IndInv'
  <2>1. Cap(slots') = c
    BY <1>7, SizeOf, Zenon
  <2>2. TypeOK'
    <3>1. \E b \in Capacities : slots' \in [0 .. b - 1 -> Slot']
      BY <1>6, <1>7, Zenon
    <3>2. \E b \in Capacities : old' \in [0 .. b - 1 -> Slot'] /\ 2 * b = Cap(slots')
      BY <1>1, <1>3, <1>4, <1>6, <2>1, Zenon
    <3>3. /\ pc' = "grow" /\ bound' \in RowBounds /\ n' \in 0 .. maxBuildRows /\ capRows' \in Nat
          /\ grows' \in Nat /\ keys' \in Nat /\ pos' \in Nat /\ wanted' \in Keys
      BY <1>1, <1>4 DEF IndInv, TypeOK
    <3>4. /\ rowKey' \in [Rows' -> Keys] /\ next' \in [Rows' -> {noRow} \cup Rows']
          /\ ri' \in {noRow} \cup Rows' /\ matches' \in Seq(Rows')
      BY <1>1, <1>6, Zenon DEF IndInv, TypeOK
    <3> QED BY <3>1, <3>2, <3>3, <3>4, Zenon DEF TypeOK
  <2>3. Probing'
    <3>1. DistinctKeys(Table') /\ old' = old
      BY <1>1, <1>5, <1>6, Zenon
    <3>2. pos' \in 0 .. Cap(old')
      BY <1>1, <1>4
    <3> QED BY <1>7, <3>1, <3>2, Zenon DEF Probing
  <2>4. Room'
    BY <1>1, <1>4, <1>6, <2>1, Zenon DEF IndInv, Room
  <2>5. Chains'
    BY <1>1, <1>6, SameChains, Zenon DEF IndInv
  <2>6. Allocation'
    BY <1>1, Zenon DEF IndInv, Allocation
  <2>7. Walking'
    BY <1>1, Zenon DEF MoveSlot, probe, IndInv, Walking
  <2> QED BY <2>2, <2>3, <2>4, <2>5, <2>6, <2>7, Zenon DEF IndInv
<1>8. CASE old[pos].head = noRow
  <2>1. slots' = slots
    BY <1>8, Zenon DEF MoveSlot
  <2>2. Moved' = Moved
    BY <1>1, <1>4, <1>8 DEF Moved, Occupied
  <2> QED BY <1>2, <1>5, <1>7, <2>1, <2>2, Zenon
<1>9. CASE old[pos].head # noRow
  <2>1. PICK s \in DOMAIN slots :
          FreeFor(slots, old[pos].key, s) /\ slots' = [slots EXCEPT ![s] = old[pos]]
    BY <1>9, Zenon DEF MoveSlot
  <2>2. pos \in Occupied(old) /\ old[pos] \in Slot
    BY <1>3, <1>4, <1>9, Zenon DEF Occupied
  <2>3. ASSUME NEW t \in Occupied(slots) PROVE slots[t].key # old[pos].key
    <3>1. PICK i \in Moved : slots[t] = old[i]
      BY <1>5, Zenon
    <3>2. i \in Occupied(old) /\ i # pos
      BY <1>4, <3>1 DEF Moved
    <3> QED BY <1>5, <2>2, <3>1, <3>2, Zenon DEF DistinctKeys
  <2>5. /\ slots' \in [0 .. c - 1 -> Slot]
        /\ Reachable(slots') /\ DistinctKeys(slots')
        /\ Occupied(slots') = Occupied(slots) \cup {s} /\ s \notin Occupied(slots)
        /\ {slots'[t] : t \in Occupied(slots')} = {slots[t] : t \in Occupied(slots)} \cup {old[pos]}
    <3>1. Reachable(slots) /\ DistinctKeys(slots)
      BY <1>5, Zenon
    <3>2. /\ s \in 0 .. c - 1 /\ slots' \in [0 .. c - 1 -> Slot] /\ slots'[s] = old[pos]
          /\ \A t \in 0 .. c - 1 : t # s => slots'[t] = slots[t]
      BY <1>2, <2>1, <2>2, Zenon
    <3>3. /\ Reachable(slots') /\ DistinctKeys(slots')
          /\ Occupied(slots') = Occupied(slots) \cup {s} /\ s \notin Occupied(slots)
      <4>1. /\ slots'[s].head # noRow /\ FreeFor(slots, slots'[s].key, s)
            /\ \A t \in Occupied(slots) : slots[t].key # slots'[s].key
        BY <1>9, <2>1, <2>3, <3>2, Zenon
      <4> QED BY <1>2, <3>1, <3>2, <4>1, FillSlot, Zenon
    <3>4. \A t \in Occupied(slots) : t \in 0 .. c - 1 /\ t # s
      BY <1>2, <3>3, Zenon DEF Occupied
    <3> QED BY <3>2, <3>3, <3>4, Zenon
  <2>6. Moved' = Moved \cup {pos} /\ pos \notin Moved
    BY <1>1, <1>4, <2>2 DEF Moved, Occupied
  <2>7. {slots'[t] : t \in Occupied(slots')} = {old[i] : i \in Moved'}
    BY <1>5, <2>5, <2>6, Zenon
  <2>8. IsFiniteSet(Moved) /\ IsFiniteSet(Occupied(slots))
    <3>1. Moved \in SUBSET DOMAIN old /\ Occupied(slots) \in SUBSET DOMAIN slots
      BY Zenon DEF Moved, Occupied
    <3> QED BY <1>4, <3>1, FS_Subset, Zenon
  <2>9. Cardinality(Occupied(slots')) = Cardinality(Moved')
    <3>1. Cardinality(Occupied(slots) \cup {s}) = Cardinality(Occupied(slots)) + 1
      BY <2>5, <2>8, FS_AddElement, Zenon
    <3>2. Cardinality(Moved \cup {pos}) = Cardinality(Moved) + 1
      BY <2>6, <2>8, FS_AddElement, Zenon
    <3> QED BY <1>5, <2>5, <2>6, <3>1, <3>2, Zenon
  <2> QED BY <1>7, <2>5, <2>7, <2>9, Zenon
<1> QED BY <1>8, <1>9, Zenon

(* All slots are moved. *)
LEMMA GrowDoneStep == ASSUME IndInv, GrowDone PROVE IndInv'
<1>1. /\ pc = "grow" /\ pc' = "insert" /\ pos = Cap(old) /\ pos' = 0
      /\ UNCHANGED <<bound, n, capRows, grows, rowKey, next, slots, keys, wanted, ri, matches>>
  BY Zenon DEF GrowDone, store, probe
<1>2. PICK d \in Capacities : old \in [0 .. d - 1 -> Slot]
  BY <1>1, Zenon DEF IndInv, TypeOK
<1>3. Moved = Occupied(old)
  BY <1>1, <1>2, SizeOf DEF Moved, Occupied
<1>4. /\ {slots[s] : s \in Occupied(slots)} = {old[i] : i \in Occupied(old)}
      /\ Cardinality(Occupied(slots)) = Cardinality(Occupied(old))
      /\ Reachable(slots) /\ DistinctKeys(slots)
  BY <1>1, <1>3, Zenon DEF IndInv, Probing
<1>5. Rows' = Rows /\ Slot' = Slot /\ Table = old /\ Table' = slots /\ Linked' = Linked
      /\ Inserting /\ Inserting'
  BY <1>1, Zenon DEF Rows, Slot, Table, Linked, Inserting
<1>6. TypeOK'
  BY <1>1, <1>5, Zenon DEF IndInv, TypeOK
<1>7. Probing'
  BY <1>1, <1>4, <1>5, Zenon DEF Probing
<1>8. Room'
  BY <1>1, <1>4, <1>5, Zenon DEF IndInv, Room
<1>9. Chains'
  <2>1. \A k : {r \in Linked' : rowKey'[r] = k} = LinkedOf(k)
    BY <1>1, <1>5, Zenon DEF LinkedOf
  <2>2. ASSUME NEW s \in Occupied(Table')
        PROVE  /\ Table'[s].head \in LinkedOf(Table[s].key)' /\ Table'[s].tail \in LinkedOf(Table[s].key)'
               /\ \A r \in LinkedOf(Table[s].key)' : Table'[s].head <= r /\ r <= Table'[s].tail
    <3>1. PICK i \in Occupied(old) : slots[s] = old[i]
      BY <1>4, <1>5, Zenon
    <3>2. /\ old[i].head \in LinkedOf(old[i].key) /\ old[i].tail \in LinkedOf(old[i].key)
          /\ \A r \in LinkedOf(old[i].key) : old[i].head <= r /\ r <= old[i].tail
      BY <1>5, Zenon DEF IndInv, Chains
    <3>3. Table'[s] = old[i] /\ LinkedOf(Table[s].key)' = LinkedOf(old[i].key)
      BY <1>5, <2>1, <3>1 DEF LinkedOf
    <3> QED BY <3>2, <3>3, Zenon
  <2>3. ASSUME NEW r \in Linked' PROVE \E s \in Occupied(Table') : Table'[s].key = rowKey'[r]
    <3>1. PICK i \in Occupied(old) : old[i].key = rowKey[r]
      BY <1>5, Zenon DEF IndInv, Chains
    <3>2. PICK s \in Occupied(slots) : slots[s] = old[i]
      BY <1>4, Zenon
    <3> QED BY <1>1, <1>5, <3>1, <3>2, Zenon
  <2>4. \A r \in Linked' : IsFirst(next'[r], {q \in LinkedOf(rowKey[r])' : q > r})
    BY <1>1, <1>5, <2>1, Zenon DEF IndInv, Chains, LinkedOf
  <2> QED BY <1>1, <1>5, <2>2, <2>3, <2>4, Zenon DEF IndInv, Chains
<1>10. Allocation'
  BY <1>1, Zenon DEF IndInv, Allocation
<1>11. Walking'
  BY <1>1, Zenon DEF GrowDone, probe, IndInv, Walking
<1> QED BY <1>6, <1>7, <1>8, <1>9, <1>10, <1>11, Zenon DEF IndInv

-----------------------------------------------------------------------------
(* What holds at any insert: the row is n - 1, its probe stops at s. *)
LEMMA InsertedRow ==
  ASSUME IndInv, pc = "insert", pc' = "build", UNCHANGED <<n, rowKey>>
  PROVE  /\ n \in Nat \ {0} /\ n - 1 \in Rows /\ rowKey[n - 1] \in Keys /\ next[n - 1] = noRow
         /\ Rows' = Rows /\ Slot' = Slot /\ Table = slots /\ Table' = slots'
         /\ Inserting /\ ~Inserting'
         /\ Linked = 0 .. n - 2 /\ Linked' = Linked \cup {n - 1} /\ n - 1 \notin Linked
         /\ LinkedOf(rowKey[n - 1])' = LinkedOf(rowKey[n - 1]) \cup {n - 1}
         /\ \A k : k # rowKey[n - 1] => {r \in Linked' : rowKey'[r] = k} = LinkedOf(k)
<1>1. Inserting /\ ~Inserting' /\ Table = slots /\ Table' = slots'
  BY Zenon DEF Inserting, Table
<1>2. n \in Nat \ {0} /\ next[n - 1] = noRow
  BY <1>1, JoinTableAssumption DEF IndInv, TypeOK, Room, Chains
<1>3. n - 1 \in Rows /\ Rows' = Rows /\ Slot' = Slot
  BY <1>2 DEF Rows, Slot
<1>4. rowKey[n - 1] \in Keys
  BY <1>3, Zenon DEF IndInv, TypeOK
<1>5. Linked = 0 .. n - 2 /\ Linked' = Linked \cup {n - 1} /\ n - 1 \notin Linked
  BY <1>1, <1>2 DEF Linked
<1>6. LinkedOf(rowKey[n - 1])' = LinkedOf(rowKey[n - 1]) \cup {n - 1}
  BY <1>5, Zenon DEF LinkedOf
<1>7. \A k : k # rowKey[n - 1] => {r \in Linked' : rowKey'[r] = k} = LinkedOf(k)
  BY <1>5, Zenon DEF LinkedOf
<1> QED BY <1>1, <1>2, <1>3, <1>4, <1>5, <1>6, <1>7, Zenon

(* What an insert has to show. *)
LEMMA InsertFrame ==
  ASSUME IndInv, Insert, Probing', Room', Chains',
         next' \in [Rows -> {noRow} \cup Rows],
         NEW c \in Capacities, slots \in [0 .. c - 1 -> Slot], slots' \in [0 .. c - 1 -> Slot],
         keys' \in Nat
  PROVE  IndInv'
<1>1. /\ pc = "insert" /\ pc' = "build"
      /\ UNCHANGED <<bound, n, capRows, grows, rowKey, old, pos, wanted, ri, matches>>
  BY Zenon DEF Insert, probe
<1>2. Rows' = Rows /\ Slot' = Slot
  BY <1>1, InsertedRow, Zenon
<1>3. Cap(slots) = c /\ Cap(slots') = c
  <2>1. Cap(slots) = c
    BY SizeOf, Zenon
  <2>2. Cap(slots') = c
    BY SizeOf, Zenon
  <2> QED BY <2>1, <2>2, Zenon
<1>4. TypeOK'
  <2>1. \E b \in Capacities : slots' \in [0 .. b - 1 -> Slot']
    BY <1>2, Zenon
  <2>2. /\ pc' = "build" /\ bound' \in RowBounds /\ n' \in 0 .. maxBuildRows /\ capRows' \in Nat
        /\ grows' \in Nat /\ pos' \in Nat /\ wanted' \in Keys
    BY <1>1, Zenon DEF IndInv, TypeOK
  <2>3. /\ rowKey' \in [Rows' -> Keys] /\ next' \in [Rows' -> {noRow} \cup Rows']
        /\ ri' \in {noRow} \cup Rows' /\ matches' \in Seq(Rows')
    BY <1>1, <1>2, Zenon DEF IndInv, TypeOK
  <2> QED BY <2>1, <2>2, <2>3, Zenon DEF TypeOK
<1>5. Allocation'
  BY <1>1, <1>3, Zenon DEF IndInv, Allocation
<1>6. Walking'
  BY <1>1, Zenon DEF Insert, probe, IndInv, Walking
<1> QED BY <1>4, <1>5, <1>6, Zenon DEF IndInv

(* A key the table does not have yet. *)
LEMMA InsertNewKey ==
  ASSUME IndInv, Insert, NEW s \in DOMAIN slots, StopsAt(slots, rowKey[n - 1], s),
         slots[s].head = noRow,
         slots' = [slots EXCEPT ![s] = [key |-> rowKey[n - 1], head |-> n - 1, tail |-> n - 1]],
         keys' = keys + 1, next' = next
  PROVE  IndInv'
<1> DEFINE k == rowKey[n - 1]
<1>1. pc = "insert" /\ pc' = "build" /\ UNCHANGED <<n, rowKey>>
  BY Zenon DEF Insert
<1>2. /\ n \in Nat \ {0} /\ n - 1 \in Rows /\ k \in Keys /\ next[n - 1] = noRow
      /\ Rows' = Rows /\ Slot' = Slot /\ Table = slots /\ Table' = slots'
      /\ Inserting /\ ~Inserting'
      /\ Linked = 0 .. n - 2 /\ Linked' = Linked \cup {n - 1} /\ n - 1 \notin Linked
      /\ LinkedOf(k)' = LinkedOf(k) \cup {n - 1}
      /\ \A x : x # k => {r \in Linked' : rowKey'[r] = x} = LinkedOf(x)
  BY <1>1, InsertedRow, Zenon
<1>3. PICK c \in Capacities : slots \in [0 .. c - 1 -> Slot]
  BY Zenon DEF IndInv, TypeOK
<1>4. /\ c \in Nat /\ Cap(slots) = c /\ DOMAIN slots = 0 .. c - 1 /\ IsFiniteSet(DOMAIN slots)
      /\ Reachable(slots) /\ DistinctKeys(slots)
  BY <1>2, <1>3, SizeOf, Zenon DEF IndInv, Probing
<1>5. ASSUME NEW t \in Occupied(slots) PROVE slots[t].key # k
  <2>1. SUFFICES ASSUME slots[t].key = k PROVE FALSE
    BY Zenon
  <2>2. StopsAt(slots, k, t) /\ t \in DOMAIN slots
    BY <1>2, <1>3, <1>4, <2>1, StopsAtKey, Zenon DEF Occupied
  <2>3. s = t
    BY <1>2, <1>3, <2>2, StopsOnce, Zenon
  <2> QED BY <2>3, Zenon DEF Occupied
<1>6. LinkedOf(k) = {}
  BY <1>2, <1>5 DEF IndInv, Chains, LinkedOf
<1>7. /\ slots' \in [0 .. c - 1 -> Slot] /\ \A t \in 0 .. c - 1 : t # s => slots'[t] = slots[t]
      /\ slots'[s].key = k /\ slots'[s].head = n - 1 /\ slots'[s].tail = n - 1
  <2>1. [key |-> k, head |-> n - 1, tail |-> n - 1] \in Slot
    BY <1>2, Zenon DEF Slot
  <2> QED BY <1>3, <1>4, <2>1, Zenon
<1>8. /\ Reachable(slots') /\ DistinctKeys(slots')
      /\ Occupied(slots') = Occupied(slots) \cup {s} /\ s \notin Occupied(slots)
  <2>1. /\ s \in 0 .. c - 1 /\ slots'[s].head # noRow /\ FreeFor(slots, slots'[s].key, s)
        /\ \A t \in Occupied(slots) : slots[t].key # slots'[s].key
    BY <1>2, <1>4, <1>5, <1>7 DEF StopsAt, FreeFor, noRow
  <2>2. slots' \in [0 .. c - 1 -> Slot] /\ \A t \in 0 .. c - 1 : t # s => slots'[t] = slots[t]
    BY <1>7, Zenon
  <2>3. Reachable(slots) /\ DistinctKeys(slots)
    BY <1>4, Zenon
  <2> QED BY ONLY c \in Capacities, <1>3, <2>1, <2>2, <2>3, FillSlot, Zenon
<1>9. Probing'
  BY <1>1, <1>2, <1>8, Zenon DEF Probing
<1>10. Room'
  <2>1. IsFiniteSet(Occupied(slots))
    BY <1>4, FS_Subset, Zenon DEF Occupied
  <2>2. Cardinality(Occupied(slots')) = Cardinality(Occupied(slots)) + 1
    BY <1>8, <2>1, FS_AddElement, Zenon
  <2>3. keys \in Nat /\ keys + 1 < c /\ keys < n /\ Cardinality(Occupied(slots)) = keys
    BY <1>2, <1>4, Zenon DEF IndInv, Room, TypeOK
  <2>4. Cap(slots') = c
    BY <1>7, SizeOf, Zenon
  <2> QED BY <1>1, <1>2, <2>2, <2>3, <2>4 DEF Room
<1>11. Chains'
  <2>1. ASSUME NEW t \in Occupied(Table')
        PROVE  /\ Table'[t].head \in LinkedOf(Table[t].key)' /\ Table'[t].tail \in LinkedOf(Table[t].key)'
               /\ \A r \in LinkedOf(Table[t].key)' : Table'[t].head <= r /\ r <= Table'[t].tail
    <3>1. CASE t = s
      <4>1. {r \in Linked' : rowKey'[r] = Table'[t].key} = {n - 1}
        BY <1>1, <1>2, <1>6, <1>7, <3>1, Zenon DEF LinkedOf
      <4> QED BY <1>2, <1>7, <3>1, <4>1 DEF LinkedOf
    <3>2. CASE t # s
      <4>1. t \in Occupied(slots) /\ slots'[t] = slots[t] /\ slots[t].key # k
        BY <1>2, <1>4, <1>5, <1>7, <1>8, <3>2, Zenon DEF Occupied
      <4>2. {r \in Linked' : rowKey'[r] = Table'[t].key} = LinkedOf(slots[t].key)
        BY <1>2, <4>1, Zenon
      <4>3. /\ slots[t].head \in LinkedOf(slots[t].key) /\ slots[t].tail \in LinkedOf(slots[t].key)
            /\ \A r \in LinkedOf(slots[t].key) : slots[t].head <= r /\ r <= slots[t].tail
        BY <1>2, <4>1, Zenon DEF IndInv, Chains
      <4>4. LinkedOf(Table[t].key)' = LinkedOf(slots[t].key) /\ Table'[t] = slots[t]
        BY <1>2, <4>1, <4>2, Zenon DEF LinkedOf
      <4> QED BY <4>3, <4>4, Zenon
    <3> QED BY <3>1, <3>2, Zenon
  <2>2. ASSUME NEW r \in Linked' PROVE \E t \in Occupied(Table') : Table'[t].key = rowKey'[r]
    <3>1. CASE r = n - 1
      BY <1>1, <1>2, <1>7, <1>8, <3>1, Zenon
    <3>2. CASE r # n - 1
      <4>1. PICK t \in Occupied(slots) : slots[t].key = rowKey[r]
        BY <1>2, <3>2, Zenon DEF IndInv, Chains
      <4>2. t \in Occupied(slots') /\ slots'[t] = slots[t]
        BY <1>4, <1>7, <1>8, <4>1, Zenon DEF Occupied
      <4> QED BY <1>1, <1>2, <4>1, <4>2, Zenon
    <3> QED BY <3>1, <3>2, Zenon
  <2>3. ASSUME NEW r \in Linked' PROVE IsFirst(next'[r], {q \in LinkedOf(rowKey[r])' : q > r})
    <3>1. CASE r = n - 1
      <4>1. {q \in LinkedOf(rowKey[r])' : q > r} = {}
        BY <1>1, <1>2, <3>1 DEF LinkedOf
      <4> QED BY <1>2, <3>1, <4>1, Zenon DEF IsFirst
    <3>2. CASE r # n - 1
      <4>1. r \in Linked /\ rowKey[r] # k
        BY <1>2, <1>6, <3>2, Zenon DEF LinkedOf
      <4>2. LinkedOf(rowKey[r])' = LinkedOf(rowKey[r])
        BY <1>1, <1>2, <4>1, Zenon DEF LinkedOf
      <4> QED BY <4>1, <4>2, Zenon DEF IndInv, Chains
    <3> QED BY <3>1, <3>2, Zenon
  <2>4. ~Inserting'
    BY <1>2, Zenon
  <2> QED BY ONLY <2>1, <2>2, <2>3, <2>4, Zenon DEF Chains
<1> QED
  <2>1. keys' \in Nat /\ next' \in [Rows -> {noRow} \cup Rows]
    BY DEF IndInv, TypeOK
  <2> QED BY <1>3, <1>7, <1>9, <1>10, <1>11, <2>1, InsertFrame, Zenon

(* A key the table has: the row goes to the end of its chain. *)
LEMMA InsertDuplicate ==
  ASSUME IndInv, Insert, NEW s \in DOMAIN slots, StopsAt(slots, rowKey[n - 1], s),
         slots[s].head # noRow, LinkLast(s, n - 1), keys' = keys
  PROVE  IndInv'
<1> DEFINE k == rowKey[n - 1]
<1>1. pc = "insert" /\ pc' = "build" /\ UNCHANGED <<n, rowKey>>
  BY Zenon DEF Insert
<1>2. /\ n \in Nat \ {0} /\ n - 1 \in Rows /\ k \in Keys /\ next[n - 1] = noRow
      /\ Rows' = Rows /\ Slot' = Slot /\ Table = slots /\ Table' = slots'
      /\ Inserting /\ ~Inserting'
      /\ Linked = 0 .. n - 2 /\ Linked' = Linked \cup {n - 1} /\ n - 1 \notin Linked
      /\ LinkedOf(k)' = LinkedOf(k) \cup {n - 1}
      /\ \A x : x # k => {r \in Linked' : rowKey'[r] = x} = LinkedOf(x)
  BY <1>1, InsertedRow, Zenon
<1>3. PICK c \in Capacities : slots \in [0 .. c - 1 -> Slot]
  BY Zenon DEF IndInv, TypeOK
<1>4. /\ c \in Nat /\ Cap(slots) = c /\ DOMAIN slots = 0 .. c - 1
      /\ Reachable(slots) /\ DistinctKeys(slots)
  BY <1>2, <1>3, SizeOf, Zenon DEF IndInv, Probing
<1>5. s \in Occupied(slots) /\ slots[s].key = k
  BY Zenon DEF Occupied, StopsAt
<1> DEFINE h == slots[s].head  t == slots[s].tail
<1>6. h \in LinkedOf(k) /\ t \in LinkedOf(k) /\ \A r \in LinkedOf(k) : h <= r /\ r <= t
  BY <1>2, <1>5, Zenon DEF IndInv, Chains
<1>7. t \in 0 .. n - 2 /\ rowKey[t] = k /\ t \in Rows /\ t # n - 1
  BY <1>2, <1>6 DEF LinkedOf, Rows
<1>8. /\ slots' \in [0 .. c - 1 -> Slot]
      /\ \A u \in 0 .. c - 1 : slots'[u].key = slots[u].key /\ slots'[u].head = slots[u].head
      /\ \A u \in 0 .. c - 1 : u # s => slots'[u] = slots[u]
      /\ slots'[s].tail = n - 1
  <2>1. slots' = [slots EXCEPT ![s] = [slots[s] EXCEPT !.tail = n - 1]]
    BY Zenon DEF LinkLast
  <2>2. slots[s] \in Slot
    BY <1>3, Zenon
  <2>3. /\ [slots[s] EXCEPT !.tail = n - 1] \in Slot
        /\ [slots[s] EXCEPT !.tail = n - 1].key = slots[s].key
        /\ [slots[s] EXCEPT !.tail = n - 1].head = slots[s].head
        /\ [slots[s] EXCEPT !.tail = n - 1].tail = n - 1
    BY <1>2, <2>2, Zenon DEF Slot
  <2> DEFINE e == [slots[s] EXCEPT !.tail = n - 1]
  <2> HIDE DEF e
  <2> QED BY ONLY <1>3, <1>4, <2>1, <2>3, s \in DOMAIN slots, Zenon
<1>9. /\ next' \in [Rows -> {noRow} \cup Rows] /\ next'[t] = n - 1
      /\ \A r \in Rows : r # t => next'[r] = next[r]
  BY <1>2, <1>7, Zenon DEF LinkLast, IndInv, TypeOK
<1>10. Occupied(slots') = Occupied(slots) /\ Reachable(slots') /\ DistinctKeys(slots')
  <2>1. Reachable(slots) /\ DistinctKeys(slots)
    BY <1>4, Zenon
  <2>2. /\ slots' \in [0 .. c - 1 -> Slot]
        /\ \A u \in 0 .. c - 1 : slots'[u].key = slots[u].key /\ slots'[u].head = slots[u].head
    BY <1>8, Zenon
  <2> QED BY ONLY c \in Capacities, <1>3, <2>1, <2>2, SameHeads, Zenon
<1>11. Probing'
  BY <1>1, <1>2, <1>10, Zenon DEF Probing
<1>12. Room'
  <2>1. keys \in Nat /\ keys + 1 < c /\ keys < n /\ Cardinality(Occupied(slots)) = keys
    BY <1>2, <1>4, Zenon DEF IndInv, Room, TypeOK
  <2>2. Cap(slots') = c
    BY <1>8, SizeOf, Zenon
  <2>3. Cardinality(Occupied(Table')) = keys' /\ n' = n
    BY <1>1, <1>2, <1>10, <2>1, Zenon
  <2>4. n \in Nat /\ c \in Nat /\ keys' = keys /\ ~Inserting'
    BY <1>2, <1>4, Zenon
  <2>5. ~Inserting' /\ keys' < Cap(slots') /\ keys' <= n'
    BY ONLY <2>1, <2>2, <2>3, <2>4, SMTT(60)
  <2> QED BY <2>3, <2>5, Zenon DEF Room
<1> HIDE DEF h, t
<1>13. Chains'
  <2>1. ASSUME NEW u \in Occupied(Table')
        PROVE  /\ Table'[u].head \in LinkedOf(Table[u].key)' /\ Table'[u].tail \in LinkedOf(Table[u].key)'
               /\ \A r \in LinkedOf(Table[u].key)' : Table'[u].head <= r /\ r <= Table'[u].tail
    <3>0. u \in Occupied(slots) /\ u \in 0 .. c - 1
      BY <1>2, <1>4, <1>10, Zenon DEF Occupied
    <3>1. CASE u = s
      <4>1. Table'[u].head = h /\ Table'[u].tail = n - 1 /\ Table'[u].key = k
        BY <1>2, <1>5, <1>8, <3>0, <3>1, Zenon DEF h
      <4>2. LinkedOf(Table[u].key)' = LinkedOf(k) \cup {n - 1}
        BY <1>1, <1>2, <4>1, Zenon DEF LinkedOf
      <4>3. \A r \in LinkedOf(k) : r \in Int /\ r <= n - 1
        BY <1>2 DEF LinkedOf
      <4>4. h \in LinkedOf(k) \cup {n - 1} /\ n - 1 \in LinkedOf(k) \cup {n - 1}
        BY <1>6, Zenon
      <4>5. h \in Int /\ h <= n - 1 /\ n - 1 \in Int
        BY <1>2, <1>6, <4>3
      <4>6. \A r \in LinkedOf(k) \cup {n - 1} : h <= r /\ r <= n - 1
        BY ONLY <1>6, <4>3, <4>5
      <4> QED BY ONLY <4>1, <4>2, <4>4, <4>6, Zenon
    <3>2. CASE u # s
      <4>1. slots'[u] = slots[u] /\ slots[u].key # k
        BY <1>4, <1>5, <1>8, <3>0, <3>2, SMTT(60) DEF DistinctKeys
      <4>2. LinkedOf(Table[u].key)' = LinkedOf(slots[u].key) /\ Table'[u] = slots[u]
        BY <1>2, <4>1 DEF LinkedOf
      <4>3. /\ slots[u].head \in LinkedOf(slots[u].key) /\ slots[u].tail \in LinkedOf(slots[u].key)
            /\ \A r \in LinkedOf(slots[u].key) : slots[u].head <= r /\ r <= slots[u].tail
        BY <1>2, <3>0, Zenon DEF IndInv, Chains
      <4> QED BY <4>2, <4>3, Zenon
    <3> QED BY <3>1, <3>2, Zenon
  <2>2. ASSUME NEW r \in Linked' PROVE \E u \in Occupied(Table') : Table'[u].key = rowKey'[r]
    <3>1. PICK u \in Occupied(slots) : slots[u].key = rowKey[r]
      BY <1>2, <1>5, Zenon DEF IndInv, Chains
    <3>2. u \in Occupied(slots') /\ slots'[u].key = slots[u].key
      BY <1>4, <1>8, <1>10, <3>1, Zenon DEF Occupied
    <3> QED BY <1>1, <1>2, <3>1, <3>2, Zenon
  <2>3. ASSUME NEW r \in Linked' PROVE IsFirst(next'[r], {q \in LinkedOf(rowKey[r])' : q > r})
    <3>1. CASE r = n - 1
      <4>1. {q \in LinkedOf(rowKey[r])' : q > r} = {}
        BY <1>1, <1>2, <3>1 DEF LinkedOf
      <4>2. next'[r] = noRow
        BY <1>2, <1>7, <1>9, <3>1, Zenon
      <4> QED BY <4>1, <4>2, Zenon DEF IsFirst
    <3>2. CASE r # n - 1 /\ rowKey[r] # k
      <4>1. r \in Linked /\ r \in Rows /\ r # t
        BY <1>2, <1>7, <3>2 DEF Rows
      <4>2. LinkedOf(rowKey[r])' = LinkedOf(rowKey[r]) /\ next'[r] = next[r]
        BY <1>1, <1>2, <1>9, <3>2, <4>1, Zenon DEF LinkedOf
      <4> QED BY <4>1, <4>2, Zenon DEF IndInv, Chains
    <3>3. CASE r # n - 1 /\ rowKey[r] = k
      <4>1. r \in Linked /\ r \in Rows /\ r \in LinkedOf(k) /\ r \in 0 .. n - 2
        BY <1>2, <3>3 DEF Rows, LinkedOf
      <4>2. {q \in LinkedOf(rowKey[r])' : q > r} = {q \in LinkedOf(k) : q > r} \cup {n - 1}
        <5>1. LinkedOf(rowKey[r])' = LinkedOf(k) \cup {n - 1}
          BY <1>1, <1>2, <3>3, Zenon DEF LinkedOf
        <5> QED BY <1>2, <4>1, <5>1
      <4>3. IsFirst(next[r], {q \in LinkedOf(k) : q > r})
        BY <3>3, <4>1, Zenon DEF IndInv, Chains
      <4>4. \A q \in LinkedOf(k) : q \in 0 .. n - 2
        BY <1>2, Zenon DEF LinkedOf
      <4>5. CASE r = t
        <5>1. {q \in LinkedOf(k) : q > r} = {}
          <6>1. \A q \in LinkedOf(k) : q <= r
            BY <1>6, <4>5, Zenon
          <6>2. \A q \in LinkedOf(k) : ~(q > r)
            BY <4>1, <4>4, <6>1
          <6> QED BY <6>2, Zenon
        <5>2. next'[r] = n - 1
          BY <1>9, <4>5, Zenon
        <5> QED BY <1>2, <4>2, <5>1, <5>2, SMTT(60) DEF IsFirst
      <4>6. CASE r # t
        <5>1. next'[r] = next[r] /\ t \in {q \in LinkedOf(k) : q > r}
          BY <1>6, <1>7, <1>9, <4>1, <4>6
        <5>2. next[r] \in {q \in LinkedOf(k) : q > r} /\ \A q \in LinkedOf(k) : q > r => next[r] <= q
          BY <4>3, <5>1, Zenon DEF IsFirst
        <5>3. next[r] <= n - 1
          BY <1>2, <4>4, <5>2
        <5> QED BY <4>2, <5>1, <5>2, <5>3, Zenon DEF IsFirst
      <4> QED BY <4>5, <4>6, Zenon
    <3> QED BY <3>1, <3>2, <3>3, Zenon
  <2>4. ~Inserting'
    BY <1>2, Zenon
  <2> QED BY ONLY <2>1, <2>2, <2>3, <2>4, Zenon DEF Chains
<1> QED
  <2>1. keys' \in Nat
    BY Zenon DEF IndInv, TypeOK
  <2> QED BY <1>3, <1>8, <1>9, <1>11, <1>12, <1>13, <2>1, InsertFrame, Zenon

(* Insert keeps the invariant. *)
LEMMA InsertStep == ASSUME IndInv, Insert PROVE IndInv'
<1>1. PICK s \in DOMAIN slots :
        /\ StopsAt(slots, rowKey[n - 1], s)
        /\ IF slots[s].head = noRow
           THEN /\ slots' = [slots EXCEPT ![s] = [key |-> rowKey[n - 1], head |-> n - 1, tail |-> n - 1]]
                /\ keys' = keys + 1
                /\ UNCHANGED next
           ELSE LinkLast(s, n - 1) /\ UNCHANGED keys
  BY Zenon DEF Insert
<1>2. CASE slots[s].head = noRow
  BY <1>1, <1>2, InsertNewKey, Zenon
<1>3. CASE slots[s].head # noRow
  BY <1>1, <1>3, InsertDuplicate, Zenon
<1> QED BY <1>2, <1>3, Zenon

-----------------------------------------------------------------------------
(* A step that leaves store and table alone, between two inserts. *)
LEMMA ProbeFrame ==
  ASSUME IndInv, ~Inserting, pc' \in {"failed", "probe", "walk"}, UNCHANGED <<bound, store, table>>,
         wanted' \in Keys, ri' \in {noRow} \cup Rows, matches' \in Seq(Rows), Walking'
  PROVE  IndInv'
<1>1. UNCHANGED <<n, capRows, grows, rowKey, next, slots, keys, old, pos>>
  BY Zenon DEF store, table
<1>2. /\ Rows' = Rows /\ Slot' = Slot /\ Table' = Table /\ Table = slots
      /\ Linked' = Linked /\ ~Inserting' /\ pc' # "grow" /\ pc # "grow"
  BY <1>1, Zenon DEF Rows, Slot, Table, Linked, Inserting
<1>3. TypeOK'
  <2>1. \E b \in Capacities : slots' \in [0 .. b - 1 -> Slot']
    BY <1>1, <1>2, Zenon DEF IndInv, TypeOK
  <2>2. /\ bound' \in RowBounds /\ n' \in 0 .. maxBuildRows /\ capRows' \in Nat
        /\ grows' \in Nat /\ pos' \in Nat /\ keys' \in Nat
    BY <1>1, Zenon DEF IndInv, TypeOK
  <2>3. /\ rowKey' \in [Rows' -> Keys] /\ next' \in [Rows' -> {noRow} \cup Rows']
        /\ ri' \in {noRow} \cup Rows' /\ matches' \in Seq(Rows')
    BY <1>1, <1>2, Zenon DEF IndInv, TypeOK
  <2> QED BY <1>2, <2>1, <2>2, <2>3, Zenon DEF TypeOK
<1>4. Probing'
  BY <1>1, <1>2, Zenon DEF IndInv, Probing
<1>5. Room'
  BY <1>1, <1>2, Zenon DEF IndInv, Room
<1>6. Chains'
  <2>1. Chains /\ Inserting' = Inserting
    BY <1>2 DEF IndInv, Inserting
  <2> QED BY ONLY <1>1, <1>2, <2>1, SameChains, Zenon
<1>7. Allocation'
  BY <1>1, <1>2, Zenon DEF IndInv, Allocation
<1> QED BY <1>3, <1>4, <1>5, <1>6, <1>7, Zenon DEF IndInv

(* The build fails, or is started again. *)
LEMMA FailSteps == ASSUME IndInv, RefuseRow \/ Rebuild PROVE IndInv'
<1>1. CASE RefuseRow
  <2>1. /\ ~Inserting /\ pc' = "failed" /\ UNCHANGED <<bound, store, table>>
        /\ UNCHANGED <<wanted, ri, matches>>
    BY <1>1, Zenon DEF RefuseRow, Inserting, probe
  <2>2. Walking'
    BY <1>1, <2>1, Zenon DEF RefuseRow, IndInv, Walking
  <2>3. wanted' \in Keys /\ ri' \in {noRow} \cup Rows /\ matches' \in Seq(Rows)
    BY <2>1, Zenon DEF IndInv, TypeOK
  <2> QED BY <2>1, <2>2, <2>3, ProbeFrame, Zenon
<1>2. CASE Rebuild
  <2>1. ri' = noRow /\ matches' = <<>> /\ wanted' \in Keys /\ pos' \in Nat /\ bound' \in RowBounds
    BY <1>2, Zenon DEF Rebuild, probe, IndInv, Walking, TypeOK
  <2> QED BY <1>2, <2>1, FreshNext, Zenon DEF Rebuild, Fresh
<1> QED BY <1>1, <1>2, Zenon

(* A probe begins at the first row of its key. *)
LEMMA ProbeStep == ASSUME IndInv, NEW k \in Keys, Probe(k) PROVE IndInv'
<1>1. /\ ~Inserting /\ pc' = "walk" /\ UNCHANGED <<bound, store, table>>
      /\ wanted' = k /\ ri' = Lookup(k) /\ matches' = <<>>
      /\ UNCHANGED <<n, rowKey>>
  BY Zenon DEF Probe, MatchBufReset, Inserting, store
<1>2. IsFirst(ri', RowsOf(k))
  BY <1>1, LookupIsFirst, Zenon
<1>3. RowsOf(k) \subseteq Rows /\ Rows \subseteq Nat /\ noRow \notin Rows
  BY DEF RowsOf, Rows, noRow
<1>4. ri' \in {noRow} \cup RowsOf(k) /\ {r \in RowsOf(k) : ri' = noRow \/ r < ri'} = {}
  <2> DEFINE S == RowsOf(k)
             x == ri'
  <2>1. CASE S = {}
    BY <1>2, <2>1, Zenon DEF IsFirst
  <2>2. CASE S # {}
    <3>1. x \in S /\ \A q \in S : x <= q
      BY <1>2, <2>2, Zenon DEF IsFirst
    <3>2. S \subseteq Nat /\ x # noRow
      BY <1>3, <3>1, Zenon
    <3> HIDE DEF S, x
    <3>3. \A r \in S : ~(r < x)
      BY <3>1, <3>2
    <3> QED BY <3>1, <3>2, <3>3, Zenon DEF S, x
  <2> QED BY <2>1, <2>2, Zenon
<1>5. RowsOf(wanted)' = RowsOf(k)
  BY <1>1, Zenon DEF RowsOf, Rows
<1>6. Walking'
  BY <1>1, <1>4, <1>5 DEF Walking, Matched
<1> QED BY <1>1, <1>3, <1>4, <1>6, ProbeFrame

(* A probe goes along the chain of its key. *)
LEMMA WalkStep == ASSUME IndInv, Walk PROVE IndInv'
<1>1. ~Inserting /\ pc = "walk" /\ UNCHANGED <<bound, store, table, wanted, n, rowKey>>
  BY Zenon DEF Walk, Inserting, store
<1>2. RowsOf(wanted)' = RowsOf(wanted) /\ RowsOf(wanted) \subseteq Rows
      /\ Rows \subseteq Nat /\ noRow \notin Rows
  BY <1>1 DEF RowsOf, Rows, noRow
<1>3. Matched /\ ri \in {noRow} \cup RowsOf(wanted) /\ wanted \in Keys /\ matches \in Seq(Rows)
  BY <1>1, Zenon DEF IndInv, Walking, TypeOK
<1>4. CASE ri = noRow
  <2>1. pc' = "probe" /\ ri' = ri /\ matches' = matches
    BY <1>4, Zenon DEF Walk
  <2>2. Walking'
    BY <1>2, <1>3, <1>4, <2>1, Zenon DEF Walking, Matched
  <2> QED BY <1>1, <1>3, <1>4, <2>1, <2>2, ProbeFrame, Zenon
<1>5. CASE ri # noRow
  <2>1. pc' = "walk" /\ ri' = next[ri] /\ matches' = Append(matches, ri)
    BY <1>1, <1>5, Zenon DEF Walk
  <2>2. ri \in RowsOf(wanted) /\ ri \in Rows /\ rowKey[ri] = wanted
    BY <1>2, <1>3, <1>5, Zenon DEF RowsOf
  <2>3. IsFirst(ri', {q \in RowsOf(wanted) : q > ri})
    BY <1>1, <2>1, <2>2, Zenon DEF IndInv, Chains, Linked, LinkedOf, Rows, RowsOf
  <2>4. ri' \in {noRow} \cup RowsOf(wanted)
    BY <2>3, Zenon DEF IsFirst
  <2>5. {r \in RowsOf(wanted) : ri' = noRow \/ r < ri'} = {r \in RowsOf(wanted) : r < ri} \cup {ri}
    <3>1. CASE {q \in RowsOf(wanted) : q > ri} = {}
      <4>1. ri' = noRow /\ \A q \in RowsOf(wanted) : q < ri \/ q = ri
        BY <1>2, <2>2, <2>3, <3>1 DEF IsFirst
      <4> QED BY <2>2, <4>1, Zenon
    <3>2. CASE {q \in RowsOf(wanted) : q > ri} # {}
      <4>1. /\ ri' \in RowsOf(wanted) /\ ri' > ri
            /\ \A q \in RowsOf(wanted) : q > ri => ri' <= q
        BY <2>3, <3>2, Zenon DEF IsFirst
      <4>2. ri' # noRow /\ \A q \in RowsOf(wanted) : q < ri' <=> q < ri \/ q = ri
        BY <1>2, <2>2, <4>1
      <4> QED BY <2>2, <4>2, Zenon
    <3> QED BY <3>1, <3>2, Zenon
  <2>6. /\ Len(matches) \in Nat /\ DOMAIN matches = 1 .. Len(matches)
        /\ matches' \in Seq(Rows) /\ Len(matches') = Len(matches) + 1
        /\ \A i \in 1 .. Len(matches) : matches'[i] = matches[i]
        /\ matches'[Len(matches) + 1] = ri
    BY <1>3, <2>1, <2>2, LenProperties, AppendProperties
  <2>7. DOMAIN matches' = 1 .. Len(matches) + 1
    BY <2>6, LenProperties, Zenon
  <2>8. {matches[i] : i \in DOMAIN matches} = {r \in RowsOf(wanted) : r < ri}
    BY <1>3, <1>5, Zenon DEF Matched
  <2>9. {matches'[i] : i \in DOMAIN matches'} = {matches[i] : i \in DOMAIN matches} \cup {ri}
    BY <2>6, <2>7
  <2>10. \A i, j \in DOMAIN matches' : i < j => matches'[i] < matches'[j]
    <3>1. \A i \in DOMAIN matches : matches[i] < ri
      BY <2>8, Zenon
    <3>2. \A i, j \in DOMAIN matches : i < j => matches[i] < matches[j]
      BY <1>3, Zenon DEF Matched
    <3> QED BY <2>6, <2>7, <3>1, <3>2
  <2>11. Walking'
    <3>1. {matches'[i] : i \in DOMAIN matches'} = {r \in RowsOf(wanted)' : ri' = noRow \/ r < ri'}
      BY <1>2, <2>5, <2>8, <2>9, Zenon
    <3>2. Matched'
      BY <2>10, <3>1, Zenon DEF Matched
    <3> QED BY <1>2, <2>1, <2>4, <3>2, Zenon DEF Walking
  <2> QED BY <1>1, <1>2, <1>3, <2>1, <2>4, <2>6, <2>11, ProbeFrame, Zenon
<1> QED BY <1>4, <1>5, Zenon

(* A stuttering step changes nothing the invariant speaks of. *)
LEMMA Unchanged == ASSUME IndInv, UNCHANGED vars PROVE IndInv'
<1>1. /\ UNCHANGED <<pc, bound, n, capRows, grows, rowKey, next, slots, keys, old, pos>>
      /\ UNCHANGED <<wanted, ri, matches>>
  BY Zenon DEF vars, store, table, probe
<1>2. /\ Rows' = Rows /\ Slot' = Slot /\ Table' = Table /\ Linked' = Linked
      /\ Inserting' = Inserting /\ Moved' = Moved /\ RowsOf(wanted)' = RowsOf(wanted)
  BY <1>1, Zenon DEF Rows, Slot, Table, Linked, Inserting, Moved, Occupied, RowsOf
<1>3. TypeOK'
  BY <1>1, <1>2, Zenon DEF IndInv, TypeOK
<1>4. Probing'
  BY <1>1, <1>2, Zenon DEF IndInv, Probing
<1>5. Room'
  BY <1>1, <1>2, Zenon DEF IndInv, Room
<1>6. Chains'
  <2>1. Chains
    BY Zenon DEF IndInv
  <2> QED BY ONLY <1>1, <1>2, <2>1, SameChains, Zenon
<1>7. Allocation'
  BY <1>1, <1>2, Zenon DEF IndInv, Allocation
<1>8. Walking'
  BY <1>1, <1>2, Zenon DEF IndInv, Walking, Matched
<1> QED BY <1>3, <1>4, <1>5, <1>6, <1>7, <1>8, Zenon DEF IndInv

-----------------------------------------------------------------------------
(* Every step keeps the invariant. *)
LEMMA StepInv == IndInv /\ [Next]_vars => IndInv'
<1> SUFFICES ASSUME IndInv, [Next]_vars PROVE IndInv'
  BY Zenon
<1>1. CASE AppendRow
  BY <1>1, AppendRowStep, Zenon
<1>2. CASE MoveSlot
  BY <1>2, MoveSlotStep, Zenon
<1>3. CASE GrowDone
  BY <1>3, GrowDoneStep, Zenon
<1>4. CASE Insert
  BY <1>4, InsertStep, Zenon
<1>5. CASE RefuseRow \/ Rebuild
  BY <1>5, FailSteps, Zenon
<1>6. CASE \E k \in Keys : Probe(k)
  BY <1>6, ProbeStep, Zenon
<1>7. CASE Walk
  BY <1>7, WalkStep, Zenon
<1>8. CASE UNCHANGED vars
  BY <1>8, Unchanged, Zenon
<1> QED BY <1>1, <1>2, <1>3, <1>4, <1>5, <1>6, <1>7, <1>8, Zenon DEF Next

(* The table is typed, open addressing works, there is room for a key     *)
(* more, the chains are complete and in order, and a probe has what it    *)
(* passed: in every state of appendFrom, insert, grow and Next.           *)
THEOREM Invariance == Spec => []IndInv
<1> QED BY InitInv, StepInv, PTL DEF Spec

(* The types, and with them that the slot count stays a doubling of       *)
(* joinTableMinSlots, for which slotFor's shift is right.                 *)
THEOREM TypeCorrect == Spec => []TypeOK
<1>1. IndInv => TypeOK
  BY Zenon DEF IndInv
<1> QED BY <1>1, Invariance, PTL

(* lookupHashed and insert always meet an empty slot: the probing loops   *)
(* terminate.                                                             *)
THEOREM NeverFull == Spec => []EmptySlotExists
<1>1. IndInv => EmptySlotExists
  BY RoomLeft, Zenon
<1> QED BY <1>1, Invariance, PTL

(* insert and lookup: whatever collides, and however often the table      *)
(* grew, a key is found exactly if a row carries it, at its first row, and *)
(* the chain visits its rows in order.                                    *)
THEOREM LookupCorrect == Spec => []LookupFindsChain
<1>1. IndInv => LookupFindsChain
  <2> SUFFICES ASSUME IndInv, pc \in {"build", "probe", "walk"}
               PROVE  /\ \A k \in Keys : Lookup(k) = FirstOf(RowsOf(k))
                      /\ \A r \in Rows : next[r] = FirstOf({q \in RowsOf(rowKey[r]) : q > r})
    BY Zenon DEF LookupFindsChain
  <2>1. ~Inserting /\ Linked = Rows
    BY Zenon DEF Inserting, Linked, Rows
  <2>2. \A k : LinkedOf(k) = RowsOf(k) /\ RowsOf(k) \subseteq Nat
    BY <2>1 DEF LinkedOf, RowsOf, Rows
  <2>3. ASSUME NEW k \in Keys PROVE Lookup(k) = FirstOf(RowsOf(k))
    <3>1. IsFirst(Lookup(k), RowsOf(k))
      BY <2>1, LookupIsFirst, Zenon
    <3> QED BY <2>2, <3>1, FirstIsFirstOf, Zenon
  <2>4. ASSUME NEW r \in Rows PROVE next[r] = FirstOf({q \in RowsOf(rowKey[r]) : q > r})
    <3> DEFINE S == {q \in RowsOf(rowKey[r]) : q > r}
    <3>1. IsFirst(next[r], S)
      <4>1. \A i \in Linked : IsFirst(next[i], {q \in LinkedOf(rowKey[i]) : q > i})
        BY Zenon DEF IndInv, Chains
      <4> QED BY ONLY <2>1, <2>2, <4>1, r \in Rows, Zenon
    <3>2. S \subseteq Nat
      BY <2>2, Zenon
    <3> HIDE DEF S
    <3>3. next[r] = FirstOf(S)
      BY <3>1, <3>2, FirstIsFirstOf, Zenon
    <3> QED BY <3>3, Zenon DEF S
  <2> QED BY <2>3, <2>4, Zenon
<1> QED BY <1>1, Invariance, PTL

(* newRowStore and newJoinHashTable: a build presized by a tight bound    *)
(* never reallocates and never rehashes.                                  *)
THEOREM PresizedCorrect == Spec => []PresizedNeverGrows
<1>1. IndInv => PresizedNeverGrows
  BY Zenon DEF IndInv, Allocation, PresizedNeverGrows
<1> QED BY <1>1, Invariance, PTL

(* HashJoin.Next: the rows of a probe are the build rows of its key, each *)
(* once, in build order.                                                  *)
THEOREM ProbeCorrect == Spec => []MatchesInBuildOrder
<1>1. IndInv => MatchesInBuildOrder
  <2> SUFFICES ASSUME IndInv, pc = "probe" PROVE MatchesInBuildOrder
    BY Zenon DEF MatchesInBuildOrder
  <2>1. Matched /\ ri = noRow
    BY Zenon DEF IndInv, Walking
  <2>2. {r \in RowsOf(wanted) : ri = noRow \/ r < ri} = RowsOf(wanted)
    BY <2>1, Zenon
  <2> QED BY <2>1, <2>2, Zenon DEF Matched, MatchesInBuildOrder
<1> QED BY <1>1, Invariance, PTL
=============================================================================
