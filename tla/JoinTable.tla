------------------------------ MODULE JoinTable ------------------------------
(***************************************************************************)
(* The build side of a hash join: the row store and the open-addressed     *)
(* table of exec/join_table.go, filled by HashJoin.buildHashTable (and, a  *)
(* partition at a time, by the shared-table builders) and walked by        *)
(* HashJoin.Next.                                                          *)
(*                                                                         *)
(* A build row is its join key; the payload columns travel with it.  The   *)
(* probing loops `for { ...; i = (i+1) & mask }` are not unrolled: a step  *)
(* names the slot at which the loop stops.  Where there is no such slot    *)
(* the program loops for ever, and here no step is possible.               *)
(***************************************************************************)
EXTENDS Integers, FiniteSets, Sequences

CONSTANTS
  Keys,              \* the join keys
  Hash,              \* radixHash: key -> 0 .. HashSpace - 1
  HashSpace,         \* 2^64 in the program
  joinTableMinSlots,
  joinTableLoadNum,
  joinTableLoadDen,
  rowStoreMinRows,
  maxBuildRows,
  RowBounds          \* tight row counts a build side reports; 0 stands for "none"

noRow == -1

\* The slot counts a table can have: joinTableMinSlots doubled some times.  With a
\* power of two for HashSpace these are its divisors.
Capacities == {c \in joinTableMinSlots .. HashSpace :
                 c % joinTableMinSlots = 0 /\ HashSpace % c = 0}

\* setCapacity: the key count at which a table of c slots doubles.
GrowLimit(c) == (c * joinTableLoadNum) \div joinTableLoadDen

\* joinTableCapacity: the smallest slot count whose load-factor limit is >= expected.
Needed(expected) == (expected * joinTableLoadDen + joinTableLoadNum - 1) \div joinTableLoadNum

ASSUME JoinTableAssumption ==
  /\ IsFiniteSet(Keys) /\ Keys # {}
  /\ HashSpace \in Nat \ {0}
  /\ Hash \in [Keys -> 0 .. HashSpace - 1]
  /\ joinTableMinSlots \in Nat \ {0}
  /\ joinTableLoadNum \in Nat \ {0}
  /\ joinTableLoadDen \in Nat
  /\ joinTableLoadNum < joinTableLoadDen
  /\ rowStoreMinRows \in Nat \ {0}
  /\ maxBuildRows \in Nat \ {0}
  /\ RowBounds \subseteq Nat

\* The hash is wide enough for every table maxBuildRows rows can ask for (2^64
\* against 2^31 in the program).
ASSUME HashIsWide ==
  /\ \E c \in Capacities : c >= Needed(maxBuildRows)
  /\ \A c \in Capacities : GrowLimit(c) < maxBuildRows => 2 * c \in Capacities

VARIABLES
  pc,       \* "build", "grow", "insert", "failed"; then "probe" and "walk"
  bound,    \* what the build side's RowCountBound said
  n,        \* rows in the store
  capRows,  \* rows its arrays are allocated for
  grows,    \* reallocate calls
  rowKey,   \* the join key of each row
  next,     \* store.next: the chain of rows that share a key
  slots,    \* the slot array: key, first and last row of its chain
  keys,     \* distinct keys
  old, pos, \* while growing: the previous slot array, and the next slot to move
  wanted,   \* the key being probed
  ri,       \* the row the probe is at
  matches   \* the rows it matched

store == <<n, capRows, grows, rowKey, next>>
table == <<slots, keys, old, pos>>
probe == <<wanted, ri, matches>>
vars  == <<pc, bound, store, table, probe>>

-----------------------------------------------------------------------------
\* presizeRows: no information, or a bound reserve is going to refuse.
PresizeRows(rows) == IF rows <= 0 \/ rows > maxBuildRows THEN 0 ELSE rows

\* nextRowCap: double, at least what is needed and the floor, at most the limit.
NextRowCap(cur, need) ==
  LET doubled == IF cur * 2 < need THEN need ELSE cur * 2
      floored == IF doubled < rowStoreMinRows THEN rowStoreMinRows ELSE doubled
  IN  IF floored > maxBuildRows THEN maxBuildRows ELSE floored

\* Mutant: sized for the keys, not for the keys under the load factor.
TableCapacityTight(expected) ==
  CHOOSE c \in Capacities : c >= expected /\ \A d \in Capacities : d >= expected => c <= d

\* joinTableCapacity: the first doubling that holds `expected` keys.
TableCapacity(expected) ==
  CHOOSE c \in Capacities :
    c >= Needed(expected) /\ \A d \in Capacities : d >= Needed(expected) => c <= d

Cap(sl) == Cardinality(DOMAIN sl)

EmptySlot == [key |-> CHOOSE k \in Keys : TRUE, head |-> noRow, tail |-> noRow]

EmptySlots(capacity) == [i \in 0 .. capacity - 1 |-> EmptySlot]

\* slotFor: the top bits of the hash.
SlotFor(sl, k) == Hash[k] \div (HashSpace \div Cap(sl))

\* The slots a probe that starts at i passes before it stops at j.
Passed(sl, i, j) == IF i <= j THEN i .. j - 1 ELSE (i .. Cap(sl) - 1) \cup (0 .. j - 1)

\* The slot where a probe for k stops: k's own, or the first empty one.
StopsAt(sl, k, s) ==
  /\ sl[s].head = noRow \/ sl[s].key = k
  /\ \A p \in Passed(sl, SlotFor(sl, k), s) : sl[p].head # noRow /\ sl[p].key # k

\* The slot where grow puts k: the first empty one, keys not compared.
FreeFor(sl, k, s) ==
  /\ sl[s].head = noRow
  /\ \A p \in Passed(sl, SlotFor(sl, k), s) : sl[p].head # noRow

\* lookupHashed.
Lookup(k) == LET s == CHOOSE s \in DOMAIN slots : StopsAt(slots, k, s)
             IN  slots[s].head

-----------------------------------------------------------------------------
Init ==
  /\ pc = "build"
  /\ bound \in RowBounds
  /\ n = 0  /\ capRows = PresizeRows(bound)  /\ grows = 0
  /\ rowKey = <<>>  /\ next = <<>>
  /\ slots = EmptySlots(TableCapacity(PresizeRows(bound)))  /\ keys = 0
  /\ old = <<>>  /\ pos = 0
  /\ wanted = EmptySlot.key  /\ ri = noRow  /\ matches = <<>>

\* A function on the rows 0 .. n - 1, with one more row.
WithRow(f, v) == [r \in 0 .. n |-> IF r = n THEN v ELSE f[r]]

\* Mutant: the table fills up to its last slot.
MustGrowFull == keys >= Cap(slots)

\* insert grows a full table before it looks for the key, new or not.
MustGrow == keys >= GrowLimit(Cap(slots))

\* Mutant: growth by a fixed number of slots.
GrownByMin == Cap(slots) + joinTableMinSlots

\* grow doubles the slot array.
Grown == 2 * Cap(slots)

\* appendFrom and the head of insert: reserve a row, write it, end its chain, and
\* grow the slot array if it is full.  A tight bound is an upper bound on the rows.
AppendRow ==
  /\ pc = "build"
  /\ n < maxBuildRows
  /\ bound = 0 \/ n < bound
  /\ \E k \in Keys : rowKey' = WithRow(rowKey, k)
  /\ next' = WithRow(next, noRow)
  /\ n' = n + 1
  /\ IF n + 1 > capRows
     THEN capRows' = NextRowCap(capRows, n + 1) /\ grows' = grows + 1
     ELSE UNCHANGED <<capRows, grows>>
  /\ IF MustGrow
     THEN /\ pc' = "grow"
          /\ old' = slots
          /\ pos' = 0
          /\ slots' = EmptySlots(Grown)
     ELSE pc' = "insert" /\ UNCHANGED <<old, pos, slots>>
  /\ UNCHANGED <<bound, keys, probe>>

\* One iteration of grow's loop over the old slots.
MoveSlot ==
  /\ pc = "grow"
  /\ pos < Cap(old)
  /\ IF old[pos].head = noRow
     THEN UNCHANGED slots
     ELSE \E s \in DOMAIN slots : FreeFor(slots, old[pos].key, s) /\ slots' = [slots EXCEPT ![s] = old[pos]]
  /\ pos' = pos + 1
  /\ UNCHANGED <<pc, bound, store, keys, old, probe>>

GrowDone ==
  /\ pc = "grow"
  /\ pos = Cap(old)
  /\ pc' = "insert"
  /\ old' = <<>>  /\ pos' = 0
  /\ UNCHANGED <<bound, store, slots, keys, probe>>

\* Mutant: a duplicate is put in front of its chain.
LinkFirst(s, row) ==
  /\ slots' = [slots EXCEPT ![s].head = row]
  /\ next' = [next EXCEPT ![row] = slots[s].head]

\* The key is there: the row goes to the end of its chain.
LinkLast(s, row) ==
  /\ slots' = [slots EXCEPT ![s].tail = row]
  /\ next' = [next EXCEPT ![slots[s].tail] = row]

\* The rest of insert: the probing loop, and the slot it stops at.
Insert ==
  /\ pc = "insert"
  /\ \E s \in DOMAIN slots :
       /\ StopsAt(slots, rowKey[n - 1], s)
       /\ IF slots[s].head = noRow
          THEN /\ slots' = [slots EXCEPT ![s] = [key |-> rowKey[n - 1], head |-> n - 1, tail |-> n - 1]]
               /\ keys' = keys + 1
               /\ UNCHANGED next
          ELSE LinkLast(s, n - 1) /\ UNCHANGED keys
  /\ pc' = "build"
  /\ UNCHANGED <<bound, n, capRows, grows, rowKey, old, pos, probe>>

\* reserve: the int32 row index is exhausted, and the build fails.
RefuseRow ==
  /\ pc = "build"
  /\ n >= maxBuildRows
  /\ bound = 0 \/ n < bound
  /\ pc' = "failed"
  /\ UNCHANGED <<bound, store, table, probe>>

\* Next on a join whose build failed starts a new build.
Rebuild ==
  /\ pc = "failed"
  /\ pc' = "build"
  /\ n' = 0  /\ capRows' = PresizeRows(bound)  /\ grows' = 0
  /\ rowKey' = <<>>  /\ next' = <<>>
  /\ slots' = EmptySlots(TableCapacity(PresizeRows(bound)))  /\ keys' = 0
  /\ UNCHANGED <<bound, old, pos, probe>>

\* Mutant: the match buffer keeps what an earlier probe put there.
MatchBufKept == matches

\* j.matchBuf = j.matchBuf[:0]
MatchBufReset == <<>>

\* The build side is drained; or the rows of the last probe are complete.  A
\* probe row with key k looks it up, ...
Probe(k) ==
  /\ pc \in {"build", "probe"}
  /\ wanted' = k
  /\ ri' = Lookup(k)
  /\ matches' = MatchBufReset
  /\ pc' = "walk"
  /\ UNCHANGED <<bound, store, table>>

\* ... and collects the chain.
Walk ==
  /\ pc = "walk"
  /\ IF ri = noRow
     THEN pc' = "probe" /\ UNCHANGED <<ri, matches>>
     ELSE /\ matches' = Append(matches, ri)
          /\ ri' = next[ri]
          /\ pc' = pc
  /\ UNCHANGED <<bound, store, table, wanted>>

Next ==
  \/ AppendRow \/ MoveSlot \/ GrowDone \/ Insert \/ RefuseRow \/ Rebuild
  \/ (\E k \in Keys : Probe(k)) \/ Walk

Spec == Init /\ [][Next]_vars

-----------------------------------------------------------------------------
Rows == 0 .. n - 1

RowsOf(k) == {r \in Rows : rowKey[r] = k}

Slot == [key : Keys, head : {noRow} \cup Rows, tail : {noRow} \cup Rows]

TypeOK ==
  /\ pc \in {"build", "grow", "insert", "failed", "probe", "walk"}
  /\ bound \in RowBounds
  /\ n \in 0 .. maxBuildRows
  /\ capRows \in Nat
  /\ grows \in Nat
  /\ rowKey \in [Rows -> Keys]
  /\ next \in [Rows -> {noRow} \cup Rows]
  /\ \E c \in Capacities : slots \in [0 .. c - 1 -> Slot]
  /\ keys \in Nat
  /\ pc = "grow" => \E c \in Capacities : old \in [0 .. c - 1 -> Slot] /\ 2 * c = Cap(slots)
  /\ pos \in Nat
  /\ wanted \in Keys
  /\ ri \in {noRow} \cup Rows
  /\ matches \in Seq(Rows)

(***************************************************************************)
(* lookupHashed: "The scan terminates on the first empty slot, which       *)
(* always exists: the load factor keeps growAt strictly below capacity, so *)
(* a full table is impossible" - while growing, too.                       *)
(***************************************************************************)
EmptySlotExists ==
  \E s \in DOMAIN slots : slots[s].head = noRow

(***************************************************************************)
(* insert and lookup: between two inserts, looking a key up lands on the   *)
(* first row that carries it, the chain from there visits exactly the rows *)
(* that carry it in insertion order, and an absent key is not found -      *)
(* however keys collided, wrapped around the end of the slot array, or     *)
(* were moved by a grow.                                                   *)
(***************************************************************************)
FirstOf(S) == IF S = {} THEN noRow ELSE CHOOSE r \in S : \A q \in S : r <= q

LookupFindsChain ==
  pc \in {"build", "probe", "walk"} =>
    /\ \A k \in Keys : Lookup(k) = FirstOf(RowsOf(k))
    /\ \A r \in Rows : next[r] = FirstOf({q \in RowsOf(rowKey[r]) : q > r})

(***************************************************************************)
(* newRowStore, newJoinHashTable: a build side that reported its row count *)
(* pays for no growth, neither of the store nor of the slot array; and a   *)
(* row that reserve hands out is always backed by an allocated one.        *)
(***************************************************************************)
PresizedNeverGrows ==
  /\ PresizeRows(bound) > 0 => grows = 0 /\ pc # "grow"
  /\ n <= capRows

(***************************************************************************)
(* HashJoin.Next: a probe row is joined with every build row of its key,   *)
(* once, in build order.                                                   *)
(***************************************************************************)
MatchesInBuildOrder ==
  pc = "probe" =>
    /\ {matches[i] : i \in DOMAIN matches} = RowsOf(wanted)
    /\ \A i, j \in DOMAIN matches : i < j => matches[i] < matches[j]
=============================================================================
