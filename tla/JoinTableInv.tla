---------------------------- MODULE JoinTableInv ----------------------------
(***************************************************************************)
(* The inductive invariant of JoinTable: what probing a slot array finds,  *)
(* the room left in it, the chains of rows behind it, the size it was made *)
(* for, and a probe on its way along a chain.                              *)
(***************************************************************************)
EXTENDS JoinTable

(* The row being inserted is in the store, and not yet in the table. *)
Inserting == pc \in {"grow", "insert"}

(* The rows that are in the table, and those among them with key k. *)
Linked == IF Inserting THEN 0 .. n - 2 ELSE 0 .. n - 1
LinkedOf(k) == {r \in Linked : rowKey[r] = k}

(* The slot array that holds all entries: while growing, the old one. *)
Table == IF pc = "grow" THEN old ELSE slots

Occupied(sl) == {s \in DOMAIN sl : sl[s].head # noRow}

(* Open addressing: no probe for a stored key stops before the key's slot, *)
(* and no key is stored twice.                                             *)
Reachable(sl) ==
  \A s \in Occupied(sl) : \A p \in Passed(sl, SlotFor(sl, sl[s].key), s) : sl[p].head # noRow
DistinctKeys(sl) ==
  \A s, t \in Occupied(sl) : sl[s].key = sl[t].key => s = t

(* The old slots that were moved so far. *)
Moved == {i \in Occupied(old) : i < pos}

Probing ==
  /\ Reachable(slots) /\ DistinctKeys(Table)
  /\ pc = "grow" =>
       /\ pos \in 0 .. Cap(old)
       /\ {slots[s] : s \in Occupied(slots)} = {old[i] : i \in Moved}
       /\ DistinctKeys(slots)
       /\ Cardinality(Occupied(slots)) = Cardinality(Moved)

(* There is room for the keys, one more while a row is being inserted. *)
Room ==
  /\ Inserting => n > 0
  /\ Cardinality(Occupied(Table)) = keys
  /\ IF Inserting THEN keys + 1 < Cap(slots) /\ keys < n ELSE keys < Cap(slots) /\ keys <= n

IsFirst(x, S) == IF S = {} THEN x = noRow ELSE x \in S /\ \A q \in S : x <= q

(* The chain of a key: it begins and ends where the key's slot says, and   *)
(* goes through the key's rows in order.                                   *)
Chains ==
  /\ \A s \in Occupied(Table) :
       /\ Table[s].head \in LinkedOf(Table[s].key) /\ Table[s].tail \in LinkedOf(Table[s].key)
       /\ \A r \in LinkedOf(Table[s].key) : Table[s].head <= r /\ r <= Table[s].tail
  /\ \A r \in Linked : \E s \in Occupied(Table) : Table[s].key = rowKey[r]
  /\ \A r \in Linked : IsFirst(next[r], {q \in LinkedOf(rowKey[r]) : q > r})
  /\ Inserting => next[n - 1] = noRow

Allocation ==
  /\ n <= capRows
  /\ PresizeRows(bound) > 0 =>
       /\ grows = 0 /\ pc # "grow"
       /\ capRows = bound /\ n <= bound /\ GrowLimit(Cap(slots)) >= bound

(* What a probe has matched before it is at row ri. *)
Matched ==
  /\ {matches[i] : i \in DOMAIN matches} = {r \in RowsOf(wanted) : ri = noRow \/ r < ri}
  /\ \A i, j \in DOMAIN matches : i < j => matches[i] < matches[j]

Walking ==
  /\ pc = "walk" => Matched /\ ri \in {noRow} \cup RowsOf(wanted)
  /\ pc = "probe" => Matched /\ ri = noRow
  /\ pc \notin {"walk", "probe"} => ri = noRow /\ matches = <<>>

IndInv == TypeOK /\ Probing /\ Room /\ Chains /\ Allocation /\ Walking
=============================================================================
