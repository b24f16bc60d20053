---------------------------- MODULE WorkerProofs ----------------------------
(***************************************************************************)
(* Theorems about one worker of a parallel aggregate.  MorselRunner: it    *)
(* closes the pipelines it builds, for every set of chains the factory may *)
(* build and any number of morsels.  AggregateFold: the slots it folds its *)
(* rows into may be merged, for every width of an integer, every           *)
(* accumulator and every value.  COUNT(DISTINCT) is never merged, and is   *)
(* left out.                                                               *)
(***************************************************************************)
EXTENDS MorselRunner, AggregateFold, WellFoundedInduction, TLAPS

(* The pipeline that is open, 0 when none is: the retained one for as long *)
(* as the worker runs, otherwise the one being drained.                    *)
OpenPipe == IF held # 0 THEN held ELSE IF pc = "drain" THEN op ELSE 0

(* Every pipeline but the open one was closed, once.  A retained pipeline  *)
(* is the only one ever built; nothing is built before the test of         *)
(* reusability, and nothing is retained by a worker that has returned.     *)
Ownership ==
  /\ \A i \in 1 .. Len(pipes) : pipes[i].closes = IF i = OpenPipe THEN 0 ELSE 1
  /\ held # 0 => held = 1 /\ Len(pipes) = 1 /\ Reusable(pipes[1].chain)
  /\ pipes # <<>> => probed
  /\ pc = "done" => held = 0

(* What is drained is the last pipeline built, over the morsel just        *)
(* claimed.                                                                *)
Draining ==
  /\ pc \in {"open", "drain"} => morsels >= 1
  /\ pc = "drain" => /\ op # 0
                     /\ held # 0 => op = held
                     /\ pipes[op].morsel = morsels

(* One result is sent, on the way out. *)
Sending == sent = IF pc \in {"exit", "done"} THEN 1 ELSE 0

IndInv == TypeOK /\ Ownership /\ Draining /\ Sending

(* The worker starts with nothing built, retained or sent. *)
LEMMA InitInv == Init => IndInv
<1> SUFFICES ASSUME Init PROVE IndInv
  OBVIOUS
<1>1. Len(pipes) = 0 /\ pipes \in Seq(Pipe)
  BY DEF Init
<1>2. TypeOK
  <2>1. pc = "claim" /\ morsels = 0 /\ op = 0 /\ held = 0 /\ probed = FALSE /\ sent = 0
    BY DEF Init
  <2>2. morsels \in 0 .. MaxMorsels /\ op \in 0 .. Len(pipes) /\ held \in 0 .. Len(pipes)
        /\ sent \in Nat
    BY <1>1, <2>1, RunnerAssumption
  <2>3. pc \in {"claim", "open", "drain", "failed", "exit", "done"} /\ probed \in BOOLEAN
    BY <2>1, Zenon
  <2> QED BY <1>1, <2>2, <2>3, Zenon DEF TypeOK
<1>3. Ownership
  BY <1>1 DEF Init, Ownership
<1> QED BY <1>2, <1>3 DEF Init, IndInv, Draining, Sending

(* Replacing one pipeline of a sequence leaves the others. *)
LEMMA ReplacedPipe ==
  ASSUME NEW s \in Seq(Pipe), NEW i \in 1 .. Len(s), NEW x \in Pipe
  PROVE  /\ [s EXCEPT ![i] = x] \in Seq(Pipe)
         /\ Len([s EXCEPT ![i] = x]) = Len(s)
         /\ \A j \in 1 .. Len(s) : [s EXCEPT ![i] = x][j] = IF j = i THEN x ELSE s[j]
  OBVIOUS

(* Closing the pipeline i touches no other, and only its count. *)
LEMMA ClosedPipe ==
  ASSUME TypeOK, NEW i \in 1 .. Len(pipes)
  PROVE  /\ Closed(pipes, i) \in Seq(Pipe)
         /\ Len(Closed(pipes, i)) = Len(pipes)
         /\ Closed(pipes, i) # <<>>
         /\ \A j \in 1 .. Len(pipes) :
              /\ Closed(pipes, i)[j].chain = pipes[j].chain
              /\ Closed(pipes, i)[j].closes = IF j = i THEN pipes[j].closes + 1 ELSE pipes[j].closes
<1> DEFINE new == [pipes[i] EXCEPT !.closes = @ + 1]
<1>1. pipes \in Seq(Pipe) /\ pipes[i] \in Pipe
  BY DEF TypeOK
<1>2. new \in Pipe /\ new.chain = pipes[i].chain /\ new.closes = pipes[i].closes + 1
  BY <1>1 DEF Pipe
<1>3. Closed(pipes, i) = [pipes EXCEPT ![i] = new]
  BY DEF Closed
<1>4. /\ Closed(pipes, i) \in Seq(Pipe) /\ Len(Closed(pipes, i)) = Len(pipes)
      /\ \A j \in 1 .. Len(pipes) : Closed(pipes, i)[j] = IF j = i THEN new ELSE pipes[j]
  <2> HIDE DEF new
  <2> QED BY <1>1, <1>2, <1>3, ReplacedPipe
<1>5. Closed(pipes, i) # <<>>
  BY <1>1, <1>4
<1> HIDE DEF new
<1> QED BY <1>2, <1>4, <1>5

(* Every step of the worker keeps the invariant. *)
LEMMA StepInv == IndInv /\ [Next]_vars => IndInv'
<1> SUFFICES ASSUME IndInv, [Next]_vars PROVE IndInv'
  OBVIOUS
<1>0. TypeOK /\ Ownership /\ Draining /\ Sending
  BY DEF IndInv
<1>1. CASE Claim
  BY <1>0, <1>1, RunnerAssumption
     DEF Claim, IndInv, TypeOK, Ownership, Draining, Sending, OpenPipe
<1>2. CASE Exhausted
  BY <1>0, <1>2 DEF Exhausted, IndInv, TypeOK, Ownership, Draining, Sending, OpenPipe
<1>3. CASE OpenReset
  <2>1. /\ held = 1 /\ Len(pipes) = 1 /\ morsels \in 1 .. MaxMorsels
        /\ pipes' = [pipes EXCEPT ![1].morsel = morsels] /\ op' = 1 /\ held' = 1
        /\ pc' = "drain" /\ UNCHANGED <<morsels, probed, sent>>
    BY <1>0, <1>3 DEF OpenReset, Ownership, Draining, TypeOK
  <2>2. /\ pipes' \in Seq(Pipe)
        /\ Len(pipes') = 1 /\ pipes'[1].chain = pipes[1].chain
        /\ pipes'[1].closes = pipes[1].closes /\ pipes'[1].morsel = morsels
    <3> DEFINE new == [pipes[1] EXCEPT !.morsel = morsels]
    <3>1. pipes \in Seq(Pipe) /\ pipes[1] \in Pipe
      BY <1>0, <2>1 DEF TypeOK
    <3>2. new \in Pipe /\ new.chain = pipes[1].chain /\ new.closes = pipes[1].closes
          /\ new.morsel = morsels
      BY <2>1, <3>1 DEF Pipe
    <3>3. pipes' = [pipes EXCEPT ![1] = new]
      BY <2>1
    <3> HIDE DEF new
    <3>4. pipes' \in Seq(Pipe) /\ Len(pipes') = 1 /\ pipes'[1] = new
      <4>1. Len(pipes) = 1 /\ 1 \in 1 .. Len(pipes)
        BY <2>1
      <4>2. new \in Pipe /\ pipes \in Seq(Pipe)
        BY <3>1, <3>2
      <4>3. /\ [pipes EXCEPT ![1] = new] \in Seq(Pipe)
            /\ Len([pipes EXCEPT ![1] = new]) = Len(pipes)
            /\ [pipes EXCEPT ![1] = new][1] = new
        BY <4>1, <4>2, ReplacedPipe
      <4> QED BY <3>3, <4>1, <4>3
    <3> QED BY <3>2, <3>4
  <2>3. TypeOK'
    BY <1>0, <2>1, <2>2 DEF TypeOK
  <2>4. Ownership'
    <3>1. OpenPipe = 1 /\ OpenPipe' = 1 /\ pipes # <<>>
      BY <2>1 DEF OpenPipe
    <3>2. pipes'[1].closes = 0 /\ Reusable(pipes'[1].chain) /\ probed'
      BY <1>0, <2>1, <2>2, <3>1 DEF Ownership
    <3>3. \A i \in 1 .. Len(pipes') : pipes'[i].closes = IF i = OpenPipe' THEN 0 ELSE 1
      BY <2>2, <3>1, <3>2
    <3>4. held' = 1 /\ pc' = "drain"
      BY <2>1
    <3> QED BY <2>2, <3>2, <3>3, <3>4 DEF Ownership
  <2>5. Draining' /\ Sending'
    BY <1>0, <1>3, <2>1, <2>2 DEF Draining, Sending, OpenReset
  <2> QED BY <2>3, <2>4, <2>5 DEF IndInv
<1>4. CASE OpenFactory
  <2>1. PICK chain \in Shapes :
          /\ pipes' = Append(pipes, [chain |-> chain, closes |-> 0, morsel |-> morsels])
          /\ held' = IF Retains(chain) THEN Len(pipes) + 1 ELSE held
    BY <1>4 DEF OpenFactory
  <2>2. /\ pc = "open" /\ held = 0 /\ op' = Len(pipes) + 1 /\ probed' = TRUE /\ pc' = "drain"
        /\ UNCHANGED <<morsels, sent>> /\ morsels \in 1 .. MaxMorsels
    BY <1>0, <1>4 DEF OpenFactory, Draining, TypeOK
  <2>3. /\ pipes' \in Seq(Pipe)
        /\ Len(pipes') = Len(pipes) + 1 /\ pipes' # <<>>
        /\ \A i \in 1 .. Len(pipes) : pipes'[i] = pipes[i]
        /\ pipes'[Len(pipes) + 1] = [chain |-> chain, closes |-> 0, morsel |-> morsels]
    <3>1. [chain |-> chain, closes |-> 0, morsel |-> morsels] \in Pipe
      BY <2>2 DEF Pipe
    <3> QED BY <1>0, <2>1, <3>1 DEF TypeOK
  <2>4. Retains(chain) => Len(pipes) = 0 /\ Reusable(chain)
    BY <1>0 DEF Retains, Ownership, TypeOK
  <2>5. TypeOK'
    BY <1>0, <2>1, <2>2, <2>3 DEF TypeOK
  <2>6. Ownership'
    <3>1. OpenPipe' = Len(pipes) + 1
      BY <1>0, <2>1, <2>2 DEF OpenPipe, TypeOK
    <3>2. OpenPipe = 0
      BY <2>2 DEF OpenPipe
    <3>3. \A i \in 1 .. Len(pipes') : pipes'[i].closes = IF i = OpenPipe' THEN 0 ELSE 1
      <4>1. Len(pipes) \in Nat
        BY <1>0 DEF TypeOK
      <4>2. \A i \in 1 .. Len(pipes) : pipes'[i].closes = 1
        BY <1>0, <2>3, <3>2, <4>1 DEF Ownership
      <4>3. pipes'[Len(pipes) + 1].closes = 0
        BY <2>3
      <4> QED BY <2>3, <3>1, <4>1, <4>2, <4>3
    <3>4. held' # 0 => held' = 1 /\ Len(pipes') = 1 /\ Reusable(pipes'[1].chain)
      BY <1>0, <2>1, <2>2, <2>3, <2>4 DEF TypeOK
    <3> QED BY <2>2, <3>3, <3>4 DEF Ownership
  <2>7. Draining' /\ Sending'
    BY <1>0, <2>1, <2>2, <2>3 DEF Draining, Sending, TypeOK
  <2> QED BY <2>5, <2>6, <2>7 DEF IndInv
<1>5. CASE OpenFails
  BY <1>0, <1>5 DEF OpenFails, IndInv, TypeOK, Ownership, Draining, Sending, OpenPipe
<1>6. ASSUME pc = "drain", pipes' = Release, pc' \in {"claim", "failed"},
             UNCHANGED <<morsels, op, held, probed, sent>>
      PROVE  IndInv'
  <2>1. op \in 1 .. Len(pipes)
    BY <1>0, <1>6 DEF Draining, TypeOK
  <2>2. CASE held = 0
    <3>1. pipes' = Closed(pipes, op)
      BY <1>6, <2>2 DEF Release
    <3>2. OpenPipe = op /\ OpenPipe' = 0
      BY <1>6, <2>2 DEF OpenPipe
    <3>3. \A i \in 1 .. Len(pipes') : pipes'[i].closes = IF i = OpenPipe' THEN 0 ELSE 1
      <4>1. Len(pipes') = Len(pipes) /\ Len(pipes) \in Nat
        BY <1>0, <2>1, <3>1, ClosedPipe DEF TypeOK
      <4>2. \A i \in 1 .. Len(pipes) :
              pipes'[i].closes = IF i = op THEN pipes[i].closes + 1 ELSE pipes[i].closes
        BY <1>0, <2>1, <3>1, ClosedPipe
      <4>3. \A i \in 1 .. Len(pipes) : pipes[i].closes = IF i = op THEN 0 ELSE 1
        BY <1>0, <3>2 DEF Ownership
      <4> QED BY <3>2, <4>1, <4>2, <4>3
    <3> QED BY <1>0, <1>6, <2>1, <2>2, <3>1, <3>3, ClosedPipe
            DEF IndInv, TypeOK, Ownership, Draining, Sending
  <2>3. CASE held # 0
    BY <1>0, <1>6, <2>3 DEF Release, IndInv, TypeOK, Ownership, Draining, Sending, OpenPipe
  <2> QED BY <2>2, <2>3
<1>7. CASE EndMorsel
  BY <1>6, <1>7 DEF EndMorsel
<1>8. CASE DrainFails
  BY <1>6, <1>8 DEF DrainFails
<1>9. CASE SendError
  BY <1>0, <1>9 DEF SendError, Return, IndInv, TypeOK, Ownership, Draining, Sending, OpenPipe
<1>10. CASE DeferredClose
  <2>1. /\ pc = "exit" /\ pipes' = CloseHeld /\ held' = 0 /\ pc' = "done" /\ OpenPipe' = 0
        /\ OpenPipe = held /\ UNCHANGED <<morsels, op, probed, sent>>
    BY <1>10 DEF DeferredClose, OpenPipe
  <2>2. CASE held = 0
    BY <1>0, <2>1, <2>2 DEF CloseHeld, IndInv, TypeOK, Ownership, Draining, Sending
  <2>3. CASE held # 0
    <3>1. pipes' = Closed(pipes, held) /\ held \in 1 .. Len(pipes)
      BY <1>0, <2>1, <2>3 DEF CloseHeld, TypeOK
    <3>2. \A i \in 1 .. Len(pipes') : pipes'[i].closes = IF i = OpenPipe' THEN 0 ELSE 1
      <4>1. Len(pipes') = Len(pipes) /\ Len(pipes) \in Nat
        BY <1>0, <3>1, ClosedPipe DEF TypeOK
      <4>2. \A i \in 1 .. Len(pipes) :
              pipes'[i].closes = IF i = held THEN pipes[i].closes + 1 ELSE pipes[i].closes
        BY <1>0, <3>1, ClosedPipe
      <4>3. \A i \in 1 .. Len(pipes) : pipes[i].closes = IF i = held THEN 0 ELSE 1
        BY <1>0, <2>1 DEF Ownership
      <4> QED BY <2>1, <4>1, <4>2, <4>3
    <3> QED BY <1>0, <2>1, <3>1, <3>2, ClosedPipe
            DEF IndInv, TypeOK, Ownership, Draining, Sending
  <2> QED BY <2>2, <2>3
<1>11. CASE UNCHANGED vars
  BY <1>0, <1>11 DEF vars, IndInv, TypeOK, Ownership, Draining, Sending, OpenPipe
<1> QED
  BY <1>1, <1>2, <1>3, <1>4, <1>5, <1>7, <1>8, <1>9, <1>10, <1>11 DEF Next

(* The inductive invariant: at every moment of the worker loop exactly the *)
(* retained or the drained pipeline is open, and all others were closed.   *)
THEOREM Invariance == Spec => []IndInv
  BY InitInv, StepInv, PTL DEF Spec

(* Type correctness of the runner for any chains and number of morsels. *)
THEOREM TypeCorrect == Spec => []TypeOK
  BY Invariance, PTL DEF IndInv

(* Every pipeline the factory built is closed exactly once by the time the *)
(* worker has returned, whichever way it returned, and none is drained     *)
(* after its Close or over another morsel.                                 *)
THEOREM PipelinesClosedOnce == Spec => []ClosedExactlyOnce
<1>1. IndInv => ClosedExactlyOnce
  <2> SUFFICES ASSUME IndInv PROVE ClosedExactlyOnce
    OBVIOUS
  <2>1. \A i \in 1 .. Len(pipes) : pipes[i].closes = IF i = OpenPipe THEN 0 ELSE 1
    BY DEF IndInv, Ownership
  <2>2. pc = "done" => OpenPipe = 0
    BY DEF IndInv, Ownership, OpenPipe
  <2>3. pc = "drain" => OpenPipe = op /\ op \in 1 .. Len(pipes) /\ pipes[op].morsel = morsels
    BY DEF IndInv, Draining, OpenPipe, TypeOK
  <2> QED BY <2>1, <2>2, <2>3 DEF ClosedExactlyOnce
<1> QED BY <1>1, Invariance, PTL

(* A pipeline is kept for all morsels only if every operator of its chain  *)
(* can be repositioned, and at most one pipeline is open at any time.      *)
THEOREM PipelinesReusedOrRebuilt == Spec => []ReusedOrRebuilt
<1>1. IndInv => ReusedOrRebuilt
  BY DEF IndInv, Ownership, ReusedOrRebuilt
<1> QED BY <1>1, Invariance, PTL

(* A worker that has returned has sent one result, and one that has not    *)
(* returned is still owed none: the collector's count of results is the    *)
(* count of workers that are through.                                      *)
THEOREM OneResultPerWorker == Spec => [](sent = IF pc \in {"exit", "done"} THEN 1 ELSE 0)
  BY Invariance, PTL DEF IndInv, Sending

-----------------------------------------------------------------------------
(***************************************************************************)
(* Slots: the aggregates that are merged, the values their columns have,   *)
(* and what a partial keeps of them.                                       *)
(***************************************************************************)
Aggregate == [kind : {"count", "sum", "avg", "min", "max"}, accum : {"int", "float", "string"},
              col : STRING]
Value(ae) == (IF ae.kind # "count" /\ ae.accum = "int" THEN MinInt..MaxInt ELSE Int) \union {Null}
Slot == [acc : Int, nn : Nat, str : Int, vals : {{}}]
OfStrings(ae) == IsMinMax(ae) /\ ae.accum = "string"

(* What every slot has that was folded from a new one. *)
Reached(ae, s) ==
  /\ s \in Slot
  /\ s.nn = 0 \/ ~OfStrings(ae) => s.str = 0
  /\ OfStrings(ae) => s.acc = 0
  /\ ae.kind # "count" /\ ae.accum # "float" => s.acc \in MinInt..MaxInt
  /\ ae.kind = "min" /\ ae.accum = "float" => s.acc <= MaxFloat
  /\ ae.kind = "max" /\ ae.accum = "float" => s.acc >= -MaxFloat

-----------------------------------------------------------------------------
(***************************************************************************)
(* Wrapped sums.                                                           *)
(***************************************************************************)

(* Two numbers less than n apart, and apart by a multiple of n, are equal. *)
LEMMA SameResidue ==
  ASSUME NEW n \in Nat, NEW q \in Int, NEW r \in Int, NEW a \in 0..(n - 1), NEW b \in 0..(n - 1),
         n * q + a = n * r + b
  PROVE  a = b
<1>1. CASE q = r
  BY <1>1
<1>2. CASE q > r
  <2>1. n * (q - r) >= n
    <3>1. q - r >= 1 /\ q - r \in Int
      BY <1>2
    <3>2. \A x \in Int : x >= 1 => n * x >= n
      OBVIOUS
    <3> QED BY <3>1, <3>2
  <2> QED BY <2>1
<1>3. CASE q < r
  <2>1. n * (r - q) >= n
    <3>1. r - q >= 1 /\ r - q \in Int
      BY <1>3
    <3>2. \A x \in Int : x >= 1 => n * x >= n
      OBVIOUS
    <3> QED BY <3>1, <3>2
  <2> QED BY <2>1
<1> QED BY <1>1, <1>2, <1>3

(* What Wrap keeps and what it takes away. *)
LEMMA Wrapped ==
  ASSUME NEW x \in Int
  PROVE  /\ Wrap(x) \in MinInt..MaxInt /\ Wrap(x) \in Int
         /\ \E q \in Int : x = (MaxInt - MinInt + 1) * q + Wrap(x)
<1> DEFINE n == MaxInt - MinInt + 1
           y == x - MinInt
<1>1. MaxInt \in Nat /\ MinInt \in Int /\ n \in Nat /\ n > 0 /\ y \in Int
  BY WidthAssumption DEF MinInt
<1>3. Wrap(x) = MinInt + (y % n)
  BY Zenon DEF Wrap
<1> HIDE DEF n, y
<1>2. /\ y \div n \in Int /\ y % n \in 0..(n - 1)
      /\ y = n * (y \div n) + (y % n)
  <2>1. y \div n \in Int
    BY <1>1
  <2>2. y % n \in 0..(n - 1)
    BY <1>1
  <2>3. y = n * (y \div n) + (y % n)
    BY <1>1
  <2> QED BY <2>1, <2>2, <2>3
<1>4. Wrap(x) \in MinInt..MaxInt /\ Wrap(x) \in Int
  <2> DEFINE m == y % n
  <2>1. m \in 0..(n - 1) /\ Wrap(x) = MinInt + m
    BY <1>2, <1>3
  <2> HIDE DEF m
  <2> QED BY <1>1, <2>1 DEF n
<1>5. x = n * (y \div n) + Wrap(x)
  <2> DEFINE m == y % n
             t == n * (y \div n)
  <2>1. y = t + m /\ Wrap(x) = MinInt + m /\ t \in Int /\ m \in Int
    BY <1>1, <1>2, <1>3
  <2> HIDE DEF m, t
  <2>2. x = t + Wrap(x)
    BY <1>1, <2>1 DEF y
  <2> QED BY <2>2 DEF t
<1> QED BY <1>2, <1>4, <1>5, Zenon DEF n

(* A number in the range that differs from x by a multiple of its size is  *)
(* what x wraps to.                                                        *)
LEMMA WrapIs ==
  ASSUME NEW x \in Int, NEW z \in MinInt..MaxInt, NEW r \in Int,
         x = (MaxInt - MinInt + 1) * r + z
  PROVE  Wrap(x) = z
<1> DEFINE n == MaxInt - MinInt + 1
<1>1. MaxInt \in Nat /\ MinInt \in Int /\ n \in Nat
  BY WidthAssumption DEF MinInt
<1>2. PICK q \in Int : x = n * q + Wrap(x)
  BY Wrapped
<1>3. Wrap(x) \in MinInt..MaxInt
  BY Wrapped
<1> DEFINE a == Wrap(x) - MinInt
           b == z - MinInt
<1>4. a \in 0..(n - 1) /\ b \in 0..(n - 1)
  BY <1>1, <1>3
<1>5. n * q \in Int /\ n * r \in Int
  BY <1>1
<1>6. n * q + a = n * r + b
  <2> HIDE DEF n
  <2>1. n * q + Wrap(x) = n * r + z
    BY <1>2 DEF n
  <2> DEFINE s == n * q
             t == n * r
  <2>2. s + Wrap(x) = t + z /\ s \in Int /\ t \in Int
    BY <1>5, <2>1
  <2> HIDE DEF s, t
  <2>3. s + a = t + b
    BY <1>1, <1>3, <2>2
  <2> QED BY <2>3 DEF s, t
<1> HIDE DEF n, a, b
<1>7. a = b
  BY <1>1, <1>4, <1>6, SameResidue
<1> QED BY <1>1, <1>3, <1>7 DEF a, b

(* It does not matter when a sum is wrapped. *)
LEMMA WrapSum ==
  ASSUME NEW x \in Int, NEW y \in Int
  PROVE  Wrap(Wrap(x) + y) = Wrap(x + y) /\ Wrap(y + Wrap(x)) = Wrap(x + y)
<1> DEFINE n == MaxInt - MinInt + 1
<1>1. MaxInt \in Nat /\ MinInt \in Int /\ n \in Nat
  BY WidthAssumption DEF MinInt
<1>2. Wrap(x) \in Int
  BY Wrapped
<1> DEFINE z == Wrap(x) + y
<1>3. z \in Int
  BY <1>2
<1>4. PICK q \in Int : x = n * q + Wrap(x)
  BY Wrapped
<1>5. Wrap(z) \in MinInt..MaxInt /\ Wrap(z) \in Int
  BY <1>3, Wrapped
<1>6. PICK r \in Int : z = n * r + Wrap(z)
  BY <1>3, Wrapped
<1>7. x + y = n * (q + r) + Wrap(z)
  <2> HIDE DEF n
  <2>1. n * (q + r) = n * q + n * r /\ n * q \in Int /\ n * r \in Int
    BY <1>1
  <2> DEFINE s == n * q
             t == n * r
             u == n * (q + r)
             w == Wrap(z)
             v == Wrap(x)
  <2>2. x = s + v /\ z = t + w /\ u = s + t /\ s \in Int /\ t \in Int /\ w \in Int /\ v \in Int
        /\ z = v + y
    BY <1>2, <1>4, <1>5, <1>6, <2>1 DEF n
  <2> HIDE DEF s, t, u, w, v, z
  <2>3. x + y = u + w
    BY <2>2
  <2> QED BY <2>3 DEF u, w
<1>8. Wrap(x + y) = Wrap(z)
  <2>1. x + y \in Int /\ q + r \in Int
    OBVIOUS
  <2> HIDE DEF z
  <2> QED BY <1>5, <1>7, <2>1, WrapIs
<1>9. y + Wrap(x) = z
  BY <1>2
<1> QED BY <1>8, <1>9

(* A sum that is in range stays as it is. *)
LEMMA WrapInRange == \A x \in MinInt..MaxInt : Wrap(x) = x
<1> SUFFICES ASSUME NEW x \in MinInt..MaxInt PROVE Wrap(x) = x
  OBVIOUS
<1>1. x \in Int /\ x = (MaxInt - MinInt + 1) * 0 + x
  BY WidthAssumption DEF MinInt
<1> QED BY <1>1, WrapIs

-----------------------------------------------------------------------------
(***************************************************************************)
(* The laws of slots.                                                      *)
(***************************************************************************)
(* A slot is its accumulator, its count and its string. *)
LEMMA SlotFields ==
  ASSUME NEW s \in Slot
  PROVE  s.acc \in Int /\ s.nn \in Nat /\ s.str \in Int
BY DEF Slot

(* Slots with the same fields are the same. *)
LEMMA SameSlot ==
  ASSUME NEW r \in Slot, NEW t \in Slot, r.acc = t.acc, r.nn = t.nn, r.str = t.str
  PROVE  r = t
<1>1. \A s \in Slot : s.vals = {}
  BY DEF Slot
<1>2. \A s \in Slot : s = [acc |-> s.acc, nn |-> s.nn, str |-> s.str, vals |-> s.vals]
  BY DEF Slot
<1> QED BY <1>1, <1>2, Zenon

(* Sums and comparisons give integers. *)
LEMMA ValueTypes ==
  /\ \A ae : \A x, y \in Int : Plus(ae, x, y) \in Int
  /\ \A ae : \A x, y \in Int : Better(ae, x, y) \in Int
<1>1. ASSUME NEW ae, NEW x \in Int, NEW y \in Int PROVE Plus(ae, x, y) \in Int
  <2>1. x + y \in Int
    OBVIOUS
  <2>2. Wrap(x + y) \in Int
    BY <2>1, Wrapped
  <2> QED BY <2>1, <2>2, Zenon DEF Plus
<1>2. ASSUME NEW ae, NEW x \in Int, NEW y \in Int PROVE Better(ae, x, y) \in Int
  BY Zenon DEF Better
<1> QED BY <1>1, <1>2

(* The order in which values are added or compared does not matter. *)
LEMMA PlusLaws ==
  ASSUME NEW ae, NEW x \in Int, NEW y \in Int, NEW z \in Int
  PROVE  /\ Plus(ae, x, y) \in Int
         /\ ae.accum # "float" => Plus(ae, x, y) \in MinInt..MaxInt
         /\ Plus(ae, x, y) = Plus(ae, y, x)
         /\ Plus(ae, x, Plus(ae, y, z)) = Plus(ae, Plus(ae, x, y), z)
<1>1. x + y = y + x /\ x + y \in Int /\ y + z \in Int /\ x + (y + z) = (x + y) + z
  OBVIOUS
<1>2. Wrap(x + y) \in Int /\ Wrap(x + y) \in MinInt..MaxInt /\ Wrap(y + z) \in Int
  BY <1>1, Wrapped
<1>3. Wrap(x + Wrap(y + z)) = Wrap((y + z) + x)
  BY <1>1, WrapSum
<1>4. Wrap(Wrap(x + y) + z) = Wrap((x + y) + z)
  BY <1>1, WrapSum
<1>5. (y + z) + x = (x + y) + z
  OBVIOUS
<1>6. CASE ae.accum = "float"
  BY <1>6 DEF Plus
<1>7. CASE ae.accum # "float"
  BY <1>1, <1>2, <1>3, <1>4, <1>5, <1>7, Zenon DEF Plus
<1> QED BY <1>6, <1>7

(* The same for comparisons. *)
LEMMA BetterLaws ==
  ASSUME NEW ae, NEW x \in Int, NEW y \in Int, NEW z \in Int
  PROVE  /\ Better(ae, x, y) \in Int /\ Better(ae, x, y) \in {x, y}
         /\ Better(ae, x, y) = Better(ae, y, x)
         /\ Better(ae, x, Better(ae, y, z)) = Better(ae, Better(ae, x, y), z)
BY DEF Better, Beats

(* COUNT adds one for a row it counts, and adds the counts of two slots.   *)
LEMMA OfCount ==
  ASSUME NEW ae, ae.kind = "count", NEW s \in Slot
  PROVE  /\ \A v \in Int \union {Null} :
              IF ae.col = "*" \/ v # Null
              THEN /\ FoldSlot(ae, s, v) \in Slot /\ FoldSlot(ae, s, v).nn = s.nn + 1 /\ FoldSlot(ae, s, v).str = s.str
                   /\ FoldSlot(ae, s, v).acc = s.acc + 1
              ELSE FoldSlot(ae, s, v) = s
         /\ \A d \in Slot :
              /\ MergeSlot(ae, d, s) \in Slot /\ MergeSlot(ae, d, s).nn = d.nn + s.nn /\ MergeSlot(ae, d, s).str = d.str
              /\ MergeSlot(ae, d, s).acc = d.acc + s.acc
<1>0. s.acc \in Int /\ s.nn \in Nat /\ s.str \in Int
  BY SlotFields, Zenon
<1>1. ASSUME NEW v \in Int \union {Null}
      PROVE  IF ae.col = "*" \/ v # Null
             THEN /\ FoldSlot(ae, s, v) \in Slot /\ FoldSlot(ae, s, v).nn = s.nn + 1 /\ FoldSlot(ae, s, v).str = s.str
                  /\ FoldSlot(ae, s, v).acc = s.acc + 1
             ELSE FoldSlot(ae, s, v) = s
  <2>1. CASE ae.col = "*" \/ v # Null
    <3>1. FoldSlot(ae, s, v) = [s EXCEPT !.acc = s.acc + 1, !.nn = s.nn + 1]
      BY <2>1 DEF FoldSlot, IsMinMax, Slot
    <3>2. s.acc + 1 \in Int
      BY <1>0
    <3>3. s.nn + 1 \in Nat
      BY <1>0
    <3> DEFINE x == s.acc + 1
               n == s.nn + 1
               r == FoldSlot(ae, s, v)
    <3>4. r = [s EXCEPT !.acc = x, !.nn = n] /\ x \in Int /\ n \in Nat
      BY <3>1, <3>2, <3>3, Zenon
    <3> HIDE DEF x, n, r
    <3>5. r \in Slot /\ r.nn = n /\ r.str = s.str /\ r.acc = x
      BY <3>4 DEF Slot
    <3> QED BY <2>1, <3>5, Zenon DEF x, n, r
  <2>2. CASE ~(ae.col = "*" \/ v # Null)
    <3>1. FoldSlot(ae, s, v) = s
      BY <2>2 DEF FoldSlot, IsMinMax
    <3> QED BY <2>2, <3>1, Zenon
  <2> QED BY <2>1, <2>2, Zenon
<1>2. ASSUME NEW d \in Slot
      PROVE  /\ MergeSlot(ae, d, s) \in Slot /\ MergeSlot(ae, d, s).nn = d.nn + s.nn /\ MergeSlot(ae, d, s).str = d.str
             /\ MergeSlot(ae, d, s).acc = d.acc + s.acc
  <2>1. MergeSlot(ae, d, s) = [[d EXCEPT !.nn = d.nn + s.nn] EXCEPT !.acc = d.acc + s.acc]
    BY DEF MergeSlot, IsMinMax, Slot
  <2>2. d.acc \in Int /\ d.nn \in Nat /\ d.str \in Int
    BY SlotFields, Zenon
  <2>3. d.acc + s.acc \in Int
    BY <1>0, <2>2
  <2>4. d.nn + s.nn \in Nat
    BY <1>0, <2>2
  <2> DEFINE x == d.acc + s.acc
             n == d.nn + s.nn
             r == MergeSlot(ae, d, s)
  <2>5. r = [[d EXCEPT !.nn = n] EXCEPT !.acc = x] /\ x \in Int /\ n \in Nat
    BY <2>1, <2>3, <2>4, Zenon
  <2> HIDE DEF x, n, r
  <2>6. r \in Slot /\ r.nn = n /\ r.str = d.str /\ r.acc = x
    BY <2>5 DEF Slot
  <2> QED BY <2>6, Zenon DEF x, n, r
<1> QED BY <1>1, <1>2, Zenon

(* SUM and AVG add values and sums alike.                                  *)
LEMMA OfSum ==
  ASSUME NEW ae, ae.kind \in {"sum", "avg"}, NEW s \in Slot
  PROVE  /\ \A v \in Int \union {Null} :
              IF v # Null
              THEN /\ FoldSlot(ae, s, v) \in Slot /\ FoldSlot(ae, s, v).nn = s.nn + 1 /\ FoldSlot(ae, s, v).str = s.str
                   /\ FoldSlot(ae, s, v).acc = Plus(ae, s.acc, v)
              ELSE FoldSlot(ae, s, v) = s
         /\ \A d \in Slot :
              /\ MergeSlot(ae, d, s) \in Slot /\ MergeSlot(ae, d, s).nn = d.nn + s.nn /\ MergeSlot(ae, d, s).str = d.str
              /\ MergeSlot(ae, d, s).acc = Plus(ae, d.acc, s.acc)
<1>0. s.acc \in Int /\ s.nn \in Nat /\ s.str \in Int
  BY SlotFields, Zenon
<1>1. ASSUME NEW v \in Int \union {Null}
      PROVE  IF v # Null
             THEN /\ FoldSlot(ae, s, v) \in Slot /\ FoldSlot(ae, s, v).nn = s.nn + 1 /\ FoldSlot(ae, s, v).str = s.str
                  /\ FoldSlot(ae, s, v).acc = Plus(ae, s.acc, v)
             ELSE FoldSlot(ae, s, v) = s
  <2>1. CASE v # Null
    <3>1. FoldSlot(ae, s, v) = [s EXCEPT !.acc = Plus(ae, s.acc, v), !.nn = s.nn + 1]
      BY <2>1 DEF FoldSlot, IsMinMax, Slot
    <3>2. Plus(ae, s.acc, v) \in Int
      BY <1>0, <2>1, ValueTypes
    <3>3. s.nn + 1 \in Nat
      BY <1>0
    <3> DEFINE x == Plus(ae, s.acc, v)
               n == s.nn + 1
               r == FoldSlot(ae, s, v)
    <3>4. r = [s EXCEPT !.acc = x, !.nn = n] /\ x \in Int /\ n \in Nat
      BY <3>1, <3>2, <3>3, Zenon
    <3> HIDE DEF x, n, r
    <3>5. r \in Slot /\ r.nn = n /\ r.str = s.str /\ r.acc = x
      BY <3>4 DEF Slot
    <3> QED BY <2>1, <3>5, Zenon DEF x, n, r
  <2>2. CASE ~(v # Null)
    <3>1. FoldSlot(ae, s, v) = s
      BY <2>2 DEF FoldSlot, IsMinMax
    <3> QED BY <2>2, <3>1, Zenon
  <2> QED BY <2>1, <2>2, Zenon
<1>2. ASSUME NEW d \in Slot
      PROVE  /\ MergeSlot(ae, d, s) \in Slot /\ MergeSlot(ae, d, s).nn = d.nn + s.nn /\ MergeSlot(ae, d, s).str = d.str
             /\ MergeSlot(ae, d, s).acc = Plus(ae, d.acc, s.acc)
  <2>1. MergeSlot(ae, d, s) = [[d EXCEPT !.nn = d.nn + s.nn] EXCEPT !.acc = Plus(ae, d.acc, s.acc)]
    BY DEF MergeSlot, IsMinMax, Slot
  <2>2. d.acc \in Int /\ d.nn \in Nat /\ d.str \in Int
    BY SlotFields, Zenon
  <2>3. Plus(ae, d.acc, s.acc) \in Int
    BY <1>0, <2>2, ValueTypes
  <2>4. d.nn + s.nn \in Nat
    BY <1>0, <2>2
  <2> DEFINE x == Plus(ae, d.acc, s.acc)
             n == d.nn + s.nn
             r == MergeSlot(ae, d, s)
  <2>5. r = [[d EXCEPT !.nn = n] EXCEPT !.acc = x] /\ x \in Int /\ n \in Nat
    BY <2>1, <2>3, <2>4, Zenon
  <2> HIDE DEF x, n, r
  <2>6. r \in Slot /\ r.nn = n /\ r.str = d.str /\ r.acc = x
    BY <2>5 DEF Slot
  <2> QED BY <2>6, Zenon DEF x, n, r
<1> QED BY <1>1, <1>2, Zenon

(* MIN and MAX of strings compare with what was seen, if anything was.     *)
LEMMA OfString ==
  ASSUME NEW ae, OfStrings(ae), NEW s \in Slot
  PROVE  /\ \A v \in Int \union {Null} :
              IF v # Null
              THEN /\ FoldSlot(ae, s, v) \in Slot /\ FoldSlot(ae, s, v).nn = s.nn + 1 /\ FoldSlot(ae, s, v).acc = s.acc
                   /\ FoldSlot(ae, s, v).str = minMaxString(ae, s.str, v, s.nn > 0)
              ELSE FoldSlot(ae, s, v) = s
         /\ \A d \in Slot :
              /\ MergeSlot(ae, d, s) \in Slot /\ MergeSlot(ae, d, s).nn = d.nn + s.nn /\ MergeSlot(ae, d, s).acc = d.acc
              /\ MergeSlot(ae, d, s).str = MergedStr(ae, d, s)
<1>0. s.acc \in Int /\ s.nn \in Nat /\ s.str \in Int
  BY SlotFields, Zenon
<1>1. ASSUME NEW v \in Int \union {Null}
      PROVE  IF v # Null
             THEN /\ FoldSlot(ae, s, v) \in Slot /\ FoldSlot(ae, s, v).nn = s.nn + 1 /\ FoldSlot(ae, s, v).acc = s.acc
                  /\ FoldSlot(ae, s, v).str = minMaxString(ae, s.str, v, s.nn > 0)
             ELSE FoldSlot(ae, s, v) = s
  <2>1. CASE v # Null
    <3>1. FoldSlot(ae, s, v) = [s EXCEPT !.str = minMaxString(ae, s.str, v, s.nn > 0), !.nn = s.nn + 1]
      BY <2>1 DEF FoldSlot, IsMinMax, OfStrings, Slot
    <3>2. minMaxString(ae, s.str, v, s.nn > 0) \in Int
      BY <1>0, <2>1, ValueTypes DEF minMaxString
    <3>3. s.nn + 1 \in Nat
      BY <1>0
    <3> DEFINE x == minMaxString(ae, s.str, v, s.nn > 0)
               n == s.nn + 1
               r == FoldSlot(ae, s, v)
    <3>4. r = [s EXCEPT !.str = x, !.nn = n] /\ x \in Int /\ n \in Nat
      BY <3>1, <3>2, <3>3, Zenon
    <3> HIDE DEF x, n, r
    <3>5. r \in Slot /\ r.nn = n /\ r.acc = s.acc /\ r.str = x
      BY <3>4 DEF Slot
    <3> QED BY <2>1, <3>5, Zenon DEF x, n, r
  <2>2. CASE ~(v # Null)
    <3>1. FoldSlot(ae, s, v) = s
      BY <2>2 DEF FoldSlot, IsMinMax, OfStrings
    <3> QED BY <2>2, <3>1, Zenon
  <2> QED BY <2>1, <2>2, Zenon
<1>2. ASSUME NEW d \in Slot
      PROVE  /\ MergeSlot(ae, d, s) \in Slot /\ MergeSlot(ae, d, s).nn = d.nn + s.nn /\ MergeSlot(ae, d, s).acc = d.acc
             /\ MergeSlot(ae, d, s).str = MergedStr(ae, d, s)
  <2>1. MergeSlot(ae, d, s) = [[d EXCEPT !.nn = d.nn + s.nn] EXCEPT !.str = MergedStr(ae, d, s)]
    BY DEF MergeSlot, IsMinMax, OfStrings, Slot
  <2>2. d.acc \in Int /\ d.nn \in Nat /\ d.str \in Int
    BY SlotFields, Zenon
  <2>3. MergedStr(ae, d, s) \in Int
    BY <1>0, <2>2, ValueTypes DEF minMaxString, MergedStr
  <2>4. d.nn + s.nn \in Nat
    BY <1>0, <2>2
  <2> DEFINE x == MergedStr(ae, d, s)
             n == d.nn + s.nn
             r == MergeSlot(ae, d, s)
  <2>5. r = [[d EXCEPT !.nn = n] EXCEPT !.str = x] /\ x \in Int /\ n \in Nat
    BY <2>1, <2>3, <2>4, Zenon
  <2> HIDE DEF x, n, r
  <2>6. r \in Slot /\ r.nn = n /\ r.acc = d.acc /\ r.str = x
    BY <2>5 DEF Slot
  <2> QED BY <2>6, Zenon DEF x, n, r
<1> QED BY <1>1, <1>2, Zenon

(* MIN and MAX of numbers compare with the accumulator.                    *)
LEMMA OfNumber ==
  ASSUME NEW ae, IsMinMax(ae), ~OfStrings(ae), NEW s \in Slot
  PROVE  /\ \A v \in Int \union {Null} :
              IF v # Null
              THEN /\ FoldSlot(ae, s, v) \in Slot /\ FoldSlot(ae, s, v).nn = s.nn + 1 /\ FoldSlot(ae, s, v).str = s.str
                   /\ FoldSlot(ae, s, v).acc = Better(ae, v, s.acc)
              ELSE FoldSlot(ae, s, v) = s
         /\ \A d \in Slot :
              /\ MergeSlot(ae, d, s) \in Slot /\ MergeSlot(ae, d, s).nn = d.nn + s.nn /\ MergeSlot(ae, d, s).str = d.str
              /\ MergeSlot(ae, d, s).acc = Better(ae, s.acc, d.acc)
<1>0. s.acc \in Int /\ s.nn \in Nat /\ s.str \in Int
  BY SlotFields, Zenon
<1>1. ASSUME NEW v \in Int \union {Null}
      PROVE  IF v # Null
             THEN /\ FoldSlot(ae, s, v) \in Slot /\ FoldSlot(ae, s, v).nn = s.nn + 1 /\ FoldSlot(ae, s, v).str = s.str
                  /\ FoldSlot(ae, s, v).acc = Better(ae, v, s.acc)
             ELSE FoldSlot(ae, s, v) = s
  <2>1. CASE v # Null
    <3>1. FoldSlot(ae, s, v) = [s EXCEPT !.acc = Better(ae, v, s.acc), !.nn = s.nn + 1]
      BY <2>1 DEF FoldSlot, IsMinMax, OfStrings, Slot
    <3>2. Better(ae, v, s.acc) \in Int
      BY <1>0, <2>1, ValueTypes
    <3>3. s.nn + 1 \in Nat
      BY <1>0
    <3> DEFINE x == Better(ae, v, s.acc)
               n == s.nn + 1
               r == FoldSlot(ae, s, v)
    <3>4. r = [s EXCEPT !.acc = x, !.nn = n] /\ x \in Int /\ n \in Nat
      BY <3>1, <3>2, <3>3, Zenon
    <3> HIDE DEF x, n, r
    <3>5. r \in Slot /\ r.nn = n /\ r.str = s.str /\ r.acc = x
      BY <3>4 DEF Slot
    <3> QED BY <2>1, <3>5, Zenon DEF x, n, r
  <2>2. CASE ~(v # Null)
    <3>1. FoldSlot(ae, s, v) = s
      BY <2>2 DEF FoldSlot, IsMinMax, OfStrings
    <3> QED BY <2>2, <3>1, Zenon
  <2> QED BY <2>1, <2>2, Zenon
<1>2. ASSUME NEW d \in Slot
      PROVE  /\ MergeSlot(ae, d, s) \in Slot /\ MergeSlot(ae, d, s).nn = d.nn + s.nn /\ MergeSlot(ae, d, s).str = d.str
             /\ MergeSlot(ae, d, s).acc = Better(ae, s.acc, d.acc)
  <2>1. MergeSlot(ae, d, s) = [[d EXCEPT !.nn = d.nn + s.nn] EXCEPT !.acc = Better(ae, s.acc, d.acc)]
    BY DEF MergeSlot, IsMinMax, OfStrings, Slot
  <2>2. d.acc \in Int /\ d.nn \in Nat /\ d.str \in Int
    BY SlotFields, Zenon
  <2>3. Better(ae, s.acc, d.acc) \in Int
    BY <1>0, <2>2, ValueTypes
  <2>4. d.nn + s.nn \in Nat
    BY <1>0, <2>2
  <2> DEFINE x == Better(ae, s.acc, d.acc)
             n == d.nn + s.nn
             r == MergeSlot(ae, d, s)
  <2>5. r = [[d EXCEPT !.nn = n] EXCEPT !.acc = x] /\ x \in Int /\ n \in Nat
    BY <2>1, <2>3, <2>4, Zenon
  <2> HIDE DEF x, n, r
  <2>6. r \in Slot /\ r.nn = n /\ r.str = d.str /\ r.acc = x
    BY <2>5 DEF Slot
  <2> QED BY <2>6, Zenon DEF x, n, r
<1> QED BY <1>1, <1>2, Zenon

(* Which of these an aggregate is. *)
LEMMA Kinds ==
  ASSUME NEW ae \in Aggregate
  PROVE  \/ ae.kind = "count" \/ ae.kind \in {"sum", "avg"} \/ OfStrings(ae)
         \/ (IsMinMax(ae) /\ ~OfStrings(ae))
BY DEF Aggregate, IsMinMax, OfStrings


(* Folding and merging give slots. *)
LEMMA SlotClosed ==
  ASSUME NEW ae \in Aggregate, NEW s \in Slot
  PROVE  /\ \A v \in Int \union {Null} : FoldSlot(ae, s, v) \in Slot
         /\ \A d \in Slot : MergeSlot(ae, d, s) \in Slot
<1>1. CASE ae.kind = "count"
  BY <1>1, OfCount
<1>2. CASE ae.kind \in {"sum", "avg"}
  BY <1>2, OfSum
<1>3. CASE OfStrings(ae)
  BY <1>3, OfString, Zenon
<1>4. CASE IsMinMax(ae) /\ ~OfStrings(ae)
  BY <1>4, OfNumber, Zenon
<1> QED BY <1>1, <1>2, <1>3, <1>4, Kinds, Zenon

(* The fields of a new slot. *)
LEMMA NewSlotFields ==
  ASSUME NEW ae \in Aggregate
  PROVE  /\ NewSlot(ae) \in Slot /\ NewSlot(ae).acc = Identity(ae)
         /\ NewSlot(ae).nn = 0 /\ NewSlot(ae).str = 0
<1> DEFINE a == Identity(ae)
<1>1. MaxInt \in Int /\ MinInt \in Int /\ MaxFloat \in Int /\ -MaxFloat \in Int
  BY WidthAssumption DEF MinInt
<1>2. a \in Int
  BY <1>1 DEF Identity
<1>3. NewSlot(ae) = [acc |-> a, nn |-> 0, str |-> 0, vals |-> {}]
  BY Zenon DEF NewSlot
<1> HIDE DEF a
<1>4. NewSlot(ae) \in Slot /\ NewSlot(ae).acc = a /\ NewSlot(ae).nn = 0 /\ NewSlot(ae).str = 0
  BY <1>2, <1>3 DEF Slot
<1> QED BY <1>4 DEF a

-----------------------------------------------------------------------------
(***************************************************************************)
(* The theorems.                                                           *)
(***************************************************************************)

(* A value folded into a partial before mergePartialAgg merges it counts   *)
(* as if foldRow had folded it into the merged slot: wrapped sums, MIN and *)
(* MAX of strings over an empty partial and NULLs included.                *)
THEOREM MergeFold ==
  ASSUME NEW ae \in Aggregate, NEW d \in Slot, NEW s \in Slot, NEW v \in Int \union {Null}
  PROVE  MergeSlot(ae, d, FoldSlot(ae, s, v)) = FoldSlot(ae, MergeSlot(ae, d, s), v)
<1> DEFINE f == FoldSlot(ae, s, v)
           m == MergeSlot(ae, d, s)
           l == MergeSlot(ae, d, f)
           r == FoldSlot(ae, m, v)
<1>1. f \in Slot /\ m \in Slot
  BY SlotClosed, Zenon
<1> HIDE DEF f, m
<1>2. l \in Slot /\ r \in Slot
  BY <1>1, SlotClosed, Zenon
<1>3. /\ s.acc \in Int /\ s.nn \in Nat /\ s.str \in Int
      /\ d.acc \in Int /\ d.nn \in Nat /\ d.str \in Int
  BY SlotFields, Zenon
<1>4. CASE f = s /\ r = m
  BY <1>4 DEF m, f
<1>5. CASE ae.kind = "count" /\ (ae.col = "*" \/ v # Null)
  <2>1. f.acc = s.acc + 1 /\ f.nn = s.nn + 1 /\ f.str = s.str
    BY <1>5, OfCount, Zenon DEF f
  <2>2. m.acc = d.acc + s.acc /\ m.nn = d.nn + s.nn /\ m.str = d.str
    BY <1>5, OfCount, Zenon DEF m
  <2>3. l.acc = d.acc + f.acc /\ l.nn = d.nn + f.nn /\ l.str = d.str
    BY <1>1, <1>5, OfCount, Zenon
  <2>4. r.acc = m.acc + 1 /\ r.nn = m.nn + 1 /\ r.str = m.str
    BY <1>1, <1>5, OfCount, Zenon
  <2> HIDE DEF l, r
  <2>5. l.acc = r.acc /\ l.nn = r.nn /\ l.str = r.str
    BY <1>3, <2>1, <2>2, <2>3, <2>4
  <2> QED BY <1>2, <2>5, SameSlot, Zenon DEF l, r, f, m
<1>6. CASE ae.kind \in {"sum", "avg"} /\ v # Null
  <2>1. f.acc = Plus(ae, s.acc, v) /\ f.nn = s.nn + 1 /\ f.str = s.str
    BY <1>6, OfSum DEF f
  <2>2. m.acc = Plus(ae, d.acc, s.acc) /\ m.nn = d.nn + s.nn /\ m.str = d.str
    BY <1>6, OfSum DEF m
  <2>3. l.acc = Plus(ae, d.acc, f.acc) /\ l.nn = d.nn + f.nn /\ l.str = d.str
    BY <1>1, <1>6, OfSum
  <2>4. r.acc = Plus(ae, m.acc, v) /\ r.nn = m.nn + 1 /\ r.str = m.str
    BY <1>1, <1>6, OfSum
  <2> HIDE DEF l, r
  <2>5. l.nn = r.nn /\ l.str = r.str
    BY <1>3, <2>1, <2>2, <2>3, <2>4
  <2>6. v \in Int
    BY <1>6
  <2>7. l.acc = r.acc
    BY <1>3, <2>1, <2>2, <2>3, <2>4, <2>6, PlusLaws
  <2> QED BY <1>2, <2>5, <2>7, SameSlot DEF l, r, f, m
<1>7. CASE OfStrings(ae) /\ v # Null
  <2>1. f.str = minMaxString(ae, s.str, v, s.nn > 0) /\ f.nn = s.nn + 1 /\ f.acc = s.acc
    BY <1>7, OfString, Zenon DEF f
  <2>2. m.str = MergedStr(ae, d, s) /\ m.nn = d.nn + s.nn /\ m.acc = d.acc
    BY <1>7, OfString, Zenon DEF m
  <2>3. l.str = MergedStr(ae, d, f) /\ l.nn = d.nn + f.nn /\ l.acc = d.acc
    BY <1>1, <1>7, OfString
  <2>4. r.str = minMaxString(ae, m.str, v, m.nn > 0) /\ r.nn = m.nn + 1 /\ r.acc = m.acc
    BY <1>1, <1>7, OfString
  <2> HIDE DEF l, r
  <2>5. l.nn = r.nn /\ l.acc = r.acc
    BY <1>3, <2>1, <2>2, <2>3, <2>4
  <2>6. v \in Int
    BY <1>7
  <2>7. l.str = r.str
    <3>1. f.nn # 0 /\ (m.nn > 0 <=> d.nn > 0 \/ s.nn > 0)
      BY <1>3, <2>1, <2>2
    <3>2. s.nn = 0 <=> ~(s.nn > 0)
      BY <1>3
    <3>3. CASE s.nn = 0
      BY <2>1, <2>2, <2>3, <2>4, <3>1, <3>2, <3>3, Zenon DEF MergedStr, minMaxString
    <3>4. CASE s.nn > 0 /\ ~(d.nn > 0)
      BY <2>1, <2>2, <2>3, <2>4, <3>1, <3>2, <3>4, Zenon DEF MergedStr, minMaxString
    <3>5. CASE s.nn > 0 /\ d.nn > 0
      <4>1. l.str = Better(ae, Better(ae, v, s.str), d.str)
        BY <2>1, <2>3, <3>1, <3>2, <3>5, Zenon DEF MergedStr, minMaxString
      <4>2. r.str = Better(ae, v, Better(ae, s.str, d.str))
        BY <2>2, <2>4, <3>1, <3>2, <3>5, Zenon DEF MergedStr, minMaxString
      <4> QED BY <1>3, <2>6, <4>1, <4>2, BetterLaws
    <3> QED BY <3>2, <3>3, <3>4, <3>5
  <2> QED BY <1>2, <2>5, <2>7, SameSlot DEF l, r, f, m
<1>8. CASE IsMinMax(ae) /\ ~OfStrings(ae) /\ v # Null
  <2>1. f.acc = Better(ae, v, s.acc) /\ f.nn = s.nn + 1 /\ f.str = s.str
    BY <1>8, OfNumber, Zenon DEF f
  <2>2. m.acc = Better(ae, s.acc, d.acc) /\ m.nn = d.nn + s.nn /\ m.str = d.str
    BY <1>8, OfNumber, Zenon DEF m
  <2>3. l.acc = Better(ae, f.acc, d.acc) /\ l.nn = d.nn + f.nn /\ l.str = d.str
    BY <1>1, <1>8, OfNumber
  <2>4. r.acc = Better(ae, v, m.acc) /\ r.nn = m.nn + 1 /\ r.str = m.str
    BY <1>1, <1>8, OfNumber
  <2> HIDE DEF l, r
  <2>5. l.nn = r.nn /\ l.str = r.str
    BY <1>3, <2>1, <2>2, <2>3, <2>4
  <2>6. v \in Int
    BY <1>8
  <2>7. l.acc = r.acc
    BY <1>3, <2>1, <2>2, <2>3, <2>4, <2>6, BetterLaws
  <2> QED BY <1>2, <2>5, <2>7, SameSlot DEF l, r, f, m
<1>9. CASE ~(ae.kind = "count" /\ (ae.col = "*" \/ v # Null)) /\ (ae.kind = "count" \/ v = Null)
  <2>1. CASE ae.kind = "count"
    BY <1>1, <1>4, <1>9, <2>1, OfCount DEF f
  <2>2. CASE ae.kind \in {"sum", "avg"} /\ v = Null
    BY <1>1, <1>4, <2>2, OfSum DEF f
  <2>3. CASE OfStrings(ae) /\ v = Null
    BY <1>1, <1>4, <2>3, OfString, Zenon DEF f
  <2>4. CASE IsMinMax(ae) /\ ~OfStrings(ae) /\ v = Null
    BY <1>1, <1>4, <2>4, OfNumber, Zenon DEF f
  <2> QED BY <1>9, <2>1, <2>2, <2>3, <2>4, Kinds, Zenon
<1> QED BY <1>5, <1>6, <1>7, <1>8, <1>9, Kinds, Zenon

(* Reached is what the program's slots have: newAccums starts there, and   *)
(* neither foldRow nor mergePartialAgg leaves it.                          *)
THEOREM SlotsReached ==
  ASSUME NEW ae \in Aggregate
  PROVE  /\ Reached(ae, NewSlot(ae))
         /\ \A s, v : Reached(ae, s) /\ v \in Value(ae) => Reached(ae, FoldSlot(ae, s, v))
         /\ \A d, s : Reached(ae, d) /\ Reached(ae, s) => Reached(ae, MergeSlot(ae, d, s))
<1>0. MaxInt \in Nat /\ MinInt \in Int /\ MinInt <= 0 /\ MaxFloat \in Nat
  BY WidthAssumption DEF MinInt
<1>1. Reached(ae, NewSlot(ae))
  <2> DEFINE z == NewSlot(ae)
  <2>1. z \in Slot /\ z.acc = Identity(ae) /\ z.nn = 0 /\ z.str = 0
    BY NewSlotFields, Zenon
  <2> HIDE DEF z
  <2>2. /\ OfStrings(ae) => z.acc = 0
        /\ ae.kind # "count" /\ ae.accum # "float" => z.acc \in MinInt..MaxInt
        /\ ae.kind = "min" /\ ae.accum = "float" => z.acc <= MaxFloat
        /\ ae.kind = "max" /\ ae.accum = "float" => z.acc >= -MaxFloat
    BY <1>0, <2>1 DEF Identity, OfStrings, IsMinMax, Aggregate
  <2>3. Reached(ae, z)
    BY <2>1, <2>2 DEF Reached
  <2> QED BY <2>3 DEF z
<1>2. ASSUME NEW s, NEW v, Reached(ae, s), v \in Value(ae)
      PROVE  Reached(ae, FoldSlot(ae, s, v))
  <2> DEFINE r == FoldSlot(ae, s, v)
  <2>1. s \in Slot /\ s.acc \in Int /\ s.nn \in Nat /\ s.str \in Int
    BY <1>2, SlotFields DEF Reached
  <2>2. /\ v \in Int \union {Null}
        /\ ae.kind # "count" /\ ae.accum = "int" /\ v # Null => v \in MinInt..MaxInt
    BY <1>0, <1>2 DEF Value
  <2>3. r \in Slot
    BY <2>1, <2>2, SlotClosed
  <2>4. CASE r = s
    BY <1>2, <2>4, Zenon
  <2>5. CASE ae.kind = "count" /\ (ae.col = "*" \/ v # Null)
    <3>1. r.str = s.str
      BY <2>1, <2>2, <2>5, OfCount
    <3>2. s.str = 0 /\ ~OfStrings(ae)
      BY <1>2, <2>5 DEF Reached, OfStrings, IsMinMax
    <3> HIDE DEF r
    <3>3. Reached(ae, r)
      BY <2>3, <2>5, <3>1, <3>2 DEF Reached
    <3> QED BY <3>3 DEF r
  <2>6. CASE ae.kind \in {"sum", "avg"} /\ v # Null
    <3>1. r.str = s.str /\ r.acc = Plus(ae, s.acc, v)
      BY <2>1, <2>2, <2>6, OfSum
    <3>2. ae.accum # "float" => r.acc \in MinInt..MaxInt
      <4>1. ae.accum # "float" => Plus(ae, s.acc, v) \in MinInt..MaxInt
        BY <2>1, <2>2, <2>6, PlusLaws
      <4> QED BY <3>1, <4>1, Zenon
    <3>3. s.str = 0 /\ ~OfStrings(ae)
      BY <1>2, <2>6 DEF Reached, OfStrings, IsMinMax
    <3> HIDE DEF r
    <3>4. Reached(ae, r)
      BY <2>3, <2>6, <3>1, <3>2, <3>3 DEF Reached
    <3> QED BY <3>4 DEF r
  <2>7. CASE OfStrings(ae) /\ v # Null
    <3>1. r.nn = s.nn + 1 /\ r.acc = s.acc
      BY <2>1, <2>2, <2>7, OfString
    <3>2. r.nn # 0 /\ s.acc = 0
      BY <1>2, <2>1, <2>7, <3>1 DEF Reached
    <3> HIDE DEF r
    <3>3. Reached(ae, r)
      BY <1>0, <2>3, <2>7, <3>1, <3>2 DEF Reached, OfStrings
    <3> QED BY <3>3 DEF r
  <2>8. CASE IsMinMax(ae) /\ ~OfStrings(ae) /\ v # Null
    <3>1. r.str = s.str /\ r.acc = Better(ae, v, s.acc)
      BY <2>1, <2>2, <2>8, OfNumber
    <3>2. s.str = 0
      BY <1>2, <2>8 DEF Reached
    <3>3. /\ ae.accum # "float" => r.acc \in MinInt..MaxInt
          /\ ae.kind = "min" /\ ae.accum = "float" => r.acc <= MaxFloat
          /\ ae.kind = "max" /\ ae.accum = "float" => r.acc >= -MaxFloat
      <4>1. ae.accum \in {"int", "float"} /\ ae.kind \in {"min", "max"} /\ v \in Int
        BY <2>2, <2>8 DEF OfStrings, IsMinMax, Aggregate
      <4> HIDE DEF r
      <4>2. CASE ae.accum = "int"
        BY <1>2, <2>2, <2>8, <3>1, <4>1, <4>2 DEF Reached, Better
      <4>3. CASE ae.accum = "float" /\ ae.kind = "min"
        BY <1>0, <1>2, <2>1, <3>1, <4>1, <4>3 DEF Reached, Better, Beats
      <4>4. CASE ae.accum = "float" /\ ae.kind = "max"
        BY <1>0, <1>2, <2>1, <3>1, <4>1, <4>4 DEF Reached, Better, Beats
      <4> QED BY <4>1, <4>2, <4>3, <4>4
    <3> HIDE DEF r
    <3>4. Reached(ae, r)
      BY <2>3, <2>8, <3>1, <3>2, <3>3 DEF Reached
    <3> QED BY <3>4 DEF r
  <2>9. CASE ~(ae.kind = "count" /\ (ae.col = "*" \/ v # Null)) /\ (ae.kind = "count" \/ v = Null)
    <3>1. CASE ae.kind = "count"
      BY <2>1, <2>2, <2>4, <2>9, <3>1, OfCount
    <3>2. CASE ae.kind \in {"sum", "avg"} /\ v = Null
      BY <2>1, <2>2, <2>4, <3>2, OfSum
    <3>3. CASE OfStrings(ae) /\ v = Null
      BY <2>1, <2>2, <2>4, <3>3, OfString
    <3>4. CASE IsMinMax(ae) /\ ~OfStrings(ae) /\ v = Null
      BY <2>1, <2>2, <2>4, <3>4, OfNumber
    <3> QED BY <2>9, <3>1, <3>2, <3>3, <3>4, Kinds, Zenon
  <2> QED BY <2>5, <2>6, <2>7, <2>8, <2>9, Kinds, Zenon
<1>3. ASSUME NEW d, NEW s, Reached(ae, d), Reached(ae, s)
      PROVE  Reached(ae, MergeSlot(ae, d, s))
  <2> DEFINE r == MergeSlot(ae, d, s)
  <2>1. /\ d \in Slot /\ d.acc \in Int /\ d.nn \in Nat /\ d.str \in Int
        /\ s \in Slot /\ s.acc \in Int /\ s.nn \in Nat /\ s.str \in Int
    BY <1>3, SlotFields DEF Reached
  <2>2. r \in Slot
    BY <2>1, SlotClosed
  <2>3. CASE ae.kind = "count"
    <3>1. r.str = d.str
      BY <2>1, <2>3, OfCount
    <3>2. d.str = 0 /\ ~OfStrings(ae)
      BY <1>3, <2>3 DEF Reached, OfStrings, IsMinMax
    <3> HIDE DEF r
    <3>3. Reached(ae, r)
      BY <2>2, <2>3, <3>1, <3>2 DEF Reached
    <3> QED BY <3>3 DEF r
  <2>4. CASE ae.kind \in {"sum", "avg"}
    <3>1. r.str = d.str /\ r.acc = Plus(ae, d.acc, s.acc)
      BY <2>1, <2>4, OfSum
    <3>2. ae.accum # "float" => r.acc \in MinInt..MaxInt
      <4>1. ae.accum # "float" => Plus(ae, d.acc, s.acc) \in MinInt..MaxInt
        BY <2>1, PlusLaws
      <4> QED BY <3>1, <4>1, Zenon
    <3>3. d.str = 0 /\ ~OfStrings(ae)
      BY <1>3, <2>4 DEF Reached, OfStrings, IsMinMax
    <3> HIDE DEF r
    <3>4. Reached(ae, r)
      BY <2>2, <2>4, <3>1, <3>2, <3>3 DEF Reached
    <3> QED BY <3>4 DEF r
  <2>5. CASE OfStrings(ae)
    <3>1. r.nn = d.nn + s.nn /\ r.acc = d.acc /\ r.str = MergedStr(ae, d, s)
      BY <2>1, <2>5, OfString
    <3>2. d.acc = 0 /\ (r.nn = 0 => r.str = 0)
      BY <1>3, <2>1, <2>5, <3>1 DEF Reached, MergedStr
    <3> HIDE DEF r
    <3>3. Reached(ae, r)
      BY <1>0, <2>2, <2>5, <3>1, <3>2 DEF Reached, OfStrings
    <3> QED BY <3>3 DEF r
  <2>6. CASE IsMinMax(ae) /\ ~OfStrings(ae)
    <3>1. r.str = d.str /\ r.acc = Better(ae, s.acc, d.acc)
      BY <2>1, <2>6, OfNumber
    <3>2. r.acc = s.acc \/ r.acc = d.acc
      BY <3>1, Zenon DEF Better
    <3> HIDE DEF r
    <3>3. Reached(ae, r)
      BY <1>3, <2>2, <2>6, <3>1, <3>2 DEF Reached, OfStrings
    <3> QED BY <3>3 DEF r
  <2> QED BY <2>3, <2>4, <2>5, <2>6, Kinds, Zenon
<1> QED BY <1>1, <1>2, <1>3

(* A worker that saw no row of a group adds nothing to it: merging a slot  *)
(* as newAccums makes it leaves every slot the program can have as it is.  *)
THEOREM MergeNothing ==
  ASSUME NEW ae \in Aggregate, NEW d, Reached(ae, d)
  PROVE  MergeSlot(ae, d, NewSlot(ae)) = d
<1> DEFINE z == NewSlot(ae)
           l == MergeSlot(ae, d, z)
<1>1. d \in Slot /\ d.acc \in Int /\ d.nn \in Nat /\ d.str \in Int
  BY SlotFields, Zenon DEF Reached
<1>2. z \in Slot /\ z.acc = Identity(ae) /\ z.nn = 0 /\ z.str = 0
  BY NewSlotFields, Zenon
<1> HIDE DEF z
<1>3. l \in Slot
  BY <1>1, <1>2, SlotClosed
<1>4. CASE ae.kind = "count"
  <2>1. l.acc = d.acc + z.acc /\ l.nn = d.nn + z.nn /\ l.str = d.str
    BY <1>1, <1>2, <1>4, OfCount
  <2>2. z.acc = 0
    BY <1>2, <1>4 DEF Identity
  <2> HIDE DEF l
  <2>3. l.acc = d.acc /\ l.nn = d.nn /\ l.str = d.str
    BY <1>1, <1>2, <2>1, <2>2
  <2> QED BY <1>1, <1>3, <2>3, SameSlot DEF l, z
<1>5. CASE ae.kind \in {"sum", "avg"}
  <2>1. l.acc = Plus(ae, d.acc, z.acc) /\ l.nn = d.nn + z.nn /\ l.str = d.str
    BY <1>1, <1>2, <1>5, OfSum
  <2>2. z.acc = 0
    BY <1>2, <1>5 DEF Identity
  <2>3. ae.accum # "float" => Wrap(d.acc) = d.acc
    BY <1>5, WrapInRange DEF Reached
  <2>4. Plus(ae, d.acc, 0) = d.acc
    BY <1>1, <2>3 DEF Plus
  <2> HIDE DEF l
  <2>5. l.acc = d.acc /\ l.nn = d.nn /\ l.str = d.str
    BY <1>1, <1>2, <2>1, <2>2, <2>4
  <2> QED BY <1>1, <1>3, <2>5, SameSlot DEF l, z
<1>6. CASE OfStrings(ae)
  <2>1. l.str = MergedStr(ae, d, z) /\ l.nn = d.nn + z.nn /\ l.acc = d.acc
    BY <1>1, <1>2, <1>6, OfString
  <2>2. l.str = d.str
    BY <1>2, <2>1 DEF MergedStr
  <2> HIDE DEF l
  <2>3. l.acc = d.acc /\ l.nn = d.nn /\ l.str = d.str
    BY <1>1, <1>2, <2>1, <2>2
  <2> QED BY <1>1, <1>3, <2>3, SameSlot DEF l, z
<1>7. CASE IsMinMax(ae) /\ ~OfStrings(ae)
  <2>1. l.acc = Better(ae, z.acc, d.acc) /\ l.nn = d.nn + z.nn /\ l.str = d.str
    BY <1>1, <1>2, <1>7, OfNumber
  <2>2. ~Beats(ae, z.acc, d.acc)
    <3>1. MaxInt \in Nat /\ MinInt \in Int /\ MaxFloat \in Nat
      BY WidthAssumption DEF MinInt
    <3>2. ae.kind \in {"min", "max"} /\ ae.accum \in {"int", "float"}
      BY <1>7 DEF IsMinMax, OfStrings, Aggregate
    <3>3. CASE ae.kind = "min" /\ ae.accum = "float"
      BY <1>1, <1>2, <3>1, <3>3 DEF Identity, Reached, Beats
    <3>4. CASE ae.kind = "min" /\ ae.accum = "int"
      BY <1>1, <1>2, <3>1, <3>4 DEF Identity, Reached, Beats
    <3>5. CASE ae.kind = "max" /\ ae.accum = "float"
      BY <1>1, <1>2, <3>1, <3>5 DEF Identity, Reached, Beats
    <3>6. CASE ae.kind = "max" /\ ae.accum = "int"
      BY <1>1, <1>2, <3>1, <3>6 DEF Identity, Reached, Beats
    <3> QED BY <3>2, <3>3, <3>4, <3>5, <3>6
  <2>3. l.acc = d.acc
    BY <2>1, <2>2 DEF Better
  <2> HIDE DEF l
  <2>4. l.acc = d.acc /\ l.nn = d.nn /\ l.str = d.str
    BY <1>1, <1>2, <2>1, <2>3
  <2> QED BY <1>1, <1>3, <2>4, SameSlot DEF l, z
<1> QED BY <1>4, <1>5, <1>6, <1>7, Kinds

(* The order in which two partials reach mergePartialAgg does not matter   *)
(* for what a slot becomes.                                                *)
THEOREM MergeCommutes ==
  ASSUME NEW ae \in Aggregate, NEW d, Reached(ae, d), NEW s, Reached(ae, s)
  PROVE  MergeSlot(ae, d, s) = MergeSlot(ae, s, d)
<1> DEFINE l == MergeSlot(ae, d, s)
           r == MergeSlot(ae, s, d)
<1>1. /\ d \in Slot /\ d.acc \in Int /\ d.nn \in Nat /\ d.str \in Int
      /\ s \in Slot /\ s.acc \in Int /\ s.nn \in Nat /\ s.str \in Int
  BY SlotFields DEF Reached
<1>2. l \in Slot /\ r \in Slot
  BY <1>1, SlotClosed
<1>3. d.nn + s.nn = s.nn + d.nn /\ d.acc + s.acc = s.acc + d.acc
  BY <1>1
<1>4. ~OfStrings(ae) => d.str = s.str
  BY DEF Reached
<1>5. CASE ae.kind = "count"
  <2>1. l.acc = d.acc + s.acc /\ l.nn = d.nn + s.nn /\ l.str = d.str
    BY <1>1, <1>5, OfCount
  <2>2. r.acc = s.acc + d.acc /\ r.nn = s.nn + d.nn /\ r.str = s.str
    BY <1>1, <1>5, OfCount
  <2>3. d.str = s.str
    BY <1>4, <1>5 DEF OfStrings, IsMinMax
  <2> QED BY <1>2, <1>3, <2>1, <2>2, <2>3, SameSlot, Zenon
<1>6. CASE ae.kind \in {"sum", "avg"}
  <2>1. l.acc = Plus(ae, d.acc, s.acc) /\ l.nn = d.nn + s.nn /\ l.str = d.str
    BY <1>1, <1>6, OfSum
  <2>2. r.acc = Plus(ae, s.acc, d.acc) /\ r.nn = s.nn + d.nn /\ r.str = s.str
    BY <1>1, <1>6, OfSum
  <2>3. d.str = s.str
    BY <1>4, <1>6 DEF OfStrings, IsMinMax
  <2>4. Plus(ae, d.acc, s.acc) = Plus(ae, s.acc, d.acc)
    BY <1>1, PlusLaws
  <2> QED BY <1>2, <1>3, <2>1, <2>2, <2>3, <2>4, SameSlot, Zenon
<1>7. CASE OfStrings(ae)
  <2>1. l.str = MergedStr(ae, d, s) /\ l.nn = d.nn + s.nn /\ l.acc = d.acc
    BY <1>1, <1>7, OfString
  <2>2. r.str = MergedStr(ae, s, d) /\ r.nn = s.nn + d.nn /\ r.acc = s.acc
    BY <1>1, <1>7, OfString
  <2>3. d.acc = s.acc
    BY <1>7 DEF Reached
  <2>4. /\ d.nn = 0 => d.str = 0
        /\ s.nn = 0 => s.str = 0
        /\ Better(ae, d.str, s.str) = Better(ae, s.str, d.str)
    BY <1>1, BetterLaws DEF Reached
  <2>5. /\ d.nn = 0 <=> ~(d.nn > 0)
        /\ s.nn = 0 <=> ~(s.nn > 0)
    BY <1>1
  <2>6. MergedStr(ae, d, s) = MergedStr(ae, s, d)
    BY <2>4, <2>5, Zenon DEF MergedStr, minMaxString
  <2> QED BY <1>2, <1>3, <2>1, <2>2, <2>3, <2>6, SameSlot, Zenon
<1>8. CASE IsMinMax(ae) /\ ~OfStrings(ae)
  <2>1. l.acc = Better(ae, s.acc, d.acc) /\ l.nn = d.nn + s.nn /\ l.str = d.str
    BY <1>1, <1>8, OfNumber
  <2>2. r.acc = Better(ae, d.acc, s.acc) /\ r.nn = s.nn + d.nn /\ r.str = s.str
    BY <1>1, <1>8, OfNumber
  <2>3. Better(ae, d.acc, s.acc) = Better(ae, s.acc, d.acc)
    BY <1>1, BetterLaws
  <2> QED BY <1>2, <1>3, <1>4, <1>8, <2>1, <2>2, <2>3, SameSlot, Zenon
<1> QED BY <1>5, <1>6, <1>7, <1>8, Kinds

(* Nor does it matter which partials are merged first: the merged table    *)
(* may take the workers in any grouping.                                   *)
THEOREM MergeAssociates ==
  ASSUME NEW ae \in Aggregate, NEW c \in Slot, NEW d \in Slot, NEW s \in Slot
  PROVE  MergeSlot(ae, MergeSlot(ae, c, d), s) = MergeSlot(ae, c, MergeSlot(ae, d, s))
<1> DEFINE cd == MergeSlot(ae, c, d)
           ds == MergeSlot(ae, d, s)
           l == MergeSlot(ae, cd, s)
           r == MergeSlot(ae, c, ds)
<1>1. cd \in Slot /\ ds \in Slot
  BY SlotClosed
<1> HIDE DEF cd, ds
<1>2. l \in Slot /\ r \in Slot
  BY <1>1, SlotClosed
<1>3. /\ c.acc \in Int /\ c.nn \in Nat /\ c.str \in Int
      /\ d.acc \in Int /\ d.nn \in Nat /\ d.str \in Int
      /\ s.acc \in Int /\ s.nn \in Nat /\ s.str \in Int
  BY SlotFields
<1>4. (c.nn + d.nn) + s.nn = c.nn + (d.nn + s.nn) /\ (c.acc + d.acc) + s.acc = c.acc + (d.acc + s.acc)
  BY <1>3
<1>5. CASE ae.kind = "count"
  <2>1. /\ cd.acc = c.acc + d.acc /\ cd.nn = c.nn + d.nn /\ cd.str = c.str
        /\ ds.acc = d.acc + s.acc /\ ds.nn = d.nn + s.nn /\ ds.str = d.str
    BY <1>5, OfCount DEF cd, ds
  <2>2. l.acc = cd.acc + s.acc /\ l.nn = cd.nn + s.nn /\ l.str = cd.str
    BY <1>1, <1>5, OfCount
  <2>3. r.acc = c.acc + ds.acc /\ r.nn = c.nn + ds.nn /\ r.str = c.str
    BY <1>1, <1>5, OfCount
  <2>4. l.acc = r.acc /\ l.nn = r.nn /\ l.str = r.str
    BY <1>4, <2>1, <2>2, <2>3, Zenon
  <2> HIDE DEF l, r
  <2> QED BY <1>2, <2>4, SameSlot, Zenon DEF l, r, cd, ds
<1>6. CASE ae.kind \in {"sum", "avg"}
  <2>1. /\ cd.acc = Plus(ae, c.acc, d.acc) /\ cd.nn = c.nn + d.nn /\ cd.str = c.str
        /\ ds.acc = Plus(ae, d.acc, s.acc) /\ ds.nn = d.nn + s.nn /\ ds.str = d.str
    BY <1>6, OfSum DEF cd, ds
  <2>2. l.acc = Plus(ae, cd.acc, s.acc) /\ l.nn = cd.nn + s.nn /\ l.str = cd.str
    BY <1>1, <1>6, OfSum
  <2>3. r.acc = Plus(ae, c.acc, ds.acc) /\ r.nn = c.nn + ds.nn /\ r.str = c.str
    BY <1>1, <1>6, OfSum
  <2>4. Plus(ae, c.acc, Plus(ae, d.acc, s.acc)) = Plus(ae, Plus(ae, c.acc, d.acc), s.acc)
    BY <1>3, PlusLaws
  <2>5. l.acc = r.acc /\ l.nn = r.nn /\ l.str = r.str
    BY <1>4, <2>1, <2>2, <2>3, <2>4, Zenon
  <2> HIDE DEF l, r
  <2> QED BY <1>2, <2>5, SameSlot, Zenon DEF l, r, cd, ds
<1>7. CASE OfStrings(ae)
  <2>1. /\ cd.str = MergedStr(ae, c, d) /\ cd.nn = c.nn + d.nn /\ cd.acc = c.acc
        /\ ds.str = MergedStr(ae, d, s) /\ ds.nn = d.nn + s.nn /\ ds.acc = d.acc
    BY <1>7, OfString DEF cd, ds
  <2>2. l.str = MergedStr(ae, cd, s) /\ l.nn = cd.nn + s.nn /\ l.acc = cd.acc
    BY <1>1, <1>7, OfString
  <2>3. r.str = MergedStr(ae, c, ds) /\ r.nn = c.nn + ds.nn /\ r.acc = c.acc
    BY <1>1, <1>7, OfString
  <2>4. /\ c.nn = 0 <=> ~(c.nn > 0)
        /\ d.nn = 0 <=> ~(d.nn > 0)
        /\ s.nn = 0 <=> ~(s.nn > 0)
        /\ cd.nn > 0 <=> (c.nn > 0 \/ d.nn > 0)
        /\ ds.nn = 0 <=> (d.nn = 0 /\ s.nn = 0)
    BY <1>3, <2>1
  <2>5. Better(ae, s.str, Better(ae, d.str, c.str)) = Better(ae, Better(ae, s.str, d.str), c.str)
    BY <1>3, BetterLaws
  <2>6. MergedStr(ae, cd, s) = MergedStr(ae, c, ds)
    <3>1. CASE s.nn = 0 /\ d.nn = 0
      BY <2>1, <2>4, <3>1, Zenon DEF MergedStr, minMaxString
    <3>2. CASE s.nn = 0 /\ d.nn > 0
      BY <2>1, <2>4, <3>2, Zenon DEF MergedStr, minMaxString
    <3>3. CASE s.nn > 0 /\ d.nn = 0
      BY <2>1, <2>4, <3>3, Zenon DEF MergedStr, minMaxString
    <3>4. CASE s.nn > 0 /\ d.nn > 0 /\ c.nn = 0
      BY <2>1, <2>4, <3>4, Zenon DEF MergedStr, minMaxString
    <3>5. CASE s.nn > 0 /\ d.nn > 0 /\ c.nn > 0
      BY <2>1, <2>4, <2>5, <3>5, Zenon DEF MergedStr, minMaxString
    <3> QED BY <2>4, <3>1, <3>2, <3>3, <3>4, <3>5, Zenon
  <2>7. l.acc = r.acc /\ l.nn = r.nn /\ l.str = r.str
    BY <1>4, <2>1, <2>2, <2>3, <2>6, Zenon
  <2> HIDE DEF l, r
  <2> QED BY <1>2, <2>7, SameSlot, Zenon DEF l, r, cd, ds
<1>8. CASE IsMinMax(ae) /\ ~OfStrings(ae)
  <2>1. /\ cd.acc = Better(ae, d.acc, c.acc) /\ cd.nn = c.nn + d.nn /\ cd.str = c.str
        /\ ds.acc = Better(ae, s.acc, d.acc) /\ ds.nn = d.nn + s.nn /\ ds.str = d.str
    BY <1>8, OfNumber DEF cd, ds
  <2>2. l.acc = Better(ae, s.acc, cd.acc) /\ l.nn = cd.nn + s.nn /\ l.str = cd.str
    BY <1>1, <1>8, OfNumber
  <2>3. r.acc = Better(ae, ds.acc, c.acc) /\ r.nn = c.nn + ds.nn /\ r.str = c.str
    BY <1>1, <1>8, OfNumber
  <2>4. Better(ae, s.acc, Better(ae, d.acc, c.acc)) = Better(ae, Better(ae, s.acc, d.acc), c.acc)
    BY <1>3, BetterLaws
  <2>5. l.acc = r.acc /\ l.nn = r.nn /\ l.str = r.str
    BY <1>4, <2>1, <2>2, <2>3, <2>4, Zenon
  <2> HIDE DEF l, r
  <2> QED BY <1>2, <2>5, SameSlot, Zenon DEF l, r, cd, ds
<1> QED BY <1>5, <1>6, <1>7, <1>8, Kinds

(* A fact that holds before the first turn of a loop of n turns and that   *)
(* every turn keeps holds after each of them.                              *)
LEMMA EveryTurn ==
  ASSUME NEW n \in Nat, NEW T, 0 \in T, \A i \in 1..n : i - 1 \in T => i \in T
  PROVE  \A i \in 0..n : i \in T
<1> DEFINE S == {i \in 0..n : i \notin T}
<1> SUFFICES ASSUME S # {} PROVE FALSE
  BY Zenon
<1>1. S \in SUBSET Nat
  OBVIOUS
<1>2. PICK x \in S : \A y \in S : ~(<<y, x>> \in OpToRel(<, Nat))
  BY <1>1, NatLessThanWellFounded, WFMin, Zenon
<1>3. \A y \in S : ~(y < x)
  BY <1>1, <1>2, Zenon DEF OpToRel
<1>4. x \in 1..n /\ x - 1 \in 0..n /\ x - 1 < x
  <2>1. x \in 0..n /\ x \notin T
    OBVIOUS
  <2>2. x # 0
    BY <2>1, Zenon
  <2> QED BY ONLY <2>1, <2>2, n \in Nat
<1>5. x - 1 \in T
  BY <1>3, <1>4, Zenon
<1> QED BY <1>4, <1>5, Zenon

(* f holds the slots foldRow goes through over the values vs. *)
IsFold(ae, f, n, vs) ==
  f \in [0..n -> Slot] /\ \A i \in 1..n : f[i] = FoldSlot(ae, f[i - 1], vs[i])

(* The parallel aggregate is the serial one: merging the partial a worker  *)
(* folded from its rows, however many, gives what folding those rows one   *)
(* by one into the merged slot would have given.                           *)
THEOREM PartialsMerge ==
  ASSUME NEW ae \in Aggregate, NEW n \in Nat, NEW vs \in [1..n -> Value(ae)],
         NEW f, IsFold(ae, f, n, vs), f[0] = NewSlot(ae),
         NEW g, IsFold(ae, g, n, vs), Reached(ae, g[0])
  PROVE  \A i \in 0..n : MergeSlot(ae, g[0], f[i]) = g[i]
<1> DEFINE d == g[0]
           T == {i \in 0..n : MergeSlot(ae, d, f[i]) = g[i]}
<1>1. 0 \in T
  <2>1. MergeSlot(ae, d, f[0]) = d
    BY MergeNothing, Zenon
  <2>2. 0 \in 0..n
    OBVIOUS
  <2> QED BY <2>1, <2>2, Zenon
<1>2. ASSUME NEW i \in 1..n, i - 1 \in T PROVE i \in T
  <2>1. i \in 0..n /\ i - 1 \in 0..n /\ 0 \in 0..n
    OBVIOUS
  <2>2. f[i - 1] \in Slot /\ d \in Slot
    BY <2>1, Zenon DEF IsFold
  <2>3. vs[i] \in Int \union {Null}
    <3>1. vs[i] \in Value(ae)
      BY Zenon
    <3>2. MinInt..MaxInt \subseteq Int
      BY WidthAssumption DEF MinInt
    <3> QED BY <3>1, <3>2, Zenon DEF Value
  <2>4. f[i] = FoldSlot(ae, f[i - 1], vs[i]) /\ g[i] = FoldSlot(ae, g[i - 1], vs[i])
    BY Zenon DEF IsFold
  <2>5. MergeSlot(ae, d, FoldSlot(ae, f[i - 1], vs[i])) = FoldSlot(ae, MergeSlot(ae, d, f[i - 1]), vs[i])
    BY <2>2, <2>3, MergeFold, Zenon
  <2>6. MergeSlot(ae, d, f[i - 1]) = g[i - 1]
    BY <1>2, Zenon
  <2>7. MergeSlot(ae, d, f[i]) = g[i]
    BY <2>4, <2>5, <2>6, Zenon
  <2> QED BY <2>1, <2>7, Zenon
<1>3. \A i \in 1..n : i - 1 \in T => i \in T
  BY <1>2, Zenon
<1> HIDE DEF T
<1>4. \A i \in 0..n : i \in T
  BY <1>1, <1>3, EveryTurn, Zenon
<1> QED BY <1>4, Zenon DEF T
=============================================================================
