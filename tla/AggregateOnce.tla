---------------------------- MODULE AggregateOnce ----------------------------
(***************************************************************************)
(* What an aggregate operator promises the caller that pulls it, whatever  *)
(* goroutines compute the answer: a pull may fail as long as there is no   *)
(* answer; the answer, once there is one, is made of every batch of the    *)
(* table exactly once and never changes; its rows are then returned, each  *)
(* once, followed by the end of the stream.                                *)
(***************************************************************************)
EXTENDS Naturals

CONSTANTS
  Batches,     \* the batches of the table
  ResultRows,  \* how many rows the answer has
  BlockRows    \* the most rows one pull returns

VARIABLES
  answers,  \* empty, or the one answer: how often it counts each batch
  ret,      \* what the last pull returned
  emitted   \* rows returned so far

vars == <<answers, ret, emitted>>

Init == answers = {} /\ ret = "none" /\ emitted = 0

\* A pull that fails leaves no answer behind; the next pull starts over.
Fail ==
  /\ answers = {}
  /\ ret' = "err"
  /\ UNCHANGED <<answers, emitted>>

Decide ==
  /\ answers = {}
  /\ answers' = {[b \in Batches |-> 1]}
  /\ UNCHANGED <<ret, emitted>>

Emit ==
  /\ answers # {}
  /\ \E n \in 1 .. BlockRows : emitted' = emitted + n
  /\ emitted' <= ResultRows
  /\ ret' = "rows"
  /\ UNCHANGED answers

End ==
  /\ answers # {}
  /\ emitted = ResultRows
  /\ ret' = "eof"
  /\ UNCHANGED <<answers, emitted>>

Next == Fail \/ Decide \/ Emit \/ End

Spec == Init /\ [][Next]_vars
=============================================================================
