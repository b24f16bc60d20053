----------------------------- MODULE MCJoinTable -----------------------------
(***************************************************************************)
(* JoinTable for TLC, with the table's minimum scaled down to four slots.  *)
(* Three of the five keys start at the last slot of the smallest table, so *)
(* probing wraps around; two of them still collide after growth.           *)
(***************************************************************************)
EXTENDS JoinTable

MCHash == [k \in Keys |-> <<31, 30, 25, 2, 16>>[k]]
=============================================================================
