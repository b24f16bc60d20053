---------------------------- MODULE MCSectionScan ----------------------------
(* Two processes over a file of three row groups and two columns: the      *)
(* first of fixed-size blocks with a short last one, the second BOOL.      *)
EXTENDS SectionScan

MCSizes == << << <<2>>, <<2, 2, 1>>, <<2, 2>> >>,
              << <<2>>, <<2, 3, 2>>, <<2, 2>> >> >>

Damage(kind, g, c, k) == [kind |-> kind, g |-> g, c |-> c, k |-> k]

MCDamages ==
  {Damage("none", 0, 0, 0)}
    \union {Damage("crc", 2, c, k) : c \in 1..2, k \in 1..2}
    \union {Damage("runs", 2, 2, 1), Damage("rows", 2, 2, 3)}
    \union {Damage("short", 2, c, 0) : c \in 1..2}
    \union {Damage("stats", 1, 1, 0), Damage("stats", 2, 2, 0)}
=============================================================================
