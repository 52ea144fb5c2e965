------------------------------- MODULE MCBoot -------------------------------
(***************************************************************************)
(* Boot.tla for TLC: two places on the bus.  The registers begin in the    *)
(* first, second and last GiB, at 2 GiB exactly and in the last 4 MiB.     *)
(* Drives are at one port or at several, next to each other or as far      *)
(* apart as can be, at all ports, or at none.                              *)
(***************************************************************************)
EXTENDS Boot

MCBars == {1044480, 1048580, 2097152, 4173764, 4190208}

Drives == {{}, {0}, {31}, {0, 1}, {0, 31}, {3, 4, 16}, {15, 16, 17, 27}, 0 .. 31}

\* All ports without a drive are absent, or they are all kinds in turn.
Absent(p) == "absent"
Mixed(p)  == <<"other", "absent", "none">>[1 + (p % 3)]

Filled(D, Rest(_)) == [p \in 0 .. 31 |-> IF p \in D THEN "sata" ELSE Rest(p)]

MCPortKinds ==
  {Filled(D, Absent) : D \in Drives} \cup {Filled(D, Mixed) : D \in Drives}
=============================================================================
