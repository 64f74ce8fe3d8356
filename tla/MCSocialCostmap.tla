-------------------------- MODULE MCSocialCostmap --------------------------
(***************************************************************************)
(* Instances of SocialCostmap for TLC: people whose personal space asks    *)
(* more of the cell ahead of them than of the one behind.                  *)
(***************************************************************************)
EXTENDS SocialCostmap

\* One cell is about a metre: the front, side and rear sigmas make the cost
\* of a cell behind a person a fifth of the one in front; 2 % is skipped
OneCell == [d \in -1..1 |-> CASE d = -1 -> 13 [] d = 0 -> 100 [] d = 1 -> 60]

\* Somebody in the middle or outside the window, two people at once, nobody,
\* and somebody without a position
MCCrowds ==
    {{},
     {[at |-> 1, heading |-> 1, finite |-> TRUE]},
     {[at |-> 6, heading |-> -1, finite |-> TRUE]},
     {[at |-> 1, heading |-> 1, finite |-> TRUE],
      [at |-> 3, heading |-> 1, finite |-> FALSE]},
     {[at |-> 2, heading |-> -1, finite |-> TRUE],
      [at |-> 3, heading |-> 1, finite |-> TRUE]}}

\* A zone that every window overlaps, its corners in the wrong order
ZoneInside == {<<3, 2>>}
=============================================================================
