--------------------------- MODULE MCSprotoPack ----------------------------
(* Instances of SprotoPack for TLC.                                        *)
EXTENDS SprotoPack

CONSTANTS MaxGroups, Filled, LastLengths

(* Every byte that is not 0 is named by its place; a group has its first   *)
(* bytes filled.                                                           *)
Packable(filled, length) ==
  [p \in 1 .. length |-> IF (p - 1) % 8 < filled[((p - 1) \div 8) + 1] THEN p ELSE 0]

MCSources ==
  UNION {{Packable(filled, 8 * (n - 1) + last) : filled \in [1 .. n -> Filled], last \in LastLengths} :
           n \in 1 .. MaxGroups}
=============================================================================
