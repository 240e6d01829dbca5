--------------------------- MODULE MCApsRequests ---------------------------
(* Small instances of ApsRequests.                                         *)
EXTENDS ApsRequests, TLC

\* Ids are only compared.
Symmetry == Permutations(Ids)

\* BusyPerNode does not read told, and nothing else does.
WithoutTold == <<queue, qaps, cmds, air, online, otau, grouped>>
============================================================================
