---------------------------- MODULE MCNameServer ----------------------------
(* Instances of NameServer for TLC. *)
EXTENDS NameServer, TLC

CONSTANTS m, g, HB

\* The IOCs are interchangeable.  Used with safety properties only.
Symmetry == Permutations(Iocs)

\* An IOC's file holds the name m, or not, or has no heartbeat.
MovingLists == {{HB}, {HB, m}, {m}}

\* Files that list no name, with a heartbeat or without.
BareLists == {{HB}, {}}

\* Files that all have a heartbeat.
GoodLists == {{HB}, {HB, m}}

==============================================================================
