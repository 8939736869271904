----------------------------- MODULE MCCompanion ----------------------------
(* An instance of Companion for TLC.                                        *)
EXTENDS Companion

CONSTANTS s1, s2

\* One session with overlapping calls, two without.
Sessions == [o \in BOOLEAN |-> IF o THEN {s1} ELSE {s1, s2}]

Changes == [o \in BOOLEAN |-> IF o THEN 1 ELSE 4]
=============================================================================
