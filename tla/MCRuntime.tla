------------------------------ MODULE MCRuntime ------------------------------
(* Instances of Runtime for TLC. *)
EXTENDS RuntimeProperties

CONSTANTS compile, link, t1, t2

\* A two-phase plan: link consumes what compile produced and yields the image.
MCPhases == {compile, link}
MCOrder  == <<compile, link>>
MCDeps   == [p \in MCPhases |-> IF p = link THEN {compile} ELSE {}]
MCImage  == {link}
=============================================================================
