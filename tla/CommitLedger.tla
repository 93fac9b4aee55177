---------------------------- MODULE CommitLedger ----------------------------
(***************************************************************************)
(* What the runtime promises about phase commits, seen from outside: for   *)
(* each phase, the generation that committed, or 0.  A phase commits at    *)
(* most once, one phase at a time, after everything it depends on, and no  *)
(* crash, restart, retry or recovery takes a commit back.                  *)
(***************************************************************************)
EXTENDS Naturals

CONSTANTS Phases, Deps

VARIABLE ledger

Init == ledger = [p \in Phases |-> 0]

\* Some generation of p commits.
CommitPhase(p) ==
  /\ ledger[p] = 0
  /\ \A q \in Deps[p] : ledger[q] # 0
  /\ ledger'[p] \in Nat \ {0}
  /\ ledger' = [ledger EXCEPT ![p] = ledger'[p]]

Next == \E p \in Phases : CommitPhase(p)

Spec == Init /\ [][Next]_ledger
=============================================================================
