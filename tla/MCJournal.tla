----------------------------- MODULE MCJournal -----------------------------
(* Two sessions; one bundle of the first is too long a text to decode. *)
EXTENDS Journal

MCBundles ==
  {[session |-> 1, size |-> 1, decodes |-> TRUE],
   [session |-> 1, size |-> 2, decodes |-> FALSE],
   [session |-> 2, size |-> 3, decodes |-> TRUE]}
=============================================================================
