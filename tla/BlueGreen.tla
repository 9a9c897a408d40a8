----------------------------- MODULE BlueGreen -----------------------------
(***************************************************************************)
(* What a blue-green update promises: a release becomes available only as  *)
(* a whole, the active one is never taken away, and the switch withdraws   *)
(* the active release first and then activates the newest available one.   *)
(* Nothing is said of files, links or directories.                         *)
(***************************************************************************)
EXTENDS Naturals

CONSTANT Releases   \* [core, sens]: a core and a sensor release together

VARIABLES
  active,   \* {} or the release that is active, as a set
  kept      \* the releases that are there as a whole

Init == active = {} /\ kept = {}

Finish(r) ==
  /\ kept' = kept \cup {r}
  /\ UNCHANGED active

Discard(r) ==
  /\ r \notin active
  /\ kept' = kept \ {r}
  /\ UNCHANGED active

Withdraw ==
  /\ active' = {}
  /\ UNCHANGED kept

Switch(r) ==
  /\ active = {}
  /\ r \in kept
  /\ \A q \in kept : q.core <= r.core
  /\ active' = {r}
  /\ UNCHANGED kept

Next == (\E r \in Releases : Finish(r) \/ Discard(r) \/ Switch(r)) \/ Withdraw

Spec == Init /\ [][Next]_<<active, kept>>

=============================================================================
