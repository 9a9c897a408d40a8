--------------------------- MODULE ResourceLadder ---------------------------
(***************************************************************************)
(* What the goto ladder of evp_agent_thread promises: resources are taken  *)
(* in one order and given back in the reverse order, nothing is taken once *)
(* giving back has begun, and the thread is over only with none held.      *)
(***************************************************************************)
EXTENDS Naturals

CONSTANT Depth    \* number of resources, taken in the order 1 .. Depth

VARIABLES
  level,   \* the set of the resources that are held
  phase    \* "up": taking, "down": giving back, "off": the thread is over

Init == level = {} /\ phase = "up"

Acquire(i) ==
  /\ phase = "up"
  /\ level = 1 .. (i - 1)
  /\ level' = 1 .. i
  /\ UNCHANGED phase

TurnBack ==
  /\ phase = "up"
  /\ phase' = "down"
  /\ UNCHANGED level

Release(i) ==
  /\ phase = "down"
  /\ level = 1 .. i
  /\ level' = 1 .. (i - 1)
  /\ UNCHANGED phase

Finish ==
  /\ phase # "off"
  /\ level = {}
  /\ phase' = "off"
  /\ UNCHANGED level

Next == (\E i \in 1 .. Depth : Acquire(i) \/ Release(i)) \/ TurnBack \/ Finish

Spec == Init /\ [][Next]_<<level, phase>>

=============================================================================
