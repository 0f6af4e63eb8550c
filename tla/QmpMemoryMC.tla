---------------------------- MODULE QmpMemoryMC ----------------------------
(* QmpMemory on a small instance for TLC: two low addresses, a pointer and  *)
(* a camera, and two high ones, the game state and the game time in it.     *)
(* Camera and game state are copied, the game time as part of the latter,   *)
(* as populate_cache does.                                                  *)
EXTENDS QmpMemory

CONSTANTS pointer, camera, state, time
LowAddresses == {pointer, camera}
HighAddresses == {state, time}
Segments == [s \in {state, camera} |-> IF s = state THEN {state, time} ELSE {camera}]
=============================================================================
