----------------------------- MODULE SharedData -----------------------------
(***************************************************************************)
(* What reference counting is for: holders share pieces of data, and a     *)
(* piece is there exactly as long as somebody holds it.  Nobody comes by a *)
(* piece but by creating it or from another holder.                        *)
(***************************************************************************)
CONSTANTS Holders, Objects, nullptr

VARIABLES
  holds,  \* what each holder holds, if anything
  live    \* the pieces that exist

vars == <<holds, live>>

Held(h) == {h[n] : n \in Holders} \ {nullptr}

Init ==
  /\ holds = [n \in Holders |-> nullptr]
  /\ live = {}

\* A holder gets a new piece.
Create ==
  /\ \E n \in Holders, o \in Objects \ live : holds' = [holds EXCEPT ![n] = o]
  /\ live' = Held(holds')

\* Holders drop what they hold or take what another one holds.
Share ==
  /\ holds' \in [Holders -> {holds[n] : n \in Holders} \cup {nullptr}]
  /\ live' = Held(holds')

Next == Create \/ Share

Spec == Init /\ [][Next]_vars

=============================================================================
