------------------------------ MODULE MCHandoff ------------------------------
(* One order, two signers, two pins two apart, devices with and without a   *)
(* fix; the drop is at 0.                                                   *)
EXTENDS Handoff

CONSTANTS s1, s2

Fixes(v, p, d) == [venue |-> v, pickup |-> p, dropoff |-> d]
SomeDevices == {Fixes(NoFix, NoFix, NoFix), Fixes(2, 1, 1), Fixes(NoFix, 3, 9)}
SomeClocks == {[venue |-> 1, driver |-> 0], [venue |-> 0, driver |-> 1]}
FirstParams == [maxAge |-> 0, skew |-> 1, pickup |-> 1, dropoff |-> 1]
SomeParams == {FirstParams, [maxAge |-> 0, skew |-> 1, pickup |-> 2, dropoff |-> 0]}

MCInit == Init /\ venue = [signer |-> s1, pin |-> 2] /\ geo = FirstParams
MCSpec == MCInit /\ [][Next]_vars /\ ProgramFairness /\ PeopleFairness
=============================================================================
