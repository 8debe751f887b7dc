-------------------------- MODULE MCDesktopWindows --------------------------
(* The Windows plan (network.windowsPlan): 1 address, 2 DNS server and       *)
(* 3 default route of the wintun adapter, which exists only while the       *)
(* engine holds it. Deleting the address takes the route on it with it.    *)
EXTENDS DesktopClient

WindowsLivesOn == [i \in 1..3 |-> IF i = 1 THEN {3} ELSE {}]

AllSettings == 1..3

=============================================================================
