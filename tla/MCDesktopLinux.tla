--------------------------- MODULE MCDesktopLinux ---------------------------
(* The Linux plan for one default route (network.linuxPlan): 1 create tun0,  *)
(* 2 its address, 3 its link, 4 delete the default route, 5 the route into  *)
(* tun0, 6 the primary route, 7 and 8 the rp_filter values. Deleting tun0   *)
(* takes its address, link state and route with it; a link that goes down   *)
(* takes its routes.                                                       *)
EXTENDS DesktopClient

LinuxLivesOn == [i \in 1..8 |-> CASE i = 1 -> {2, 3, 5} [] i = 3 -> {5} [] OTHER -> {}]

NoSetting == {}

=============================================================================
