---------------------------- MODULE MCSupervisor ----------------------------
(* Programmed starts for the instances of Supervisor that TLC checks.      *)
EXTENDS Supervisor

DirectMatch == [mode : {"direct_k1", "to_delta"}, time : {0, 1, 3}]

=============================================================================
