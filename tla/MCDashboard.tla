----------------------------- MODULE MCDashboard ------------------------------
(* Two of the three rules tell the first of them from the others.          *)
EXTENDS Dashboard

TwoRules == <<"VettaiyanIsolation_In", "VettaiyanIsolation_Mgmt">>

=============================================================================
