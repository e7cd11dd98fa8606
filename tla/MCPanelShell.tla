---------------------------- MODULE MCPanelShell ---------------------------
(* Instances of PanelShell for TLC. *)
EXTENDS PanelShell, TLC

CONSTANTS t1, t2

TwoTenants == {t1, t2}

(* A platform owner, with or without a second factor that is missing; one  *)
(* who belongs to a tenant and carries the permanent claim; a member whose *)
(* token names a tenant.                                                   *)
Users ==
    [roles : {{"platform_owner"}}, claim : {FALSE}, tenant : {NoTenant}, mfa : BOOLEAN]
        \cup [roles : {{"platform_owner"}}, claim : {TRUE}, tenant : TwoTenants, mfa : {FALSE}]
        \cup [roles : {{"admin"}}, claim : {FALSE}, tenant : TwoTenants, mfa : {FALSE}]

(* Nothing tells the tenants apart. *)
Symmetry == Permutations(TwoTenants)

NoneOrManager == {{}, {"manager"}}
FleetAndDlq == {"platform-fleet", "platform-fleet-dlq"}
=============================================================================
