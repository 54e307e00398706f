---------------------------- MODULE MCAdmission ----------------------------
(***************************************************************************)
(* Small instances of Admission: three tenants, of which A and B have more *)
(* requests than their limit.  With two slots and one per tenant, a tenant *)
(* can be saturated while a slot is free, and the slots can be taken while *)
(* a tenant is below its limit.                                            *)
(***************************************************************************)
EXTENDS Admission

CONSTANTS a1, a2, b1, b2, c1, tenantA, tenantB, tenantC

MCTenants == {tenantA, tenantB, tenantC}

MCTenantOf ==
    [r \in Requests |->
        CASE r \in {a1, a2} -> tenantA
          [] r \in {b1, b2} -> tenantB
          [] OTHER -> tenantC]
============================================================================
