----------------------------- MODULE MCGateway -----------------------------
(***************************************************************************)
(* A small instance of Gateway: two chats and a stream of two tenants, two *)
(* backends, and fewer leases than requests.                               *)
(***************************************************************************)
EXTENDS Gateway, TLC

CONSTANTS chat1, chat2, stream, big, small, tenantA, tenantB

MCTenantOf == [r \in Requests |-> IF r = chat1 THEN tenantA ELSE tenantB]

MCCapacity == [b \in Backends |-> IF b = big THEN 2 ELSE 1]
============================================================================
