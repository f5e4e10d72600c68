---------------------- MODULE MCWorkspaceMembership ----------------------
EXTENDS WorkspaceMembership

\* Two classes of one name from two namespaces, and a third class.
MCNameOf == [crm_Person |-> "Person", hr_Person |-> "Person", crm_Order |-> "Order"]
=============================================================================
