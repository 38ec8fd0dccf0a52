----------------------------- MODULE MCGateway -----------------------------
EXTENDS Gateway

MCStandings ==
    {[role |-> "admin", granted |-> FALSE, suspended |-> FALSE],
     [role |-> "viewer", granted |-> FALSE, suspended |-> FALSE],
     [role |-> "viewer", granted |-> TRUE, suspended |-> FALSE],
     [role |-> "owner", granted |-> FALSE, suspended |-> TRUE]}

MCKeyedPaths == {<<"POST", "blobs">>}
=============================================================================
