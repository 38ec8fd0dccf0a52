----------------------------- MODULE MCTenancy -----------------------------
EXTENDS Tenancy, TLC

OrgOps == DOMAIN OrgMoves

MCWorkloads ==
    {OrgOps \cup {"add", "role", "remove"},
     OrgOps \cup DOMAIN ProjectMoves \cup {"createProject"},
     {"delete", "add", "remove", "invite", "accept"}}

Swaps == Permutations(Users) \cup Permutations(Slots)
         \cup Permutations(Invitations)
=============================================================================
