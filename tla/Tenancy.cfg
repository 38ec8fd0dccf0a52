SPECIFICATION Spec
CONSTANTS
    Users = {u1, u2}
    Slots = {s1, s2}
    Invitations = {i1}
    Workloads <- MCWorkloads
SYMMETRY Swaps
INVARIANTS
    OrgGatesAgree
    CleanupSparesTheLiving
    InvitationUsedOnce
PROPERTIES
    LastOwnerGoesByStaleCount
    
CHECK_DEADLOCK FALSE
