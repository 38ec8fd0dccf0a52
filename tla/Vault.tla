------------------------------- MODULE Vault -------------------------------
(***************************************************************************)
(* The on-chain renewal vault, contracts/sources/vault.move: the shared    *)
(* FeeConfig, the RenewalVault objects, the custody of Walrus blobs and    *)
(* the WAL that flows through a vault.                                     *)
(*                                                                         *)
(* A Move transaction is atomic and an abort undoes all of it, so every    *)
(* entry function is one action, its asserts are the guard, and a call     *)
(* that aborts is a step that does not happen.  u64 and u32 arithmetic     *)
(* aborts on overflow: the guards bound every sum and product the code     *)
(* computes by U64Max or U32Max.                                           *)
(***************************************************************************)
EXTENDS Integers

CONSTANTS
    Addr,          \* account addresses (beneficiaries, operators, treasuries)
    Zero,          \* the address @0x0
    VaultId,       \* object ids a RenewalVault may be created with
    BlobId,        \* Walrus Blob objects
    NoBlob,        \* Option<Blob> none
    NoCap,         \* max_total_epochs none
    U64Max,        \* largest u64
    U32Max,        \* largest u32
    MaxEpoch,      \* bound: last epoch the model reaches
    MaxInflow,     \* bound: WAL ever deposited into one vault
    Amounts,       \* coin values handed to create_vault, deposit, withdraw
    Thresholds,    \* renew_threshold_epochs arguments
    RenewBys,      \* renew_by_epochs arguments
    Caps,          \* max_total_epochs arguments (NoCap for none)
    FeeBps,        \* set_protocol_fee_bps arguments
    KeeperFees,    \* set_keeper_fee arguments
    Prices,        \* set_storage_price arguments
    BlobEnds,      \* end epochs of blobs before they enter a vault
    WalrusPrices,  \* external: what Walrus charges per epoch of extension
    WalrusAhead    \* external: how many epochs ahead Walrus sells storage

ASSUME AmountsAssumption ==
    /\ Amounts \subseteq Nat /\ Thresholds \subseteq Nat /\ RenewBys \subseteq Nat
    /\ KeeperFees \subseteq Nat /\ Prices \subseteq Nat /\ FeeBps \subseteq Nat
    /\ BlobEnds \subseteq Nat /\ WalrusPrices \subseteq Nat
    /\ Caps \subseteq Nat \cup {NoCap}

ASSUME BoundsAssumption ==
    /\ U64Max \in Nat /\ U32Max \in Nat /\ WalrusAhead \in Nat
    /\ MaxEpoch \in Nat /\ MaxInflow \in Nat

ASSUME SentinelsAssumption ==
    /\ Zero \notin Addr /\ NoBlob \notin BlobId /\ NoCap \notin Nat

VARIABLES
    config,   \* the FeeConfig object
    pausers,  \* addresses that were handed a PauserCap
    vaults,   \* the RenewalVault of each id
    blobs,    \* end_epoch and owner of every Blob (owner Zero: inside a vault)
    epoch,    \* the current epoch
    ledger    \* history: the WAL each vault took in and paid out, and why

vars == <<config, pausers, vaults, blobs, epoch, ledger>>

MAX_PROTOCOL_FEE_BPS == 10000

RenewalPolicy ==
    [threshold : Nat, renewBy : Nat, cap : Nat \cup {NoCap}, active : BOOLEAN]

RenewalVault ==
    [status : {"none", "live", "destroyed"}, beneficiary : Addr \cup {Zero},
     blob : BlobId \cup {NoBlob}, wal : Nat, policy : RenewalPolicy,
     renewals : Nat, fees : Nat]

FeeConfig ==
    [treasury : Addr \cup {Zero}, bps : Nat, keeperFee : Nat, paused : BOOLEAN,
     price : Nat]

Ledger ==
    [deposited : Nat, withdrawn : Nat, treasury : Nat, keeper : Nat,
     storage : Nat]

(* The vault objects that do not exist yet. *)
NoVault ==
    [status |-> "none", beneficiary |-> Zero, blob |-> NoBlob, wal |-> 0,
     policy |-> [threshold |-> 0, renewBy |-> 0, cap |-> NoCap, active |-> FALSE],
     renewals |-> 0, fees |-> 0]

EmptyLedger ==
    [deposited |-> 0, withdrawn |-> 0, treasury |-> 0, keeper |-> 0,
     storage |-> 0]

Live(v) == vaults[v].status = "live"

(* assert!(!config.paused, EPaused) *)
assert_not_paused == ~config.paused

(* External: coin::take aborts when the balance is smaller than the amount. *)
TakesAnything(v, amt) == TRUE  \* mutant: the balance is not checked

CanTake(v, amt) == amt <= vaults[v].wal

-----------------------------------------------------------------------------
(* Fee configuration.  AdminCap holders call these at any time.            *)

Init ==
    /\ config \in [treasury : {Zero}, bps : FeeBps, keeperFee : KeeperFees,
                   paused : {FALSE}, price : Prices]
    /\ config.bps <= MAX_PROTOCOL_FEE_BPS
    /\ pausers = {}
    /\ vaults = [v \in VaultId |-> NoVault]
    /\ blobs \in [BlobId -> [end : BlobEnds, owner : Addr]]
    /\ epoch = 0
    /\ ledger = [v \in VaultId |-> EmptyLedger]

set_treasury(a) ==
    /\ a # Zero
    /\ config' = [config EXCEPT !.treasury = a]
    /\ UNCHANGED <<pausers, vaults, blobs, epoch, ledger>>

set_protocol_fee_bps(b) ==
    /\ b <= MAX_PROTOCOL_FEE_BPS
    /\ config' = [config EXCEPT !.bps = b]
    /\ UNCHANGED <<pausers, vaults, blobs, epoch, ledger>>

set_keeper_fee(f) ==
    /\ config' = [config EXCEPT !.keeperFee = f]
    /\ UNCHANGED <<pausers, vaults, blobs, epoch, ledger>>

set_storage_price(p) ==
    /\ config' = [config EXCEPT !.price = p]
    /\ UNCHANGED <<pausers, vaults, blobs, epoch, ledger>>

create_pauser_cap(a) ==
    /\ pausers' = pausers \cup {a}
    /\ UNCHANGED <<config, vaults, blobs, epoch, ledger>>

emergency_pause(a) ==
    /\ a \in pausers
    /\ config' = [config EXCEPT !.paused = TRUE]
    /\ UNCHANGED <<pausers, vaults, blobs, epoch, ledger>>

emergency_unpause(a) ==
    /\ a \in pausers
    /\ config' = [config EXCEPT !.paused = FALSE]
    /\ UNCHANGED <<pausers, vaults, blobs, epoch, ledger>>

-----------------------------------------------------------------------------
(* Entry functions on one vault.                                           *)

create_vault(v, a, b, amt, t, r, c) ==
    /\ assert_not_paused
    /\ vaults[v].status = "none"
    /\ blobs[b].owner = a
    /\ amt <= MaxInflow /\ amt <= U64Max
    /\ vaults' = [vaults EXCEPT ![v] =
           [status |-> "live", beneficiary |-> a, blob |-> b, wal |-> amt,
            policy |-> [threshold |-> t, renewBy |-> r, cap |-> c, active |-> TRUE],
            renewals |-> 0, fees |-> 0]]
    /\ blobs' = [blobs EXCEPT ![b].owner = Zero]
    /\ ledger' = [ledger EXCEPT ![v].deposited = amt]
    /\ UNCHANGED <<config, pausers, epoch>>

deposit(v, amt) ==
    /\ assert_not_paused
    /\ Live(v)
    /\ vaults[v].wal + amt <= U64Max
    /\ ledger[v].deposited + amt <= MaxInflow
    /\ vaults' = [vaults EXCEPT ![v].wal = @ + amt]
    /\ ledger' = [ledger EXCEPT ![v].deposited = @ + amt]
    /\ UNCHANGED <<config, pausers, blobs, epoch>>

(* update_policy_fields only packs its arguments for update_policy. *)
update_policy(v, a, t, r, c, on) ==
    /\ assert_not_paused
    /\ Live(v)
    /\ a = vaults[v].beneficiary
    /\ vaults' = [vaults EXCEPT ![v].policy =
           [threshold |-> t, renewBy |-> r, cap |-> c, active |-> on]]
    /\ UNCHANGED <<config, pausers, blobs, epoch, ledger>>

withdraw(v, a, amt) ==
    /\ Live(v)
    /\ a = vaults[v].beneficiary
    /\ CanTake(v, amt)
    /\ vaults' = [vaults EXCEPT ![v].wal = @ - amt]
    /\ ledger' = [ledger EXCEPT ![v].withdrawn = @ + amt]
    /\ UNCHANGED <<config, pausers, blobs, epoch>>

reclaim_blob(v, a) ==
    /\ Live(v)
    /\ a = vaults[v].beneficiary
    /\ vaults[v].blob # NoBlob
    /\ vaults' = [vaults EXCEPT ![v].blob = NoBlob, ![v].policy.active = FALSE]
    /\ blobs' = [blobs EXCEPT ![vaults[v].blob].owner = a]
    /\ UNCHANGED <<config, pausers, epoch, ledger>>

(* The two EVaultNotEmpty asserts. *)
NoWalLeft(v) == vaults[v].wal = 0  \* mutant: the blob is not checked

VaultEmpty(v) == vaults[v].blob = NoBlob /\ vaults[v].wal = 0

destroy_vault(v, a) ==
    /\ Live(v)
    /\ a = vaults[v].beneficiary
    /\ VaultEmpty(v)
    /\ vaults' = [vaults EXCEPT ![v].status = "destroyed"]
    /\ UNCHANGED <<config, pausers, blobs, epoch, ledger>>

-----------------------------------------------------------------------------
(* execute_renewal.                                                        *)

estimate_renewal_cost(epochs, price) == epochs * price

(* The asserts of steps 0 to 2: not paused, active, in custody, due. *)
RenewalAnytime(v) ==  \* mutant: a vault need not be due
    assert_not_paused /\ Live(v) /\ vaults[v].policy.active /\ vaults[v].blob # NoBlob

RenewalDue(v) ==
    /\ assert_not_paused
    /\ Live(v)
    /\ vaults[v].policy.active
    /\ vaults[v].blob # NoBlob
    /\ epoch + vaults[v].policy.threshold <= U64Max
    /\ epoch + vaults[v].policy.threshold >= blobs[vaults[v].blob].end

(* The max_total_epochs cap of step 3. *)
Capped(p, end) == p.cap # NoCap /\ end + p.renewBy > p.cap

Exhausted(p, end) == Capped(p, end) /\ p.cap <= end

RenewUncapped(p, end) == p.renewBy  \* mutant: the cap only stops, never shortens

RenewEpochs(p, end) == IF Capped(p, end) THEN p.cap - end ELSE p.renewBy

(* What Walrus did not charge is joined back to the vault's balance. *)
LeftoverLost(est, cost) == 0  \* mutant: the payment coin is not returned

Leftover(est, cost) == est - cost

ProtocolFee(est) == (est * config.bps) \div 10000

(* External: system::extend_blob.  Walrus extends a blob that has not      *)
(* expired, at most WalrusAhead epochs ahead, if the payment covers it.    *)
WalrusExtends(b, n, cost, payment) ==
    /\ epoch < blobs[b].end
    /\ blobs[b].end + n <= epoch + WalrusAhead
    /\ cost <= payment

(* The cap is already reached: the transaction succeeds, deactivates the   *)
(* policy, emits PolicyExhausted and renews nothing.                       *)
execute_renewal_exhausted(v) ==
    LET p == vaults[v].policy
        end == blobs[vaults[v].blob].end
    IN  /\ RenewalDue(v)
        /\ end + p.renewBy <= U64Max
        /\ Exhausted(p, end)
        /\ vaults' = [vaults EXCEPT ![v].policy.active = FALSE]
        /\ UNCHANGED <<config, pausers, blobs, epoch, ledger>>

(* Steps 4 to 6: fees are taken from the vault, the blob is extended, what *)
(* Walrus did not charge goes back to the vault.                           *)
execute_renewal(v, price) ==
    LET p == vaults[v].policy
        b == vaults[v].blob
        n == RenewEpochs(p, blobs[b].end)
        est == estimate_renewal_cost(n, config.price)
        fee == ProtocolFee(est)
        needed == est + fee + config.keeperFee
        cost == n * price
    IN  /\ RenewalDue(v)
        /\ blobs[b].end + p.renewBy <= U64Max
        /\ ~Exhausted(p, blobs[b].end)
        /\ config.treasury # Zero
        /\ est * config.bps <= U64Max /\ needed <= U64Max
        /\ CanTake(v, needed)
        /\ n <= U32Max
        /\ WalrusExtends(b, n, cost, est)
        /\ vaults[v].fees + fee <= U64Max
        /\ vaults' = [vaults EXCEPT ![v].wal = (@ - needed) + Leftover(est, cost),
                                    ![v].renewals = @ + 1,
                                    ![v].fees = @ + fee]
        /\ blobs' = [blobs EXCEPT ![b].end = @ + n]
        /\ ledger' = [ledger EXCEPT ![v].treasury = @ + fee,
                                    ![v].keeper = @ + config.keeperFee,
                                    ![v].storage = @ + cost]
        /\ UNCHANGED <<config, pausers, epoch>>

(* External: the Sui and Walrus epoch advances. *)
AdvanceEpoch ==
    /\ epoch < MaxEpoch
    /\ epoch' = epoch + 1
    /\ UNCHANGED <<config, pausers, vaults, blobs, ledger>>

-----------------------------------------------------------------------------
Admin ==
    \/ \E a \in Addr : set_treasury(a)
    \/ \E b \in FeeBps : set_protocol_fee_bps(b)
    \/ \E f \in KeeperFees : set_keeper_fee(f)
    \/ \E p \in Prices : set_storage_price(p)

Operator ==
    \E a \in Addr : create_pauser_cap(a) \/ emergency_pause(a) \/ emergency_unpause(a)

Owner ==
    \E v \in VaultId, a \in Addr :
        \/ \E b \in BlobId, amt \in Amounts, t \in Thresholds, r \in RenewBys, c \in Caps :
              create_vault(v, a, b, amt, t, r, c)
        \/ \E t \in Thresholds, r \in RenewBys, c \in Caps, on \in BOOLEAN :
              update_policy(v, a, t, r, c, on)
        \/ \E amt \in Amounts : withdraw(v, a, amt)
        \/ reclaim_blob(v, a)
        \/ destroy_vault(v, a)

Anyone ==
    \E v \in VaultId :
        \/ \E amt \in Amounts : deposit(v, amt)
        \/ execute_renewal_exhausted(v)
        \/ \E price \in WalrusPrices : execute_renewal(v, price)

Next == Admin \/ Operator \/ Owner \/ Anyone \/ AdvanceEpoch

Spec == Init /\ [][Next]_vars

-----------------------------------------------------------------------------
(* Properties.                                                             *)

(* Balances never go negative and the protocol fee stays a percentage:     *)
(* every take, split and join of vault.move is covered by what is there.   *)
TypeOK ==
    /\ config \in FeeConfig
    /\ config.bps <= MAX_PROTOCOL_FEE_BPS
    /\ pausers \subseteq Addr
    /\ vaults \in [VaultId -> RenewalVault]
    /\ blobs \in [BlobId -> [end : Nat, owner : Addr \cup {Zero}]]
    /\ epoch \in Nat
    /\ ledger \in [VaultId -> Ledger]

(* Every MIST deposited into a vault is still in it, was withdrawn by the  *)
(* beneficiary, or went to the treasury, a keeper or Walrus; and the       *)
(* vault's own total_fees_paid counter agrees with what the treasury       *)
(* received.  It is about take/split/extend/join in execute_renewal.       *)
WalConserved ==
    \A v \in VaultId :
        /\ ledger[v].deposited =
             vaults[v].wal + ledger[v].withdrawn + ledger[v].treasury
                + ledger[v].keeper + ledger[v].storage
        /\ vaults[v].fees = ledger[v].treasury

(* The books and the object of an id no vault was created with are blank,  *)
(* and no vault took in more than the model's bound: what the proofs need  *)
(* beside the two invariants above.                                        *)
BlankUntilCreated ==
    \A v \in VaultId :
        /\ vaults[v].status = "none" => vaults[v] = NoVault /\ ledger[v] = EmptyLedger
        /\ ledger[v].deposited <= MaxInflow

(* A renewal respects the policy in force: the blob ends no later than     *)
(* max_total_epochs, and at most threshold + renew_by epochs from now,     *)
(* however many keepers execute the same due vault one after the other.    *)
RenewalWithinPolicy ==
    [][\A v \in VaultId :
         vaults'[v].renewals > vaults[v].renewals =>
             LET p == vaults[v].policy
                 end == blobs'[vaults[v].blob].end
             IN  /\ p.cap # NoCap => end <= p.cap
                 /\ end <= epoch + p.threshold + p.renewBy]_vars

(* Walrus refuses to extend a blob that has expired, so a renewal happens  *)
(* strictly before the end epoch: a policy with a zero threshold becomes   *)
(* due only when it is already too late and is never renewed.              *)
ZeroThresholdNeverRenews ==
    [][\A v \in VaultId :
         vaults[v].policy.threshold = 0 => vaults'[v].renewals <= vaults[v].renewals]_vars

(* The contract implements the abstract escrow: an account's money is its  *)
(* WAL balance, its item the blob in custody, and what it spent is what    *)
(* the treasury, the keepers and Walrus received.                          *)
Spent(v) == ledger[v].treasury + ledger[v].keeper + ledger[v].storage

E == INSTANCE Escrow WITH
        Account <- VaultId, Item <- BlobId, NoItem <- NoBlob, Money <- 0..MaxInflow,
        phase   <- [v \in VaultId |-> vaults[v].status],
        balance <- [v \in VaultId |-> vaults[v].wal],
        spent   <- [v \in VaultId |-> Spent(v)],
        item    <- [v \in VaultId |-> vaults[v].blob],
        free    <- {b \in BlobId : blobs[b].owner # Zero}

(* Every step of the contract is a step of the escrow or leaves it alone.  *)
ImplementsEscrow == E!ESpec
=============================================================================
