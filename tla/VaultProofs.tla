---------------------------- MODULE VaultProofs ----------------------------
(***************************************************************************)
(* Proofs about the vault contract, for every set of addresses, vaults and *)
(* blobs and every price, fee, cap and bound.                              *)
(***************************************************************************)
EXTENDS Vault, TLAPS

USE AmountsAssumption, BoundsAssumption, SentinelsAssumption

(* The protocol fee taken in execute_renewal is a natural number. *)
LEMMA FeeIsNat ==
    ASSUME NEW x \in Nat, NEW y \in Nat
    PROVE  (x * y) \div 10000 \in Nat
  <1>1. x * y \in Nat
    OBVIOUS
  <1> QED BY <1>1

(* The number of epochs a renewal buys is a natural number unless the      *)
(* policy is exhausted.                                                    *)
LEMMA RenewEpochsIsNat ==
    ASSUME NEW p \in RenewalPolicy, NEW end \in Nat, ~Exhausted(p, end)
    PROVE  RenewEpochs(p, end) \in Nat
  BY DEF RenewEpochs, Exhausted, Capped, RenewalPolicy

(* Every ledger entry and every vault that does not exist yet is typed. *)
LEMMA EmptyTypes == NoVault \in RenewalVault /\ EmptyLedger \in Ledger
  BY DEF NoVault, RenewalVault, RenewalPolicy, EmptyLedger, Ledger

(* The init function of the module creates well-typed state. *)
LEMMA InitType == Init => TypeOK
  <1> SUFFICES ASSUME Init PROVE TypeOK
    OBVIOUS
  <1>1. config \in FeeConfig /\ config.bps <= MAX_PROTOCOL_FEE_BPS
    BY DEF Init, FeeConfig
  <1>2. blobs \in [BlobId -> [end : Nat, owner : Addr \cup {Zero}]]
    BY DEF Init
  <1>3. vaults \in [VaultId -> RenewalVault] /\ ledger \in [VaultId -> Ledger]
    BY EmptyTypes DEF Init
  <1> QED BY <1>1, <1>2, <1>3 DEF Init, TypeOK

(* What a renewal does, with its amounts named: the vault pays fee,        *)
(* keeperFee and cost, which its balance covers, and the blob it holds is  *)
(* extended by n epochs.                                                   *)
RenewalStep(v, n, fee, cost) ==
    /\ vaults[v].blob \in BlobId /\ vaults[v].status = "live"
    /\ n = RenewEpochs(vaults[v].policy, blobs[vaults[v].blob].end)
    /\ fee + config.keeperFee + cost <= vaults[v].wal
    /\ vaults' = [vaults EXCEPT
           ![v].wal = vaults[v].wal - (fee + config.keeperFee + cost),
           ![v].renewals = vaults[v].renewals + 1,
           ![v].fees = vaults[v].fees + fee]
    /\ blobs' = [blobs EXCEPT ![vaults[v].blob].end = blobs[vaults[v].blob].end + n]
    /\ ledger' = [ledger EXCEPT ![v].treasury = ledger[v].treasury + fee,
                                ![v].keeper = ledger[v].keeper + config.keeperFee,
                                ![v].storage = ledger[v].storage + cost]

(* Every successful execute_renewal is such a step, with amounts that are  *)
(* natural numbers.                                                        *)
LEMMA RenewalEffect ==
    ASSUME TypeOK, NEW v \in VaultId, NEW price \in WalrusPrices, execute_renewal(v, price)
    PROVE  \E n, fee, cost \in Nat :
               RenewalStep(v, n, fee, cost) /\ UNCHANGED <<config, pausers, epoch>>
  <1> DEFINE p == vaults[v].policy
             b == vaults[v].blob
             n == RenewEpochs(p, blobs[b].end)
             est == estimate_renewal_cost(n, config.price)
             fee == ProtocolFee(est)
             cost == n * price
  <1>1. /\ b \in BlobId /\ Live(v) /\ ~Exhausted(p, blobs[b].end)
        /\ cost <= est
        /\ est + fee + config.keeperFee <= vaults[v].wal
        /\ vaults' = [vaults EXCEPT
               ![v].wal = (vaults[v].wal - (est + fee + config.keeperFee)) + (est - cost),
               ![v].renewals = vaults[v].renewals + 1,
               ![v].fees = vaults[v].fees + fee]
        /\ blobs' = [blobs EXCEPT ![b].end = blobs[b].end + n]
        /\ ledger' = [ledger EXCEPT ![v].treasury = ledger[v].treasury + fee,
                                    ![v].keeper = ledger[v].keeper + config.keeperFee,
                                    ![v].storage = ledger[v].storage + cost]
        /\ UNCHANGED <<config, pausers, epoch>>
    BY DEF execute_renewal, RenewalDue, WalrusExtends, CanTake, Leftover, TypeOK, RenewalVault
  <1>2. p \in RenewalPolicy /\ blobs[b].end \in Nat /\ vaults[v].wal \in Nat
    BY <1>1 DEF TypeOK, RenewalVault
  <1>3. config.price \in Nat /\ config.bps \in Nat /\ config.keeperFee \in Nat
    BY DEF TypeOK, FeeConfig
  <1>4. n \in Nat
    BY <1>1, <1>2, RenewEpochsIsNat
  <1> HIDE DEF n
  <1>5. est \in Nat /\ cost \in Nat
    BY <1>3, <1>4 DEF estimate_renewal_cost
  <1>6. fee \in Nat
    BY <1>3, <1>5, FeeIsNat DEF ProtocolFee
  <1> HIDE DEF est, fee, cost
  <1>7. /\ (vaults[v].wal - (est + fee + config.keeperFee)) + (est - cost)
             = vaults[v].wal - (fee + config.keeperFee + cost)
        /\ fee + config.keeperFee + cost <= vaults[v].wal
    BY <1>1, <1>2, <1>3, <1>5, <1>6
  <1>8. RenewalStep(v, n, fee, cost)
    BY <1>1, <1>7 DEF RenewalStep, Live, n
  <1> QED BY <1>1, <1>4, <1>5, <1>6, <1>8

(* Every administrative, owner, keeper and epoch step preserves the types. *)
LEMMA NextType == TypeOK /\ [Next]_vars => TypeOK'
  <1> SUFFICES ASSUME TypeOK, [Next]_vars PROVE TypeOK'
    OBVIOUS
  <1> USE DEF TypeOK
  <1>1. ASSUME Admin PROVE TypeOK'
    <2>1. UNCHANGED <<pausers, vaults, blobs, epoch, ledger>>
      BY <1>1 DEF Admin, set_treasury, set_protocol_fee_bps, set_keeper_fee, set_storage_price
    <2>2. (config \in FeeConfig /\ config.bps <= MAX_PROTOCOL_FEE_BPS)'
      BY <1>1 DEF Admin, set_treasury, set_protocol_fee_bps, set_keeper_fee,
                  set_storage_price, FeeConfig, MAX_PROTOCOL_FEE_BPS
    <2> QED BY <2>1, <2>2
  <1>2. ASSUME Operator PROVE TypeOK'
    <2>1. UNCHANGED <<vaults, blobs, epoch, ledger>>
      BY <1>2 DEF Operator, create_pauser_cap, emergency_pause, emergency_unpause
    <2>2. PICK a \in Addr : create_pauser_cap(a) \/ emergency_pause(a) \/ emergency_unpause(a)
      BY <1>2 DEF Operator
    <2>3. pausers' \subseteq Addr
      BY <2>2 DEF create_pauser_cap, emergency_pause, emergency_unpause
    <2>4. config' \in FeeConfig /\ config'.bps = config.bps
      BY <2>2 DEF create_pauser_cap, emergency_pause, emergency_unpause, FeeConfig
    <2> QED BY <2>1, <2>3, <2>4
  <1>3. ASSUME NEW v \in VaultId, NEW a \in Addr, NEW b \in BlobId, NEW amt \in Amounts,
               NEW t \in Thresholds, NEW r \in RenewBys, NEW c \in Caps,
               create_vault(v, a, b, amt, t, r, c)
        PROVE  TypeOK'
    <2>1. [status |-> "live", beneficiary |-> a, blob |-> b, wal |-> amt,
           policy |-> [threshold |-> t, renewBy |-> r, cap |-> c, active |-> TRUE],
           renewals |-> 0, fees |-> 0] \in RenewalVault
      BY DEF RenewalVault, RenewalPolicy
    <2>2. vaults' \in [VaultId -> RenewalVault]
      BY <1>3, <2>1 DEF create_vault
    <2>3. ledger' \in [VaultId -> Ledger]
      BY <1>3 DEF create_vault, Ledger
    <2>4. blobs' \in [BlobId -> [end : Nat, owner : Addr \cup {Zero}]]
      BY <1>3 DEF create_vault
    <2> QED BY <1>3, <2>2, <2>3, <2>4 DEF create_vault
  <1>4. ASSUME NEW v \in VaultId, NEW amt \in Amounts, deposit(v, amt) PROVE TypeOK'
    <2>1. vaults' \in [VaultId -> RenewalVault]
      BY <1>4 DEF deposit, RenewalVault
    <2>2. ledger' \in [VaultId -> Ledger]
      BY <1>4 DEF deposit, Ledger
    <2> QED BY <1>4, <2>1, <2>2 DEF deposit
  <1>5. ASSUME NEW v \in VaultId, NEW a \in Addr, NEW t \in Thresholds, NEW r \in RenewBys,
               NEW c \in Caps, NEW on \in BOOLEAN, update_policy(v, a, t, r, c, on)
        PROVE  TypeOK'
    <2>1. [threshold |-> t, renewBy |-> r, cap |-> c, active |-> on] \in RenewalPolicy
      BY DEF RenewalPolicy
    <2>2. vaults' \in [VaultId -> RenewalVault]
      BY <1>5, <2>1 DEF update_policy, RenewalVault
    <2> QED BY <1>5, <2>2 DEF update_policy
  <1>6. ASSUME NEW v \in VaultId, NEW a \in Addr, NEW amt \in Amounts, withdraw(v, a, amt)
        PROVE  TypeOK'
    <2>1. vaults[v] \in RenewalVault /\ vaults[v].wal - amt \in Nat
      BY <1>6 DEF withdraw, RenewalVault, CanTake
    <2>2. [vaults[v] EXCEPT !.wal = vaults[v].wal - amt] \in RenewalVault
      BY <2>1 DEF RenewalVault
    <2>3. vaults' \in [VaultId -> RenewalVault]
      BY <1>6, <2>2 DEF withdraw
    <2>4. ledger' \in [VaultId -> Ledger]
      BY <1>6 DEF withdraw, Ledger
    <2> QED BY <1>6, <2>3, <2>4 DEF withdraw
  <1>7. ASSUME NEW v \in VaultId, NEW a \in Addr, reclaim_blob(v, a) PROVE TypeOK'
    <2>1. vaults[v] \in RenewalVault /\ vaults[v].policy \in RenewalPolicy
      BY DEF RenewalVault
    <2>2. [vaults[v].policy EXCEPT !.active = FALSE] \in RenewalPolicy
      BY <2>1 DEF RenewalPolicy
    <2>3. [vaults[v] EXCEPT !.blob = NoBlob,
               !.policy = [vaults[v].policy EXCEPT !.active = FALSE]] \in RenewalVault
      BY <2>1, <2>2 DEF RenewalVault
    <2>4. vaults' \in [VaultId -> RenewalVault]
      BY <1>7, <2>3 DEF reclaim_blob, RenewalVault
    <2>5. blobs' \in [BlobId -> [end : Nat, owner : Addr \cup {Zero}]]
      BY <1>7 DEF reclaim_blob
    <2> QED BY <1>7, <2>4, <2>5 DEF reclaim_blob
  <1>8. ASSUME NEW v \in VaultId, NEW a \in Addr, destroy_vault(v, a) PROVE TypeOK'
    <2>1. [vaults[v] EXCEPT !.status = "destroyed"] \in RenewalVault
      BY DEF RenewalVault
    <2>2. vaults' \in [VaultId -> RenewalVault]
      BY <1>8, <2>1 DEF destroy_vault
    <2> QED BY <1>8, <2>2 DEF destroy_vault
  <1>9. ASSUME NEW v \in VaultId, execute_renewal_exhausted(v) PROVE TypeOK'
    <2>1. vaults[v] \in RenewalVault /\ vaults[v].policy \in RenewalPolicy
      BY DEF RenewalVault
    <2>2. [vaults[v].policy EXCEPT !.active = FALSE] \in RenewalPolicy
      BY <2>1 DEF RenewalPolicy
    <2>3. [vaults[v] EXCEPT !.policy = [vaults[v].policy EXCEPT !.active = FALSE]]
              \in RenewalVault
      BY <2>1, <2>2 DEF RenewalVault
    <2>4. vaults' \in [VaultId -> RenewalVault]
      BY <1>9, <2>3 DEF execute_renewal_exhausted, RenewalVault
    <2> QED BY <1>9, <2>4 DEF execute_renewal_exhausted
  <1>10. ASSUME NEW v \in VaultId, NEW price \in WalrusPrices, execute_renewal(v, price)
         PROVE  TypeOK'
    <2>1. PICK n \in Nat, fee \in Nat, cost \in Nat :
              RenewalStep(v, n, fee, cost) /\ UNCHANGED <<config, pausers, epoch>>
      BY <1>10, RenewalEffect
    <2>2. /\ vaults[v] \in RenewalVault /\ ledger[v] \in Ledger /\ config.keeperFee \in Nat
          /\ blobs[vaults[v].blob].end \in Nat
      BY <2>1 DEF RenewalStep, FeeConfig
    <2>3. vaults[v].wal - (fee + config.keeperFee + cost) \in Nat
      BY <2>1, <2>2 DEF RenewalStep, RenewalVault
    <2>4. vaults[v].renewals + 1 \in Nat /\ vaults[v].fees + fee \in Nat
      BY <2>2 DEF RenewalVault
    <2>5. [vaults[v] EXCEPT !.wal = vaults[v].wal - (fee + config.keeperFee + cost),
               !.renewals = vaults[v].renewals + 1,
               !.fees = vaults[v].fees + fee] \in RenewalVault
      BY <2>2, <2>3, <2>4 DEF RenewalVault
    <2>6. vaults' \in [VaultId -> RenewalVault]
      BY <2>1, <2>5 DEF RenewalStep
    <2>10. /\ ledger[v].treasury + fee \in Nat /\ ledger[v].storage + cost \in Nat
           /\ ledger[v].keeper + config.keeperFee \in Nat
      BY <2>2 DEF Ledger
    <2>7. [ledger[v] EXCEPT !.treasury = ledger[v].treasury + fee,
               !.keeper = ledger[v].keeper + config.keeperFee,
               !.storage = ledger[v].storage + cost] \in Ledger
      BY <2>2, <2>10 DEF Ledger
    <2>9. ledger' \in [VaultId -> Ledger]
      BY <2>1, <2>7 DEF RenewalStep
    <2>8. blobs' \in [BlobId -> [end : Nat, owner : Addr \cup {Zero}]]
      BY <2>1, <2>2 DEF RenewalStep
    <2> QED BY <2>1, <2>6, <2>8, <2>9
  <1>11. ASSUME AdvanceEpoch PROVE TypeOK'
    BY <1>11 DEF AdvanceEpoch
  <1>12. CASE UNCHANGED vars
    BY <1>12 DEF vars
  <1> QED
    BY <1>1, <1>2, <1>3, <1>4, <1>5, <1>6, <1>7, <1>8, <1>9, <1>10, <1>11, <1>12
       DEF Next, Owner, Anyone

(* Type correctness of the contract's state, for every value of the        *)
(* constants: in particular no u64 balance or counter ever goes negative.  *)
THEOREM TypeCorrect == Spec => []TypeOK
  <1>1. Init => TypeOK
    BY InitType
  <1>2. TypeOK /\ [Next]_vars => TypeOK'
    BY NextType
  <1> QED BY <1>1, <1>2, PTL DEF Spec

-----------------------------------------------------------------------------
(* Conservation of WAL.  WalConserved is not inductive alone: create_vault *)
(* writes the ledger of an id, which must be blank until then.             *)

(* The facts about balances and ledgers that arithmetic needs. *)
LEMMA BooksAreNat ==
    ASSUME TypeOK
    PROVE  \A v \in VaultId :
             /\ vaults[v].wal \in Nat /\ vaults[v].fees \in Nat
             /\ ledger[v].deposited \in Nat /\ ledger[v].withdrawn \in Nat
             /\ ledger[v].treasury \in Nat /\ ledger[v].keeper \in Nat
             /\ ledger[v].storage \in Nat
  BY DEF TypeOK, RenewalVault, Ledger

BooksInv == WalConserved /\ BlankUntilCreated

(* The same for one vault. *)
BooksOf(v) ==
    /\ ledger[v].deposited =
         vaults[v].wal + ledger[v].withdrawn + ledger[v].treasury
            + ledger[v].keeper + ledger[v].storage
    /\ vaults[v].fees = ledger[v].treasury
    /\ vaults[v].status = "none" => vaults[v] = NoVault /\ ledger[v] = EmptyLedger
    /\ ledger[v].deposited <= MaxInflow

(* A step that touches one vault only has to balance that one's books. *)
LEMMA OthersBooks ==
    ASSUME BooksInv, NEW v \in VaultId, BooksOf(v)',
           \A w \in VaultId \ {v} : vaults'[w] = vaults[w] /\ ledger'[w] = ledger[w]
    PROVE  BooksInv'
  BY DEF BooksInv, WalConserved, BlankUntilCreated, BooksOf

(* Init balances the books. *)
LEMMA InitBooks == Init => BooksInv
  BY DEF Init, BooksInv, WalConserved, BlankUntilCreated, NoVault, EmptyLedger

(* Every step keeps the books of every vault balanced. *)
LEMMA NextBooks == TypeOK /\ BooksInv /\ [Next]_vars => BooksInv'
  <1> SUFFICES ASSUME TypeOK, BooksInv, [Next]_vars PROVE BooksInv'
    OBVIOUS
  <1>a. vaults \in [VaultId -> RenewalVault] /\ ledger \in [VaultId -> Ledger]
    BY DEF TypeOK
  <1> USE DEF BooksInv, WalConserved, BlankUntilCreated
  <1>1. CASE Admin \/ Operator \/ AdvanceEpoch \/ UNCHANGED vars
    <2>1. UNCHANGED <<vaults, ledger>>
      BY <1>1 DEF Admin, Operator, AdvanceEpoch, set_treasury, set_protocol_fee_bps,
                  set_keeper_fee, set_storage_price, create_pauser_cap, emergency_pause,
                  emergency_unpause, vars
    <2> QED BY <2>1
  <1>2. ASSUME NEW v \in VaultId, NEW a \in Addr, NEW b \in BlobId, NEW amt \in Amounts,
               NEW t \in Thresholds, NEW r \in RenewBys, NEW c \in Caps,
               create_vault(v, a, b, amt, t, r, c)
        PROVE  BooksInv'
    <2>1. ledger[v] = EmptyLedger
      BY <1>2 DEF create_vault
    <2>2. /\ vaults'[v].wal = amt /\ vaults'[v].fees = 0 /\ vaults'[v].status = "live"
          /\ ledger'[v] = [EmptyLedger EXCEPT !.deposited = amt]
          /\ \A w \in VaultId \ {v} : vaults'[w] = vaults[w] /\ ledger'[w] = ledger[w]
      BY <1>2, <1>a, <2>1 DEF create_vault
    <2>3. amt <= MaxInflow
      BY <1>2 DEF create_vault
    <2> QED BY <2>2, <2>3 DEF EmptyLedger
  <1>3. ASSUME NEW v \in VaultId, NEW amt \in Amounts, deposit(v, amt) PROVE BooksInv'
    <2>1. /\ vaults'[v] = [vaults[v] EXCEPT !.wal = vaults[v].wal + amt]
          /\ ledger'[v] = [ledger[v] EXCEPT !.deposited = ledger[v].deposited + amt]
          /\ \A w \in VaultId \ {v} : vaults'[w] = vaults[w] /\ ledger'[w] = ledger[w]
          /\ vaults[v].status = "live" /\ ledger[v].deposited + amt <= MaxInflow
      BY <1>3, <1>a DEF deposit, Live
    <2>2. /\ vaults'[v].wal = vaults[v].wal + amt /\ vaults'[v].fees = vaults[v].fees
          /\ vaults'[v].status = "live"
          /\ ledger'[v].deposited = ledger[v].deposited + amt
          /\ ledger'[v].withdrawn = ledger[v].withdrawn
          /\ ledger'[v].treasury = ledger[v].treasury
          /\ ledger'[v].keeper = ledger[v].keeper
          /\ ledger'[v].storage = ledger[v].storage
      BY <2>1, <1>a DEF RenewalVault, Ledger
    <2>3. BooksOf(v)'
      BY <2>1, <2>2, BooksAreNat DEF BooksOf
    <2> QED BY <2>1, <2>3, OthersBooks
  <1>4. ASSUME NEW v \in VaultId, NEW a \in Addr, NEW amt \in Amounts, withdraw(v, a, amt)
        PROVE  BooksInv'
    <2>1. /\ vaults'[v] = [vaults[v] EXCEPT !.wal = vaults[v].wal - amt]
          /\ ledger'[v] = [ledger[v] EXCEPT !.withdrawn = ledger[v].withdrawn + amt]
          /\ \A w \in VaultId \ {v} : vaults'[w] = vaults[w] /\ ledger'[w] = ledger[w]
          /\ vaults[v].status = "live"
      BY <1>4, <1>a DEF withdraw, Live
    <2>2. /\ vaults'[v].wal = vaults[v].wal - amt /\ vaults'[v].fees = vaults[v].fees
          /\ vaults'[v].status = "live"
          /\ ledger'[v].deposited = ledger[v].deposited
          /\ ledger'[v].withdrawn = ledger[v].withdrawn + amt
          /\ ledger'[v].treasury = ledger[v].treasury
          /\ ledger'[v].keeper = ledger[v].keeper
          /\ ledger'[v].storage = ledger[v].storage
      BY <2>1, <1>a DEF RenewalVault, Ledger
    <2>3. BooksOf(v)'
      BY <2>1, <2>2, BooksAreNat DEF BooksOf
    <2> QED BY <2>1, <2>3, OthersBooks
  <1>5. ASSUME NEW v \in VaultId, NEW price \in WalrusPrices, execute_renewal(v, price)
        PROVE  BooksInv'
    <2>1. PICK n \in Nat, fee \in Nat, cost \in Nat : RenewalStep(v, n, fee, cost)
      BY <1>5, RenewalEffect
    <2>2. /\ \A w \in VaultId \ {v} : vaults'[w] = vaults[w] /\ ledger'[w] = ledger[w]
          /\ vaults[v].status = "live"
      BY <2>1, <1>a DEF RenewalStep
    <2>3. /\ vaults'[v].wal = vaults[v].wal - (fee + config.keeperFee + cost)
          /\ vaults'[v].fees = vaults[v].fees + fee /\ vaults'[v].status = "live"
          /\ ledger'[v].deposited = ledger[v].deposited
          /\ ledger'[v].withdrawn = ledger[v].withdrawn
          /\ ledger'[v].treasury = ledger[v].treasury + fee
          /\ ledger'[v].keeper = ledger[v].keeper + config.keeperFee
          /\ ledger'[v].storage = ledger[v].storage + cost
      BY <2>1, <1>a DEF RenewalStep, RenewalVault, Ledger
    <2>4. config.keeperFee \in Nat
      BY DEF TypeOK, FeeConfig
    <2>5. BooksOf(v)'
      BY <2>2, <2>3, <2>4, BooksAreNat DEF BooksOf
    <2> QED BY <2>2, <2>5, OthersBooks
  <1>6. ASSUME ledger' = ledger,
               \A w \in VaultId :
                  /\ vaults'[w].wal = vaults[w].wal /\ vaults'[w].fees = vaults[w].fees
                  /\ vaults'[w].status = "none" => vaults'[w] = vaults[w]
        PROVE  BooksInv'
    BY <1>6
  <1>7. ASSUME NEW v \in VaultId, NEW a \in Addr, NEW t \in Thresholds, NEW r \in RenewBys,
               NEW c \in Caps, NEW on \in BOOLEAN, update_policy(v, a, t, r, c, on)
        PROVE  BooksInv'
    BY <1>6, <1>7, <1>a DEF update_policy, Live, RenewalVault
  <1>8. ASSUME NEW v \in VaultId, NEW a \in Addr, reclaim_blob(v, a) PROVE BooksInv'
    BY <1>6, <1>8, <1>a DEF reclaim_blob, Live, RenewalVault
  <1>9. ASSUME NEW v \in VaultId, NEW a \in Addr, destroy_vault(v, a) PROVE BooksInv'
    BY <1>6, <1>9, <1>a DEF destroy_vault, Live, RenewalVault
  <1>10. ASSUME NEW v \in VaultId, execute_renewal_exhausted(v) PROVE BooksInv'
    BY <1>6, <1>10, <1>a DEF execute_renewal_exhausted, RenewalDue, Live, RenewalVault
  <1> QED
    BY <1>1, <1>2, <1>3, <1>4, <1>5, <1>7, <1>8, <1>9, <1>10 DEF Next, Owner, Anyone

(* Types and books hold together: what the remaining proofs start from. *)
LEMMA BooksAlways == Spec => [](TypeOK /\ BooksInv)
  <1>1. Init => TypeOK /\ BooksInv
    BY InitType, InitBooks
  <1>2. TypeOK /\ BooksInv /\ [Next]_vars => (TypeOK /\ BooksInv)'
    BY NextType, NextBooks
  <1> QED BY <1>1, <1>2, PTL DEF Spec

(* WAL is conserved vault by vault: what came in is in the vault, with the *)
(* beneficiary, the treasury, the keepers or Walrus, and total_fees_paid   *)
(* is exactly what the treasury received from the vault.                   *)
THEOREM Conservation == Spec => []WalConserved
  <1>1. BooksInv => WalConserved
    BY DEF BooksInv
  <1> QED BY <1>1, BooksAlways, PTL

-----------------------------------------------------------------------------
(* What a renewal may do.  Both action properties are about the one step   *)
(* that raises renewals, so they share the lemma that there is only one.   *)

(* The vaults a step other than a renewal leaves their count of renewals. *)
SameRenewals == \A v \in VaultId : vaults'[v].renewals = vaults[v].renewals

(* Whatever raises the count of a vault is execute_renewal of that vault.  *)
LEMMA OnlyExecuteRenews ==
    ASSUME TypeOK, BooksInv, [Next]_vars, NEW v \in VaultId,
           vaults'[v].renewals > vaults[v].renewals
    PROVE  \E price \in WalrusPrices : execute_renewal(v, price)
  <1>a. vaults \in [VaultId -> RenewalVault]
    BY DEF TypeOK
  <1>b. ~SameRenewals
    BY <1>a DEF SameRenewals, RenewalVault
  <1>1. CASE Admin \/ Operator \/ AdvanceEpoch \/ UNCHANGED vars
    <2>1. UNCHANGED vaults
      BY <1>1 DEF Admin, Operator, AdvanceEpoch, set_treasury, set_protocol_fee_bps,
                  set_keeper_fee, set_storage_price, create_pauser_cap, emergency_pause,
                  emergency_unpause, vars
    <2> QED BY <2>1, <1>b DEF SameRenewals
  <1>2. ASSUME NEW w \in VaultId, NEW a \in Addr, NEW b \in BlobId, NEW amt \in Amounts,
               NEW t \in Thresholds, NEW r \in RenewBys, NEW c \in Caps,
               create_vault(w, a, b, amt, t, r, c)
        PROVE  FALSE
    <2>1. vaults[w].renewals = 0
      BY <1>2 DEF create_vault, BooksInv, BlankUntilCreated, NoVault
    <2>2. SameRenewals
      BY <1>2, <2>1, <1>a DEF create_vault, SameRenewals
    <2> QED BY <2>2, <1>b
  <1>3. ASSUME NEW w \in VaultId, NEW a \in Addr,
               \/ \E t \in Thresholds, r \in RenewBys, c \in Caps, on \in BOOLEAN :
                     update_policy(w, a, t, r, c, on)
               \/ \E amt \in Amounts : withdraw(w, a, amt)
               \/ reclaim_blob(w, a)
               \/ destroy_vault(w, a)
        PROVE  FALSE
    <2>1. SameRenewals
      BY <1>3, <1>a DEF update_policy, withdraw, reclaim_blob, destroy_vault, SameRenewals,
                        RenewalVault
    <2> QED BY <2>1, <1>b
  <1>4. ASSUME NEW w \in VaultId,
               (\E amt \in Amounts : deposit(w, amt)) \/ execute_renewal_exhausted(w)
        PROVE  FALSE
    <2>1. SameRenewals
      BY <1>4, <1>a DEF deposit, execute_renewal_exhausted, SameRenewals, RenewalVault
    <2> QED BY <2>1, <1>b
  <1>5. ASSUME NEW w \in VaultId, NEW price \in WalrusPrices, execute_renewal(w, price)
        PROVE  w = v
    <2>1. PICK n \in Nat, fee \in Nat, cost \in Nat : RenewalStep(w, n, fee, cost)
      BY <1>5, RenewalEffect
    <2>2. \A u \in VaultId \ {w} : vaults'[u] = vaults[u]
      BY <2>1, <1>a DEF RenewalStep
    <2> QED BY <2>2, <1>a DEF RenewalVault
  <1> QED
    BY <1>1, <1>2, <1>3, <1>4, <1>5 DEF Next, Owner, Anyone

(* A renewal buys at most renew_by epochs and does not pass the cap.       *)
LEMMA RenewEpochsBound ==
    ASSUME NEW p \in RenewalPolicy, NEW end \in Nat, ~Exhausted(p, end)
    PROVE  /\ RenewEpochs(p, end) <= p.renewBy
           /\ p.cap # NoCap => end + RenewEpochs(p, end) <= p.cap
  BY DEF RenewEpochs, Exhausted, Capped, RenewalPolicy

(* A renewal ends within max_total_epochs and within threshold + renew_by  *)
(* epochs of now, for every policy, fee and price, whoever executes it and *)
(* however often: execute_renewal checks that the vault is due each time.  *)
THEOREM RenewalKeepsPolicy == Spec => RenewalWithinPolicy
  <1> DEFINE Within(v) ==
        LET p == vaults[v].policy
            end == blobs'[vaults[v].blob].end
        IN  /\ p.cap # NoCap => end <= p.cap
            /\ end <= epoch + p.threshold + p.renewBy
  <1>1. ASSUME TypeOK, BooksInv, [Next]_vars, NEW v \in VaultId,
               vaults'[v].renewals > vaults[v].renewals
        PROVE  Within(v)
    <2> DEFINE p == vaults[v].policy
               b == vaults[v].blob
    <2>1. PICK price \in WalrusPrices : execute_renewal(v, price)
      BY <1>1, OnlyExecuteRenews
    <2>2. PICK n \in Nat, fee \in Nat, cost \in Nat : RenewalStep(v, n, fee, cost)
      BY <1>1, <2>1, RenewalEffect
    <2>3. /\ ~Exhausted(p, blobs[b].end)
          /\ epoch + p.threshold >= blobs[b].end
      BY <2>1 DEF execute_renewal, RenewalDue
    <2>4. p \in RenewalPolicy /\ b \in BlobId /\ blobs[b].end \in Nat /\ epoch \in Nat
      BY <1>1, <2>2 DEF TypeOK, RenewalVault, RenewalStep
    <2>5. blobs'[b].end = blobs[b].end + n /\ n = RenewEpochs(p, blobs[b].end)
      BY <1>1, <2>2, <2>4 DEF TypeOK, RenewalStep
    <2>6. n <= p.renewBy /\ (p.cap # NoCap => blobs[b].end + n <= p.cap)
      BY <2>3, <2>4, <2>5, RenewEpochsBound
    <2>7. p.threshold \in Nat /\ p.renewBy \in Nat
      BY <2>4 DEF RenewalPolicy
    <2> QED BY <2>3, <2>4, <2>5, <2>6, <2>7
  <1>2. TypeOK /\ BooksInv /\ [Next]_vars =>
          [\A v \in VaultId : vaults'[v].renewals > vaults[v].renewals => Within(v)]_vars
    BY <1>1
  <1> QED BY <1>2, BooksAlways, PTL DEF Spec, RenewalWithinPolicy

(* Walrus extends a blob only before it ends, and a zero threshold makes   *)
(* the vault due only from its end on: no epoch satisfies both.            *)
THEOREM NoRenewalAtZeroThreshold == Spec => ZeroThresholdNeverRenews
  <1>1. ASSUME TypeOK, BooksInv, [Next]_vars, NEW v \in VaultId,
               vaults[v].policy.threshold = 0, vaults'[v].renewals > vaults[v].renewals
        PROVE  FALSE
    <2>1. PICK price \in WalrusPrices : execute_renewal(v, price)
      BY <1>1, OnlyExecuteRenews
    <2>2. /\ epoch + vaults[v].policy.threshold >= blobs[vaults[v].blob].end
          /\ epoch < blobs[vaults[v].blob].end
          /\ vaults[v].blob # NoBlob
      BY <2>1 DEF execute_renewal, RenewalDue, WalrusExtends
    <2>3. epoch \in Nat /\ blobs[vaults[v].blob].end \in Nat
      BY <1>1, <2>2 DEF TypeOK, RenewalVault
    <2> QED BY <1>1, <2>2, <2>3
  <1>2. ASSUME TypeOK PROVE \A v \in VaultId : vaults[v].renewals \in Nat
    BY <1>2 DEF TypeOK, RenewalVault
  <1>3. TypeOK /\ TypeOK' /\ BooksInv /\ [Next]_vars =>
          [\A v \in VaultId :
             vaults[v].policy.threshold = 0 => vaults'[v].renewals <= vaults[v].renewals]_vars
    <2>1. TypeOK' => \A v \in VaultId : vaults'[v].renewals \in Nat
      BY DEF TypeOK, RenewalVault
    <2> QED BY <1>1, <1>2, <2>1
  <1> QED BY <1>3, BooksAlways, PTL DEF Spec, ZeroThresholdNeverRenews

-----------------------------------------------------------------------------
(* The contract implements the escrow.  No step needs more than types and  *)
(* books: money put in an account is at most what was ever deposited.      *)

(* The escrow's variables, named as the mapping of Vault gives them. *)
Phase == [v \in VaultId |-> vaults[v].status]
Balance == [v \in VaultId |-> vaults[v].wal]
SpentBy == [v \in VaultId |-> Spent(v)]
Held == [v \in VaultId |-> vaults[v].blob]
FreeBlobs == {b \in BlobId : blobs[b].owner # Zero}

(* A freshly published contract is an escrow without accounts. *)
LEMMA InitEscrow == Init => E!EInit
  BY DEF Init, E!EInit, NoVault, EmptyLedger, Spent

(* What one vault can move is money of the escrow: never above what was    *)
(* deposited into the vault, which the model bounds by MaxInflow.          *)
LEMMA BalanceIsMoney ==
    ASSUME TypeOK, BooksInv, NEW v \in VaultId
    PROVE  vaults[v].wal <= MaxInflow
  BY BooksAreNat DEF BooksInv, WalConserved, BlankUntilCreated

(* An amount is money of the escrow when it does not pass the bound. *)
LEMMA IsMoney ==
    ASSUME NEW m \in Nat, m <= MaxInflow
    PROVE  m \in 0..MaxInflow
  OBVIOUS

(* Steps that touch neither balances, books, custody nor phases stutter.   *)
LEMMA EscrowStutters ==
    ASSUME UNCHANGED <<Phase, Balance, SpentBy, Held, FreeBlobs>>
    PROVE  UNCHANGED E!evars
  BY DEF E!evars, Phase, Balance, SpentBy, Held, FreeBlobs

(* Every entry function is a step of the escrow or a stutter.              *)
LEMMA StepEscrow == TypeOK /\ BooksInv /\ [Next]_vars => [E!ENext]_(E!evars)
  <1> SUFFICES ASSUME TypeOK, BooksInv, [Next]_vars PROVE [E!ENext]_(E!evars)
    OBVIOUS
  <1>a. vaults \in [VaultId -> RenewalVault] /\ ledger \in [VaultId -> Ledger]
        /\ blobs \in [BlobId -> [end : Nat, owner : Addr \cup {Zero}]]
    BY DEF TypeOK
  <1>1. CASE Admin \/ Operator \/ AdvanceEpoch \/ UNCHANGED vars
    <2>1. UNCHANGED <<vaults, blobs, ledger>>
      BY <1>1 DEF Admin, Operator, AdvanceEpoch, set_treasury, set_protocol_fee_bps,
                  set_keeper_fee, set_storage_price, create_pauser_cap, emergency_pause,
                  emergency_unpause, vars
    <2> QED BY <2>1, EscrowStutters DEF Phase, Balance, SpentBy, Held, FreeBlobs, Spent
  <1>2. ASSUME NEW v \in VaultId, NEW a \in Addr, NEW b \in BlobId, NEW amt \in Amounts,
               NEW t \in Thresholds, NEW r \in RenewBys, NEW c \in Caps,
               create_vault(v, a, b, amt, t, r, c)
        PROVE  E!Open(v, b, amt) /\ amt \in 0..MaxInflow
    <2>1. /\ vaults[v].status = "none" /\ blobs[b].owner = a /\ amt <= MaxInflow
          /\ vaults'[v].status = "live" /\ vaults'[v].wal = amt /\ vaults'[v].blob = b
          /\ \A w \in VaultId \ {v} : vaults'[w] = vaults[w]
          /\ \A x \in BlobId : blobs'[x].owner = IF x = b THEN Zero ELSE blobs[x].owner
      BY <1>2, <1>a DEF create_vault
    <2>2. \A w \in VaultId : Spent(w)' = Spent(w)
      BY <1>2, <1>a DEF create_vault, Spent, Ledger
    <2>3. Phase' = [Phase EXCEPT ![v] = "live"] /\ Balance' = [Balance EXCEPT ![v] = amt]
          /\ Held' = [Held EXCEPT ![v] = b] /\ SpentBy' = SpentBy
      <3>1. Phase' = [Phase EXCEPT ![v] = "live"]
        BY <2>1 DEF Phase
      <3>2. Balance' = [Balance EXCEPT ![v] = amt]
        BY <2>1 DEF Balance
      <3>3. Held' = [Held EXCEPT ![v] = b]
        BY <2>1 DEF Held
      <3>4. SpentBy' = SpentBy
        BY <2>2 DEF SpentBy
      <3> QED BY <3>1, <3>2, <3>3, <3>4
    <2>4. b \in FreeBlobs /\ FreeBlobs' = FreeBlobs \ {b} /\ Phase[v] = "none"
      BY <2>1 DEF FreeBlobs, Phase
    <2> QED BY <2>1, <2>3, <2>4 DEF E!Open, Phase, Balance, Held, SpentBy, FreeBlobs
  <1>3. ASSUME NEW v \in VaultId, NEW amt \in Amounts, deposit(v, amt)
        PROVE  E!PayIn(v, amt) /\ amt \in 0..MaxInflow
    <2>0. amt \in 0..MaxInflow
      <3>1. ledger[v].deposited \in Nat /\ ledger[v].deposited + amt <= MaxInflow
        BY <1>3, BooksAreNat DEF deposit
      <3>2. amt \in Nat /\ amt <= MaxInflow
        BY <3>1
      <3> QED BY <3>2, IsMoney
    <2>1. /\ vaults[v].status = "live"
          /\ Phase' = Phase /\ Held' = Held /\ FreeBlobs' = FreeBlobs
          /\ Balance' = [Balance EXCEPT ![v] = vaults[v].wal + amt]
      BY <1>3, <1>a DEF deposit, Live, Phase, Held, FreeBlobs, Balance, RenewalVault
    <2>2. SpentBy' = SpentBy
      BY <1>3, <1>a DEF deposit, SpentBy, Spent, Ledger
    <2> QED BY <2>0, <2>1, <2>2 DEF E!PayIn, Phase, Balance, Held, SpentBy, FreeBlobs
  <1>4. ASSUME NEW v \in VaultId, NEW a \in Addr, NEW amt \in Amounts, withdraw(v, a, amt)
        PROVE  E!GiveBack(v, amt) /\ amt \in 0..MaxInflow
    <2>1. /\ vaults[v].status = "live" /\ amt <= vaults[v].wal
          /\ Phase' = Phase /\ Held' = Held /\ FreeBlobs' = FreeBlobs
          /\ Balance' = [Balance EXCEPT ![v] = vaults[v].wal - amt]
      BY <1>4, <1>a DEF withdraw, Live, CanTake, Phase, Held, FreeBlobs, Balance, RenewalVault
    <2>2. SpentBy' = SpentBy
      BY <1>4, <1>a DEF withdraw, SpentBy, Spent, Ledger
    <2>3. amt \in 0..MaxInflow
      <3>1. vaults[v].wal <= MaxInflow /\ vaults[v].wal \in Nat
        BY BalanceIsMoney, BooksAreNat
      <3>2. amt \in Nat /\ amt <= MaxInflow
        BY <2>1, <3>1
      <3> QED BY <3>2, IsMoney
    <2> QED BY <2>1, <2>2, <2>3 DEF E!GiveBack, Phase, Balance, Held, SpentBy, FreeBlobs
  <1>5. ASSUME NEW v \in VaultId, NEW a \in Addr, reclaim_blob(v, a)
        PROVE  E!Release(v)
    <2>1. /\ vaults[v].status = "live" /\ vaults[v].blob # NoBlob /\ vaults[v].blob \in BlobId
          /\ Phase' = Phase /\ Balance' = Balance /\ SpentBy' = SpentBy
          /\ Held' = [Held EXCEPT ![v] = NoBlob]
      BY <1>5, <1>a DEF reclaim_blob, Live, Phase, Balance, SpentBy, Held, Spent, RenewalVault
    <2>2. \A x \in BlobId : blobs'[x].owner = IF x = vaults[v].blob THEN a ELSE blobs[x].owner
      BY <1>5, <1>a DEF reclaim_blob
    <2>3. FreeBlobs' = FreeBlobs \cup {vaults[v].blob}
      BY <2>1, <2>2 DEF FreeBlobs
    <2> QED BY <2>1, <2>3 DEF E!Release, Phase, Balance, Held, SpentBy, FreeBlobs
  <1>6. ASSUME NEW v \in VaultId, NEW a \in Addr, destroy_vault(v, a)
        PROVE  E!Close(v)
    <2>1. /\ vaults[v].status = "live" /\ vaults[v].blob = NoBlob /\ vaults[v].wal = 0
          /\ Phase' = [Phase EXCEPT ![v] = "destroyed"] /\ Held' = Held
          /\ Balance' = Balance /\ SpentBy' = SpentBy /\ FreeBlobs' = FreeBlobs
      BY <1>6, <1>a DEF destroy_vault, Live, VaultEmpty, Phase, Balance, SpentBy, Held, Spent,
                        FreeBlobs, RenewalVault
    <2> QED BY <2>1 DEF E!Close, Phase, Balance, Held, SpentBy, FreeBlobs
  <1>7. ASSUME NEW v \in VaultId,
               execute_renewal_exhausted(v)
               \/ \E a \in Addr, t \in Thresholds, r \in RenewBys, c \in Caps, on \in BOOLEAN :
                     update_policy(v, a, t, r, c, on)
        PROVE  UNCHANGED E!evars
    <2>1. (\E p : vaults' = [vaults EXCEPT ![v].policy = p]) /\ UNCHANGED <<blobs, ledger>>
      BY <1>7 DEF execute_renewal_exhausted, update_policy
    <2>2. \A w \in VaultId : /\ vaults'[w].status = vaults[w].status
                            /\ vaults'[w].wal = vaults[w].wal
                            /\ vaults'[w].blob = vaults[w].blob
      BY <2>1, <1>a DEF RenewalVault
    <2>3. UNCHANGED <<Phase, Balance, Held>>
      BY <2>2 DEF Phase, Balance, Held
    <2>4. UNCHANGED <<SpentBy, FreeBlobs>>
      BY <2>1 DEF SpentBy, Spent, FreeBlobs
    <2> QED BY <2>3, <2>4, EscrowStutters
  <1>8. ASSUME NEW v \in VaultId, NEW price \in WalrusPrices, execute_renewal(v, price)
        PROVE  \E m \in 0..MaxInflow : E!Spend(v, m)
    <2>1. PICK n \in Nat, fee \in Nat, cost \in Nat : RenewalStep(v, n, fee, cost)
      BY <1>8, RenewalEffect
    <2> DEFINE m == fee + config.keeperFee + cost
    <2>2. m \in Nat /\ m <= vaults[v].wal /\ m <= MaxInflow
      <3>1. config.keeperFee \in Nat
        BY DEF TypeOK, FeeConfig
      <3>2. m \in Nat /\ m <= vaults[v].wal
        BY <2>1, <3>1 DEF RenewalStep
      <3>3. vaults[v].wal \in Nat /\ vaults[v].wal <= MaxInflow
        BY BalanceIsMoney, BooksAreNat
      <3>4. MaxInflow \in Nat
        BY BoundsAssumption
      <3> HIDE DEF m
      <3> QED BY <3>2, <3>3, <3>4
    <2>3. /\ vaults[v].status = "live" /\ vaults[v].blob # NoBlob
          /\ Phase' = Phase /\ Held' = Held
          /\ Balance' = [Balance EXCEPT ![v] = vaults[v].wal - m]
      BY <2>1, <1>a DEF RenewalStep, Phase, Held, Balance, RenewalVault
    <2>4. FreeBlobs' = FreeBlobs
      BY <2>1, <1>a DEF RenewalStep, FreeBlobs
    <2>5. SpentBy' = [SpentBy EXCEPT ![v] = Spent(v) + m]
      <3>1. /\ ledger'[v].treasury = ledger[v].treasury + fee
            /\ ledger'[v].keeper = ledger[v].keeper + config.keeperFee
            /\ ledger'[v].storage = ledger[v].storage + cost
            /\ \A w \in VaultId \ {v} : ledger'[w] = ledger[w]
        BY <2>1, <1>a DEF RenewalStep, Ledger
      <3>2. config.keeperFee \in Nat
        BY DEF TypeOK, FeeConfig
      <3>3. Spent(v)' = Spent(v) + m /\ \A w \in VaultId \ {v} : Spent(w)' = Spent(w)
        BY <3>1, <3>2, BooksAreNat DEF Spent
      <3> QED BY <3>3 DEF SpentBy
    <2>6. E!Spend(v, m)
      BY <2>2, <2>3, <2>4, <2>5 DEF E!Spend, Phase, Balance, Held, SpentBy, FreeBlobs
    <2>7. m \in 0..MaxInflow
      BY <2>2, IsMoney
    <2> HIDE DEF m
    <2> QED BY <2>6, <2>7 DEF E!Spend
  <1> QED
    BY <1>1, <1>2, <1>3, <1>4, <1>5, <1>6, <1>7, <1>8 DEF Next, Owner, Anyone, E!ENext

(* The contract implements the abstract escrow: money leaves an account    *)
(* only back to its owner or while it holds its blob, a blob is in one     *)
(* vault or free, and a vault is closed for good and empty.                *)
THEOREM EscrowImplemented == Spec => ImplementsEscrow
  <1>1. Init => E!EInit
    BY InitEscrow
  <1>2. TypeOK /\ BooksInv /\ [Next]_vars => [E!ENext]_(E!evars)
    BY StepEscrow
  <1> QED BY <1>1, <1>2, BooksAlways, PTL DEF Spec, ImplementsEscrow, E!ESpec

(* The escrow's own promises, which the contract inherits with the         *)
(* refinement.                                                             *)
LEMMA InitCustody == E!EInit => E!Custody
  BY SentinelsAssumption DEF E!EInit, E!Custody

\* A step that leaves the items alone, and closed accounts empty.
LEMMA CustodyStays ==
    ASSUME E!Custody, UNCHANGED <<Held, FreeBlobs>>,
           \A j \in VaultId :
              /\ vaults[j].blob # NoBlob => vaults'[j].status = vaults[j].status
              /\ vaults'[j].status = "destroyed" => vaults'[j].wal = 0
    PROVE  E!Custody'
  <1>1. \A j \in VaultId : vaults'[j].blob = vaults[j].blob
    BY DEF Held
  <1> QED BY <1>1 DEF E!Custody, FreeBlobs

LEMMA StepCustody == E!Custody /\ [E!ENext]_(E!evars) => E!Custody'
  <1> SUFFICES ASSUME E!Custody, [E!ENext]_(E!evars) PROVE E!Custody'
    OBVIOUS
  <1>1. ASSUME NEW i \in VaultId, NEW x \in BlobId, NEW m, E!Open(i, x, m)
        PROVE  E!Custody'
    <2>1. /\ vaults[i].status = "none" /\ x \in FreeBlobs
          /\ Phase' = [Phase EXCEPT ![i] = "live"] /\ Balance' = [Balance EXCEPT ![i] = m]
          /\ Held' = [Held EXCEPT ![i] = x] /\ FreeBlobs' = FreeBlobs \ {x}
      BY <1>1 DEF E!Open, Phase, Balance, Held, FreeBlobs
    <2>2. /\ \A j \in VaultId : vaults'[j].status = IF j = i THEN "live" ELSE vaults[j].status
          /\ \A j \in VaultId : vaults'[j].wal = IF j = i THEN m ELSE vaults[j].wal
          /\ \A j \in VaultId : vaults'[j].blob = IF j = i THEN x ELSE vaults[j].blob
      <3>1. \A j \in VaultId : vaults'[j].status = IF j = i THEN "live" ELSE vaults[j].status
        BY <2>1 DEF Phase
      <3>2. \A j \in VaultId : vaults'[j].wal = IF j = i THEN m ELSE vaults[j].wal
        BY <2>1 DEF Balance
      <3>3. \A j \in VaultId : vaults'[j].blob = IF j = i THEN x ELSE vaults[j].blob
        BY <2>1 DEF Held
      <3> QED BY <3>1, <3>2, <3>3
    <2>3. vaults[i].blob = NoBlob
      BY <2>1 DEF E!Custody
    <2> QED BY <2>1, <2>2, <2>3, SentinelsAssumption DEF E!Custody, FreeBlobs
  <1>2. ASSUME NEW i \in VaultId, NEW m, E!PayIn(i, m) \/ E!GiveBack(i, m) \/ E!Spend(i, m)
        PROVE  E!Custody'
    <2>1. /\ vaults[i].status = "live" /\ UNCHANGED <<Phase, Held, FreeBlobs>>
          /\ \E n : Balance' = [Balance EXCEPT ![i] = n]
      BY <1>2 DEF E!PayIn, E!GiveBack, E!Spend, Phase, Balance, Held, FreeBlobs
    <2>2. \A j \in VaultId : vaults'[j].status = vaults[j].status
      BY <2>1 DEF Phase
    <2>3. \A j \in VaultId \ {i} : vaults'[j].wal = vaults[j].wal
      BY <2>1 DEF Balance
    <2>4. \A j \in VaultId : vaults'[j].status = "destroyed" => vaults'[j].wal = 0
      BY <2>1, <2>2, <2>3 DEF E!Custody
    <2> QED BY <2>1, <2>2, <2>4, CustodyStays
  <1>3. ASSUME NEW i \in VaultId, E!Release(i)
        PROVE  E!Custody'
    <2>1. /\ vaults[i].status = "live" /\ vaults[i].blob # NoBlob
          /\ UNCHANGED <<Phase, Balance>> /\ Held' = [Held EXCEPT ![i] = NoBlob]
          /\ FreeBlobs' = FreeBlobs \cup {vaults[i].blob}
      BY <1>3 DEF E!Release, Phase, Balance, Held, FreeBlobs
    <2>2. \A j \in VaultId : /\ vaults'[j].status = vaults[j].status
                            /\ vaults'[j].wal = vaults[j].wal
      BY <2>1 DEF Phase, Balance
    <2>3. \A j \in VaultId : vaults'[j].blob = IF j = i THEN NoBlob ELSE vaults[j].blob
      BY <2>1 DEF Held
    <2> QED BY <2>1, <2>2, <2>3 DEF E!Custody, FreeBlobs
  <1>4. ASSUME NEW i \in VaultId, E!Close(i)
        PROVE  E!Custody'
    <2>1. /\ vaults[i].blob = NoBlob /\ vaults[i].wal = 0
          /\ Phase' = [Phase EXCEPT ![i] = "destroyed"] /\ UNCHANGED <<Balance, Held, FreeBlobs>>
      BY <1>4 DEF E!Close, Phase, Balance, Held, FreeBlobs
    <2>2. \A j \in VaultId : vaults'[j].status = IF j = i THEN "destroyed" ELSE vaults[j].status
      BY <2>1 DEF Phase
    <2>3. \A j \in VaultId : vaults'[j].wal = vaults[j].wal
      BY <2>1 DEF Balance
    <2>4. \A j \in VaultId : vaults'[j].status = "destroyed" => vaults'[j].wal = 0
      BY <2>1, <2>2, <2>3 DEF E!Custody
    <2> QED BY <2>1, <2>2, <2>4, CustodyStays
  <1>5. CASE UNCHANGED E!evars
    BY <1>5 DEF E!evars, E!Custody
  <1> QED BY <1>1, <1>2, <1>3, <1>4, <1>5 DEF E!ENext

(* No blob is lost or shared: each is with an address or in exactly one    *)
(* vault, which is live, and a destroyed vault holds neither blob nor WAL. *)
(* The escrow keeps this (StepCustody), so the contract does.              *)
THEOREM CustodyKept == Spec => []E!Custody
  <1>1. E!EInit => E!Custody
    BY InitCustody
  <1>2. E!Custody /\ [E!ENext]_(E!evars) => E!Custody'
    BY StepCustody
  <1> QED BY <1>1, <1>2, EscrowImplemented, PTL DEF ImplementsEscrow, E!ESpec

\* Each action changes one account, and none that is destroyed.
Touches(i) ==
    /\ Phase[i] # "destroyed"
    /\ \A j \in VaultId \ {i} : /\ Phase'[j] = Phase[j] /\ Held'[j] = Held[j]
                                /\ Balance'[j] = Balance[j] /\ SpentBy'[j] = SpentBy[j]

LEMMA StepTouches == [E!ENext]_(E!evars) => UNCHANGED E!evars \/ \E i \in VaultId : Touches(i)
  <1> SUFFICES ASSUME E!ENext PROVE \E i \in VaultId : Touches(i)
    OBVIOUS
  <1>1. ASSUME NEW i \in VaultId, NEW x, NEW m, E!Open(i, x, m)
        PROVE  Touches(i)
    <2>1. /\ Phase[i] = "none" /\ UNCHANGED SpentBy /\ Phase' = [Phase EXCEPT ![i] = "live"]
          /\ Balance' = [Balance EXCEPT ![i] = m] /\ Held' = [Held EXCEPT ![i] = x]
      BY <1>1 DEF E!Open, Phase, Balance, Held, SpentBy
    <2> QED BY <2>1 DEF Touches
  <1>2. ASSUME NEW i \in VaultId, NEW m, E!PayIn(i, m) \/ E!GiveBack(i, m)
        PROVE  Touches(i)
    <2>1. /\ Phase[i] = "live" /\ UNCHANGED <<Phase, SpentBy, Held>>
          /\ \E n : Balance' = [Balance EXCEPT ![i] = n]
      BY <1>2 DEF E!PayIn, E!GiveBack, Phase, Balance, Held, SpentBy
    <2> QED BY <2>1 DEF Touches
  <1>3. ASSUME NEW i \in VaultId, NEW m, E!Spend(i, m)
        PROVE  Touches(i)
    <2>1. /\ Phase[i] = "live" /\ UNCHANGED <<Phase, Held>>
          /\ \E n : Balance' = [Balance EXCEPT ![i] = n]
          /\ \E n : SpentBy' = [SpentBy EXCEPT ![i] = n]
      BY <1>3 DEF E!Spend, Phase, Balance, Held, SpentBy
    <2> QED BY <2>1 DEF Touches
  <1>4. ASSUME NEW i \in VaultId, E!Release(i)
        PROVE  Touches(i)
    <2>1. /\ Phase[i] = "live" /\ UNCHANGED <<Phase, Balance, SpentBy>>
          /\ Held' = [Held EXCEPT ![i] = NoBlob]
      BY <1>4 DEF E!Release, Phase, Balance, Held, SpentBy
    <2> QED BY <2>1 DEF Touches
  <1>5. ASSUME NEW i \in VaultId, E!Close(i)
        PROVE  Touches(i)
    <2>1. /\ Phase[i] = "live" /\ UNCHANGED <<Held, Balance, SpentBy>>
          /\ Phase' = [Phase EXCEPT ![i] = "destroyed"]
      BY <1>5 DEF E!Close, Phase, Balance, Held, SpentBy
    <2> QED BY <2>1 DEF Touches
  <1> QED BY <1>1, <1>2, <1>3, <1>4, <1>5 DEF E!ENext

(* A destroyed vault is final: its id comes back to no other phase, and     *)
(* nothing is paid in, spent or taken under it again.                      *)
THEOREM DestroyedIsFinal == Spec => E!ClosedForGood
  <1>1. [E!ENext]_(E!evars) =>
          [\A i \in VaultId : Phase[i] = "destroyed" =>
             /\ Phase'[i] = "destroyed" /\ Held'[i] = Held[i]
             /\ Balance'[i] = Balance[i] /\ SpentBy'[i] = SpentBy[i]]_(E!evars)
    <2> SUFFICES ASSUME [E!ENext]_(E!evars), ~UNCHANGED E!evars,
                        NEW i \in VaultId, Phase[i] = "destroyed"
                 PROVE  /\ Phase'[i] = "destroyed" /\ Held'[i] = Held[i]
                        /\ Balance'[i] = Balance[i] /\ SpentBy'[i] = SpentBy[i]
      OBVIOUS
    <2>1. PICK k \in VaultId : Touches(k)
      BY StepTouches
    <2>2. i # k
      BY <2>1 DEF Touches
    <2> QED BY <2>1, <2>2 DEF Touches
  <1>2. E!ESpec => E!ClosedForGood
    BY <1>1, PTL DEF E!ESpec, E!ClosedForGood, Phase, Held, Balance, SpentBy
  <1> QED BY <1>2, EscrowImplemented DEF ImplementsEscrow
=============================================================================
