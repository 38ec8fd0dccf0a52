------------------------------- MODULE Escrow -------------------------------
(***************************************************************************)
(* What the vault contract promises, with the fees, prices, epochs and the *)
(* pause switch abstracted away: accounts that hold one item and some      *)
(* money.  Money is spent only while the account holds its item, an item   *)
(* is in one account or free, never both, and an account closes for good   *)
(* and empty.                                                              *)
(***************************************************************************)
EXTENDS Integers

CONSTANTS Account, Item, NoItem, Money

VARIABLES
    phase,    \* of each account: "none", "live" or "destroyed"
    balance,  \* the money in each account
    spent,    \* what each account spent on its item
    item,     \* the item each account holds
    free      \* the items no account holds

evars == <<phase, balance, spent, item, free>>

EInit ==
    /\ phase = [i \in Account |-> "none"]
    /\ balance = [i \in Account |-> 0]
    /\ spent = [i \in Account |-> 0]
    /\ item = [i \in Account |-> NoItem]
    /\ free = Item

Open(i, x, m) ==
    /\ phase[i] = "none" /\ x \in free
    /\ phase' = [phase EXCEPT ![i] = "live"]
    /\ balance' = [balance EXCEPT ![i] = m]
    /\ item' = [item EXCEPT ![i] = x]
    /\ free' = free \ {x}
    /\ UNCHANGED spent

PayIn(i, m) ==
    /\ phase[i] = "live"
    /\ balance' = [balance EXCEPT ![i] = @ + m]
    /\ UNCHANGED <<phase, spent, item, free>>

GiveBack(i, m) ==
    /\ phase[i] = "live" /\ m <= balance[i]
    /\ balance' = [balance EXCEPT ![i] = @ - m]
    /\ UNCHANGED <<phase, spent, item, free>>

Spend(i, m) ==
    /\ phase[i] = "live" /\ item[i] # NoItem /\ m <= balance[i]
    /\ balance' = [balance EXCEPT ![i] = @ - m]
    /\ spent' = [spent EXCEPT ![i] = @ + m]
    /\ UNCHANGED <<phase, item, free>>

Release(i) ==
    /\ phase[i] = "live" /\ item[i] # NoItem
    /\ item' = [item EXCEPT ![i] = NoItem]
    /\ free' = free \cup {item[i]}
    /\ UNCHANGED <<phase, balance, spent>>

Close(i) ==
    /\ phase[i] = "live" /\ item[i] = NoItem /\ balance[i] = 0
    /\ phase' = [phase EXCEPT ![i] = "destroyed"]
    /\ UNCHANGED <<balance, spent, item, free>>

ENext ==
    \E i \in Account :
        \/ \E x \in Item, m \in Money : Open(i, x, m)
        \/ \E m \in Money : PayIn(i, m) \/ GiveBack(i, m) \/ Spend(i, m)
        \/ Release(i)
        \/ Close(i)

ESpec == EInit /\ [][ENext]_evars

(* No item is lost or shared: each is free or in exactly one account, and  *)
(* that account is live; an account that is closed is empty.               *)
Custody ==
    /\ \A x \in Item : x \in free \/ \E i \in Account : item[i] = x
    /\ \A i \in Account : item[i] # NoItem =>
          /\ phase[i] = "live" /\ item[i] \in Item \ free
          /\ \A j \in Account \ {i} : item[j] # item[i]
    /\ \A i \in Account : phase[i] = "destroyed" => balance[i] = 0

(* What has been closed is never touched again.                            *)
ClosedForGood ==
    [][\A i \in Account : phase[i] = "destroyed" =>
         /\ phase'[i] = "destroyed" /\ item'[i] = item[i]
         /\ balance'[i] = balance[i] /\ spent'[i] = spent[i]]_evars
=============================================================================
