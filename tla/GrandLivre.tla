----------------------------- MODULE GrandLivre -----------------------------
(***************************************************************************)
(* What the wallets promise to their owners, without locks, transactions or *)
(* processes: money comes in, goes out or passes from one account to        *)
(* another in one step, never more than there is; a transfer order is done  *)
(* once, and the orders of a sender with one key are done once in all.      *)
(* Module Recharge implements it (Recharge!Livre).                          *)
(***************************************************************************)
EXTENDS Integers

CONSTANTS Comptes,   \* accounts
          Ordres,    \* transfer orders
          Cles,      \* idempotency keys
          SansCle,   \* an order without a key
          Depot      \* balance of an account at first

VARIABLES avoir,     \* balance of each account
          faits      \* <<order, sender, key>> of the transfers made

varsLivre == <<avoir, faits>>

InitLivre ==
  /\ avoir = [c \in Comptes |-> Depot]
  /\ faits = {}

(* A payment, a refund or an administrator brings money.                    *)
Entrer(c) ==
  /\ avoir' = [avoir EXCEPT ![c] = avoir'[c]]
  /\ avoir'[c] > avoir[c]
  /\ UNCHANGED faits

(* A withdrawal or an administrator takes at most what there is.            *)
Sortir(c) ==
  /\ avoir' = [avoir EXCEPT ![c] = avoir'[c]]
  /\ avoir'[c] \in 0 .. avoir[c] - 1
  /\ UNCHANGED faits

(* A transfer is made at once on both sides; neither its order nor its key  *)
(* had served.                                                              *)
Transferer(o, c, v, k) ==
  /\ c # v
  /\ \A f \in faits : f[1] # o /\ ~(f[2] = c /\ f[3] = k /\ k # SansCle)
  /\ \E m \in 1 .. avoir[c] : avoir' = [avoir EXCEPT ![c] = @ - m, ![v] = @ + m]
  /\ faits' = faits \cup {<<o, c, k>>}

NextLivre ==
  \/ \E c \in Comptes : Entrer(c) \/ Sortir(c)
  \/ \E o \in Ordres, c, v \in Comptes, k \in Cles \cup {SansCle} : Transferer(o, c, v, k)

SpecLivre == InitLivre /\ [][NextLivre]_varsLivre
=============================================================================
