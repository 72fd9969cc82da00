------------------------------ MODULE MintNonces ------------------------------
(***************************************************************************)
(* The nonces of mint transactions: TransactionService.getLatestNonce      *)
(* (src/src/app/core.services/transaction.service.ts), as NftService.mint  *)
(* and executeTransaction use it, on one chain and for the one admin       *)
(* account that mints.                                                     *)
(*                                                                         *)
(* getLatestNonce awaits the chain once and the table up to three times;   *)
(* other mints run in between.  The chain mines transactions in the order  *)
(* of their nonces, and the account may send transactions from elsewhere.  *)
(***************************************************************************)
EXTENDS Naturals, Sequences

CONSTANTS
    Mints,                          \* calls of mint
    FirstCount,                     \* transactions of the account before the first mint
    MaxOthers,                      \* how many are sent from elsewhere
    Faults,                         \* connections may be lost and waits be given up
    BLOCK_CONFIRMATION_TO_WAIT,
    None                            \* a mint without a nonce

ConstantsAssumption ==
    /\ FirstCount \in Nat /\ MaxOthers \in Nat /\ BLOCK_CONFIRMATION_TO_WAIT \in Nat
    /\ Faults \in BOOLEAN /\ None \notin Nat

VARIABLES
    txNonce,    \* the nonces in the rows of tx_nonces, in the order of their ids
    txCount,    \* the mined transactions of the account
    others,     \* how many of them were sent from elsewhere
    pool,       \* the mints whose transaction waits to be mined
    mint,       \* the calls
    overlapped  \* two calls have been in getLatestNonce at once

vars == <<txNonce, txCount, others, pool, mint, overlapped>>

(* `count` and `seen` are what was read of the chain and of the row; the    *)
(* confirmations are counted as far as they matter.                        *)
Mint == [at: {"idle", "counted", "creating", "found", "sending", "sent", "confirming",
              "returned", "failed"},
         count: Nat, seen: Nat, row: Nat, nonce: Nat \cup {None},
         confirmations: 0..BLOCK_CONFIRMATION_TO_WAIT]

InGetLatestNonce(m) == mint[m].at \in {"counted", "creating", "found"}
HasNonce == {m \in Mints : mint[m].nonce # None}

Init ==
    /\ txNonce = <<>> /\ txCount = FirstCount /\ others = 0
    /\ pool = {} /\ overlapped = FALSE
    /\ mint = [m \in Mints |-> [at |-> "idle", count |-> 0, seen |-> 0, row |-> 0,
                                nonce |-> None, confirmations |-> 0]]

(* The gas is estimated first, and a mint that needs too much ends there.   *)
RefuseGas(m) ==
    /\ mint[m].at = "idle"
    /\ mint' = [mint EXCEPT ![m].at = "failed"]
    /\ UNCHANGED <<txNonce, txCount, others, pool, overlapped>>

CountTransactions(m) ==
    /\ mint[m].at = "idle"
    /\ mint' = [mint EXCEPT ![m].at = "counted", ![m].count = txCount]
    /\ overlapped' = (overlapped \/ \E n \in Mints : InGetLatestNonce(n))
    /\ UNCHANGED <<txNonce, txCount, others, pool>>

(* No unique key spans the chain and the address: there may be two rows,    *)
(* and findFirst has no order.                                             *)
FindNonce(m) ==
    /\ mint[m].at = "counted"
    /\ IF txNonce = <<>>
       THEN mint' = [mint EXCEPT ![m].at = "creating"]
       ELSE \E i \in DOMAIN txNonce :
               mint' = [mint EXCEPT ![m].at = "found", ![m].row = i, ![m].seen = txNonce[i]]
    /\ UNCHANGED <<txNonce, txCount, others, pool, overlapped>>

CreateNonce(m) ==
    /\ mint[m].at = "creating"
    /\ txNonce' = Append(txNonce, 0)
    /\ mint' = [mint EXCEPT ![m].at = "found", ![m].row = Len(txNonce'), ![m].seen = 0]
    /\ UNCHANGED <<txCount, others, pool, overlapped>>

(* Variant: the row holds the nonce to use next. *)
NextNonce_AtCount(seen, count) == IF seen = 0 \/ seen < count THEN count + 1 ELSE seen + 1

NextNonce(seen, count) == IF seen = 0 \/ seen < count THEN count ELSE seen + 1

(* Variant: the row keeps the nonce it had.                                   *)
UpdateNonce_RowKept(m) ==
    /\ mint[m].at = "found"
    /\ mint' = [mint EXCEPT ![m].at = "sending",
                            ![m].nonce = NextNonce(mint[m].seen, mint[m].count)]
    /\ UNCHANGED <<txNonce, txCount, others, pool, overlapped>>

UpdateNonce(m) ==
    /\ mint[m].at = "found"
    /\ LET nonce == NextNonce(mint[m].seen, mint[m].count)
       IN  /\ txNonce' = [txNonce EXCEPT ![mint[m].row] = nonce]
           /\ mint' = [mint EXCEPT ![m].at = "sending", ![m].nonce = nonce]
    /\ UNCHANGED <<txCount, others, pool, overlapped>>

-----------------------------------------------------------------------------

(* executeTransaction.  The node takes one transaction for a nonce, and     *)
(* none for a nonce that is already mined.                                 *)
Taken(nonce) == nonce < txCount \/ \E n \in pool : mint[n].nonce = nonce

SendTransaction(m) ==
    /\ mint[m].at = "sending"
    /\ \/ /\ ~Taken(mint[m].nonce)
          /\ pool' = pool \cup {m}
          /\ mint' = [mint EXCEPT ![m].at = "sent"]
       \/ /\ Taken(mint[m].nonce) \/ Faults
          /\ pool' = pool
          /\ mint' = [mint EXCEPT ![m].at = "failed"]
    /\ UNCHANGED <<txNonce, txCount, others, overlapped>>

(* web3 stops to wait for a receipt after a while; the transaction stays.   *)
GiveUpWaiting(m) ==
    /\ Faults /\ mint[m].at = "sent"
    /\ mint' = [mint EXCEPT ![m].at = "failed"]
    /\ UNCHANGED <<txNonce, txCount, others, pool, overlapped>>

(* waitForTxConfirmed: the blocks on top of the transaction's own.          *)
WaitForTxConfirmed(m) ==
    /\ mint[m].at = "confirming"
    /\ mint[m].confirmations >= BLOCK_CONFIRMATION_TO_WAIT
    /\ mint' = [mint EXCEPT ![m].at = "returned"]
    /\ UNCHANGED <<txNonce, txCount, others, pool, overlapped>>

Confirmed(calls) ==
    [n \in Mints |-> IF calls[n].at = "confirming"
                     THEN [calls[n] EXCEPT !.confirmations =
                             IF @ < BLOCK_CONFIRMATION_TO_WAIT THEN @ + 1 ELSE @]
                     ELSE calls[n]]

(* A block with the next transaction of the account.                        *)
MineMint(m) ==
    /\ m \in pool /\ mint[m].nonce = txCount
    /\ pool' = pool \ {m}
    /\ txCount' = txCount + 1
    /\ mint' = [Confirmed(mint) EXCEPT ![m].at = IF @ = "sent" THEN "confirming" ELSE @]
    /\ UNCHANGED <<txNonce, others, overlapped>>

MineOther ==
    /\ others < MaxOthers /\ ~Taken(txCount)
    /\ others' = others + 1
    /\ txCount' = txCount + 1
    /\ mint' = Confirmed(mint)
    /\ UNCHANGED <<txNonce, pool, overlapped>>

MineEmpty ==
    /\ Confirmed(mint) # mint
    /\ mint' = Confirmed(mint)
    /\ UNCHANGED <<txNonce, txCount, others, pool, overlapped>>

Serve(m) ==
    \/ FindNonce(m) \/ CreateNonce(m) \/ UpdateNonce(m)
    \/ SendTransaction(m) \/ WaitForTxConfirmed(m)

Next ==
    \/ \E m \in Mints : RefuseGas(m) \/ CountTransactions(m) \/ Serve(m)
                        \/ GiveUpWaiting(m) \/ MineMint(m)
    \/ MineOther
    \/ MineEmpty

Spec == Init /\ [][Next]_vars

(* Awaited calls come back, and the chain goes on making blocks.            *)
FairSpec ==
    /\ Spec
    /\ \A m \in Mints : WF_vars(Serve(m)) /\ WF_vars(MineMint(m))
    /\ WF_vars(MineEmpty)

-----------------------------------------------------------------------------

(* Stored nonces are numbers, and a mint with a nonce has its row.          *)
TypeOK ==
    /\ txNonce \in Seq(Nat)
    /\ txCount \in Nat /\ others \in 0..MaxOthers
    /\ pool \subseteq HasNonce
    /\ mint \in [Mints -> Mint]
    /\ overlapped \in BOOLEAN
    /\ \A m \in HasNonce : mint[m].row \in DOMAIN txNonce

(* Mints that get their nonces one after the other never get the same one,  *)
(* whatever is lost, given up or sent from elsewhere: only the nonce 0 of an *)
(* account without transactions is given out again, as a row that says 0    *)
(* reads as one that was never used.                                       *)
SharedNonceNeedsOverlap ==
    ~overlapped =>
        \A m, n \in HasNonce : m # n /\ mint[m].nonce = mint[n].nonce => mint[m].nonce = 0

(* As long as no mint has failed after it got its nonce, each nonce between *)
(* the chain's count and that of a waiting mint is another mint's that is on *)
(* its way: nothing waits for a transaction nobody will send.              *)
NoGapWithoutFailure ==
    (\A m \in HasNonce : mint[m].at # "failed") =>
        \A m \in HasNonce : \A i \in txCount..(mint[m].nonce - 1) :
            \E n \in HasNonce : mint[n].nonce = i /\ mint[n].at \in {"sending", "sent"}

(* Without lost calls and without overlaps a mint that began comes to an    *)
(* end: it returns with its confirmations, or fails because a transaction   *)
(* from elsewhere took its nonce.  That failure leaves no gap behind.      *)
MintsEnd ==
    [](~overlapped) =>
        \A m \in Mints : (mint[m].at = "counted") ~> (mint[m].at \in {"returned", "failed"})
================================================================================
