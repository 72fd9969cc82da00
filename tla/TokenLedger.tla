------------------------------ MODULE TokenLedger ------------------------------
(***************************************************************************)
(* What a collection of tokens promises to those who read it: every token  *)
(* has one holder or none, the tokens of a holder and all tokens can be    *)
(* listed, a call moves, makes or burns one token and leaves the others    *)
(* where they are, and the number of a token that was burned is never      *)
(* given to another one.                                                   *)
(***************************************************************************)
EXTENDS Naturals

CONSTANT Accounts

VARIABLES
    held,   \* account -> the tokens listed for it
    listed, \* the tokens listed for the whole collection
    made    \* how many tokens have ever been made

ledgerVars == <<held, listed, made>>

LedgerInit ==
    /\ held = [a \in Accounts |-> {}]
    /\ listed = {}
    /\ made = 0

Make(a) ==
    /\ held' = [held EXCEPT ![a] = @ \cup {made}]
    /\ listed' = listed \cup {made}
    /\ made' = made + 1

Move(a, b, t) ==
    /\ t \in held[a]
    /\ held' = [held EXCEPT ![a] = @ \ {t}, ![b] = @ \cup {t}]
    /\ UNCHANGED <<listed, made>>

Burn(a, t) ==
    /\ t \in held[a]
    /\ held' = [held EXCEPT ![a] = @ \ {t}]
    /\ listed' = listed \ {t}
    /\ UNCHANGED made

LedgerNext ==
    \E a \in Accounts :
        \/ Make(a)
        \/ \E t \in listed : Burn(a, t)
        \/ \E b \in Accounts, t \in listed : Move(a, b, t)

LedgerSpec == LedgerInit /\ [][LedgerNext]_ledgerVars
================================================================================
