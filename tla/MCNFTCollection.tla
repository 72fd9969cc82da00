---------------------------- MODULE MCNFTCollection ----------------------------
(***************************************************************************)
(* NFTCollection on a small instance.  Tokens and roles share only what    *)
(* hasRole reads, so tokens are minted, moved and burned while the roles   *)
(* are as the constructor leaves them, and roles change before the first   *)
(* token and approval; the pause comes between at any time.                *)
(***************************************************************************)
EXTENDS NFTCollection, TLC

NoTokenYet == tokenIdTracker = 0 /\ operatorApprovals = {}

MCNext ==
    \/ RolesInit /\ TokenNext
    \/ PauseNext
    \/ NoTokenYet /\ RolesNext /\ UNCHANGED <<tokenVars, paused>>

MCSpec == Init /\ [][MCNext]_vars

Symmetry == Permutations(Accounts \ {Deployer})
================================================================================
