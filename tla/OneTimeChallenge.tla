--------------------------- MODULE OneTimeChallenge ---------------------------
(***************************************************************************)
(* What wallet login promises, without its database, its requests or its   *)
(* codes: a challenge is issued once, its holder may approve it, and it    *)
(* then admits at most one session.  A challenge that has been taken may   *)
(* be abandoned before its session is handed out; it never becomes usable  *)
(* again.                                                                  *)
(*                                                                         *)
(* Holders approve a text, not an identity, and two challenges may carry   *)
(* the same text, so one approval may cover several challenges, and a      *)
(* challenge may be approved from the moment it is issued.                 *)
(***************************************************************************)

CONSTANT Challenges

VARIABLES stage, approved

challengeVars == <<stage, approved>>

ChallengeTypeOK ==
    /\ stage \in [Challenges -> {"new", "open", "taken", "admitted"}]
    /\ approved \subseteq Challenges

ChallengeInit ==
    /\ stage = [k \in Challenges |-> "new"]
    /\ approved = {}

(* A fresh challenge is handed out; its text may be one already approved. *)
Issue(k) ==
    /\ stage[k] = "new"
    /\ stage' = [stage EXCEPT ![k] = "open"]
    /\ approved' \in {approved, approved \cup {k}}

(* The holder approves every challenge that carries one text. *)
Approve(ks) ==
    /\ approved' = approved \cup ks
    /\ UNCHANGED stage

(* An approved challenge is used up. *)
Take(k) ==
    /\ stage[k] = "open"
    /\ k \in approved
    /\ stage' = [stage EXCEPT ![k] = "taken"]
    /\ UNCHANGED approved

(* The session the challenge was taken for is handed out, once. *)
Admit(k) ==
    /\ stage[k] = "taken"
    /\ stage' = [stage EXCEPT ![k] = "admitted"]
    /\ UNCHANGED approved

ChallengeNext ==
    \/ \E k \in Challenges : Issue(k) \/ Take(k) \/ Admit(k)
    \/ \E ks \in SUBSET Challenges : Approve(ks)

ChallengeSpec == ChallengeInit /\ [][ChallengeNext]_challengeVars
================================================================================
