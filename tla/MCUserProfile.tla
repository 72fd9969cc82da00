----------------------------- MODULE MCUserProfile -----------------------------
(***************************************************************************)
(* UserProfile on small instances: `overlapping` calls of one user, and    *)
(* two users and addresses with one call at a time and no failures.        *)
(***************************************************************************)
EXTENDS UserProfile, TLC

CONSTANT u1, e1

VARIABLE overlapping

MCInit == Init /\ overlapping \in BOOLEAN

Busy == {r \in Requests : call[r] # Idle}

(* Only the first user calls, with the first address. *)
Overlapping ==
    /\ overlapping /\ Next
    /\ \A r \in Requests : call'[r] # Idle =>
          call'[r].user = u1 /\ call'[r].to \in {e1, NoEmail, Unchanged}

OneByOne == ~overlapping /\ Serve /\ \A q, r \in Busy' : q = r

MCSpec == MCInit /\ [][(Overlapping \/ OneByOne) /\ UNCHANGED overlapping]_<<vars, overlapping>>

Symmetry == Permutations(Files) \cup Permutations(Requests)

--------------------------------------------------------------------------------
(* The picture that a row names exists, whatever overlaps and fails, and    *)
(* without overlaps and failures no other picture stays on the disk.       *)
PicturesAreKept == PictureExists /\ (~overlapping => NoPictureIsLeftBehind)
================================================================================
