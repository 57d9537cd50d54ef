----------------------------- MODULE ClaimLease -----------------------------
(***************************************************************************)
(* What the table `claims` promises a run, whoever reads and writes it: a  *)
(* run is granted the claim of one item, once; a claim that ended, by the  *)
(* run's own doing or not, is never that run's again.                      *)
(*                                                                         *)
(* It does not promise that a grant waits for the holder: try_claim_item   *)
(* may supersede one (see DuplicateClaimsRejected in Dispatch).            *)
(***************************************************************************)
CONSTANTS Items, Runs, NoRun

VARIABLES
    holder,    \* the run that holds each item's claim, or NoRun
    granted    \* the runs that were ever granted a claim

vars == <<holder, granted>>

Init ==
    /\ holder = [i \in Items |-> NoRun]
    /\ granted = {}

Grant(i, r) ==
    /\ r \notin granted
    /\ holder' = [holder EXCEPT ![i] = r]
    /\ granted' = granted \cup {r}

\* Claims end: one by its run, a retry or a cancel, several by a stale release.
End(S) ==
    /\ holder' = [i \in Items |-> IF i \in S THEN NoRun ELSE holder[i]]
    /\ UNCHANGED granted

Next ==
    \/ \E i \in Items, r \in Runs : Grant(i, r)
    \/ \E S \in SUBSET Items : End(S)

Spec == Init /\ [][Next]_vars

\* The consequence the users of the table rely on.
OneItemPerRun ==
    \A i, j \in Items : holder[i] = holder[j] /\ holder[i] # NoRun => i = j

=============================================================================
