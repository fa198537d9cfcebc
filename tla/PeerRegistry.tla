---------------------------- MODULE PeerRegistry ----------------------------
(***************************************************************************)
(* What the panel promises about the peers of one protocol, without calls, *)
(* files or SSH: an account book and the set of keys that have access.     *)
(* One account changes at a time, and access follows in the same step.     *)
(* Only the end of a term may be noticed late.                             *)
(***************************************************************************)
EXTENDS Integers

CONSTANTS Peers, MaxTime

VARIABLES account, access, clock

registryVars == <<account, access, clock>>

Entry == [status : {"absent", "active", "revoked"}, expiresAt : 0 .. MaxTime]

Nobody == [status |-> "absent", expiresAt |-> 0]

Entitled(book, time) ==
    {p \in Peers : book[p].status = "active" /\ (book[p].expiresAt = 0 \/ time < book[p].expiresAt)}

Admitted(book) == {p \in Peers : book[p].status = "active"}

\* The access that follows an account book: nobody entitled is left out, nobody
\* who is not an active account is let in.
Follows(keys, book, time) == Entitled(book, time) \subseteq keys /\ keys \subseteq Admitted(book)

Init ==
    /\ account = [p \in Peers |-> Nobody]
    /\ access = {}
    /\ clock = 0

\* An account is opened, revoked, reinstated or given another term.
Change(p) ==
    /\ \E entry \in Entry : account' = [account EXCEPT ![p] = entry]
    /\ Follows(access', account', clock)
    /\ UNCHANGED clock

\* A revoked account is forgotten; nobody's access is touched.
Forget(p) ==
    /\ account[p].status = "revoked"
    /\ account' = [account EXCEPT ![p] = Nobody]
    /\ UNCHANGED <<access, clock>>

\* Terms that have ended are enforced.
Enforce ==
    /\ Follows(access', account, clock)
    /\ UNCHANGED <<account, clock>>

Elapse ==
    /\ clock < MaxTime
    /\ clock' = clock + 1
    /\ UNCHANGED <<account, access>>

Next == (\E p \in Peers : Change(p) \/ Forget(p)) \/ Enforce \/ Elapse

Spec == Init /\ [][Next]_registryVars

=============================================================================
