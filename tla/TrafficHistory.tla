---------------------------- MODULE TrafficHistory ----------------------------
(***************************************************************************)
(* The traffic of one peer on its way into the reports of the dashboard    *)
(* (dashboard.service.ts): the interface counts from its last start, a     *)
(* poll reads the counter over SSH, and once in a quarter of an hour the   *)
(* poll that is then finished saves the difference to what was last seen,  *)
(* which is kept in memory.  Polls have no guard, so they overlap.         *)
(***************************************************************************)
EXTENDS Naturals

CONSTANTS
    Polls,          \* that may be in progress at the same time
    NotSeen,        \* no last value, or a server that does not answer
    MaxTraffic,     \* bound on the bytes moved
    MaxPollMishaps  \* bound on cycles of the interface, failures and restarts

ASSUME TrafficAssumption == {MaxTraffic, MaxPollMishaps} \subseteq Nat

VARIABLES
    moved,     \* bytes the peer has moved, ever
    counter,   \* what wg show prints of it
    poll,      \* the polls with the total they read
    due,       \* PERSIST_INTERVAL_MS has passed since lastPersistedAt
    last,      \* lastPersistedCumulative
    saved,     \* sum of the rows of peer_traffic_samples
    misled,    \* a poll took a failed wg show for 0, or saved after a later one
    pollMishaps

trafficVars == <<moved, counter, poll, due, last, saved, misled, pollMishaps>>

\* For the property a poll knows the polls that read before it, and is late once
\* one that read after it has saved.
Idle == [stage |-> "idle", seen |-> NotSeen, after |-> {}, late |-> FALSE]

TrafficTypeOK ==
    /\ {moved, counter} \subseteq 0 .. MaxTraffic
    /\ \A w \in Polls :
        /\ poll[w].stage \in {"idle", "read"}
        /\ poll[w].seen \in 0 .. MaxTraffic \cup {NotSeen}
        /\ poll[w].after \subseteq Polls \ {w}
    /\ {due, misled} \subseteq BOOLEAN
    /\ last \in 0 .. MaxTraffic \cup {NotSeen}

TrafficInit ==
    /\ moved = 0 /\ counter = 0 /\ saved = 0 /\ pollMishaps = 0
    /\ poll = [w \in Polls |-> Idle]
    /\ due = TRUE  \* lastPersistedAt is 0
    /\ last = NotSeen
    /\ misled = FALSE

PollMishap == pollMishaps < MaxPollMishaps /\ pollMishaps' = pollMishaps + 1

Transfer ==
    /\ moved < MaxTraffic
    /\ moved' = moved + 1 /\ counter' = counter + 1
    /\ UNCHANGED <<poll, due, last, saved, misled, pollMishaps>>

\* applyPeers, or a reboot of the server.
CycleCounter ==
    /\ PollMishap
    /\ counter' = 0
    /\ UNCHANGED <<moved, poll, due, last, saved, misled>>

QuarterPasses ==
    /\ due' = TRUE
    /\ UNCHANGED <<moved, counter, poll, last, saved, misled, pollMishaps>>

Reads(w, total) ==
    poll' = [poll EXCEPT ![w] =
        [stage |-> "read", seen |-> total, after |-> {v \in Polls : poll[v].stage = "read"}, late |-> FALSE]]

\* pollServer: the peer with its total.  Without a connection there is no peer;
\* if only wg show fails, its total is 0.
PollServer(w) ==
    /\ poll[w].stage = "idle"
    /\ \/ Reads(w, counter) /\ UNCHANGED <<misled, pollMishaps>>
       \/ PollMishap /\ Reads(w, NotSeen) /\ UNCHANGED misled
       \/ PollMishap /\ Reads(w, 0) /\ misled' = (misled \/ counter # 0)
    /\ UNCHANGED <<moved, counter, due, last, saved>>

\* Mutant: the first value counts in full.
DifferenceOrAll(total) ==
    IF total = NotSeen THEN 0
    ELSE IF last = NotSeen THEN total
    ELSE IF total > last THEN total - last ELSE 0

\* A counter below the last value was reset: Math.max(0, ...).  The first value
\* after a start is only noted.
Difference(total) ==
    IF total = NotSeen \/ last = NotSeen THEN 0
    ELSE IF total > last THEN total - last ELSE 0

Ended(w, saves) ==
    poll' = [v \in Polls |->
        IF v = w THEN Idle
        ELSE [poll[v] EXCEPT !.after = @ \ {w}, !.late = @ \/ (saves /\ v \in poll[w].after)]]

\* poll and persistTrafficSamples; a peer that is not seen is forgotten, and an
\* insert that fails leaves the difference out.
Persist(w) ==
    /\ poll[w].stage = "read"
    /\ Ended(w, due)
    /\ \/ ~due /\ UNCHANGED <<due, last, saved, misled, pollMishaps>>
       \/ /\ due /\ due' = FALSE
          /\ last' = poll[w].seen
          /\ misled' = (misled \/ poll[w].late)
          /\ \/ saved' = saved + Difference(poll[w].seen) /\ UNCHANGED pollMishaps
             \/ PollMishap /\ UNCHANGED saved
    /\ UNCHANGED <<moved, counter>>

PanelRestarts ==
    /\ PollMishap
    /\ poll' = [w \in Polls |-> Idle]
    /\ due' = TRUE
    /\ last' = NotSeen
    /\ UNCHANGED <<moved, counter, saved, misled>>

TrafficNext ==
    \/ Transfer \/ CycleCounter \/ QuarterPasses \/ PanelRestarts
    \/ \E w \in Polls : PollServer(w) \/ Persist(w)

TrafficSpec == TrafficInit /\ [][TrafficNext]_trafficVars

-----------------------------------------------------------------------------

(***************************************************************************)
(* Restarts of the panel, resets of the counter, outages and lost inserts  *)
(* never make the reports say more than the peer has moved, unless a       *)
(* failed wg show passed for 0 or a poll was overtaken by a later one.     *)
(***************************************************************************)
ReportsOnlyWhatMoved == misled \/ saved <= moved

=============================================================================
