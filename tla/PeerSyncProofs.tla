-------------------------- MODULE PeerSyncProofs ----------------------------
(***************************************************************************)
(* Proofs about PeerSync, for any set of peers and of overlapping calls,   *)
(* any bound on the clock and any number of failures and restarts.         *)
(***************************************************************************)
EXTENDS PeerSync, TLAPS

(***************************************************************************)
(* Starting a call puts a well-formed record in the slot of its worker and *)
(* changes nothing but an observation in the others.                       *)
(***************************************************************************)
LEMMA StartType ==
    ASSUME TypeOK, NEW w \in Workers, NEW kind \in Kinds, NEW p \in Peers \cup {NoPeer},
           NEW entity \in Row, NEW before \in Row, NEW stage \in Stages,
           Start(w, kind, p, entity, before, stage)
    PROVE  op' \in [Workers -> Call]
<1> DEFINE started == [stage |-> stage, kind |-> kind, peer |-> p, entity |-> entity,
                       before |-> before, snap |-> {}, alone |-> InFlight = {}]
<1>1. (InFlight = {}) \in BOOLEAN
  OBVIOUS
<1>2. started \in Call
  BY <1>1 DEF Call
<1>3. \A v \in Workers : [op[v] EXCEPT !.alone = FALSE] \in Call
  BY DEF TypeOK, Call
<1> QED
  BY <1>2, <1>3 DEF Start

(***************************************************************************)
(* The variables keep their types, and a call that has no entity never     *)
(* reaches a step that saves, restores or removes one.                     *)
(***************************************************************************)
THEOREM TypeCorrect == Spec => []TypeOK
<1> USE EnvironmentAssumption, PeersAssumption
<1>1. Init => TypeOK
  BY DEF Init, TypeOK, CallsHoldTheirEntity, Row, Absent, NoExpiry, Call, Idle, Stages, Kinds
<1>2. TypeOK /\ [Next]_vars => TypeOK'
  <2> SUFFICES ASSUME TypeOK, [Next]_vars PROVE TypeOK'
    OBVIOUS
  <2> USE DEF database, server, budget
  <2>0. /\ \A p \in Peers : /\ [rows[p] EXCEPT !.status = "revoked"] \in Row
                            /\ \A t \in 0 .. MaxTime : [rows[p] EXCEPT !.expiresAt = t] \in Row
        /\ Absent \in Row
        /\ Fresh \in Row
        /\ Idle \in Call
    BY DEF TypeOK, Row, Absent, Fresh, NoExpiry, Idle, Call, Stages, Kinds
  <2>12. CallsHoldTheirEntity'
    <3> USE DEF CallsHoldTheirEntity
    <3>0. Idle.kind = "none" /\ Idle.peer = NoPeer /\ Idle.stage = "idle"
      BY DEF Idle
    <3>1. ASSUME NEW w \in Workers, Begin(w) PROVE CallsHoldTheirEntity'
      <4>1. \E p \in Peers : \E entity, before :
              \/ \E kind \in {"create", "revoke", "dismiss", "update", "rename"} :
                    Start(w, kind, p, entity, before, "loaded")
              \/ Start(w, "purge", p, entity, before, "removing")
        BY <3>1 DEF Begin, BeginCreate, BeginRevoke, BeginUpdate, BeginPurge
      <4> QED
        BY <4>1 DEF Start, TypeOK, Call
    <3>2. ASSUME NEW w \in Workers, Tick(w) PROVE CallsHoldTheirEntity'
      BY <3>2 DEF Tick, Start, TypeOK, Call
    <3>3. ASSUME NEW w \in Workers, Save(w) \/ ReadPeers(w) \/ WriteConf(w) PROVE CallsHoldTheirEntity'
      BY <3>0, <3>3 DEF Save, ReadPeers, WriteConf, TypeOK, Call
    <3>4. ASSUME NEW w \in Workers, CycleInterface(w) PROVE CallsHoldTheirEntity'
      BY <3>0, <3>4 DEF CycleInterface, Applied, TypeOK, Call
    <3>5. ASSUME NEW w \in Workers, Restore(w) \/ Remove(w) PROVE CallsHoldTheirEntity'
      BY <3>0, <3>5 DEF Restore, Remove, TypeOK, Call
    <3>6. ASSUME NEW w \in Workers, ApplyFails(w) PROVE CallsHoldTheirEntity'
      <4>1. op' = [op EXCEPT ![w] = IF op[w].kind = "tick" THEN Idle ELSE [op[w] EXCEPT !.stage = "restore"]]
        BY <3>6 DEF ApplyFails, TypeOK
      <4>2. op[w].kind # "none"
        BY <3>6 DEF ApplyFails, TypeOK
      <4> QED
        BY <3>0, <4>1, <4>2 DEF TypeOK, Call
    <3>7. CASE TickForgets \/ TimePasses \/ Crash \/ UNCHANGED vars
      BY <3>0, <3>7 DEF TickForgets, TimePasses, Crash, vars, TypeOK
    <3> QED
      BY <3>1, <3>2, <3>3, <3>4, <3>5, <3>6, <3>7 DEF Next, Continue
  <2> USE <2>12
  <2>1. ASSUME NEW w \in Workers, BeginCreate(w) PROVE TypeOK'
    <3>1. PICK p \in Peers : made' = made \cup {p} /\ Start(w, "create", p, Fresh, Absent, "loaded")
      BY <2>1 DEF BeginCreate
    <3>2. op' \in [Workers -> Call]
      BY <2>0, <3>1, StartType DEF Kinds, Stages
    <3> QED
      BY <2>1, <3>1, <3>2 DEF BeginCreate, TypeOK
  <2>2. ASSUME NEW w \in Workers, BeginRevoke(w) PROVE TypeOK'
    <3>1. op' \in [Workers -> Call]
      <4>1. PICK p \in Peers, kind \in {"revoke", "dismiss"}, entity \in Row :
              Start(w, kind, p, entity, rows[p], "loaded")
        BY <2>0, <2>2 DEF BeginRevoke
      <4> QED
        BY <4>1, StartType DEF TypeOK, Kinds, Stages
    <3> QED
      BY <2>2, <3>1 DEF BeginRevoke, TypeOK
  <2>3. ASSUME NEW w \in Workers, BeginUpdate(w) PROVE TypeOK'
    <3>1. op' \in [Workers -> Call]
      <4>1. PICK p \in Peers, kind \in {"update", "rename"}, entity \in Row :
              Start(w, kind, p, entity, rows[p], "loaded")
        BY <2>0, <2>3 DEF BeginUpdate, TypeOK
      <4> QED
        BY <4>1, StartType DEF TypeOK, Kinds, Stages
    <3> QED
      BY <2>3, <3>1 DEF BeginUpdate, TypeOK
  <2>4. ASSUME NEW w \in Workers, BeginPurge(w) PROVE TypeOK'
    <3>1. op' \in [Workers -> Call]
      BY <2>4, StartType DEF BeginPurge, TypeOK, Kinds, Stages
    <3> QED
      BY <2>4, <3>1 DEF BeginPurge, TypeOK
  <2>5. ASSUME NEW w \in Workers, Tick(w) PROVE TypeOK'
    <3>1. op' \in [Workers -> Call]
      BY <2>0, <2>5, StartType DEF Tick, Kinds, Stages
    <3>2. appliedExpiry' \in [Peers -> 0 .. MaxTime]
      BY <2>5 DEF Tick, TypeOK, Row
    <3> QED
      BY <2>5, <3>1, <3>2 DEF Tick, TypeOK
  <2>6. ASSUME NEW w \in Workers, Continue(w) PROVE TypeOK'
    <3>1. CASE Save(w)
      <4>1. [op[w] EXCEPT !.stage = "saved"] \in Call
        BY DEF TypeOK, Call, Stages
      <4>2. op' \in [Workers -> Call]
        BY <2>0, <3>1, <4>1 DEF Save, TypeOK
      <4>3. rows' \in [Peers -> Row]
        BY <3>1 DEF Save, TypeOK, Call
      <4> QED
        BY <3>1, <4>2, <4>3 DEF Save, TypeOK
    <3>2. CASE ReadPeers(w)
      <4>1. [op[w] EXCEPT !.stage = "read", !.snap = Desired] \in Call
        BY DEF TypeOK, Call, Stages, Desired
      <4>2. op' = [op EXCEPT ![w] = [op[w] EXCEPT !.stage = "read", !.snap = Desired]]
        BY <3>2 DEF ReadPeers, TypeOK
      <4> QED
        BY <3>2, <4>1, <4>2 DEF ReadPeers, TypeOK
    <3>3. CASE WriteConf(w)
      BY <3>3 DEF WriteConf, TypeOK, Call, Stages
    <3>4. CASE CycleInterface(w)
      BY <2>0, <3>4 DEF CycleInterface, Applied, TypeOK, Call, Stages
    <3>5. CASE Restore(w)
      BY <2>0, <3>5 DEF Restore, TypeOK, Call
    <3>6. CASE Remove(w)
      BY <2>0, <3>6 DEF Remove, TypeOK, Call
    <3> QED
      BY <2>6, <3>1, <3>2, <3>3, <3>4, <3>5, <3>6 DEF Continue
  <2>7. ASSUME NEW w \in Workers, ApplyFails(w) PROVE TypeOK'
    <3>1. op' \in [Workers -> Call]
      BY <2>0, <2>7 DEF ApplyFails, TypeOK, Call, Stages
    <3>2. conf' \subseteq Peers /\ iface' \subseteq Peers
      BY <2>7 DEF ApplyFails, TypeOK, Call
    <3> QED
      BY <2>7, <3>1, <3>2 DEF ApplyFails, TypeOK
  <2>8. CASE TickForgets
    BY <2>8 DEF TickForgets, TypeOK, Row
  <2>9. CASE TimePasses
    BY <2>9 DEF TimePasses, TypeOK
  <2>10. CASE Crash
    BY <2>0, <2>10 DEF Crash, TypeOK
  <2>11. CASE UNCHANGED vars
    BY <2>11 DEF vars, TypeOK
  <2> QED
    BY <2>1, <2>2, <2>3, <2>4, <2>5, <2>6, <2>7, <2>8, <2>9, <2>10, <2>11 DEF Next, Begin
<1> QED
  BY <1>1, <1>2, PTL DEF Spec

-----------------------------------------------------------------------------
(* Keys.                                                                   *)

\* Only a key that was generated has a row or a call working on it.
KeysComeFirst ==
    \A p \in Peers \ made :
        /\ rows[p] = Absent
        /\ \A w \in Workers : op[w].peer # p

(***************************************************************************)
(* A row exists, or is about to be written, only for a generated key: a    *)
(* key that createInternal has just generated is nowhere else yet.         *)
(***************************************************************************)
LEMMA KeysFirst == Spec => []KeysComeFirst
<1> USE EnvironmentAssumption, PeersAssumption
<1>1. Init => KeysComeFirst
  <2>1. Idle.peer = NoPeer
    BY DEF Idle
  <2>2. Init => \A w \in Workers : op[w].peer = NoPeer
    BY <2>1 DEF Init
  <2> QED
    BY <2>2 DEF Init, KeysComeFirst
<1>2. TypeOK /\ KeysComeFirst /\ [Next]_vars => KeysComeFirst'
  <2> SUFFICES ASSUME TypeOK, KeysComeFirst, [Next]_vars, NEW p \in Peers, p \notin made'
               PROVE  rows'[p] = Absent /\ \A w \in Workers : op'[w].peer # p
    BY DEF KeysComeFirst
  <2> USE DEF database
  <2>1. p \notin made /\ rows[p] = Absent /\ \A w \in Workers : op[w].peer # p
    <3>1. p \notin made
      BY DEF Next, Begin, BeginCreate, BeginRevoke, BeginUpdate, BeginPurge, Tick,
             Continue, Save, ReadPeers, WriteConf, CycleInterface, Restore, Remove, ApplyFails,
             TickForgets, TimePasses, Crash, vars, TypeOK
    <3> QED
      BY <3>1 DEF KeysComeFirst
  <2>2. Absent.status = "absent" /\ Idle.peer = NoPeer
    BY DEF Absent, Idle
  <2>3. ASSUME NEW w \in Workers, Begin(w) \/ Tick(w) PROVE rows'[p] = Absent /\ \A v \in Workers : op'[v].peer # p
    <3>1. rows' = rows
      BY <2>3 DEF Begin, BeginCreate, BeginRevoke, BeginUpdate, BeginPurge, Tick
    <3>2. \E q \in Peers \cup {NoPeer} : \E kind, entity, before, stage :
            q # p /\ Start(w, kind, q, entity, before, stage)
      <4>1. CASE BeginCreate(w)
        BY <2>1, <4>1 DEF BeginCreate, TypeOK
      <4>2. CASE BeginRevoke(w)
        BY <2>1, <2>2, <4>2 DEF BeginRevoke
      <4>3. CASE BeginUpdate(w)
        BY <2>1, <2>2, <4>3 DEF BeginUpdate
      <4>4. CASE BeginPurge(w)
        BY <2>1, <2>2, <4>4 DEF BeginPurge
      <4>5. CASE Tick(w)
        BY <4>5 DEF Tick
      <4> QED
        BY <2>3, <4>1, <4>2, <4>3, <4>4, <4>5 DEF Begin
    <3> QED
      BY <2>1, <3>1, <3>2 DEF Start, TypeOK, Call
  <2>4. ASSUME NEW w \in Workers, Continue(w) \/ ApplyFails(w) PROVE rows'[p] = Absent /\ \A v \in Workers : op'[v].peer # p
    <3>1. rows'[p] = rows[p]
      BY <2>1, <2>4 DEF Continue, Save, ReadPeers, WriteConf, CycleInterface, Restore, Remove, ApplyFails, TypeOK
    <3>2. \A v \in Workers : op'[v].peer \in {op[v].peer, NoPeer}
      BY <2>2, <2>4 DEF Continue, Save, ReadPeers, WriteConf, CycleInterface, Applied, Restore, Remove, ApplyFails, TypeOK, Call
    <3> QED
      BY <2>1, <3>1, <3>2
  <2>5. CASE TickForgets \/ TimePasses \/ UNCHANGED vars
    BY <2>1, <2>5 DEF TickForgets, TimePasses, vars
  <2>6. CASE Crash
    BY <2>1, <2>2, <2>6 DEF Crash
  <2> QED
    BY <2>3, <2>4, <2>5, <2>6 DEF Next
<1> QED
  BY <1>1, <1>2, TypeCorrect, PTL DEF Spec

-----------------------------------------------------------------------------
(* One call at a time.                                                     *)

\* The database as the callers may rely on it: a change saved but not yet
\* applied by call w is left out.
Undone(w) ==
    IF op[w].peer \in Peers THEN [rows EXCEPT ![op[w].peer] = op[w].before] ELSE rows

Agrees(book) == conf = iface /\ Registry!Follows(iface, book, now)

\* What holds at each stage of a call that has the protocol to itself.
StageInv(w) ==
    /\ op[w].stage = "loaded" =>
          /\ op[w].peer \in Peers
          /\ op[w].before = rows[op[w].peer]
          /\ op[w].kind = "rename" => op[w].entity = op[w].before
          /\ Agrees(rows)
    /\ op[w].stage = "saved" => Agrees(Undone(w))
    /\ op[w].stage = "read" =>
          /\ Agrees(Undone(w))
          /\ Registry!Follows(op[w].snap, rows, now)
    /\ op[w].stage = "written" =>
          /\ conf = op[w].snap
          /\ Registry!Follows(op[w].snap, rows, now)
          /\ Registry!Follows(iface, Undone(w), now)
    /\ op[w].stage = "restore" =>
          /\ op[w].peer \in Peers
          /\ Agrees(Undone(w))
    /\ op[w].stage = "removing" =>
          /\ op[w].peer \in Peers
          /\ rows[op[w].peer].status = "revoked"
          /\ Agrees(rows)
    /\ op[w].stage \in {"saved", "read", "written"} =>
          /\ op[w].peer = NoPeer <=> op[w].kind = "tick"
          /\ op[w].kind = "dismiss" => rows[op[w].peer].status = "revoked"
    /\ op[w].stage = "loaded" => op[w].kind # "tick" /\ (op[w].kind = "dismiss" => op[w].entity.status = "revoked")

SerialInv ==
    /\ \A v, w \in InFlight : v = w
    /\ InFlight = {} => Agrees(rows)
    /\ \A w \in Workers : StageInv(w)

\* The environment in which a call is expected to be a transaction.
OneCallAtATime == Serial /\ ~LateFailures /\ MaxCrashes = 0

(***************************************************************************)
(* When all workers but one stay idle, the invariant is about that one.    *)
(***************************************************************************)
LEMMA OneWorker ==
    ASSUME NEW w \in Workers,
           \A v \in Workers \ {w} : op'[v].stage = "idle",
           StageInv(w)',
           op'[w].stage = "idle" => Agrees(rows)'
    PROVE  SerialInv'
<1>1. \A v \in Workers : StageInv(v)'
  <2>1. ASSUME NEW v \in Workers \ {w} PROVE StageInv(v)'
    BY <2>1 DEF StageInv
  <2> QED
    BY <2>1
<1>2. \A u, v \in InFlight' : u = v
  BY DEF InFlight
<1>3. InFlight' = {} => Agrees(rows)'
  BY DEF InFlight
<1> QED
  BY <1>1, <1>2, <1>3 DEF SerialInv

(***************************************************************************)
(* A call that begins finds the server in agreement with the database.     *)
(***************************************************************************)
LEMMA BeginPreserves ==
    ASSUME TypeOK, KeysComeFirst, SerialInv, Serial, NEW w \in Workers, Begin(w) \/ Tick(w)
    PROVE  SerialInv'
<1> USE PeersAssumption DEF database, server, budget
<1>1. InFlight = {}
  BY DEF Begin, BeginCreate, BeginRevoke, BeginUpdate, BeginPurge, Tick, Start
<1>2. Agrees(rows)
  BY <1>1 DEF SerialInv
<1>3. Agrees(rows)'
  <2>1. UNCHANGED <<rows, conf, iface, now>>
    BY DEF Begin, BeginCreate, BeginRevoke, BeginUpdate, BeginPurge, Tick
  <2> QED
    BY <1>2, <2>1 DEF Agrees, Registry!Follows, Registry!Entitled, Registry!Admitted
<1>4. ASSUME NEW kind, NEW p, NEW entity, NEW before, NEW stage, Start(w, kind, p, entity, before, stage)
      PROVE  /\ op'[w].stage = stage /\ op'[w].kind = kind /\ op'[w].peer = p
             /\ op'[w].entity = entity /\ op'[w].before = before
             /\ \A v \in Workers \ {w} : op'[v].stage = "idle"
  BY <1>1, <1>4 DEF Start, InFlight, TypeOK, Call
<1>5. CASE BeginCreate(w)
  <2>1. PICK p \in Peers \ made : Start(w, "create", p, Fresh, Absent, "loaded") /\ rows' = rows
    BY <1>5 DEF BeginCreate
  <2>2. Absent = rows[p]
    BY <2>1 DEF KeysComeFirst
  <2> QED
    BY <1>3, <1>4, <2>1, <2>2, OneWorker DEF StageInv
<1>6. CASE BeginRevoke(w)
  <2>0. \A p \in Peers : [rows[p] EXCEPT !.status = "revoked"].status = "revoked"
    BY DEF TypeOK, Row
  <2>1. PICK p \in Peers, kind \in {"revoke", "dismiss"} : \E entity :
          Start(w, kind, p, entity, rows[p], "loaded") /\ rows' = rows /\ entity.status = "revoked"
    BY <1>6, <2>0 DEF BeginRevoke
  <2>2. PICK entity : Start(w, kind, p, entity, rows[p], "loaded") /\ rows' = rows /\ entity.status = "revoked"
    BY <2>1
  <2> QED
    BY <1>3, <1>4, <2>2, OneWorker DEF StageInv
<1>7. CASE BeginUpdate(w)
  <2>0. \A p \in Peers : rows[p] \in Row /\ \A t \in 0 .. MaxTime : [rows[p] EXCEPT !.expiresAt = t] \in Row
    BY DEF TypeOK, Row
  <2>1. PICK p \in Peers, kind \in {"update", "rename"}, entity \in Row :
          /\ Start(w, kind, p, entity, rows[p], "loaded") /\ rows' = rows
          /\ kind = "rename" => entity = rows[p]
    BY <1>7, <2>0 DEF BeginUpdate
  <2> QED
    BY <1>3, <1>4, <2>1, OneWorker DEF StageInv
<1>8. CASE BeginPurge(w)
  <2>1. PICK p \in Peers : rows[p].status = "revoked" /\ Start(w, "purge", p, rows[p], rows[p], "removing") /\ rows' = rows
    BY <1>8 DEF BeginPurge
  <2> QED
    BY <1>3, <1>4, <2>1, OneWorker DEF StageInv
<1>9. CASE Tick(w)
  <2>1. Start(w, "tick", NoPeer, Absent, Absent, "saved")
    BY <1>9 DEF Tick
  <2>2. Agrees(Undone(w))'
    BY <1>3, <1>4, <2>1 DEF Undone
  <2> QED
    BY <1>3, <1>4, <2>1, <2>2, OneWorker DEF StageInv
<1> QED
  BY <1>5, <1>6, <1>7, <1>8, <1>9 DEF Begin

(***************************************************************************)
(* Each later step of the only call, and its failure before the server was *)
(* changed, keeps the invariant.                                           *)
(***************************************************************************)
LEMMA ContinuePreserves ==
    ASSUME TypeOK, SerialInv, ~LateFailures, NEW w \in Workers, Continue(w) \/ ApplyFails(w)
    PROVE  SerialInv'
<1> USE PeersAssumption DEF database, server, budget
<1>1. op[w].stage # "idle" /\ StageInv(w)
  BY DEF Continue, Save, ReadPeers, WriteConf, CycleInterface, Restore, Remove, ApplyFails, SerialInv
<1>2. \A v \in Workers \ {w} : op'[v].stage = "idle"
  <2>1. \A v \in Workers \ {w} : op[v].stage = "idle"
    BY <1>1 DEF SerialInv, InFlight
  <2>2. \A v \in Workers \ {w} : op'[v] = op[v]
    BY DEF Continue, Save, ReadPeers, WriteConf, CycleInterface, Restore, Remove, ApplyFails, TypeOK
  <2> QED
    BY <2>1, <2>2
<1>3. Idle.stage = "idle"
  BY DEF Idle
<1> DEFINE c == op[w]
<1> SUFFICES StageInv(w)' /\ (op'[w].stage = "idle" => Agrees(rows)')
  BY <1>2, OneWorker
<1>4. CASE Save(w)
  <2> USE <1>4 DEF Save
  <2>1. /\ c.peer \in Peers /\ c.before = rows[c.peer] /\ Agrees(rows) /\ c.kind # "tick"
        /\ c.kind = "rename" => c.entity = c.before
        /\ c.kind = "dismiss" => c.entity.status = "revoked"
    BY <1>1 DEF StageInv
  <2>2. rows' = [rows EXCEPT ![c.peer] = c.entity]
    OBVIOUS
  <2>3. CASE c.kind = "rename"
    <3>1. rows' = rows
      BY <2>1, <2>2, <2>3 DEF TypeOK
    <3>2. op'[w].stage = "idle"
      BY <1>3, <2>3 DEF TypeOK
    <3> QED
      BY <2>1, <3>1, <3>2 DEF Agrees, Registry!Follows, Registry!Entitled, Registry!Admitted, StageInv
  <2>4. CASE c.kind # "rename"
    <3>1. /\ op'[w].stage = "saved" /\ op'[w].peer = c.peer /\ op'[w].before = c.before
          /\ op'[w].kind = c.kind
      BY <2>4 DEF TypeOK, Call
    <3>2. Undone(w)' = rows
      <4>1. Undone(w)' = [rows' EXCEPT ![c.peer] = rows[c.peer]]
        BY <2>1, <3>1 DEF Undone
      <4>2. rows \in [Peers -> Row]
        BY DEF TypeOK
      <4> QED
        BY <2>1, <2>2, <4>1, <4>2
    <3>3. Agrees(Undone(w))'
      BY <2>1, <3>2 DEF Agrees, Registry!Follows, Registry!Entitled, Registry!Admitted
    <3>4. rows'[c.peer] = c.entity
      BY <2>1, <2>2 DEF TypeOK
    <3> QED
      BY <2>1, <3>1, <3>3, <3>4 DEF StageInv
  <2> QED
    BY <2>3, <2>4
<1>5. CASE ReadPeers(w)
  <2> USE <1>5 DEF ReadPeers
  <2>1. /\ op'[w].stage = "read" /\ op'[w].peer = c.peer /\ op'[w].before = c.before
        /\ op'[w].kind = c.kind /\ op'[w].snap = Desired
    BY DEF TypeOK, Call
  <2>2. Undone(w)' = Undone(w)
    BY <2>1 DEF Undone
  <2>3. Agrees(Undone(w))'
    BY <1>1, <2>2 DEF StageInv, Agrees, Registry!Follows, Registry!Entitled, Registry!Admitted
  <2>4. Registry!Follows(Desired, rows, now)
    BY DEF Desired, Lapsed, NoExpiry, Registry!Follows, Registry!Entitled, Registry!Admitted, TypeOK, Row
  <2>5. Registry!Follows(op[w].snap, rows, now)'
    BY <2>1, <2>4 DEF Registry!Follows, Registry!Entitled, Registry!Admitted
  <2> QED
    BY <1>1, <2>1, <2>3, <2>5 DEF StageInv
<1>6. CASE WriteConf(w)
  <2> USE <1>6 DEF WriteConf
  <2>1. /\ op'[w].stage = "written" /\ op'[w].peer = c.peer /\ op'[w].before = c.before
        /\ op'[w].kind = c.kind /\ op'[w].snap = c.snap /\ conf' = c.snap
    BY DEF TypeOK, Call
  <2>2. Undone(w)' = Undone(w)
    BY <2>1 DEF Undone
  <2>3. Registry!Follows(op[w].snap, rows, now)' /\ Registry!Follows(iface, Undone(w), now)'
    BY <1>1, <2>1, <2>2 DEF StageInv, Agrees, Registry!Follows, Registry!Entitled, Registry!Admitted
  <2> QED
    BY <1>1, <2>1, <2>3 DEF StageInv
<1>7. CASE CycleInterface(w)
  <2> USE <1>7 DEF CycleInterface, Applied
  <2>1. Agrees(rows)'
    BY <1>1 DEF StageInv, Agrees, Registry!Follows, Registry!Entitled, Registry!Admitted
  <2>2. CASE c.kind = "dismiss"
    <3>1. op'[w].stage = "removing" /\ op'[w].peer = c.peer /\ op'[w].kind = c.kind
      BY <2>2 DEF TypeOK, Call
    <3>2. c.peer \in Peers /\ rows[c.peer].status = "revoked"
      BY <1>1, <2>2 DEF StageInv, TypeOK, Call
    <3> QED
      BY <2>1, <3>1, <3>2 DEF StageInv
  <2>3. CASE c.kind # "dismiss"
    <3>1. op'[w].stage = "idle"
      BY <1>3, <2>3 DEF TypeOK
    <3> QED
      BY <2>1, <3>1 DEF StageInv
  <2> QED
    BY <2>2, <2>3
<1>8. CASE Restore(w)
  <2> USE <1>8 DEF Restore
  <2>1. op'[w].stage = "idle"
    BY <1>3 DEF TypeOK
  <2>2. rows' = Undone(w)
    BY <1>1 DEF StageInv, Undone
  <2>3. Agrees(rows)'
    BY <1>1, <2>2 DEF StageInv, Agrees, Registry!Follows, Registry!Entitled, Registry!Admitted
  <2> QED
    BY <2>1, <2>3 DEF StageInv
<1>9. CASE Remove(w)
  <2> USE <1>9 DEF Remove
  <2>1. op'[w].stage = "idle"
    BY <1>3 DEF TypeOK
  <2>2. Registry!Follows(iface, rows, now) /\ conf = iface /\ c.peer \in Peers /\ rows[c.peer].status = "revoked"
    BY <1>1 DEF StageInv, Agrees
  <2>3. Registry!Follows(iface, rows', now)
    BY <2>2 DEF Registry!Follows, Registry!Entitled, Registry!Admitted, TypeOK, Absent
  <2>4. Agrees(rows)'
    BY <2>2, <2>3 DEF Agrees, Registry!Follows, Registry!Entitled, Registry!Admitted
  <2> QED
    BY <2>1, <2>4 DEF StageInv
<1>10. CASE ApplyFails(w)
  <2> USE <1>10 DEF ApplyFails
  <2>1. c.stage = "read" /\ UNCHANGED <<rows, conf, iface, now>>
    OBVIOUS
  <2>2. Agrees(Undone(w)) /\ (c.peer = NoPeer <=> c.kind = "tick")
    BY <1>1, <2>1 DEF StageInv
  <2>3. CASE c.kind = "tick"
    <3>1. op'[w].stage = "idle"
      BY <1>3, <2>3 DEF TypeOK
    <3>2. Agrees(rows)'
      BY <2>1, <2>2, <2>3 DEF Undone, Agrees, Registry!Follows, Registry!Entitled, Registry!Admitted
    <3> QED
      BY <3>1, <3>2 DEF StageInv
  <2>4. CASE c.kind # "tick"
    <3>1. op'[w].stage = "restore" /\ op'[w].peer = c.peer /\ op'[w].before = c.before
      BY <2>4 DEF TypeOK, Call
    <3>2. Undone(w)' = Undone(w)
      BY <2>1, <3>1 DEF Undone
    <3>3. Agrees(Undone(w))'
      BY <2>1, <2>2, <3>2 DEF Agrees, Registry!Follows, Registry!Entitled, Registry!Admitted
    <3>4. c.peer \in Peers
      BY <2>2, <2>4 DEF TypeOK, Call
    <3> QED
      BY <3>1, <3>3, <3>4 DEF StageInv
  <2> QED
    BY <2>3, <2>4
<1> QED
  BY <1>4, <1>5, <1>6, <1>7, <1>8, <1>9, <1>10 DEF Continue

(***************************************************************************)
(* Time only ends terms: a set that follows a book goes on following it.   *)
(***************************************************************************)
LEMMA FollowsLater ==
    ASSUME NEW book \in [Peers -> Row], NEW keys, now \in Nat, Registry!Follows(keys, book, now)
    PROVE  Registry!Follows(keys, book, now + 1)
BY DEF Row, Registry!Follows, Registry!Entitled, Registry!Admitted

(***************************************************************************)
(* Undoing a pending change gives a database again.                        *)
(***************************************************************************)
LEMMA UndoneType ==
    ASSUME TypeOK, NEW w \in Workers
    PROVE  Undone(w) \in [Peers -> Row]
BY DEF TypeOK, Call, Undone

(***************************************************************************)
(* With one call at a time, early failures only and no restart, the        *)
(* invariant describes every stage of every call.                          *)
(***************************************************************************)
THEOREM SerialCalls ==
    ASSUME OneCallAtATime
    PROVE  Spec => []SerialInv
<1> USE EnvironmentAssumption DEF OneCallAtATime
<1>1. Init => SerialInv
  BY DEF Init, SerialInv, InFlight, Idle, StageInv, Agrees, Absent, Registry!Follows,
         Registry!Entitled, Registry!Admitted
<1>2. TypeOK /\ KeysComeFirst /\ SerialInv /\ [Next]_vars => SerialInv'
  <2> SUFFICES ASSUME TypeOK, KeysComeFirst, SerialInv, [Next]_vars PROVE SerialInv'
    OBVIOUS
  <2>1. CASE \E w \in Workers : Begin(w) \/ Tick(w)
    BY <2>1, BeginPreserves
  <2>2. CASE \E w \in Workers : Continue(w) \/ ApplyFails(w)
    BY <2>2, ContinuePreserves
  <2>3. CASE TickForgets \/ UNCHANGED vars
    <3>1. UNCHANGED <<rows, conf, iface, now, op>>
      BY <2>3 DEF TickForgets, vars, database, server
    <3>2. \A w \in Workers : Undone(w)' = Undone(w)
      BY <3>1 DEF Undone
    <3>3. Agrees(rows)' = Agrees(rows) /\ \A w \in Workers : Agrees(Undone(w))' = Agrees(Undone(w))
      BY <3>1, <3>2 DEF Agrees, Registry!Follows, Registry!Entitled, Registry!Admitted
    <3>4. \A w \in Workers : StageInv(w)'
      BY <3>1, <3>2, <3>3 DEF SerialInv, StageInv, Registry!Follows, Registry!Entitled, Registry!Admitted
    <3> QED
      BY <3>1, <3>3, <3>4 DEF SerialInv, InFlight
  <2>4. CASE TimePasses
    <3>1. UNCHANGED <<rows, conf, iface, op>> /\ now' = now + 1 /\ now \in Nat
      BY <2>4 DEF TimePasses, database, server, TypeOK
    <3>2. \A w \in Workers : Undone(w)' = Undone(w)
      BY <3>1 DEF Undone
    <3>3. rows \in [Peers -> Row]
      BY DEF TypeOK
    <3>4. ASSUME NEW book \in [Peers -> Row], NEW keys, Registry!Follows(keys, book, now)
          PROVE  Registry!Follows(keys, book, now')
      BY <3>1, <3>4, FollowsLater
    <3>5. Agrees(rows) => Agrees(rows)'
      BY <3>1, <3>3, <3>4 DEF Agrees, Registry!Follows, Registry!Entitled, Registry!Admitted
    <3>6. ASSUME NEW w \in Workers, StageInv(w) PROVE StageInv(w)'
      <4>1. Agrees(Undone(w)) => Agrees(Undone(w))'
        BY <3>1, <3>2, <3>4, UndoneType DEF Agrees, Registry!Follows, Registry!Entitled, Registry!Admitted
      <4>2. Registry!Follows(op[w].snap, rows, now) => Registry!Follows(op[w].snap, rows, now)'
        BY <3>1, <3>3, <3>4 DEF Registry!Follows, Registry!Entitled, Registry!Admitted
      <4>3. Registry!Follows(iface, Undone(w), now) => Registry!Follows(iface, Undone(w), now)'
        BY <3>1, <3>2, <3>4, UndoneType DEF Registry!Follows, Registry!Entitled, Registry!Admitted
      <4> QED
        BY <3>1, <3>5, <3>6, <4>1, <4>2, <4>3 DEF StageInv
    <3> QED
      BY <3>1, <3>5, <3>6 DEF SerialInv, InFlight
  <2>5. ~Crash
    BY DEF Crash, TypeOK
  <2> QED
    BY <2>1, <2>2, <2>3, <2>4, <2>5 DEF Next
<1> QED
  BY <1>1, <1>2, TypeCorrect, KeysFirst, PTL DEF Spec

(***************************************************************************)
(* Between calls the server and the database agree.                        *)
(***************************************************************************)
THEOREM ServerFollowsDatabase ==
    ASSUME OneCallAtATime
    PROVE  Spec => []ServerMatchesDatabase
<1>1. TypeOK /\ SerialInv => ServerMatchesDatabase
  BY DEF TypeOK, Row, SerialInv, ServerMatchesDatabase, Agrees, Desired, Active, Lapsed, NoExpiry,
         Registry!Follows, Registry!Entitled, Registry!Admitted
<1> QED
  BY <1>1, SerialCalls, TypeCorrect, PTL

-----------------------------------------------------------------------------
(* One call at a time is one transaction.                                  *)

(***************************************************************************)
(* The refinement mapping, in terms of the one call in progress.           *)
(***************************************************************************)
SettledForm ==
    /\ InFlight = {} => Settled = rows
    /\ \A w \in InFlight :
         Settled = IF op[w].stage \in {"saved", "read", "written", "restore"}
                     THEN Undone(w) ELSE rows

LEMMA SettledIs == TypeOK /\ SerialInv => SettledForm
<1> USE PeersAssumption
<1> SUFFICES ASSUME TypeOK, \A v, w \in InFlight : v = w PROVE SettledForm
  BY DEF SerialInv
<1>1. rows = [p \in Peers |-> rows[p]]
  BY DEF TypeOK
<1>2. ASSUME InFlight = {} PROVE Settled = rows
  BY <1>1, <1>2 DEF Settled
<1>3. ASSUME NEW w \in InFlight
      PROVE  Settled = IF op[w].stage \in {"saved", "read", "written", "restore"}
                         THEN Undone(w) ELSE rows
  <2>1. \A p \in Peers : op[w].peer = p => Holder(p) = w
    BY <1>3 DEF Holder
  <2>2. ASSUME NEW p \in Peers
        PROVE  Settled[p] = IF op[w].peer = p /\ op[w].stage \in {"saved", "read", "written", "restore"}
                              THEN op[w].before ELSE rows[p]
    BY <1>3, <2>1 DEF Settled
  <2>3. Undone(w) = [p \in Peers |-> IF op[w].peer = p THEN op[w].before ELSE rows[p]]
    <3>1. CASE op[w].peer \in Peers
      BY <1>1, <3>1 DEF Undone, TypeOK
    <3>2. CASE op[w].peer \notin Peers
      BY <1>1, <3>2 DEF Undone
    <3> QED
      BY <3>1, <3>2
  <2>4. Settled = [p \in Peers |-> Settled[p]]
    BY DEF Settled
  <2> QED
    BY <1>1, <2>2, <2>3, <2>4
<1> QED
  BY <1>2, <1>3 DEF SettledForm

(***************************************************************************)
(* With one call at a time, early failures only and no restart, PeerSync   *)
(* implements PeerRegistry: every call changes the account book and the    *)
(* access of the keys in a single step, or not at all.                     *)
(***************************************************************************)
THEOREM CallsAreTransactions ==
    ASSUME OneCallAtATime
    PROVE  Spec => ImplementsRegistry
<1> USE EnvironmentAssumption, PeersAssumption DEF OneCallAtATime, database, server, budget
<1>1. Init => Registry!Init
  BY DEF Init, Registry!Init, Settled, InFlight, Idle, Absent, NoExpiry, Registry!Nobody
<1>2. TypeOK /\ SerialInv /\ SettledForm /\ SettledForm' /\ [Next]_vars
      => [Registry!Next]_<<Settled, iface, now>>
  <2> SUFFICES ASSUME TypeOK, SerialInv, SettledForm, SettledForm', [Next]_vars
               PROVE  [Registry!Next]_<<Settled, iface, now>>
    OBVIOUS
  <2>i. InFlight = {} => Settled = rows
    BY DEF SettledForm
  <2>j. InFlight' = {} => Settled' = rows'
    BY DEF SettledForm
  <2>s. \A w \in InFlight :
          Settled = IF op[w].stage \in {"saved", "read", "written", "restore"} THEN Undone(w) ELSE rows
    BY DEF SettledForm
  <2>t. \A w \in InFlight' :
          Settled' = IF op'[w].stage \in {"saved", "read", "written", "restore"} THEN Undone(w)' ELSE rows'
    BY DEF SettledForm
  <2>1. ASSUME NEW w \in Workers, Begin(w) \/ Tick(w) PROVE UNCHANGED <<Settled, iface, now>>
    <3>1. UNCHANGED <<rows, iface, now>>
      BY <2>1 DEF Begin, BeginCreate, BeginRevoke, BeginUpdate, BeginPurge, Tick
    <3>2. PICK kind, p, entity, before, stage :
            /\ Start(w, kind, p, entity, before, stage)
            /\ stage \in {"loaded", "removing"} \/ (stage = "saved" /\ p = NoPeer)
      <4>1. CASE BeginCreate(w)
        BY <4>1 DEF BeginCreate
      <4>2. CASE BeginRevoke(w)
        BY <4>2 DEF BeginRevoke
      <4>3. CASE BeginUpdate(w)
        BY <4>3 DEF BeginUpdate
      <4>4. CASE BeginPurge(w)
        BY <4>4 DEF BeginPurge
      <4>5. CASE Tick(w)
        BY <4>5 DEF Tick
      <4> QED
        BY <2>1, <4>1, <4>2, <4>3, <4>4, <4>5 DEF Begin
    <3>3. InFlight = {} /\ op'[w].stage = stage /\ op'[w].peer = p
      BY <3>2 DEF Start
    <3>4. w \in InFlight'
      BY <3>2, <3>3 DEF InFlight
    <3>5. Settled' = rows'
      BY <2>t, <3>2, <3>3, <3>4 DEF Undone
    <3> QED
      BY <2>i, <3>1, <3>3, <3>5
  <2>2. ASSUME NEW w \in Workers, Continue(w) \/ ApplyFails(w)
        PROVE  [Registry!Next]_<<Settled, iface, now>>
    <3> DEFINE c == op[w]
    <3>1. w \in InFlight /\ StageInv(w)
      BY <2>2 DEF Continue, Save, ReadPeers, WriteConf, CycleInterface, Restore, Remove, ApplyFails, SerialInv, InFlight
    <3>2. \A v \in Workers \ {w} : op[v].stage = "idle" /\ op'[v].stage = "idle"
      <4>1. \A v \in Workers \ {w} : op[v].stage = "idle"
        BY <3>1 DEF SerialInv, InFlight
      <4>2. \A v \in Workers \ {w} : op'[v] = op[v]
        BY <2>2 DEF Continue, Save, ReadPeers, WriteConf, CycleInterface, Restore, Remove, ApplyFails, TypeOK
      <4> QED
        BY <4>1, <4>2
    <3>3. op'[w].stage = "idle" => Settled' = rows'
      BY <2>j, <3>2 DEF InFlight
    <3>4. op'[w].stage \in {"loaded", "removing"} => Settled' = rows'
      BY <2>t DEF InFlight
    <3>5. op'[w].stage \in {"saved", "read", "written", "restore"} => Settled' = Undone(w)'
      BY <2>t DEF InFlight
    <3>r. rows \in [Peers -> Row] /\ (\A p \in Peers : rows[p] \in Registry!Entry)
      BY DEF TypeOK, Row, Registry!Entry
    <3>6. CASE Save(w)
      <4>1. /\ c.peer \in Peers /\ c.before = rows[c.peer]
            /\ c.kind = "rename" => c.entity = c.before
        BY <3>1, <3>6 DEF StageInv, Save
      <4>2. Settled = rows
        BY <2>s, <3>1, <3>6 DEF Save
      <4>3. rows' = [rows EXCEPT ![c.peer] = c.entity] /\ UNCHANGED <<iface, now>>
        BY <3>6 DEF Save
      <4>4. CASE c.kind = "rename"
        <5>1. op'[w].stage = "idle"
          BY <3>6, <4>4 DEF Save, TypeOK, Idle
        <5> QED
          BY <3>3, <3>r, <4>1, <4>2, <4>3, <4>4, <5>1
      <4>5. CASE c.kind # "rename"
        <5>1. op'[w].stage = "saved" /\ op'[w].peer = c.peer /\ op'[w].before = c.before
          BY <3>6, <4>5 DEF Save, TypeOK, Call
        <5>2. Settled' = [rows' EXCEPT ![c.peer] = rows[c.peer]]
          BY <3>5, <4>1, <5>1 DEF Undone
        <5> QED
          BY <3>r, <4>1, <4>2, <4>3, <5>2
      <4> QED
        BY <4>4, <4>5
    <3>7. CASE ReadPeers(w) \/ WriteConf(w)
      <4>1. /\ UNCHANGED <<rows, iface, now>>
            /\ op'[w].peer = c.peer /\ op'[w].before = c.before
            /\ c.stage \in {"saved", "read"} /\ op'[w].stage \in {"read", "written"}
        BY <3>7 DEF ReadPeers, WriteConf, TypeOK, Call
      <4>2. Undone(w)' = Undone(w)
        BY <4>1 DEF Undone
      <4> QED
        BY <2>s, <3>1, <3>5, <4>1, <4>2
    <3>8. CASE CycleInterface(w)
      <4>1. /\ Settled = Undone(w) /\ UNCHANGED <<rows, now>>
            /\ Registry!Follows(iface', rows, now)
        BY <2>s, <3>1, <3>8 DEF StageInv, CycleInterface
      <4>2. op'[w].stage \in {"idle", "removing"}
        BY <3>8 DEF CycleInterface, Applied, TypeOK, Call, Idle
      <4>3. Settled' = rows
        BY <3>3, <3>4, <4>1, <4>2
      <4>4. Registry!Follows(iface', Settled', now)
        BY <4>1, <4>3
      <4>5. CASE c.peer \in Peers
        <5>1. Settled' = [Settled EXCEPT ![c.peer] = rows[c.peer]]
          BY <3>r, <4>1, <4>3, <4>5 DEF Undone
        <5> QED
          BY <3>r, <4>1, <4>4, <4>5, <5>1 DEF Registry!Next, Registry!Change
      <4>6. CASE c.peer \notin Peers
        BY <4>1, <4>3, <4>4, <4>6 DEF Undone, Registry!Next, Registry!Enforce
      <4> QED
        BY <4>5, <4>6
    <3>9. CASE Restore(w)
      <4>1. c.peer \in Peers /\ Settled = Undone(w)
        BY <2>s, <3>1, <3>9 DEF StageInv, Restore
      <4>2. rows' = Undone(w) /\ UNCHANGED <<iface, now>>
        BY <3>9, <4>1 DEF Restore, Undone
      <4>3. op'[w].stage = "idle"
        BY <3>9 DEF Restore, TypeOK, Idle
      <4> QED
        BY <3>3, <4>1, <4>2, <4>3
    <3>10. CASE Remove(w)
      <4>1. /\ c.peer \in Peers /\ rows[c.peer].status = "revoked"
            /\ Settled = rows
        BY <2>s, <3>1, <3>10 DEF StageInv, Remove
      <4>2. rows' = [rows EXCEPT ![c.peer] = Absent] /\ UNCHANGED <<iface, now>>
        BY <3>10 DEF Remove
      <4>3. op'[w].stage = "idle"
        BY <3>10 DEF Remove, TypeOK, Idle
      <4>4. Settled' = [Settled EXCEPT ![c.peer] = Registry!Nobody]
        BY <3>3, <4>1, <4>2, <4>3 DEF Absent, NoExpiry, Registry!Nobody
      <4> QED
        BY <4>1, <4>2, <4>4 DEF Registry!Next, Registry!Forget
    <3>11. CASE ApplyFails(w)
      <4>1. /\ UNCHANGED <<rows, iface, now>> /\ c.stage = "read"
            /\ c.peer = NoPeer <=> c.kind = "tick"
            /\ Settled = Undone(w)
        BY <2>s, <3>1, <3>11 DEF StageInv, ApplyFails
      <4>2. CASE c.kind = "tick"
        <5>1. op'[w].stage = "idle"
          BY <3>11, <4>2 DEF ApplyFails, TypeOK, Idle
        <5> QED
          BY <3>3, <4>1, <4>2, <5>1 DEF Undone
      <4>3. CASE c.kind # "tick"
        <5>1. op'[w].stage = "restore" /\ op'[w].peer = c.peer /\ op'[w].before = c.before
          BY <3>11, <4>3 DEF ApplyFails, TypeOK, Call
        <5>2. Undone(w)' = Undone(w)
          BY <4>1, <5>1 DEF Undone
        <5> QED
          BY <3>5, <4>1, <5>1, <5>2
      <4> QED
        BY <4>2, <4>3
    <3> QED
      BY <2>2, <3>6, <3>7, <3>8, <3>9, <3>10, <3>11 DEF Continue
  <2>3. CASE TickForgets \/ UNCHANGED vars
    <3>1. UNCHANGED <<rows, iface, now, op>>
      BY <2>3 DEF TickForgets, vars
    <3> QED
      BY <3>1 DEF Settled, InFlight, Holder
  <2>4. CASE TimePasses
    <3>1. UNCHANGED <<rows, iface, op>> /\ now < MaxTime /\ now' = now + 1
      BY <2>4 DEF TimePasses
    <3>2. Settled' = Settled
      BY <3>1 DEF Settled, InFlight, Holder
    <3> QED
      BY <3>1, <3>2 DEF Registry!Next, Registry!Elapse
  <2>5. ~Crash
    BY DEF Crash, TypeOK
  <2> QED
    BY <2>1, <2>2, <2>3, <2>4, <2>5 DEF Next
<1> QED
  BY <1>1, <1>2, SerialCalls, TypeCorrect, SettledIs, PTL DEF Spec, ImplementsRegistry, Registry!Spec, Registry!registryVars

-----------------------------------------------------------------------------
(* A call that nothing overlapped.                                         *)

NobodyElse(w) == \A v \in Workers \ {w} : op[v].stage = "idle"

\* The list it read is one the server may have: time may pass, but no row changes.
ListIsGood(list) == Desired \subseteq list /\ list \subseteq Active

AloneFits(w) ==
    /\ NobodyElse(w)
    /\ op[w].stage \in {"read", "written"} => ListIsGood(op[w].snap)
    /\ op[w].stage = "written" => conf = op[w].snap

AloneInv == \A w \in Workers : op[w].alone => AloneFits(w)

LEMMA AloneStarts ==
    ASSUME TypeOK, NEW w \in Workers, NEW kind, NEW p, NEW entity, NEW before, NEW stage \in {"loaded", "removing", "saved"},
           Start(w, kind, p, entity, before, stage)
    PROVE  AloneInv'
<1>1. op'[w].stage = stage /\ (op'[w].alone => InFlight = {})
  BY DEF Start, TypeOK
<1>2. \A v \in Workers \ {w} : ~op'[v].alone /\ op'[v].stage = op[v].stage
  BY DEF Start, TypeOK, Call
<1> QED
  BY <1>1, <1>2 DEF AloneInv, AloneFits, NobodyElse, InFlight

\* What a call that is alone relies on when another worker has nothing to do.
LEMMA AloneMoves ==
    ASSUME TypeOK, AloneInv, NEW w \in Workers, op[w].stage # "idle",
           \A v \in Workers \ {w} : op'[v] = op[v], op'[w].alone => op[w].alone,
           op'[w].alone /\ NobodyElse(w) => AloneFits(w)'
    PROVE  AloneInv'
<1> SUFFICES ASSUME NEW v \in Workers, op'[v].alone PROVE AloneFits(v)'
  BY DEF AloneInv
<1>1. CASE v = w
  BY <1>1 DEF AloneInv, AloneFits
<1>2. CASE v # w
  BY <1>2 DEF AloneInv, AloneFits, NobodyElse
<1> QED
  BY <1>1, <1>2

LEMMA AloneContinues ==
    ASSUME TypeOK, AloneInv, [Next]_vars
    PROVE  AloneInv'
<1>0. Idle.alone = FALSE /\ op \in [Workers -> Call]
  BY DEF Idle, TypeOK
<1>1. ASSUME NEW w \in Workers, Begin(w) \/ Tick(w) PROVE AloneInv'
  BY <1>1, AloneStarts DEF Begin, BeginCreate, BeginRevoke, BeginUpdate, BeginPurge, Tick
<1>2. ASSUME NEW w \in Workers, Save(w) \/ Restore(w) \/ Remove(w) \/ CycleInterface(w) \/ ApplyFails(w)
      PROVE  AloneInv'
  <2>1. op[w].stage # "idle" /\ \A v \in Workers \ {w} : op'[v] = op[v]
    BY <1>0, <1>2 DEF Save, Restore, Remove, CycleInterface, ApplyFails
  <2>2. (op'[w].alone => op[w].alone) /\ op'[w].stage \notin {"read", "written"}
    BY <1>0, <1>2 DEF Save, Restore, Remove, CycleInterface, ApplyFails, Applied, Idle, Call
  <2>3. NobodyElse(w) => AloneFits(w)'
    BY <2>1, <2>2 DEF AloneFits, NobodyElse
  <2> QED
    BY <2>1, <2>2, <2>3, AloneMoves
<1>3. ASSUME NEW w \in Workers, ReadPeers(w) PROVE AloneInv'
  <2>1. op[w].stage # "idle" /\ \A v \in Workers \ {w} : op'[v] = op[v]
    BY <1>0, <1>3 DEF ReadPeers
  <2>2. op'[w].alone = op[w].alone /\ op'[w].stage = "read" /\ op'[w].snap = Desired
    BY <1>0, <1>3 DEF ReadPeers, Call
  <2>3. Desired' = Desired /\ Active' = Active /\ Desired \subseteq Active
    BY <1>3 DEF ReadPeers, Desired, Active, Lapsed, database
  <2>4. NobodyElse(w) => AloneFits(w)'
    BY <2>1, <2>2, <2>3 DEF AloneFits, NobodyElse, ListIsGood
  <2> QED
    BY <2>1, <2>2, <2>4, AloneMoves
<1>4. ASSUME NEW w \in Workers, WriteConf(w) PROVE AloneInv'
  <2>1. op[w].stage = "read" /\ \A v \in Workers \ {w} : op'[v] = op[v]
    BY <1>0, <1>4 DEF WriteConf
  <2>2. op'[w].alone = op[w].alone /\ op'[w].stage = "written" /\ op'[w].snap = op[w].snap /\ conf' = op[w].snap
    BY <1>0, <1>4 DEF WriteConf, Call
  <2>3. Desired' = Desired /\ Active' = Active
    BY <1>4 DEF WriteConf, Desired, Active, Lapsed, database
  <2>4. op[w].alone /\ NobodyElse(w) => AloneFits(w)'
    BY <2>1, <2>2, <2>3 DEF AloneInv, AloneFits, NobodyElse, ListIsGood
  <2> QED
    BY <2>1, <2>2, <2>4, AloneMoves
<1>5. CASE TimePasses
  <2>1. Desired' \subseteq Desired /\ Active' = Active /\ op' = op /\ conf' = conf
    BY <1>5, EnvironmentAssumption DEF TimePasses, Desired, Active, Lapsed, database, server, TypeOK, Row, NoExpiry
  <2> QED
    BY <2>1 DEF AloneInv, AloneFits, NobodyElse, ListIsGood
<1>6. CASE TickForgets \/ UNCHANGED vars
  <2>1. Desired' = Desired /\ Active' = Active /\ op' = op /\ conf' = conf
    BY <1>6 DEF TickForgets, vars, Desired, Active, Lapsed, database, server
  <2> QED
    BY <2>1 DEF AloneInv, AloneFits, NobodyElse, ListIsGood
<1>7. CASE Crash
  BY <1>0, <1>7 DEF Crash, AloneInv
<1> QED
  BY <1>1, <1>2, <1>3, <1>4, <1>5, <1>6, <1>7 DEF Next, Continue

(***************************************************************************)
(* For any peers, workers, failures and restarts: a call whose sync        *)
(* succeeded with no other call beside it leaves on the server all peers   *)
(* whose term runs and only active ones, whatever was there before         *)
(* (syncServerPeers in peers.service.ts, applyPeers of the driver).        *)
(***************************************************************************)
THEOREM LoneSyncsHeal == Spec => SyncHeals
<1> DEFINE Heals == \A w \in Workers :
                      op[w].alone /\ CycleInterface(w) => Desired \subseteq iface' /\ iface' \subseteq Active
<1>1. TypeOK /\ AloneInv /\ [Next]_vars => [Heals]_vars
  BY DEF AloneInv, AloneFits, ListIsGood, CycleInterface
<1>2. Init => AloneInv
  BY DEF Init, AloneInv, Idle
<1> QED
  BY <1>1, <1>2, AloneContinues, TypeCorrect, PTL DEF Spec, SyncHeals

=============================================================================
