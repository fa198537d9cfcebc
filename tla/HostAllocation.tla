--------------------------- MODULE HostAllocation ---------------------------
(***************************************************************************)
(* The addresses of one protocol's network.  Four parties write them: the  *)
(* counter of the panel (allocateIp), the panel's import of keys it finds  *)
(* in the server's file (importScannedPeers, bumpNextHostOctetPastAllo-    *)
(* cated), whoever edits that file by hand, and ServersService, which      *)
(* saves whole ServerProtocol rows it loaded earlier, counter included.    *)
(* Calls overlap at every await, an insert may fail, and the backend may   *)
(* restart in the middle.                                                  *)
(*                                                                         *)
(* The race of syncs over the file is PeerSync's subject: here a sync is   *)
(* one step.                                                               *)
(***************************************************************************)
EXTENDS Integers

CONSTANTS
    Keys,        \* public keys
    Workers,     \* calls that may be suspended at the same time
    Serial,      \* TRUE: a call starts only when no other is in progress
    FirstOctet,  \* 2: the gateway has .1
    MaxOctet,    \* 254
    RowWriters,  \* which calls of ServersService also save the protocol row
    MaxFaults    \* bound on failed inserts, failed syncs and restarts

ASSUME ConstantsAssumption ==
    /\ Serial \in BOOLEAN
    /\ FirstOctet \in Nat \ {0}
    /\ MaxOctet \in Nat
    /\ FirstOctet <= MaxOctet
    /\ RowWriters \subseteq {"reserve", "refresh"}
    /\ MaxFaults \in Nat

VARIABLES
    rowOctet,       \* the address stored with each key, 0 when the key has no row
    twice,          \* the keys that have a second row: nothing in the schema forbids it
    confOctet,      \* the address of each key in the server's file, 0 when absent
    nextHostOctet,  \* ServerProtocol.nextHostOctet
    origin,         \* who made each key pair: the panel, a hand, or nobody yet
    reserved,       \* ensureReservedUpstreamPeer has been called for this protocol
    op,             \* the call each worker is executing
    faults

vars == <<rowOctet, twice, confOctet, nextHostOctet, origin, reserved, op, faults>>

Octets == FirstOctet .. MaxOctet

Stages == {"idle", "allocated", "inserted", "scanned", "importing", "measuring", "bumping", "holding"}

\* A creation carries its key and address; an import the addresses it scanned,
\* the keys left to insert, whether it inserted any, and the maximum it read; a
\* call that keeps the protocol row in memory, to save it later, its counter.
Call == [stage : Stages, scan : [Keys -> 0 .. MaxOctet], todo : SUBSET Keys, imported : BOOLEAN,
         max : 0 .. MaxOctet, keeps : {"nothing", "row"}, held : FirstOctet .. MaxOctet + 1]

NoScan == [k \in Keys |-> 0]

CallAt(stage, scan, todo, keeps, held) ==
    [stage |-> stage, scan |-> scan, todo |-> todo, imported |-> FALSE, max |-> 0,
     keeps |-> keeps, held |-> held]

Idle == CallAt("idle", NoScan, {}, "nothing", FirstOctet)

TypeOK ==
    /\ rowOctet \in [Keys -> 0 .. MaxOctet]
    /\ twice \subseteq Keys
    /\ confOctet \in [Keys -> 0 .. MaxOctet]
    /\ nextHostOctet \in FirstOctet .. MaxOctet + 1
    /\ origin \in [Keys -> {"unused", "panel", "hand"}]
    /\ reserved \in BOOLEAN
    /\ op \in [Workers -> Call]
    /\ faults \in Nat

Stored == {k \in Keys : rowOctet[k] # 0}

Listed == {k \in Keys : confOctet[k] # 0}

InFlight == {w \in Workers : op[w].stage # "idle"}

Init ==
    /\ rowOctet = NoScan
    /\ twice = {}
    /\ confOctet = NoScan
    /\ nextHostOctet = FirstOctet
    /\ origin = [k \in Keys |-> "unused"]
    /\ reserved = FALSE
    /\ op = [w \in Workers |-> Idle]
    /\ faults = 0

Start(w, call) ==
    /\ op[w].stage = "idle"
    /\ Serial => InFlight = {}
    /\ op' = [op EXCEPT ![w] = call]

Fault == faults < MaxFaults /\ faults' = faults + 1

-----------------------------------------------------------------------------
(* Somebody edits the file by hand, with an address nobody uses.           *)

AddByHand ==
    \E k \in Keys \ (Listed \cup Stored), o \in Octets :
        /\ origin[k] # "panel"
        /\ Serial => InFlight = {}
        /\ \A other \in Keys : o \notin {rowOctet[other], confOctet[other]}
        /\ origin' = [origin EXCEPT ![k] = "hand"]
        /\ confOctet' = [confOctet EXCEPT ![k] = o]
        /\ UNCHANGED <<rowOctet, twice, nextHostOctet, reserved, op, faults>>

-----------------------------------------------------------------------------
(* createInternal.                                                         *)

\* Mutant: the counter is not stepped.
DrawUncounted(w, keeps) ==
    \E k \in Keys :
        /\ origin[k] = "unused"
        /\ nextHostOctet <= MaxOctet
        /\ origin' = [origin EXCEPT ![k] = "panel"]
        /\ Start(w, CallAt("allocated", [NoScan EXCEPT ![k] = nextHostOctet], {k}, keeps, FirstOctet))
        /\ UNCHANGED <<rowOctet, twice, confOctet, nextHostOctet, faults>>

\* A new key pair, and the next address in one locked transaction.
Draw(w, keeps) ==
    \E k \in Keys :
        /\ origin[k] = "unused"
        /\ nextHostOctet <= MaxOctet
        /\ nextHostOctet' = nextHostOctet + 1
        /\ origin' = [origin EXCEPT ![k] = "panel"]
        /\ Start(w, CallAt("allocated", [NoScan EXCEPT ![k] = nextHostOctet], {k}, keeps, FirstOctet))
        /\ UNCHANGED <<rowOctet, twice, confOctet, faults>>

Allocate(w) == Draw(w, "nothing") /\ UNCHANGED reserved

\* ensureReservedUpstreamPeer: the first peer of a new protocol, made by a call
\* that still holds the row as installProtocol saved it.
AllocateReserve(w) ==
    /\ "reserve" \in RowWriters
    /\ ~reserved
    /\ reserved' = TRUE
    /\ Draw(w, "row")

InsertCreated(w) ==
    /\ op[w].stage = "allocated"
    /\ rowOctet' = [k \in Keys |-> IF k \in op[w].todo THEN op[w].scan[k] ELSE rowOctet[k]]
    /\ op' = [op EXCEPT ![w].stage = "inserted"]
    /\ UNCHANGED <<twice, confOctet, nextHostOctet, origin, reserved, faults>>

\* syncServerPeers: the file becomes the list of rows, whatever it held before.
SyncCreated(w) ==
    /\ op[w].stage = "inserted"
    /\ confOctet' = rowOctet
    /\ op' = [op EXCEPT ![w] = IF op[w].keeps = "row" THEN [@ EXCEPT !.stage = "holding"] ELSE Idle]
    /\ UNCHANGED <<rowOctet, twice, nextHostOctet, origin, reserved, faults>>

\* The server refused: the row is deleted again, its address stays spent.
SyncRefused(w) ==
    /\ op[w].stage = "inserted"
    /\ Fault
    /\ rowOctet' = [k \in Keys |-> IF k \in op[w].todo THEN 0 ELSE rowOctet[k]]
    /\ op' = [op EXCEPT ![w] = Idle]
    /\ UNCHANGED <<twice, confOctet, nextHostOctet, origin, reserved>>

\* A peer is revoked, removed from the server and purged.
RemovePeer ==
    \E k \in Stored :
        /\ Serial => InFlight = {}
        /\ twice' = twice \ {k}
        /\ rowOctet' = IF k \in twice THEN rowOctet ELSE [rowOctet EXCEPT ![k] = 0]
        /\ confOctet' = rowOctet'
        /\ UNCHANGED <<nextHostOctet, origin, reserved, op, faults>>

-----------------------------------------------------------------------------
(* importScannedPeers.                                                     *)

Scan(w) ==
    /\ Start(w, CallAt("scanned", confOctet, {}, "nothing", FirstOctet))
    /\ UNCHANGED <<rowOctet, twice, confOctet, nextHostOctet, origin, reserved, faults>>

\* Mutant: keys that already have a row are not left out.
ReadNothing(w) ==
    /\ op[w].stage = "scanned"
    /\ op' = [op EXCEPT ![w].stage = "importing", ![w].todo = {k \in Keys : op[w].scan[k] # 0}]
    /\ UNCHANGED <<rowOctet, twice, confOctet, nextHostOctet, origin, reserved, faults>>

\* The keys that have a row are looked up once, before the first insert.
ReadExisting(w) ==
    /\ op[w].stage = "scanned"
    /\ LET new == {k \in Keys : op[w].scan[k] # 0} \ Stored
       IN  op' = [op EXCEPT ![w].stage = "importing", ![w].todo = new,
                            ![w].scan = [k \in Keys |-> IF k \in new THEN @[k] ELSE 0]]
    /\ UNCHANGED <<rowOctet, twice, confOctet, nextHostOctet, origin, reserved, faults>>

ImportOne(w) ==
    /\ op[w].stage = "importing"
    /\ \E k \in op[w].todo :
        /\ rowOctet' = [rowOctet EXCEPT ![k] = op[w].scan[k]]
        /\ twice' = IF k \in Stored THEN twice \cup {k} ELSE twice
        /\ op' = [op EXCEPT ![w] = [op[w] EXCEPT !.todo = @ \ {k}, !.scan[k] = 0, !.imported = TRUE]]
    /\ UNCHANGED <<confOctet, nextHostOctet, origin, reserved, faults>>

\* An insert fails: the loop and the call end there.
ImportBreaks(w) ==
    /\ op[w].stage = "importing"
    /\ op[w].todo # {}
    /\ Fault
    /\ op' = [op EXCEPT ![w] = Idle]
    /\ UNCHANGED <<rowOctet, twice, confOctet, nextHostOctet, origin, reserved>>

\* The counter is looked at only when something was inserted.
ImportDone(w) ==
    /\ op[w].stage = "importing"
    /\ op[w].todo = {}
    /\ op' = [op EXCEPT ![w] = IF op[w].imported THEN [@ EXCEPT !.stage = "measuring"] ELSE Idle]
    /\ UNCHANGED <<rowOctet, twice, confOctet, nextHostOctet, origin, reserved, faults>>

\* bumpNextHostOctetPastAllocated: the maximum is read before the transaction.
ReadMax(w) ==
    /\ op[w].stage = "measuring"
    /\ \E m \in {rowOctet[k] : k \in Keys} \cup {1} :
        /\ \A k \in Keys : rowOctet[k] <= m
        /\ op' = [op EXCEPT ![w].stage = "bumping", ![w].max = m]
    /\ UNCHANGED <<rowOctet, twice, confOctet, nextHostOctet, origin, reserved, faults>>

\* Mutant: the counter is set without looking at it under the lock.
BumpBlindly(w) ==
    /\ op[w].stage = "bumping"
    /\ nextHostOctet' = op[w].max + 1
    /\ op' = [op EXCEPT ![w] = Idle]
    /\ UNCHANGED <<rowOctet, twice, confOctet, origin, reserved, faults>>

\* Mutant: the maximum itself is taken for free.
BumpToMax(w) ==
    /\ op[w].stage = "bumping"
    /\ nextHostOctet' = IF nextHostOctet < op[w].max THEN op[w].max ELSE nextHostOctet
    /\ op' = [op EXCEPT ![w] = Idle]
    /\ UNCHANGED <<rowOctet, twice, confOctet, origin, reserved, faults>>

Bump(w) ==
    /\ op[w].stage = "bumping"
    /\ nextHostOctet' = IF nextHostOctet <= op[w].max THEN op[w].max + 1 ELSE nextHostOctet
    /\ op' = [op EXCEPT ![w] = Idle]
    /\ UNCHANGED <<rowOctet, twice, confOctet, origin, reserved, faults>>

-----------------------------------------------------------------------------
(* ServersService saves the row it has in memory: TypeORM writes every     *)
(* column that differs from the stored row, the counter too.               *)

\* checkProtocolVersion, updateProtocolPackage and detectExisting load the row,
\* then ask the server over SSH.
LoadProtocol(w) ==
    /\ "refresh" \in RowWriters
    /\ Start(w, CallAt("holding", NoScan, {}, "row", nextHostOctet))
    /\ UNCHANGED <<rowOctet, twice, confOctet, nextHostOctet, origin, reserved, faults>>

SaveProtocol(w) ==
    /\ op[w].stage = "holding"
    /\ nextHostOctet' = op[w].held
    /\ op' = [op EXCEPT ![w] = Idle]
    /\ UNCHANGED <<rowOctet, twice, confOctet, origin, reserved, faults>>

\* The server does not answer: nothing is saved.
ProtocolSilent(w) ==
    /\ op[w].stage = "holding"
    /\ Fault
    /\ op' = [op EXCEPT ![w] = Idle]
    /\ UNCHANGED <<rowOctet, twice, confOctet, nextHostOctet, origin, reserved>>

\* The backend restarts.
Restart ==
    /\ InFlight # {}
    /\ Fault
    /\ op' = [w \in Workers |-> Idle]
    /\ UNCHANGED <<rowOctet, twice, confOctet, nextHostOctet, origin, reserved>>

Next ==
    \/ \E w \in Workers :
          \/ Allocate(w) \/ AllocateReserve(w) \/ InsertCreated(w) \/ SyncCreated(w) \/ SyncRefused(w)
          \/ Scan(w) \/ ReadExisting(w) \/ ImportOne(w) \/ ImportBreaks(w) \/ ImportDone(w)
          \/ ReadMax(w) \/ Bump(w)
          \/ LoadProtocol(w) \/ SaveProtocol(w) \/ ProtocolSilent(w)
    \/ AddByHand
    \/ RemovePeer
    \/ Restart

Spec == Init /\ [][Next]_vars

-----------------------------------------------------------------------------
(* Properties.                                                             *)

SharesAddress(k, other) == k # other /\ rowOctet[k] # 0 /\ rowOctet[k] = rowOctet[other]

(***************************************************************************)
(* Two keys made by the panel never share an address, however creations,   *)
(* imports, failures and restarts interleave (allocateIp and the check     *)
(* under the lock in bumpNextHostOctetPastAllocated).  It holds as long as *)
(* ServersService saves no protocol row.                                   *)
(***************************************************************************)
CreatedAddressesUnique == 
    \A k, other \in Keys : origin[k] = "panel" /\ origin[other] = "panel" => ~SharesAddress(k, other)

(***************************************************************************)
(* The counter never falls back, although the import computes its new      *)
(* value from rows it read before it took the lock.  It holds as long as   *)
(* ServersService saves no protocol row.                                   *)
(***************************************************************************)
CounterNeverFallsBack == [][nextHostOctet' >= nextHostOctet]_vars

(***************************************************************************)
(* An import that broke off can be repeated: with one call at a time no    *)
(* key is ever stored twice, wherever the earlier attempt stopped.         *)
(***************************************************************************)
ImportRepeatable == twice = {}

(***************************************************************************)
(* With one call at a time, as long as nothing failed and no reserved peer *)
(* was made, no two stored peers share an address, whether the panel made  *)
(* them or imported them.                                                  *)
(***************************************************************************)
NoSharedAddress ==
    faults = 0 /\ ~reserved => \A k, other \in Keys : ~SharesAddress(k, other)

(***************************************************************************)
(* The comment on bumpNextHostOctetPastAllocated: the counter is moved so  *)
(* that a new peer does not get an address that is already taken.          *)
(***************************************************************************)
NewAddressIsFree ==
    [][\A w \in Workers : Allocate(w) => \A k \in Keys : rowOctet[k] # nextHostOctet]_vars

=============================================================================
