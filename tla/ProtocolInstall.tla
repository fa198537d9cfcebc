-------------------------- MODULE ProtocolInstall --------------------------
(***************************************************************************)
(* Protocols of one server: installProtocol of vpn-provisioning.service.ts *)
(* with install of the driver, the two ways to get rid of one, with and    *)
(* without its interface, detectExisting, which enters what the server has *)
(* already, and the reboot for another kernel.  Rows say what clients are  *)
(* told, interfaces on the server what answers them.                       *)
(***************************************************************************)
EXTENDS Naturals, Functions, FiniteSetsExt

CONSTANTS
    ProtocolRows,   \* rows that may be made
    Interfaces,     \* names: the default one of each kind, those of bridges
    KindOf,         \* the kind that uses each name
    NoRow,
    Installers,     \* calls that may be in progress at the same time
    OneInstaller,   \* TRUE: a call starts only when no other is in progress
    MaxPort,        \* bound on ports and networks
    MaxInstalls, MaxInstallFaults

ASSUME InstallAssumption ==
    /\ OneInstaller \in BOOLEAN
    /\ {MaxPort, MaxInstalls, MaxInstallFaults} \subseteq Nat
    /\ DOMAIN KindOf = Interfaces /\ NoRow \notin Interfaces

VARIABLES
    row,       \* kind, interface once it is up, port, network, status, public key
    files,     \* configurations on the server: port, network, key of an interface
    enabled,   \* interfaces that start with the server
    running,   \* interfaces on the server: port, network, key
    install,   \* the calls in progress
    installs,  \* their number; it also numbers the keys they make
    faults,
    unclear    \* a reboot had a choice, or detectExisting took a row or a file that
               \* did not belong to what it found

serverVars == <<files, enabled, running>>
installVars == <<row, serverVars, install, installs, faults, unclear>>

Statuses == {"installing", "active", "error"}
InstalledRow ==
    [kind : Range(KindOf), iface : Interfaces \cup {NoRow}, port : 1 .. MaxPort, net : 1 .. MaxPort,
     status : Statuses, key : 0 .. MaxInstalls]
Live == [port : 1 .. MaxPort, net : 1 .. MaxPort, key : 0 .. MaxInstalls]
NoInstall == [stage |-> "idle", row |-> NoRow, iface |-> NoRow, port |-> 0, net |-> 0, key |-> 0]

ASSUME NoRowAssumption == NoRow \notin InstalledRow

InstallTypeOK ==
    /\ row \in [ProtocolRows -> InstalledRow \cup {NoRow}]
    /\ enabled \subseteq DOMAIN files
    /\ \A i \in DOMAIN files : files[i] \in Live
    /\ \A i \in DOMAIN running : running[i] \in Live
    /\ \A c \in Installers : install[c].stage \in {"idle", "save", "kernel", "files", "reclaim", "up", "active"}

InstallInit ==
    /\ row = [r \in ProtocolRows |-> NoRow]
    /\ files = <<>> /\ enabled = {} /\ running = <<>>
    /\ install = [c \in Installers |-> NoInstall]
    /\ installs = 0 /\ faults = 0 /\ unclear = FALSE

Present == {r \in ProtocolRows : row[r] # NoRow}

\* Mutant: the other kind is left out as well.
OthersOfKind(r, kind) == {o \in Present \ {r} : row[o].status \in {"active", "installing"} /\ row[o].kind = kind}

\* The rows whose port and network a new one must avoid: those with status ERROR
\* are left out.
Others(r, kind) == {o \in Present \ {r} : row[o].status \in {"active", "installing"}}

\* The first number from n on that is not in used.
FirstFree(n, used) == Min({m \in n .. MaxPort + 1 : m \notin used})

MayBegin == OneInstaller => \A c \in Installers : install[c].stage = "idle"

With(f, i, value) == [j \in DOMAIN f \cup {i} |-> IF j = i THEN value ELSE f[j]]

Without(f, S) == Restrict(f, DOMAIN f \ S)

InstallFault == faults < MaxInstallFaults /\ faults' = faults + 1

-----------------------------------------------------------------------------

\* The row of this kind and port is used again unless it is active.  The name of
\* an active protocol is not asked for a second time.
BeginInstall(c, i, port) ==
    /\ MayBegin
    /\ install[c].stage = "idle"
    /\ installs < MaxInstalls /\ installs' = installs + 1
    /\ LET existing == {r \in Present : row[r].kind = KindOf[i] /\ row[r].port = port}
       IN  /\ \A r \in existing : row[r].status # "active"
           /\ \A r \in Present : row[r].iface # i
           /\ \E r \in IF existing # {} THEN existing ELSE ProtocolRows \ Present :
                LET others == Others(r, KindOf[i])
                    free == FirstFree(port, {row[o].port : o \in others})
                    net == FirstFree(1, {row[o].net : o \in others})
                IN  /\ {free, net} \subseteq 1 .. MaxPort
                    /\ \A d \in Installers : install[d].row # r
                    /\ install' = [install EXCEPT ![c] =
                         [stage |-> "save", row |-> r, iface |-> i, port |-> free, net |-> net, key |-> installs']]
    /\ UNCHANGED <<row, serverVars, faults, unclear>>

SaveInstalling(c) ==
    /\ install[c].stage = "save"
    /\ LET d == install[c]
       IN  row' = [row EXCEPT ![d.row] =
                    [kind |-> KindOf[d.iface], iface |-> NoRow, port |-> d.port, net |-> d.net,
                     status |-> "installing", key |-> 0]]
    /\ install' = [install EXCEPT ![c].stage = "kernel"]
    /\ UNCHANGED <<serverVars, installs, faults, unclear>>

Proceed(c, from, to) ==
    /\ install[c].stage = from
    /\ install' = [install EXCEPT ![c].stage = to]
    /\ UNCHANGED <<row, installs, faults, unclear>>

\* checkKernelModuleReadiness: the module is there.
KernelReady(c) == Proceed(c, "kernel", "files") /\ UNCHANGED serverVars

\* New keys and the configuration, with no peers.
WriteFiles(c) ==
    /\ Proceed(c, "files", "reclaim")
    /\ LET d == install[c]
       IN  files' = With(files, d.iface, [port |-> d.port, net |-> d.net, key |-> d.key])
    /\ UNCHANGED <<enabled, running>>

\* reclaimConflictingInterface: another interface with the same address goes, its
\* file stays; the new one is to start with the server.
Reclaim(c) ==
    /\ Proceed(c, "reclaim", "up")
    /\ LET stale == {i \in DOMAIN running \ {install[c].iface} : running[i].net = install[c].net}
       IN  /\ running' = Without(running, stale)
           /\ enabled' = (enabled \ stale) \cup {install[c].iface}
    /\ UNCHANGED files

\* It cannot be brought up twice, nor on a port that another one listens on.
Blocked(d) == d.iface \in DOMAIN running \/ \E i \in DOMAIN running : running[i].port = d.port

BringUp(c) ==
    /\ ~Blocked(install[c])
    /\ Proceed(c, "up", "active")
    /\ running' = With(running, install[c].iface, files[install[c].iface])
    /\ UNCHANGED <<files, enabled>>

SaveActive(c) ==
    /\ install[c].stage = "active"
    /\ LET d == install[c]
       IN  row' = [row EXCEPT ![d.row] =
                    [@ EXCEPT !.status = "active", !.key = d.key, !.iface = d.iface]]
    /\ install' = [install EXCEPT ![c] = NoInstall]
    /\ UNCHANGED <<serverVars, installs, faults, unclear>>

\* A command fails, the module needs another kernel, or the interface cannot come up.
InstallFails(c) ==
    /\ install[c].stage \in {"kernel", "files", "reclaim", "up", "active"}
    /\ IF install[c].stage = "up" /\ Blocked(install[c]) THEN UNCHANGED faults ELSE InstallFault
    /\ row' = [row EXCEPT ![install[c].row].status = "error"]
    /\ install' = [install EXCEPT ![c] = NoInstall]
    /\ UNCHANGED <<serverVars, installs, unclear>>

RestartInstallers ==
    /\ \E c \in Installers : install[c].stage # "idle"
    /\ InstallFault
    /\ install' = [c \in Installers |-> NoInstall]
    /\ UNCHANGED <<row, serverVars, installs, unclear>>

\* Uninstalled first; a row that never was active does not know its interface.
RemoveInstalled(r) ==
    /\ MayBegin
    /\ r \in Present
    /\ files' = Without(files, {row[r].iface})
    /\ enabled' = enabled \ {row[r].iface}
    /\ running' = Without(running, {row[r].iface})
    /\ row' = [row EXCEPT ![r] = NoRow]
    /\ UNCHANGED <<install, installs, faults, unclear>>

\* With the server, or with the bridge it belongs to: the interface stays.
DropRow(r) ==
    /\ MayBegin
    /\ r \in Present
    /\ row' = [row EXCEPT ![r] = NoRow]
    /\ UNCHANGED <<serverVars, install, installs, faults, unclear>>

\* pickLikelyActiveConfPath: an interface that is up, else any that has a file.
Likely(kind) ==
    LET found == {i \in DOMAIN files : KindOf[i] = kind}
        up == found \cap DOMAIN running
    IN  IF up # {} THEN up ELSE found

\* detectAt: what the file of an interface says.
FoundAt(i) ==
    [kind |-> KindOf[i], iface |-> i, port |-> files[i].port, net |-> files[i].net,
     status |-> "active", key |-> files[i].key]

\* It is what the interface runs with, and the row is not another interface's.
Fits(i, r) ==
    /\ i \in DOMAIN running /\ running[i] = files[i]
    /\ row[r] # NoRow => row[r].iface \in {i, NoRow}
    /\ \A o \in Present \ {r} : row[o].iface # i

\* detectExisting: it goes into a row of this kind, whichever the database
\* returns, or into a new one.
DetectExisting(kind) ==
    /\ MayBegin
    /\ \E i \in Likely(kind) :
        LET existing == {r \in Present : row[r].kind = kind}
        IN  \E r \in IF existing # {} THEN existing ELSE ProtocolRows \ Present :
                /\ row' = [row EXCEPT ![r] = FoundAt(i)]
                /\ unclear' = (unclear \/ ~Fits(i, r))
    /\ UNCHANGED <<serverVars, install, installs, faults>>

\* It asks for each kind in turn; what it imports does not matter here.
DetectExistingInstallations == \E kind \in Range(KindOf) : DetectExisting(kind)

\* Two configurations that cannot be up together.
Rivals(i, j) == i # j /\ (files[i].port = files[j].port \/ files[i].net = files[j].net)

\* reboot, rebootForKernelModule: what is enabled starts, each unless a rival of
\* it was first.
RebootServer ==
    /\ MayBegin
    /\ InstallFault
    /\ \E up \in SUBSET enabled :
        /\ \A i, j \in up : ~Rivals(i, j)
        /\ \A i \in enabled \ up : \E j \in up : Rivals(i, j)
        /\ running' = Restrict(files, up)
        /\ unclear' = (unclear \/ up # enabled)
    /\ UNCHANGED <<row, files, enabled, install, installs>>

InstallNext ==
    \/ \E c \in Installers :
        \/ \E i \in Interfaces, port \in 1 .. MaxPort : BeginInstall(c, i, port)
        \/ SaveInstalling(c) \/ KernelReady(c) \/ WriteFiles(c) \/ Reclaim(c) \/ BringUp(c)
        \/ SaveActive(c) \/ InstallFails(c)
    \/ \E r \in ProtocolRows : RemoveInstalled(r) \/ DropRow(r)
    \/ DetectExistingInstallations
    \/ RestartInstallers \/ RebootServer

\* buildClientConfig, from the row: Endpoint, Address and PublicKey of the server.
ClientConfig(r) == [port |-> row[r].port, net |-> row[r].net, key |-> row[r].key]

InstallSpec == InstallInit /\ [][InstallNext]_installVars

-----------------------------------------------------------------------------

(***************************************************************************)
(* What the row of an active protocol tells clients is what answers on the *)
(* server: an installation that takes the network of an interface that was *)
(* left behind never takes it from one that is in use, what was there      *)
(* before is entered as it is, and a reboot brings it all back (the        *)
(* comments on usedCidrs, reclaimConflictingInterface,                     *)
(* pickLikelyActiveConfPath and on rebootForKernelModule).                 *)
(***************************************************************************)
ActiveProtocolAnswers ==
    \A r \in Present :
        row[r].status = "active" /\ ~unclear =>
            /\ row[r].iface \in DOMAIN running
            /\ running[row[r].iface] = ClientConfig(r)

=============================================================================
