------------------------------- MODULE MCPanel -------------------------------
(***************************************************************************)
(* Parts of the panel that share no state, checked in one run: each        *)
(* behaviour is one of the part that its first state names, while the      *)
(* others stay as they begin.                                              *)
(***************************************************************************)
EXTENDS BridgeLifecycle, ProtocolInstall, HttpsSettings, Session, TrafficHistory,
        TelegramDesk, TerminalShells, TLC

VARIABLE part

panelVars == <<part, lifecycleVars, installVars, httpsVars, sessionVars, trafficVars,
               deskVars, terminalVars>>

Parts == {"lifecycle", "install", "https", "session", "traffic", "desk", "terminal"}

PanelInit ==
    /\ part \in Parts
    /\ LifecycleInit /\ InstallInit /\ HttpsInit /\ SessionInit /\ TrafficInit
    /\ DeskInit /\ TerminalInit

\* Everything but the named part stays.
Lifecycle == part = "lifecycle" /\ LifecycleNext
    /\ UNCHANGED <<installVars, httpsVars, sessionVars, trafficVars, deskVars, terminalVars>>
Install == part = "install" /\ InstallNext
    /\ UNCHANGED <<lifecycleVars, httpsVars, sessionVars, trafficVars, deskVars, terminalVars>>
Https == part = "https" /\ HttpsNext
    /\ UNCHANGED <<lifecycleVars, installVars, sessionVars, trafficVars, deskVars, terminalVars>>
SignIn == part = "session" /\ SessionNext
    /\ UNCHANGED <<lifecycleVars, installVars, httpsVars, trafficVars, deskVars, terminalVars>>
Traffic == part = "traffic" /\ TrafficNext
    /\ UNCHANGED <<lifecycleVars, installVars, httpsVars, sessionVars, deskVars, terminalVars>>
\* What is once excused stays so, and nothing is asked of what follows.
Desk == part = "desk" /\ ~excused /\ DeskNext
    /\ UNCHANGED <<lifecycleVars, installVars, httpsVars, sessionVars, trafficVars, terminalVars>>
Terminal == part = "terminal" /\ TerminalNext
    /\ UNCHANGED <<lifecycleVars, installVars, httpsVars, sessionVars, trafficVars, deskVars>>

PanelNext ==
    /\ UNCHANGED part
    /\ Lifecycle \/ Install \/ Https \/ SignIn \/ Traffic \/ Desk \/ Terminal

PanelSpec == PanelInit /\ [][PanelNext]_panelVars

MCKindOf == [i \in Interfaces |-> IF i = "awg0" THEN "awg" ELSE "wg"]

MCSymmetry == Permutations(Rows) \cup Permutations(BridgeRows)

=============================================================================
