---------------------------- MODULE TerminalShells ----------------------------
(***************************************************************************)
(* The terminal in the panel: a socket of the page, the SSH connections    *)
(* that are opened for it and stay open, and the table of sessions by      *)
(* which they are found again to be closed (terminal.gateway.ts,           *)
(* ssh.service.ts, TerminalDialog.tsx).                                    *)
(***************************************************************************)
EXTENDS Naturals

CONSTANTS
    Sockets,           \* ids of sockets; a page that reconnects gets a new one
    Shells,            \* connections that may be opened
    NoShell,
    Attempts           \* of connectWithRetry

ASSUME TerminalAssumption == Attempts \in Nat \ {0} /\ NoShell \notin Shells

VARIABLES
    socket,
    shell,     \* the connections: their socket and how far they are
    session,   \* TerminalGateway.sessions
    left       \* connections the code does not find again, see ShellsEndWithSocket

terminalVars == <<socket, shell, session, left>>

Unused == [socket |-> NoShell, stage |-> "unused", attempt |-> 0]

\* connecting: connectWithRetry; connected: requestShell; open: with a channel;
\* hanging: the channel is closed, the connection is not; ending: both are closed
\* here, the close event of the channel is to come.
Opened == {"connected", "open", "hanging"}

TerminalTypeOK ==
    /\ socket \in [Sockets -> {"new", "here", "gone"}]
    /\ \A h \in Shells :
        /\ shell[h].stage \in {"unused", "connecting", "ending", "closed"} \cup Opened
        /\ shell[h].attempt \in 0 .. Attempts
    /\ session \in [Sockets -> Shells \cup {NoShell}]
    /\ left \subseteq Shells

TerminalInit ==
    /\ socket = [s \in Sockets |-> "new"]
    /\ shell = [h \in Shells |-> Unused]
    /\ session = [s \in Sockets |-> NoShell]
    /\ left = {}

Stage(h) == shell[h].stage
Of(s) == {h \in Shells : shell[h].socket = s}

\* closeSession: the channel is ended and the connection disposed.
Closed(s) == IF session[s] = NoShell THEN shell ELSE [shell EXCEPT ![session[s]].stage = "ending"]

\* TerminalDialog connects when it is shown.
Connects(s) ==
    /\ socket[s] = "new"
    /\ socket' = [socket EXCEPT ![s] = "here"]
    /\ UNCHANGED <<shell, session, left>>

\* A start that another one of the socket overtakes, on either side.
Overtaken(s, h) ==
    LET under == {k \in Of(s) : Stage(k) \in {"connecting", "connected"}}
    IN  IF under = {} THEN {} ELSE under \cup {h}

\* Mutant: what the socket had is forgotten, not closed.
StartAnew(s) ==
    /\ socket[s] = "here"
    /\ \E h \in Shells :
        /\ Stage(h) = "unused"
        /\ shell' = [shell EXCEPT ![h] = [socket |-> s, stage |-> "connecting", attempt |-> 1]]
        /\ left' = left \cup Overtaken(s, h)
    /\ UNCHANGED <<socket, session>>

\* handleStart up to its first await: what the socket had is closed.
Start(s) ==
    /\ socket[s] = "here"
    /\ \E h \in Shells :
        /\ Stage(h) = "unused"
        /\ shell' = [Closed(s) EXCEPT ![h] = [socket |-> s, stage |-> "connecting", attempt |-> 1]]
        /\ left' = left \cup Overtaken(s, h)
    /\ session' = [session EXCEPT ![s] = NoShell]
    /\ UNCHANGED socket

\* connectWithRetry: a failed attempt is disposed of; a host key that differs is
\* not tried again.
Connected(h) ==
    /\ Stage(h) = "connecting"
    /\ \/ shell' = [shell EXCEPT ![h].stage = "connected"]
       \/ /\ shell[h].attempt < Attempts
          /\ shell' = [shell EXCEPT ![h].attempt = @ + 1]
       \/ shell' = [shell EXCEPT ![h].stage = "closed"]
    /\ UNCHANGED <<socket, session, left>>

\* The shell is entered into the table, whether the socket is still there or not.
ShellOpens(h) ==
    /\ Stage(h) = "connected"
    /\ shell' = [shell EXCEPT ![h].stage = "open"]
    /\ session' = [session EXCEPT ![shell[h].socket] = h]
    /\ left' = IF socket[shell[h].socket] = "gone" THEN left \cup {h} ELSE left
    /\ UNCHANGED socket

\* requestShell throws: the error is shown, the connection stays.
ShellRefused(h) ==
    /\ Stage(h) = "connected"
    /\ shell' = [shell EXCEPT ![h].stage = "hanging"]
    /\ left' = left \cup {h}
    /\ UNCHANGED <<socket, session>>

\* The close event of a channel, a late one as well, closes what the table has for
\* its socket.
ChannelCloses(h) ==
    /\ Stage(h) \in {"open", "ending"}
    /\ LET s == shell[h].socket
           kept == Stage(h) = "open" /\ session[s] # h
       IN  /\ shell' = [Closed(s) EXCEPT ![h].stage = IF kept THEN "hanging" ELSE "closed"]
           /\ session' = [session EXCEPT ![s] = NoShell]
    /\ UNCHANGED <<socket, left>>

\* handleDisconnect
Disconnects(s) ==
    /\ socket[s] = "here"
    /\ socket' = [socket EXCEPT ![s] = "gone"]
    /\ shell' = Closed(s)
    /\ session' = [session EXCEPT ![s] = NoShell]
    /\ UNCHANGED left

TerminalNext ==
    \/ \E s \in Sockets : Connects(s) \/ Start(s) \/ Disconnects(s)
    \/ \E h \in Shells : Connected(h) \/ ShellOpens(h) \/ ShellRefused(h) \/ ChannelCloses(h)

TerminalSpec == TerminalInit /\ [][TerminalNext]_terminalVars

-----------------------------------------------------------------------------

(***************************************************************************)
(* A connection with a shell is the one its socket's entry names, and that *)
(* socket is there (the comments on connect and on sessions: the gateway   *)
(* has to dispose of it).  Left over are a connection whose socket went    *)
(* while it was set up, starts of one socket that overlap, and one on      *)
(* which no shell could be opened.                                         *)
(***************************************************************************)
ShellsEndWithSocket ==
    \A h \in Shells \ left :
        Stage(h) \in {"open", "hanging"} =>
            socket[shell[h].socket] = "here" /\ session[shell[h].socket] = h

=============================================================================
