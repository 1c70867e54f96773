------------------------------- MODULE TcpRunner -------------------------------
(***************************************************************************)
(* The TCP half of one Go runner (internal/proxy/tcp.go and runner.start   *)
(* and runner.stop of manager.go).  Each endpoint has an accept loop and a *)
(* sync.Map of the sockets that its closer closes; each connection has a   *)
(* handler goroutine, two copy directions and an idle monitor.  stop       *)
(* cancels the context, runs the closers one after the other and waits for *)
(* every goroutine, all under the manager's mutex, while connections are   *)
(* accepted, dialled and torn down.                                        *)
(*                                                                         *)
(* What peers send is not modelled: a direction may end cleanly or fail at *)
(* any time, and has to end only when the socket it reads from is closed   *)
(* here.  The budget may refuse any connection (TcpBudget models it).      *)
(***************************************************************************)
EXTENDS Naturals

CONSTANTS
  Endpoints,    \* listen endpoints of the rule
  Conns,        \* places for connections: one is used again when it is free
  EndpointOf,   \* EndpointOf[c]: the endpoint that accepts c
  HasBackup,    \* the rule has a backup target
  HasHealth     \* tcp_health_interval_seconds is positive

ASSUME RunnerConstants ==
  /\ EndpointOf \in [Conns -> Endpoints]
  /\ HasBackup \in BOOLEAN /\ HasHealth \in BOOLEAN

VARIABLES
  stage,      \* "start", "run", "close", "wait" or "stopped"
  cancelled,  \* the runner's context is cancelled
  listening,  \* endpoints whose listener is open
  closers,    \* endpoints whose closer has not started
  closing,    \* endpoints whose closer is in active.Range
  visit,      \* sockets in the map when Range began and not yet visited
  acceptor,   \* acceptor[e]: "none", "run" or "ended"
  prober,     \* goroutines of startTCPHealth that still run, by endpoint
  at,         \* at[c]: where the goroutine of c is
  open,       \* sockets that are open
  active,     \* sockets in the maps
  slots,      \* connections that hold their budget
  copying,    \* copying[c]: directions still copying
  monitor     \* monitor[c]: "none", "run" or "ended"

runnerVars == <<stage, cancelled, listening, closers, closing, visit, acceptor, prober>>
connVars   == <<at, open, active, slots, copying, monitor>>
vars       == <<runnerVars, connVars>>

Client(c)   == <<c, "client">>
Upstream(c) == <<c, "upstream">>
Both(c)     == {Client(c), Upstream(c)}
Sockets     == Conns \X {"client", "upstream"}
Of(e)       == {c \in Conns : EndpointOf[c] = e}

\* The accept loop has a connection in hand; later its handler has it.
Accepting == {"accepted", "reserved"}
Handled   == {"dial", "dialing", "second", "dialed", "copy", "unwind", "close", "release", "forget"}
Points    == {"none"} \cup Accepting \cup Handled

Init ==
  /\ stage = "start" /\ cancelled = FALSE
  /\ listening = {} /\ closers = {} /\ closing = {} /\ visit = {}
  /\ acceptor = [e \in Endpoints |-> "none"] /\ prober = {}
  /\ at = [c \in Conns |-> "none"]
  /\ open = {} /\ active = {} /\ slots = {}
  /\ copying = [c \in Conns |-> {}] /\ monitor = [c \in Conns |-> "none"]

Move(c, from, to) == at[c] = from /\ at' = [at EXCEPT ![c] = to]

-----------------------------------------------------------------------------
\* start and stop

\* startTCP
StartTCP(e) ==
  /\ stage = "start" /\ acceptor[e] = "none"
  /\ listening' = listening \cup {e} /\ closers' = closers \cup {e}
  /\ acceptor' = [acceptor EXCEPT ![e] = "run"]
  /\ prober' = IF HasHealth THEN prober \cup {e} ELSE prober
  /\ UNCHANGED <<stage, cancelled, closing, visit, connVars>>

Started ==
  /\ stage = "start" /\ \A e \in Endpoints : acceptor[e] # "none"
  /\ stage' = "run"
  /\ UNCHANGED <<cancelled, listening, closers, closing, visit, acceptor, prober, connVars>>

\* stop, called by the manager, or by start when an endpoint cannot listen.
Stop ==
  /\ \/ stage = "run"
     \/ stage = "start" /\ \E e \in Endpoints : acceptor[e] = "none"
  /\ stage' = "close" /\ cancelled' = TRUE
  /\ UNCHANGED <<listening, closers, closing, visit, acceptor, prober, connVars>>

\* The closer of an endpoint closes the listener and ranges over its map.
RunCloser(e) ==
  /\ stage = "close" /\ closing = {} /\ e \in closers
  /\ closers' = closers \ {e} /\ closing' = {e}
  /\ listening' = listening \ {e}
  /\ visit' = {s \in active : EndpointOf[s[1]] = e}
  /\ UNCHANGED <<stage, cancelled, acceptor, prober, connVars>>

\* Range visits every socket that was there when it began, and may visit one
\* that was stored since.
CloseActive(s) ==
  /\ s \in visit \/ (EndpointOf[s[1]] \in closing /\ s \in active \cap open)
  /\ visit' = visit \ {s} /\ open' = open \ {s}
  /\ UNCHANGED <<stage, cancelled, listening, closers, closing, acceptor, prober,
                 at, active, slots, copying, monitor>>

CloserDone ==
  /\ closing # {} /\ visit = {} /\ closing' = {}
  /\ UNCHANGED <<stage, cancelled, listening, closers, visit, acceptor, prober, connVars>>

ClosersDone ==
  /\ stage = "close" /\ closers = {} /\ closing = {} /\ stage' = "wait"
  /\ UNCHANGED <<cancelled, listening, closers, closing, visit, acceptor, prober, connVars>>

\* Mutant: the handlers are not part of the wait group.
StoppedEarly ==
  /\ stage = "wait" /\ prober = {} /\ \A e \in Endpoints : acceptor[e] # "run"
  /\ stage' = "stopped"
  /\ UNCHANGED <<cancelled, listening, closers, closing, visit, acceptor, prober, connVars>>

\* wg.Wait: accept loops, probes and handlers have ended.
Stopped ==
  /\ stage = "wait" /\ prober = {} /\ \A e \in Endpoints : acceptor[e] # "run"
  /\ \A c \in Conns : at[c] \notin Handled
  /\ stage' = "stopped"
  /\ UNCHANGED <<cancelled, listening, closers, closing, visit, acceptor, prober, connVars>>

\* The manager replaces the stopped runner by a new one.
NewRunner ==
  /\ stage = "stopped"
  /\ stage' = "start" /\ cancelled' = FALSE
  /\ acceptor' = [e \in Endpoints |-> "none"]
  /\ UNCHANGED <<listening, closers, closing, visit, prober, connVars>>

\* Mutant: the goroutine only listens to its ticker.
ProbesForEver(e) == e \in prober /\ UNCHANGED vars

\* startTCPHealth: the goroutine ends once the context is cancelled; a probe
\* runs under a timeout and is aborted by the context.
ProbeEnds(e) ==
  /\ cancelled /\ e \in prober /\ prober' = prober \ {e}
  /\ UNCHANGED <<stage, cancelled, listening, closers, closing, visit, acceptor, connVars>>

-----------------------------------------------------------------------------
\* The accept loop

Idle(e) == acceptor[e] = "run" /\ \A c \in Of(e) : at[c] \notin Accepting

Accept(c) ==
  /\ Idle(EndpointOf[c]) /\ EndpointOf[c] \in listening
  /\ Move(c, "none", "accepted") /\ open' = open \cup {Client(c)}
  /\ UNCHANGED <<runnerVars, active, slots, copying, monitor>>

\* Any error ends the loop, also one of a listener that is still open.
AcceptFails(e) ==
  /\ Idle(e) /\ acceptor' = [acceptor EXCEPT ![e] = "ended"]
  /\ UNCHANGED <<stage, cancelled, listening, closers, closing, visit, prober, connVars>>

ReserveTCP(c) ==
  /\ Move(c, "accepted", "reserved") /\ slots' = slots \cup {c}
  /\ UNCHANGED <<runnerVars, open, active, copying, monitor>>

Refuse(c) ==
  /\ Move(c, "accepted", "none") /\ open' = open \ {Client(c)}
  /\ UNCHANGED <<runnerVars, active, slots, copying, monitor>>

\* The client is in the map before its handler starts.
Handle(c) ==
  /\ Move(c, "reserved", "dial") /\ active' = active \cup {Client(c)}
  /\ UNCHANGED <<runnerVars, open, slots, copying, monitor>>

-----------------------------------------------------------------------------
\* The handler

\* Mutant: the dial does not use the runner's context.
DialIgnoresContext(c) ==
  /\ Move(c, "dial", "dialing")
  /\ UNCHANGED <<runnerVars, open, active, slots, copying, monitor>>

\* DialContext with a context that is not cancelled yet.
Dial(c) ==
  /\ ~cancelled /\ Move(c, "dial", "dialing")
  /\ UNCHANGED <<runnerVars, open, active, slots, copying, monitor>>

\* The dial of the first target failed and the context is not cancelled.
DialSecond(c) ==
  /\ HasBackup /\ ~cancelled /\ Move(c, "dialing", "second")
  /\ UNCHANGED <<runnerVars, open, active, slots, copying, monitor>>

\* A dial that is under way may succeed although the context is cancelled.
Dialed(c) ==
  /\ Move(c, "dialing", "dialed") \/ Move(c, "second", "dialed")
  /\ open' = open \cup {Upstream(c)}
  /\ UNCHANGED <<runnerVars, active, slots, copying, monitor>>

DialFails(c) ==
  /\ \/ cancelled /\ Move(c, "dial", "close")
     \/ (cancelled \/ ~HasBackup) /\ Move(c, "dialing", "close")
     \/ Move(c, "second", "close")
  /\ UNCHANGED <<runnerVars, open, active, slots, copying, monitor>>

\* The upstream is stored, the idle monitor and the two directions start.
Forward(c) ==
  /\ Move(c, "dialed", "copy") /\ active' = active \cup {Upstream(c)}
  /\ copying' = [copying EXCEPT ![c] = {"up", "down"}]
  /\ monitor' = [monitor EXCEPT ![c] = IF cancelled THEN "ended" ELSE "run"]
  /\ UNCHANGED <<runnerVars, open, slots>>

\* The socket a direction reads from.
Source(c, d) == IF d = "up" THEN Client(c) ELSE Upstream(c)

\* A clean end: the write side of the other socket is closed, nothing more.
CopyEOF(c, d) ==
  /\ d \in copying[c] /\ Source(c, d) \in open
  /\ copying' = [copying EXCEPT ![c] = @ \ {d}]
  /\ UNCHANGED <<runnerVars, at, open, active, slots, monitor>>

\* A failed direction closes both sockets to wake the other one.
CopyError(c, d) ==
  /\ d \in copying[c]
  /\ copying' = [copying EXCEPT ![c] = @ \ {d}] /\ open' = open \ Both(c)
  /\ UNCHANGED <<runnerVars, at, active, slots, monitor>>

\* Both directions have ended; the monitor is told to stop.
CopiesDone(c) ==
  /\ copying[c] = {} /\ Move(c, "copy", "unwind")
  /\ UNCHANGED <<runnerVars, open, active, slots, copying, monitor>>

\* monitorTCPIdle: no byte moved for the idle time.
IdleClose(c) ==
  /\ monitor[c] = "run" /\ monitor' = [monitor EXCEPT ![c] = "ended"]
  /\ open' = open \ Both(c)
  /\ UNCHANGED <<runnerVars, at, active, slots, copying>>

MonitorEnds(c) ==
  /\ monitor[c] = "run" /\ (cancelled \/ at[c] = "unwind")
  /\ monitor' = [monitor EXCEPT ![c] = "ended"]
  /\ UNCHANGED <<runnerVars, at, open, active, slots, copying>>

\* The deferred calls of the handler, the last one first.
CloseUpstream(c) ==
  /\ monitor[c] = "ended" /\ Move(c, "unwind", "close")
  /\ open' = open \ {Upstream(c)} /\ active' = active \ {Upstream(c)}
  /\ monitor' = [monitor EXCEPT ![c] = "none"]
  /\ UNCHANGED <<runnerVars, slots, copying>>

CloseClient(c) ==
  /\ Move(c, "close", "release") /\ open' = open \ {Client(c)}
  /\ UNCHANGED <<runnerVars, active, slots, copying, monitor>>

ReleaseTCP(c) ==
  /\ Move(c, "release", "forget") /\ slots' = slots \ {c}
  /\ UNCHANGED <<runnerVars, open, active, copying, monitor>>

\* Mutant: the client's place in the map is never given back.
ForgetNothing(c) ==
  /\ Move(c, "forget", "none")
  /\ UNCHANGED <<runnerVars, open, active, slots, copying, monitor>>

Forget(c) ==
  /\ Move(c, "forget", "none") /\ active' = active \ {Client(c)}
  /\ UNCHANGED <<runnerVars, open, slots, copying, monitor>>

-----------------------------------------------------------------------------

\* What the goroutines of a connection do without waiting for a peer.
Advance(c) ==
  \/ ReserveTCP(c) \/ Refuse(c) \/ Handle(c)
  \/ Dial(c) \/ DialSecond(c) \/ Dialed(c) \/ DialFails(c) \/ Forward(c)
  \/ CopiesDone(c) \/ MonitorEnds(c)
  \/ CloseUpstream(c) \/ CloseClient(c) \/ ReleaseTCP(c) \/ Forget(c)

Next ==
  \/ Started \/ Stop \/ CloserDone \/ ClosersDone \/ Stopped \/ NewRunner
  \/ \E e \in Endpoints : StartTCP(e) \/ RunCloser(e) \/ AcceptFails(e) \/ ProbeEnds(e)
  \/ \E s \in Sockets : CloseActive(s)
  \/ \E c \in Conns :
       \/ Accept(c) \/ Advance(c) \/ IdleClose(c)
       \/ \E d \in {"up", "down"} : CopyEOF(c, d) \/ CopyError(c, d)

RunnerSpec == Init /\ [][Next]_vars

\* A goroutine that can run does: dials and probes have timeouts, Accept
\* fails on a closed listener, a read fails on a socket closed here.  Peers
\* need not ever send, answer or close, and no idle timeout is relied on.
FairRunnerSpec ==
  /\ RunnerSpec
  /\ WF_vars(CloserDone) /\ WF_vars(ClosersDone) /\ WF_vars(Stopped)
  /\ WF_vars(\E s \in Sockets : CloseActive(s))
  /\ \A e \in Endpoints :
       WF_vars(RunCloser(e)) /\ WF_vars(ProbeEnds(e)) /\ WF_vars(e \notin listening /\ AcceptFails(e))
  /\ \A c \in Conns :
       /\ WF_vars(Advance(c))
       /\ \A d \in {"up", "down"} : WF_vars(Source(c, d) \notin open /\ CopyError(c, d))

\* As above, and an upstream that got the end of the client's stream ends its
\* own stream at last.
PoliteRunnerSpec ==
  /\ FairRunnerSpec
  /\ \A c \in Conns :
       WF_vars("up" \notin copying[c] /\ (CopyEOF(c, "down") \/ CopyError(c, "down")))

-----------------------------------------------------------------------------

\* Types; a socket that is in a map belongs to a connection that a handler
\* still has, and the directions copy only while the handler waits for them.
TypeOK ==
  /\ stage \in {"start", "run", "close", "wait", "stopped"} /\ cancelled \in BOOLEAN
  /\ listening \subseteq Endpoints /\ closers \subseteq Endpoints /\ closing \subseteq Endpoints
  /\ visit \subseteq Sockets /\ prober \subseteq Endpoints
  /\ acceptor \in [Endpoints -> {"none", "run", "ended"}]
  /\ at \in [Conns -> Points]
  /\ open \subseteq Sockets /\ active \subseteq Sockets /\ slots \subseteq Conns
  /\ copying \in [Conns -> SUBSET {"up", "down"}]
  /\ monitor \in [Conns -> {"none", "run", "ended"}]
  /\ \A s \in active : at[s[1]] \in Handled
  /\ \A c \in Conns : copying[c] # {} => at[c] = "copy"

\* Once the closer of an endpoint has run, no connection of it forwards from
\* an open client socket, not even one that was accepted or dialled while the
\* closer ran: what the closer missed meets the cancelled context.
CutOff ==
  \A c \in Conns :
    /\ stage \in {"close", "wait"} /\ EndpointOf[c] \notin closers \cup closing
    /\ at[c] \in {"dialing", "second", "dialed", "copy"}
    => Client(c) \notin open

\* When stop returns, nothing of the runner is left: no socket, no entry in a
\* map, no budget, no goroutine.
NothingLeft ==
  stage = "stopped" =>
    /\ listening = {} /\ open = {} /\ active = {} /\ slots = {} /\ prober = {}
    /\ \A c \in Conns : at[c] = "none" /\ copying[c] = {} /\ monitor[c] = "none"

\* stop ends: the manager's mutex is not held for ever, whatever the peers of
\* the connections do and whatever was in flight when it was called.
StopEnds == stage = "close" ~> stage = "stopped"

=============================================================================
