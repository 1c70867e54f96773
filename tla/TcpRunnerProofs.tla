---------------------------- MODULE TcpRunnerProofs ----------------------------
(***************************************************************************)
(* Type correctness, CutOff and NothingLeft for every number of endpoints  *)
(* and connections, with or without a backup target and health checks; and *)
(* that the traffic collector's count of a Go connection never falls.      *)
(***************************************************************************)
EXTENDS TcpRunner, Telemetry, TLAPS

Forwarding == {"dialing", "second", "dialed", "copy"}

\* The plain types.
Types ==
  /\ stage \in {"start", "run", "close", "wait", "stopped"} /\ cancelled \in BOOLEAN
  /\ listening \subseteq Endpoints /\ closers \subseteq Endpoints /\ closing \subseteq Endpoints
  /\ visit \subseteq Sockets /\ prober \subseteq Endpoints
  /\ acceptor \in [Endpoints -> {"none", "run", "ended"}]
  /\ at \in [Conns -> Points]
  /\ open \subseteq Sockets /\ active \subseteq Sockets /\ slots \subseteq Conns
  /\ copying \in [Conns -> SUBSET {"up", "down"}]
  /\ monitor \in [Conns -> {"none", "run", "ended"}]

\* The order of stop: the context before the closers, the closers before the
\* wait; a listener is open only while its closer is still to come.
StopOrder ==
  /\ stage \in {"close", "wait"} => cancelled
  /\ listening \subseteq closers
  /\ stage \in {"wait", "stopped"} => closers = {}
  /\ closing # {} => stage = "close"
  /\ stage = "stopped" => prober = {} /\ \A c \in Conns : at[c] = "none"
  /\ stage \in {"start", "run"} => \A c \in Conns : at[c] # "none" => EndpointOf[c] \in closers

\* What a connection has at each point of its life.
Holdings ==
  \A c \in Conns :
    /\ at[c] \in Accepting => acceptor[EndpointOf[c]] = "run"
    /\ at[c] \in Handled <=> Client(c) \in active
    /\ Upstream(c) \in active => at[c] \in {"copy", "unwind"}
    /\ Client(c) \in open => at[c] \notin {"none", "release", "forget"}
    /\ Upstream(c) \in open => at[c] \in {"dialed", "copy", "unwind"}
    /\ c \in slots => at[c] \in {"reserved"} \cup (Handled \ {"forget"})
    /\ monitor[c] # "none" => at[c] \in {"copy", "unwind"}
    /\ copying[c] # {} => at[c] = "copy"

\* The heart of CutOff: a connection that forwards, or will if its dial ends
\* well, has a client socket that is closed or that Range is still to visit.
Cutting ==
  \A c \in Conns :
    stage \in {"close", "wait"} /\ at[c] \in Forwarding /\ EndpointOf[c] \notin closers
    => Client(c) \notin open \/ (EndpointOf[c] \in closing /\ Client(c) \in visit)

RunnerInv == Types /\ StopOrder /\ Holdings /\ Cutting

\* A new runner satisfies the invariant.
LEMMA InitHolds == Init => RunnerInv
  BY DEF Init, RunnerInv, Types, StopOrder, Holdings, Cutting, Points, Accepting, Handled,
     Client, Upstream, Forwarding

\* Every step of stop, of the accept loops, handlers, copies and monitors
\* keeps it.
LEMMA NextKeeps == RunnerInv /\ [Next]_vars => RunnerInv'
  <1> SUFFICES ASSUME RunnerInv, [Next]_vars PROVE RunnerInv'
    OBVIOUS
  <1> USE RunnerConstants DEF RunnerInv, Types, StopOrder, Holdings, Cutting, Points, Accepting,
        Handled, Forwarding, Sockets, Client, Upstream, Both
  <1>1. CASE Started
    BY <1>1 DEF Started, connVars
  <1>2. CASE Stop
    BY <1>2 DEF Stop, connVars
  <1>3. CASE CloserDone
    BY <1>3 DEF CloserDone, connVars
  <1>4. CASE ClosersDone
    BY <1>4 DEF ClosersDone, connVars
  <1>5. CASE Stopped
    BY <1>5 DEF Stopped, connVars
  <1>6. CASE NewRunner
    BY <1>6 DEF NewRunner, connVars
  <1>7. ASSUME NEW e \in Endpoints, StartTCP(e) PROVE RunnerInv'
    BY <1>7 DEF StartTCP, connVars
  <1>8. ASSUME NEW e \in Endpoints, RunCloser(e) PROVE RunnerInv'
    <2>1. Types' /\ StopOrder' /\ Holdings'
      BY <1>8 DEF RunCloser, connVars
    <2>2. ASSUME NEW c \in Conns, at[c] \in Forwarding, EndpointOf[c] = e
          PROVE  Client(c) \in visit'
      BY <1>8, <2>2 DEF RunCloser
    <2>3. Cutting'
      BY <1>8, <2>2 DEF RunCloser, connVars
    <2> QED
      BY <2>1, <2>3
  <1>9. ASSUME NEW e \in Endpoints, AcceptFails(e) PROVE RunnerInv'
    BY <1>9 DEF AcceptFails, Idle, Of, connVars
  <1>10. ASSUME NEW e \in Endpoints, ProbeEnds(e) PROVE RunnerInv'
    BY <1>10 DEF ProbeEnds, connVars
  <1>11. ASSUME NEW s \in Sockets, CloseActive(s) PROVE RunnerInv'
    BY <1>11 DEF CloseActive
  <1>12. ASSUME NEW c \in Conns, Accept(c) PROVE RunnerInv'
    BY <1>12 DEF Accept, Move, Idle, Of, runnerVars
  <1>13. ASSUME NEW c \in Conns, ReserveTCP(c) PROVE RunnerInv'
    BY <1>13 DEF ReserveTCP, Move, runnerVars
  <1>14. ASSUME NEW c \in Conns, Refuse(c) PROVE RunnerInv'
    BY <1>14 DEF Refuse, Move, runnerVars
  <1>15. ASSUME NEW c \in Conns, Handle(c) PROVE RunnerInv'
    BY <1>15 DEF Handle, Move, runnerVars
  <1>16. ASSUME NEW c \in Conns, Dial(c) PROVE RunnerInv'
    BY <1>16 DEF Dial, Move, runnerVars
  <1>17. ASSUME NEW c \in Conns, DialSecond(c) PROVE RunnerInv'
    BY <1>17 DEF DialSecond, Move, runnerVars
  <1>18. ASSUME NEW c \in Conns, Dialed(c) PROVE RunnerInv'
    BY <1>18 DEF Dialed, Move, runnerVars
  <1>19. ASSUME NEW c \in Conns, DialFails(c) PROVE RunnerInv'
    BY <1>19 DEF DialFails, Move, runnerVars
  <1>20. ASSUME NEW c \in Conns, Forward(c) PROVE RunnerInv'
    BY <1>20 DEF Forward, Move, runnerVars
  <1>21. ASSUME NEW c \in Conns, CopiesDone(c) PROVE RunnerInv'
    BY <1>21 DEF CopiesDone, Move, runnerVars
  <1>22. ASSUME NEW c \in Conns, MonitorEnds(c) PROVE RunnerInv'
    BY <1>22 DEF MonitorEnds, Move, runnerVars
  <1>23. ASSUME NEW c \in Conns, CloseUpstream(c) PROVE RunnerInv'
    BY <1>23 DEF CloseUpstream, Move, runnerVars
  <1>24. ASSUME NEW c \in Conns, CloseClient(c) PROVE RunnerInv'
    BY <1>24 DEF CloseClient, Move, runnerVars
  <1>25. ASSUME NEW c \in Conns, ReleaseTCP(c) PROVE RunnerInv'
    BY <1>25 DEF ReleaseTCP, Move, runnerVars
  <1>26. ASSUME NEW c \in Conns, Forget(c) PROVE RunnerInv'
    BY <1>26 DEF Forget, Move, runnerVars
  <1>27. ASSUME NEW c \in Conns, IdleClose(c) PROVE RunnerInv'
    BY <1>27 DEF IdleClose, Move, runnerVars
  <1>28. ASSUME NEW c \in Conns, NEW d \in {"up", "down"}, CopyEOF(c, d) PROVE RunnerInv'
    BY <1>28 DEF CopyEOF, runnerVars
  <1>29. ASSUME NEW c \in Conns, NEW d \in {"up", "down"}, CopyError(c, d) PROVE RunnerInv'
    BY <1>29 DEF CopyError, runnerVars
  <1>30. CASE UNCHANGED vars
    BY <1>30 DEF vars, runnerVars, connVars
  <1> HIDE DEF RunnerInv, Types, StopOrder, Holdings, Cutting, Sockets
  <1> QED
    BY <1>1, <1>2, <1>3, <1>4, <1>5, <1>6, <1>7, <1>8, <1>9, <1>10, <1>11, <1>12, <1>13, <1>14, <1>15, <1>16, <1>17, <1>18, <1>19, <1>20, <1>21, <1>22, <1>23, <1>24, <1>25, <1>26, <1>27, <1>28, <1>29, <1>30 DEF Next, Advance

\* The types and the ownership of sockets and copies hold for every rule.
THEOREM TypeAlwaysCorrect == RunnerSpec => []TypeOK
  <1>1. RunnerInv => TypeOK
    <2> SUFFICES ASSUME RunnerInv PROVE TypeOK
      OBVIOUS
    <2>1. \A s \in active : at[s[1]] \in Handled
      <3> SUFFICES ASSUME NEW s \in active PROVE at[s[1]] \in Handled
        OBVIOUS
      <3>1. PICK c \in Conns : s = Client(c) \/ s = Upstream(c)
        BY DEF RunnerInv, Types, Sockets, Client, Upstream
      <3>2. s[1] = c
        BY <3>1 DEF Client, Upstream
      <3> QED
        BY <3>1, <3>2 DEF RunnerInv, Holdings, Handled
    <2> QED
      BY <2>1 DEF RunnerInv, Types, Holdings, TypeOK
  <1> QED
    BY <1>1, InitHolds, NextKeeps, PTL DEF RunnerSpec

\* Once the closer of an endpoint has run, no connection of that endpoint
\* forwards from an open client socket: runner.stop cannot miss one that was
\* accepted or dialled while it ran.
THEOREM CutOffAlways == RunnerSpec => []CutOff
  <1>1. RunnerInv => CutOff
    BY DEF RunnerInv, Cutting, Forwarding, CutOff
  <1> QED
    BY <1>1, InitHolds, NextKeeps, PTL DEF RunnerSpec

\* When runner.stop has returned, no listener, socket, map entry, budget or
\* goroutine of the runner is left.
THEOREM NothingLeftAlways == RunnerSpec => []NothingLeft
  <1>1. RunnerInv => NothingLeft
    <2> SUFFICES ASSUME RunnerInv, stage = "stopped" PROVE NothingLeft
      BY DEF NothingLeft
    <2>1. \A c \in Conns : /\ at[c] = "none" /\ copying[c] = {} /\ monitor[c] = "none" /\ c \notin slots
                          /\ Client(c) \notin open \cup active /\ Upstream(c) \notin open \cup active
      BY DEF RunnerInv, StopOrder, Holdings, Handled
    <2>2. open = {} /\ active = {}
      <3> SUFFICES ASSUME NEW s \in open \cup active PROVE FALSE
        OBVIOUS
      <3>1. PICK c \in Conns : s = Client(c) \/ s = Upstream(c)
        BY DEF RunnerInv, Types, Sockets, Client, Upstream
      <3> QED
        BY <2>1, <3>1
    <2>3. slots = {}
      BY <2>1 DEF RunnerInv, Types
    <2> QED
      BY <2>1, <2>2, <2>3 DEF RunnerInv, StopOrder, NothingLeft
  <1> QED
    BY <1>1, InitHolds, NextKeeps, PTL DEF RunnerSpec

-----------------------------------------------------------------------------
\* The traffic collector's byte count of a connection of this runner
\* (tcp_meter.go).  A live connection is estimated from what the peer has
\* acknowledged, a finished one is exact, and the end of the copy may fall
\* between any two reads of a sample.

MeterConns ==
  [st : {"open", "copied", "fin", "summed"}, copied : Nat, acked : Nat,
   done : Nat \cup {-1}, last : Nat, sum : Nat]

\* The connection: the peer acknowledges what was written, and the FIN after
\* the copy; upDone is what was written, once the copy has ended.
MeterConn ==
  /\ conn \in MeterConns
  /\ conn.last <= conn.copied
  /\ conn.st \in {"open", "copied"} => conn.acked <= conn.copied
  /\ conn.st = "open" => conn.done = -1
  /\ conn.st \in {"copied", "fin"} => conn.done = conn.copied
  /\ conn.st # "summed" => conn.sum = 0
  /\ conn.st = "summed" => conn.sum = conn.copied

\* What is shown, or about to be shown, is covered by what any later sample
\* will find: upLast while the connection lives, the sum afterwards.
MeterCovered(n) == n <= conn.copied /\ (conn.st # "summed" => n <= conn.last)

\* The sample: an estimate is used only if the copy had not ended when upDone
\* was loaded again, and then it is not more than was written.
MeterSample ==
  /\ sample = [f \in DOMAIN sample |-> sample[f]] /\ {"at", "go"} \subseteq DOMAIN sample
  /\ sample.go \in Nat
  /\ sample.at \in {"info", "again"} => conn.st # "summed"
  /\ sample.at = "again" /\ conn.st = "open" => sample.go <= conn.copied
  /\ sample.at = "update" => MeterCovered(sample.go)

\* The row.
MeterRow ==
  GoRule \in DOMAIN rows =>
    /\ rows[GoRule].go \in Nat /\ MeterCovered(rows[GoRule].go)
    /\ sample.at = "update" => rows[GoRule].go <= sample.go

MeterInv == MeterConn /\ MeterSample /\ MeterRow

\* A direction is metered at its exact count, or at the larger of the estimate
\* and the last result.
LEMMA MeterResult ==
  ASSUME MeterConn, MeterSample, sample.at = "again"
  PROVE  /\ MeterDirection \in Nat /\ MeterDirection <= conn.copied
         /\ conn.last <= MeterDirection
<1>1. CASE conn.done >= 0
  BY <1>1 DEF MeterConn, MeterConns, MeterSample, MeterDirection
<1>2. CASE ~(conn.done >= 0)
  <2>1. conn.st = "open" /\ sample.go \in Nat /\ conn.last \in Nat
        /\ sample.go <= conn.copied /\ conn.last <= conn.copied
    BY <1>2 DEF MeterConn, MeterConns, MeterSample
  <2>2. \E x \in {sample.go, conn.last} : \A y \in {sample.go, conn.last} : x >= y
    BY <2>1
  <2>3. /\ Max({sample.go, conn.last}) \in {sample.go, conn.last}
        /\ \A y \in {sample.go, conn.last} : Max({sample.go, conn.last}) >= y
    BY <2>2 DEF Max
  <2> QED BY <1>2, <2>1, <2>3 DEF MeterDirection
<1> QED BY <1>1, <1>2

\* Traffic of the connection.
LEMMA MeterTraffic ==
  ASSUME MeterInv, Copy \/ Acknowledge \/ CopyDone \/ CloseWrite \/ SumUp
  PROVE  MeterInv'
<1>1. UNCHANGED <<sample, rows>>
  BY DEF Copy, Acknowledge, CopyDone, CloseWrite, SumUp
<1>0. conn \in MeterConns
  BY DEF MeterInv, MeterConn, MeterConns
<1>2. /\ MeterConn'
      /\ conn.copied <= conn'.copied /\ conn.last = conn'.last
      /\ conn'.st # "summed" => conn.st # "summed"
      /\ conn'.st = "open" => conn.st = "open"
      /\ conn'.st = "summed" => conn.st = "summed" \/ sample.at \notin {"info", "again"}
  <2>1. CASE Copy
    <3>1. conn' = [conn EXCEPT !.copied = conn.copied + 1]
      BY <2>1 DEF Copy
    <3>2. conn' \in MeterConns
      BY <1>0, <3>1 DEF MeterConns
    <3> QED BY <1>0, <2>1, <3>1, <3>2 DEF MeterInv, MeterConn, MeterConns, Copy
  <2>2. CASE Acknowledge
    <3>1. conn' = [conn EXCEPT !.acked = conn.acked + 1]
      BY <2>2 DEF Acknowledge
    <3>2. conn' \in MeterConns
      BY <1>0, <3>1 DEF MeterConns
    <3> QED BY <1>0, <2>2, <3>1, <3>2 DEF MeterInv, MeterConn, MeterConns, Acknowledge
  <2>3. CASE CopyDone
    <3>1. conn' = [conn EXCEPT !.st = "copied", !.done = conn.copied]
      BY <2>3 DEF CopyDone
    <3>2. conn' \in MeterConns
      BY <1>0, <3>1 DEF MeterConns
    <3> QED BY <1>0, <2>3, <3>1, <3>2 DEF MeterInv, MeterConn, MeterConns, CopyDone
  <2>4. CASE CloseWrite
    <3>1. conn' = [conn EXCEPT !.st = "fin"]
      BY <2>4 DEF CloseWrite
    <3>2. conn' \in MeterConns
      BY <1>0, <3>1 DEF MeterConns
    <3> QED BY <1>0, <2>4, <3>1, <3>2 DEF MeterInv, MeterConn, MeterConns, CloseWrite
  <2>5. CASE SumUp
    <3>1. conn' = [conn EXCEPT !.st = "summed", !.sum = conn.copied]
      <4>1. conn' = [conn EXCEPT !.st = "summed", !.sum = conn.sum + conn.copied]
        BY <2>5 DEF SumUp
      <4>2. conn.sum + conn.copied = conn.copied
        BY <1>0, <2>5 DEF MeterInv, MeterConn, MeterConns, SumUp
      <4> QED BY <4>1, <4>2
    <3>2. conn' \in MeterConns
      BY <1>0, <3>1 DEF MeterConns
    <3> QED BY <1>0, <2>5, <3>1, <3>2 DEF MeterInv, MeterConn, MeterConns, SumUp
  <2> QED BY <2>1, <2>2, <2>3, <2>4, <2>5
<1>4. \A n \in Nat : MeterCovered(n) => MeterCovered(n)'
  BY <1>2 DEF MeterInv, MeterConn, MeterConns, MeterCovered
<1>5. MeterSample'
  BY <1>1, <1>2, <1>4 DEF MeterInv, MeterConn, MeterConns, MeterSample
<1>6. MeterRow'
  BY <1>1, <1>4 DEF MeterInv, MeterRow
<1> QED BY <1>2, <1>5, <1>6 DEF MeterInv

\* The part of a sample that concerns the kernel.
LEMMA MeterKernel ==
  ASSUME MeterInv,
         Tick \/ ReadBackend \/ ReadTable \/ (\E family \in {4, 6} : Dump(family)) \/ Check
  PROVE  MeterInv'
<1>1. UNCHANGED <<conn, rows>>
  BY DEF Tick, ReadBackend, ReadTable, Dump, Check
<1>2. /\ sample' = [f \in DOMAIN sample' |-> sample'[f]] /\ {"at", "go"} \subseteq DOMAIN sample'
      /\ sample'.go \in Nat /\ sample'.at \notin {"info", "again", "update"}
  <2>1. CASE Tick
    BY <2>1 DEF Tick, NoSample
  <2>2. CASE ReadBackend
    BY <2>2 DEF MeterInv, MeterSample, ReadBackend, Unavailable
  <2>3. CASE ReadTable
    BY <2>3 DEF MeterInv, MeterSample, ReadTable, Unavailable
  <2>4. CASE \E family \in {4, 6} : Dump(family)
    BY <2>4 DEF MeterInv, MeterSample, Dump, AfterDump
  <2>5. CASE Check
    BY <2>5 DEF MeterInv, MeterSample, Check, Unavailable
  <2> QED BY <2>1, <2>2, <2>3, <2>4, <2>5
<1>3. \A n \in Nat : MeterCovered(n) => MeterCovered(n)'
  BY <1>1 DEF MeterCovered
<1>4. MeterConn' /\ MeterSample' /\ MeterRow'
  BY <1>1, <1>2, <1>3 DEF MeterInv, MeterConn, MeterConns, MeterSample, MeterRow
<1> QED BY <1>4 DEF MeterInv

\* The part of a sample that concerns the connection, and the new row.
LEMMA MeterReads ==
  ASSUME MeterInv, GoBytes \/ ReadInfo \/ LoadAgain \/ Update
  PROVE  MeterInv'
<1>1. CASE GoBytes
  <2>0. /\ conn \in MeterConns
        /\ sample = [f \in DOMAIN sample |-> sample[f]] /\ {"at", "go"} \subseteq DOMAIN sample
    BY DEF MeterInv, MeterConn, MeterConns, MeterSample
  <2>1. /\ rows' = rows /\ conn'.copied = conn.copied /\ conn'.st = conn.st /\ conn.last <= conn'.last /\ MeterConn'
        /\ sample' = [f \in DOMAIN sample' |-> sample'[f]] /\ {"at", "go"} \subseteq DOMAIN sample'
        /\ sample'.at \in {"info", "update"} /\ sample'.go \in Nat
        /\ sample'.at = "info" => conn.st # "summed"
        /\ sample'.at = "update" => sample'.go = conn.copied /\ (conn.st # "summed" => conn'.last = conn.copied)
    <3>1. CASE conn.st = "summed"
      <4>1. sample' = [sample EXCEPT !.at = "update", !.go = conn.sum] /\ UNCHANGED <<conn, rows>>
        BY <1>1, <3>1 DEF GoBytes
      <4>2. conn.sum = conn.copied /\ conn.copied \in Nat /\ conn.last \in Nat
        BY <2>0, <3>1 DEF MeterInv, MeterConn, MeterConns
      <4>3. MeterConn'
        BY <4>1 DEF MeterInv, MeterConn, MeterConns
      <4>4. /\ sample' = [f \in DOMAIN sample' |-> sample'[f]] /\ {"at", "go"} \subseteq DOMAIN sample'
            /\ sample'.at = "update" /\ sample'.go = conn.copied
        BY <2>0, <4>1, <4>2
      <4> QED BY <3>1, <4>1, <4>2, <4>3, <4>4
    <3>2. CASE conn.st # "summed" /\ conn.done >= 0
      <4>1. /\ sample' = [sample EXCEPT !.at = "update", !.go = conn.done]
            /\ conn' = [conn EXCEPT !.last = conn.done] /\ rows' = rows
        BY <1>1, <3>2 DEF GoBytes
      <4>2. conn.done = conn.copied /\ conn.last <= conn.done
        BY <2>0, <3>2 DEF MeterInv, MeterConn, MeterConns
      <4>3. MeterConn'
        BY <2>0, <4>1, <4>2 DEF MeterInv, MeterConn, MeterConns
      <4> QED BY <2>0, <3>2, <4>1, <4>2, <4>3 DEF MeterConns
    <3>3. CASE conn.st # "summed" /\ ~(conn.done >= 0)
      <4>1. sample' = [sample EXCEPT !.at = "info"] /\ UNCHANGED <<conn, rows>>
        BY <1>1, <3>3 DEF GoBytes
      <4> QED BY <2>0, <3>3, <4>1 DEF MeterInv, MeterConn, MeterConns, MeterSample
    <3> QED BY <3>1, <3>2, <3>3
  <2>2. MeterSample'
    BY <2>1 DEF MeterSample, MeterCovered, MeterConn, MeterConns
  <2>3. MeterRow'
    BY <2>1 DEF MeterInv, MeterConn, MeterConns, MeterRow, MeterCovered
  <2> QED BY <2>1, <2>2, <2>3 DEF MeterInv
<1>2. CASE ReadInfo
  <2>1. UNCHANGED <<conn, rows>>
    BY <1>2 DEF ReadInfo
  <2>2. /\ sample' = [f \in DOMAIN sample' |-> sample'[f]] /\ {"at", "go"} \subseteq DOMAIN sample'
        /\ sample'.at = "again" /\ sample'.go = conn.acked /\ conn.st # "summed"
    BY <1>2 DEF MeterInv, MeterSample, ReadInfo
  <2>3. MeterConn' /\ MeterSample' /\ MeterRow'
    BY <2>1, <2>2 DEF MeterInv, MeterConn, MeterConns, MeterSample, MeterRow, MeterCovered
  <2> QED BY <2>3 DEF MeterInv
<1>3. CASE LoadAgain
  <2> DEFINE m == MeterDirection
  <2>1. sample.at = "again" /\ conn.st # "summed" /\ m \in Nat /\ m <= conn.copied /\ conn.last <= m
    BY <1>3, MeterResult DEF MeterInv, MeterSample, LoadAgain
  <2>2. /\ rows' = rows /\ conn'.last = m /\ conn'.copied = conn.copied /\ conn'.st = conn.st /\ MeterConn'
    <3>1. rows' = rows /\ conn' = [conn EXCEPT !.last = m]
      BY <1>3 DEF LoadAgain
    <3> HIDE DEF m
    <3> QED BY <2>1, <3>1 DEF MeterInv, MeterConn, MeterConns
  <2>3. /\ sample' = [f \in DOMAIN sample' |-> sample'[f]] /\ {"at", "go"} \subseteq DOMAIN sample'
        /\ sample'.at = "update" /\ sample'.go = m
    <3>1. sample' = [sample EXCEPT !.at = "update", !.go = m]
      BY <1>3 DEF LoadAgain
    <3> HIDE DEF m
    <3> QED BY <3>1 DEF MeterInv, MeterSample
  <2> HIDE DEF m
  <2>4. MeterSample' /\ MeterRow'
    BY <2>1, <2>2, <2>3 DEF MeterInv, MeterConn, MeterConns, MeterSample, MeterRow, MeterCovered
  <2> QED BY <2>2, <2>4 DEF MeterInv
<1>4. CASE Update
  <2>1. conn' = conn /\ sample' = NoSample /\ sample.at = "update"
    BY <1>4 DEF Update
  <2>2. GoRule \in DOMAIN rows' /\ rows'[GoRule].go = sample.go
    BY <1>4 DEF Update, NewRow
  <2>3. MeterConn' /\ MeterSample' /\ MeterRow'
    BY <2>1, <2>2 DEF MeterInv, MeterConn, MeterConns, MeterSample, MeterRow, MeterCovered, NoSample
  <2> QED BY <2>3 DEF MeterInv
<1> QED BY <1>1, <1>2, <1>3, <1>4

\* Every step of the collector's world keeps the invariant.
LEMMA MeterStep ==
  ASSUME MeterInv, [TelemetryNext]_telemetryVars
  PROVE  MeterInv'
<1>1. CASE UNCHANGED <<conn, sample, rows>>
  BY <1>1 DEF MeterInv, MeterConn, MeterConns, MeterSample, MeterRow, MeterCovered
<1>2. CASE Collect
  BY <1>2, MeterKernel, MeterReads DEF Collect
<1>3. CASE Copy \/ Acknowledge \/ CopyDone \/ CloseWrite \/ SumUp
  BY <1>3, MeterTraffic
<1>4. CASE Recover \/ Stage \/ Revoke \/ Final \/ ApplyEnd
  BY <1>1, <1>4 DEF Recover, Stage, Revoke, Final, ApplyEnd
<1>5. CASE \E q \in Requests : ApplyBegin(q.want, q.rej)
  BY <1>1, <1>5 DEF ApplyBegin
<1>6. CASE \E f \in Flows : Open(f) \/ Carry(f) \/ Expire(f)
  BY <1>1, <1>6 DEF Open, Carry, Expire
<1>7. CASE UNCHANGED telemetryVars
  BY <1>1, <1>7 DEF telemetryVars
<1> QED BY <1>2, <1>3, <1>4, <1>5, <1>6, <1>7 DEF TelemetryNext

\* The byte count that the status page shows for the Go proxy never falls,
\* however the end of a copy, its FIN and the acknowledgements of the peer
\* interleave with the reads of a sample.
THEOREM GoCountNeverFalls == TelemetrySpec => GoNeverFalls
<1>1. TelemetryInit => MeterInv
  BY DEF TelemetryInit, NoSample, NoConn, MeterInv, MeterConn, MeterConns, MeterSample, MeterRow, MeterCovered
<1>2. MeterInv /\ [TelemetryNext]_telemetryVars => MeterInv'
  BY MeterStep
<1>3. MeterInv /\ [TelemetryNext]_telemetryVars =>
        [(GoRule \in DOMAIN rows) => rows'[GoRule].go >= rows[GoRule].go]_rows
  <2> SUFFICES ASSUME MeterInv, [TelemetryNext]_telemetryVars, rows' # rows, GoRule \in DOMAIN rows
               PROVE  rows'[GoRule].go >= rows[GoRule].go
    OBVIOUS
  <2>1. Update
    BY DEF TelemetryNext, telemetryVars, ApplyBegin, Recover, Stage, Revoke, Final,
      ApplyEnd, Open, Carry, Expire, Copy, Acknowledge, CopyDone,
      CloseWrite, SumUp, Collect, Tick, ReadBackend, ReadTable,
      Dump, Check, GoBytes, ReadInfo, LoadAgain
  <2>2. sample.at = "update" /\ rows'[GoRule].go = sample.go
    BY <2>1 DEF Update, NewRow
  <2> QED BY <2>2 DEF MeterInv, MeterSample, MeterRow
<1> QED BY <1>1, <1>2, <1>3, PTL DEF TelemetrySpec, GoNeverFalls

=============================================================================
