-------------------------------- MODULE UdpWheel --------------------------------
(***************************************************************************)
(* The expiry wheel of one UDP worker (internal/proxy/udp.go).  A session  *)
(* is queued in the slot of the second at which it would expire.  Traffic  *)
(* moves the expiry but not the session: when the wheel reaches the old    *)
(* slot, the session is queued again.  The wheel follows the wall clock    *)
(* one second at a time, at most one turn behind.                          *)
(*                                                                         *)
(* `now' is the wall-clock second read after EpollWait; one pass of the    *)
(* serve loop uses it for all events and for maintenance.  The order of    *)
(* sessions in a slot does not matter, so a slot is a set.                 *)
(***************************************************************************)
EXTENDS Integers

CONSTANTS
  Clients,    \* flows of this worker
  Slots,      \* udpWheelSlots
  Idles,      \* idle timeouts a rule may have, in seconds
  MaxBack,    \* how far the wall clock may step back behind the wheel
  MaxTime     \* bound: the last second of the wall clock

ASSUME WheelConstants ==
  /\ Slots \in Nat \ {0} /\ Idles \subseteq Nat \ {0}
  /\ MaxBack \in Nat /\ MaxTime \in Nat

VARIABLES
  now,          \* the time of this pass of the serve loop
  idleSeconds,  \* the rule's idle timeout
  wheelSecond,  \* the last second the wheel has handled
  open,         \* the clients that have a session
  expiresAt,    \* expiresAt[c] of an open session, 0 without one
  slot,         \* slot[c]: wheelSlot of the session, -1 when it is in none
  pc,           \* "wait", "events", "expire" or "stopped"
  setBack       \* history: the clock was set back while this worker ran

vars == <<now, idleSeconds, wheelSecond, open, expiresAt, slot, pc, setBack>>

\* newUDPWorker
Start(t) ==
  /\ now' = t /\ wheelSecond' = t /\ idleSeconds' \in Idles
  /\ open' = {} /\ pc' = "wait" /\ setBack' = FALSE
  /\ expiresAt' = [c \in Clients |-> 0] /\ slot' = [c \in Clients |-> -1]

Init ==
  /\ now \in 0..(Slots - 1) /\ wheelSecond = now /\ idleSeconds \in Idles
  /\ open = {} /\ pc = "wait" /\ setBack = FALSE
  /\ expiresAt = [c \in Clients |-> 0] /\ slot = [c \in Clients |-> -1]

\* EpollWait returns.  The clock has moved on, or was set back.
Wake ==
  /\ pc = "wait" /\ pc' = "events"
  /\ \E t \in 0..MaxTime : t >= wheelSecond - MaxBack /\ now' = t
  /\ setBack' = (setBack \/ now' < now)
  /\ UNCHANGED <<idleSeconds, wheelSecond, open, expiresAt, slot>>

\* insertWheel
SlotOf(t) == t % Slots

\* newSession, and the touchSession that queues it.
NewSession(c) ==
  /\ pc = "events" /\ c \notin open
  /\ open' = open \cup {c}
  /\ expiresAt' = [expiresAt EXCEPT ![c] = now + idleSeconds]
  /\ slot' = [slot EXCEPT ![c] = SlotOf(now + idleSeconds)]
  /\ UNCHANGED <<now, idleSeconds, wheelSecond, pc, setBack>>

\* A packet was forwarded in either direction: the session stays in its slot.
TouchSession(c) ==
  /\ pc = "events" /\ c \in open
  /\ expiresAt' = [expiresAt EXCEPT ![c] = now + idleSeconds]
  /\ UNCHANGED <<now, idleSeconds, wheelSecond, open, slot, pc, setBack>>

\* A socket error closes the session at once.
CloseSession(c) ==
  /\ pc = "events" /\ c \in open
  /\ open' = open \ {c} /\ slot' = [slot EXCEPT ![c] = -1]
  /\ expiresAt' = [expiresAt EXCEPT ![c] = 0]
  /\ UNCHANGED <<now, idleSeconds, wheelSecond, pc, setBack>>

\* Maintenance is not due in this pass.
SkipMaintain ==
  /\ pc = "events" /\ pc' = "wait"
  /\ UNCHANGED <<now, idleSeconds, wheelSecond, open, expiresAt, slot, setBack>>

\* Mutant: a worker more than a turn behind catches up with less than a turn.
ClampedShort == IF now - wheelSecond > Slots THEN now - Slots + 1 ELSE wheelSecond

\* maintain: a worker more than one turn behind visits every slot once.
Clamped == IF now - wheelSecond > Slots THEN now - Slots ELSE wheelSecond

BeginMaintain ==
  /\ pc = "events" /\ pc' = "expire" /\ wheelSecond' = Clamped
  /\ UNCHANGED <<now, idleSeconds, open, expiresAt, slot, setBack>>

\* Mutant: whatever is in the slot has expired.
ExpireWheelSlotAll ==
  /\ pc = "expire" /\ wheelSecond < now /\ wheelSecond' = wheelSecond + 1
  /\ LET here == {c \in open : slot[c] = SlotOf(wheelSecond')}
     IN  /\ open' = open \ here
         /\ slot' = [c \in Clients |-> IF c \in here THEN -1 ELSE slot[c]]
         /\ expiresAt' = [c \in Clients |-> IF c \in here THEN 0 ELSE expiresAt[c]]
  /\ UNCHANGED <<now, idleSeconds, pc, setBack>>

\* expireWheelSlot: a session that has expired is closed, one that was used
\* since it was queued is queued again.
ExpireWheelSlot ==
  /\ pc = "expire" /\ wheelSecond < now /\ wheelSecond' = wheelSecond + 1
  /\ LET here    == {c \in open : slot[c] = SlotOf(wheelSecond')}
         expired == {c \in here : expiresAt[c] <= wheelSecond'}
     IN  /\ open' = open \ expired
         /\ slot' = [c \in Clients |-> IF c \in expired THEN -1
                                       ELSE IF c \in here THEN SlotOf(expiresAt[c]) ELSE slot[c]]
         /\ expiresAt' = [c \in Clients |-> IF c \in expired THEN 0 ELSE expiresAt[c]]
  /\ UNCHANGED <<now, idleSeconds, pc, setBack>>

EndMaintain ==
  /\ pc = "expire" /\ wheelSecond >= now /\ pc' = "wait"
  /\ UNCHANGED <<now, idleSeconds, wheelSecond, open, expiresAt, slot, setBack>>

\* serve returns and cleanup closes every session.
Cleanup ==
  /\ pc \in {"wait", "events"} /\ pc' = "stopped"
  /\ open' = {}
  /\ expiresAt' = [c \in Clients |-> 0] /\ slot' = [c \in Clients |-> -1]
  /\ UNCHANGED <<now, idleSeconds, wheelSecond, setBack>>

\* A new worker takes the place of the stopped one.
Restart == pc = "stopped" /\ \E t \in 0..(Slots - 1) : Start(t)

Next ==
  \/ Wake \/ SkipMaintain \/ BeginMaintain \/ ExpireWheelSlot \/ EndMaintain
  \/ Cleanup \/ Restart
  \/ \E c \in Clients : NewSession(c) \/ TouchSession(c) \/ CloseSession(c)

WheelSpec == Init /\ [][Next]_vars

-----------------------------------------------------------------------------

\* Every variable has its type.
TypeOK ==
  /\ now \in Int /\ wheelSecond \in Int /\ idleSeconds \in Idles
  /\ open \subseteq Clients
  /\ expiresAt \in [Clients -> Int]
  /\ slot \in [Clients -> -1..(Slots - 1)]
  /\ pc \in {"wait", "events", "expire", "stopped"} /\ setBack \in BOOLEAN

\* An idle session is closed on time: outside of maintenance every open
\* session expires after the last second the wheel has handled, although
\* sessions are queued lazily, idle times exceed one turn and maintenance is
\* late by more than a turn.  A clock that is set back can delay this by what
\* it lost and one turn of the wheel, never for ever.  A session is in a slot
\* exactly while it is open, so none is out of the reach of maintenance.
ClosedInTime ==
  /\ \A c \in Clients : c \in open <=> slot[c] # -1
  /\ pc # "expire" => \A c \in open :
       /\ ~setBack => expiresAt[c] > wheelSecond
       /\ expiresAt[c] > wheelSecond - Slots - MaxBack + idleSeconds \/ expiresAt[c] > wheelSecond

\* Maintenance never closes a session that forwarded a packet within the
\* idle time.
NeverEarly == [][pc = "expire" => \A c \in open \ open' : expiresAt[c] <= now]_vars

=============================================================================
