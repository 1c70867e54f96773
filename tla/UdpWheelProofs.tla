---------------------------- MODULE UdpWheelProofs ----------------------------
(***************************************************************************)
(* The expiry wheel closes every idle session in time and none too early,  *)
(* for every size of the wheel, every idle timeout and every clock.        *)
(*                                                                         *)
(* The invariant looks ahead: the turn that follows wheelSecond visits     *)
(* every slot, and a session does not expire before the visit to its slot  *)
(* in that turn, so that the visit either closes it or queues it again at  *)
(* its expiry. During maintenance after more than a turn a visit may come  *)
(* late, but then it comes within this maintenance. A clock that was set   *)
(* back by at most MaxBack weakens the bound by MaxBack and one turn.      *)
(***************************************************************************)
EXTENDS UdpWheel, TLAPS

-----------------------------------------------------------------------------
\* Arithmetic of the slots.

\* Division with remainder.
LEMMA DivMod ==
  ASSUME NEW a \in Int, NEW n \in Nat \ {0}
  PROVE  a \div n \in Int /\ a % n \in 0..(n - 1) /\ a = n * (a \div n) + (a % n)
OBVIOUS

\* The only multiple of n nearer to zero than n is zero.
LEMMA OnlyZero ==
  ASSUME NEW n \in Nat \ {0}, NEW k \in Int, n * k < n, n * k > -n
  PROVE  k = 0
OBVIOUS

\* The remainder is determined by its range.
LEMMA ModUnique ==
  ASSUME NEW n \in Nat \ {0}, NEW k \in Int, NEW r \in 0..(n - 1), NEW a \in Int, a = n * k + r
  PROVE  a % n = r
<1>1. a \div n \in Int /\ a % n \in 0..(n - 1) /\ a = n * (a \div n) + (a % n)
  BY DivMod
<1>2. n * (k - a \div n) = n * k - n * (a \div n)
  BY <1>1
<1>3. k - a \div n = 0
  BY <1>1, <1>2, OnlyZero
<1> QED BY <1>1, <1>3

\* The n seconds after second w visit the slot of any second x, and not after
\* x if x is still to come.
LEMMA VisitExists ==
  ASSUME NEW n \in Nat \ {0}, NEW w \in Int, NEW x \in Int
  PROVE  \E q \in (w + 1)..(w + n) : q % n = x % n /\ (x > w => q <= x)
<1>1. PICK d \in Int : d = x - w - 1
  OBVIOUS
<1>2. PICK k \in Int, e \in 0..(n - 1) : x - w - 1 = n * k + e
  BY <1>1, DivMod
<1>3. PICK l \in Int, r \in 0..(n - 1) : x = n * l + r /\ x % n = r
  BY DivMod
<1> DEFINE q == w + 1 + e
<1>4. n * (l - k) = n * l - n * k
  BY <1>2, <1>3
<1>5. q % n = x % n
  <2>1. PICK m \in Int : m = l - k
    OBVIOUS
  <2>2. q \in Int /\ q = n * m + r
    BY <1>2, <1>3, <1>4, <2>1
  <2> HIDE DEF q
  <2> QED BY <1>3, <2>2, ModUnique
<1>6. x > w => n * k >= 0
  <2>1. \A j \in Int : j < 0 => n * j <= -n
    OBVIOUS
  <2> QED BY <1>2, <2>1
<1>7. q \in (w + 1)..(w + n) /\ (x > w => q <= x)
  BY <1>2, <1>6
<1> QED BY <1>5, <1>7

-----------------------------------------------------------------------------
\* The invariant.

\* The turn that follows the last second the wheel has handled.
Turn == (wheelSecond + 1)..(wheelSecond + Slots)

\* The maintenance that is running reaches q.
Soon(q) == pc = "expire" /\ q <= now

\* Session c is looked at before it expires, or soon; or its clock was set
\* back and it is late by no more than that costs.
Reached(c, q) ==
  \/ q <= expiresAt[c] \/ Soon(q)
  \/ setBack /\ expiresAt[c] >= q - Slots - MaxBack + idleSeconds

\* The clock is not behind the wheel unless it was set back.
ClockInv ==
  /\ pc = "events" => now >= wheelSecond - MaxBack
  /\ ~setBack => now >= wheelSecond
  /\ ~setBack => \A c \in open : expiresAt[c] <= now + idleSeconds

QueuedInv == \A c \in Clients : c \in open <=> slot[c] # -1

VisitInv == \A c \in open : \E q \in Turn : SlotOf(q) = slot[c] /\ Reached(c, q)

WheelInv == TypeOK /\ ClockInv /\ QueuedInv /\ VisitInv

-----------------------------------------------------------------------------

\* The constants, and the values of the variables, as numbers.
LEMMA Numbers ==
  ASSUME TypeOK
  PROVE  /\ Slots \in Nat \ {0} /\ MaxBack \in Nat /\ idleSeconds \in Nat \ {0}
         /\ now \in Int /\ wheelSecond \in Int
         /\ \A c \in Clients : expiresAt[c] \in Int
BY WheelConstants DEF TypeOK

\* A second has a slot, and the slot is none of a session that is in none.
LEMMA SlotRange ==
  ASSUME NEW t \in Int
  PROVE  SlotOf(t) \in 0..(Slots - 1) /\ SlotOf(t) # -1
<1>1. SlotOf(t) \in 0..(Slots - 1)
  BY WheelConstants, DivMod DEF SlotOf
<1> QED BY <1>1, WheelConstants

\* A worker starts with no session and with the wheel at the present second.
LEMMA InitWheelInv == Init => WheelInv
<1> SUFFICES ASSUME Init PROVE WheelInv
  OBVIOUS
<1>1. TypeOK
  <2>1. now \in Int /\ wheelSecond \in Int /\ idleSeconds \in Idles /\ open \subseteq Clients
        /\ expiresAt \in [Clients -> Int] /\ pc \in {"wait", "events", "expire", "stopped"}
    BY WheelConstants DEF Init
  <2>2. slot \in [Clients -> -1..(Slots - 1)]
    BY WheelConstants DEF Init
  <2>3. setBack \in BOOLEAN
    BY Zenon DEF Init
  <2> QED BY <2>1, <2>2, <2>3 DEF TypeOK
<1>2. ClockInv
  BY <1>1, Numbers DEF Init, ClockInv
<1>3. QueuedInv /\ VisitInv
  BY DEF Init, QueuedInv, VisitInv
<1> QED BY <1>1, <1>2, <1>3 DEF WheelInv

\* Every step keeps the types.
LEMMA NextTypeOK == TypeOK /\ [Next]_vars => TypeOK'
<1> SUFFICES ASSUME TypeOK, [Next]_vars PROVE TypeOK'
  OBVIOUS
<1>0. /\ Slots \in Nat \ {0} /\ Idles \subseteq Nat \ {0} /\ idleSeconds \in Nat
      /\ now \in Int /\ wheelSecond \in Int /\ MaxTime \in Nat
  BY WheelConstants, Numbers
<1>1. CASE Wake
  <2>1. now' \in Int
    BY <1>0, <1>1 DEF Wake
  <2>2. setBack' \in BOOLEAN
    BY <1>1 DEF Wake
  <2> QED BY <1>1, <2>1, <2>2 DEF Wake, TypeOK
<1>2. CASE SkipMaintain \/ BeginMaintain \/ EndMaintain
  BY <1>0, <1>2 DEF SkipMaintain, BeginMaintain, Clamped, EndMaintain, TypeOK
<1>3. CASE ExpireWheelSlot
  <2>1. \A c \in Clients : SlotOf(expiresAt[c]) \in -1..(Slots - 1)
    BY <1>0, SlotRange, Numbers
  <2>2. slot' \in [Clients -> -1..(Slots - 1)]
    BY <1>0, <1>3, <2>1 DEF ExpireWheelSlot, TypeOK
  <2>3. expiresAt' \in [Clients -> Int] /\ open' \subseteq Clients /\ wheelSecond' \in Int
    BY <1>0, <1>3 DEF ExpireWheelSlot, TypeOK
  <2>4. UNCHANGED <<now, idleSeconds, pc, setBack>>
    BY <1>3 DEF ExpireWheelSlot
  <2> QED BY <2>2, <2>3, <2>4 DEF TypeOK
<1>4. CASE Cleanup
  BY <1>0, <1>4 DEF Cleanup, TypeOK
<1>5. CASE Restart
  <2>1. PICK t \in 0..(Slots - 1) : Start(t)
    BY <1>5 DEF Restart
  <2>2. now' \in Int /\ wheelSecond' \in Int /\ idleSeconds' \in Idles /\ open' \subseteq Clients
        /\ expiresAt' \in [Clients -> Int] /\ pc' \in {"wait", "events", "expire", "stopped"}
    BY <1>0, <2>1 DEF Start
  <2>3. slot' \in [Clients -> -1..(Slots - 1)]
    BY <1>0, <2>1 DEF Start
  <2>4. setBack' \in BOOLEAN
    BY <2>1, Zenon DEF Start
  <2> QED BY <2>2, <2>3, <2>4 DEF TypeOK
<1>6. ASSUME NEW c \in Clients, NewSession(c) PROVE TypeOK'
  <2>1. SlotOf(now + idleSeconds) \in -1..(Slots - 1)
    BY <1>0, SlotRange
  <2> QED BY <1>0, <1>6, <2>1 DEF NewSession, TypeOK
<1>7. ASSUME NEW c \in Clients, TouchSession(c) \/ CloseSession(c) PROVE TypeOK'
  BY <1>0, <1>7 DEF TouchSession, CloseSession, TypeOK
<1>8. CASE UNCHANGED vars
  BY <1>8 DEF vars, TypeOK
<1> QED BY <1>1, <1>2, <1>3, <1>4, <1>5, <1>6, <1>7, <1>8 DEF Next

\* A session is in a slot exactly while it is open.
LEMMA NextQueuedInv == TypeOK /\ QueuedInv /\ [Next]_vars => QueuedInv'
<1> SUFFICES ASSUME TypeOK, QueuedInv, [Next]_vars PROVE QueuedInv'
  OBVIOUS
<1>0. now + idleSeconds \in Int /\ \A c \in Clients : expiresAt[c] \in Int
  BY Numbers
<1>1. CASE UNCHANGED <<open, slot>>
  BY <1>1 DEF QueuedInv
<1>2. CASE Wake \/ SkipMaintain \/ BeginMaintain \/ EndMaintain
  BY <1>1, <1>2 DEF Wake, SkipMaintain, BeginMaintain, EndMaintain
<1>3. CASE ExpireWheelSlot
  <2>1. \A c \in Clients : SlotOf(expiresAt[c]) # -1
    BY <1>0, SlotRange
  <2> QED BY <1>3, <2>1 DEF ExpireWheelSlot, QueuedInv, TypeOK
<1>4. CASE Cleanup \/ Restart
  BY <1>4 DEF Cleanup, Restart, Start, QueuedInv
<1>5. ASSUME NEW c \in Clients, NewSession(c) PROVE QueuedInv'
  <2>1. SlotOf(now + idleSeconds) # -1
    BY <1>0, SlotRange
  <2> QED BY <1>5, <2>1 DEF NewSession, QueuedInv, TypeOK
<1>6. ASSUME NEW c \in Clients, CloseSession(c) PROVE QueuedInv'
  BY <1>6 DEF CloseSession, QueuedInv, TypeOK
<1>7. ASSUME NEW c \in Clients, TouchSession(c) PROVE QueuedInv'
  BY <1>1, <1>7 DEF TouchSession
<1>8. CASE UNCHANGED vars
  BY <1>1, <1>8 DEF vars
<1> QED BY <1>2, <1>3, <1>4, <1>5, <1>6, <1>7, <1>8 DEF Next

\* The clock and the wheel keep their order.
LEMMA NextClockInv == TypeOK /\ ClockInv /\ [Next]_vars => ClockInv'
<1> SUFFICES ASSUME TypeOK, ClockInv, [Next]_vars PROVE ClockInv'
  OBVIOUS
<1>0. /\ Slots \in Nat \ {0} /\ MaxBack \in Nat /\ idleSeconds \in Nat
      /\ now \in Int /\ wheelSecond \in Int /\ MaxTime \in Nat /\ setBack \in BOOLEAN
      /\ open \subseteq Clients /\ expiresAt \in [Clients -> Int]
  BY WheelConstants, Numbers DEF TypeOK
<1>1. CASE Wake
  <2>1. /\ now' \in Int /\ now' >= wheelSecond - MaxBack
        /\ UNCHANGED <<idleSeconds, wheelSecond, open, expiresAt>>
    BY <1>0, <1>1 DEF Wake
  <2>2. ~setBack' => ~setBack /\ now' >= now
    <3>1. ~setBack' => ~setBack /\ ~(now' < now)
      BY <1>1, Zenon DEF Wake
    <3> QED BY <1>0, <2>1, <3>1
  <2> QED BY <1>0, <2>1, <2>2 DEF ClockInv
<1>2. CASE SkipMaintain \/ EndMaintain
  BY <1>2 DEF SkipMaintain, EndMaintain, ClockInv
<1>3. CASE BeginMaintain
  BY <1>0, <1>3 DEF BeginMaintain, Clamped, ClockInv
<1>4. CASE ExpireWheelSlot
  <2>1. /\ pc' = "expire" /\ wheelSecond' = wheelSecond + 1 /\ wheelSecond < now
        /\ UNCHANGED <<now, idleSeconds, setBack>>
    BY <1>4 DEF ExpireWheelSlot
  <2>2. open' \subseteq open /\ \A c \in open' : expiresAt'[c] = expiresAt[c]
    BY <1>0, <1>4 DEF ExpireWheelSlot
  <2> QED BY <1>0, <2>1, <2>2 DEF ClockInv
<1>5. CASE Cleanup
  BY <1>5 DEF Cleanup, ClockInv
<1>6. CASE Restart
  BY <1>0, <1>6 DEF Restart, Start, ClockInv
<1>7. ASSUME NEW c \in Clients, NewSession(c) \/ TouchSession(c) PROVE ClockInv'
  <2>1. /\ UNCHANGED <<now, idleSeconds, wheelSecond, pc, setBack>>
        /\ open' = open \cup {c} /\ expiresAt' = [expiresAt EXCEPT ![c] = now + idleSeconds]
    BY <1>7 DEF NewSession, TouchSession
  <2> QED BY <1>0, <2>1 DEF ClockInv
<1>8. ASSUME NEW c \in Clients, CloseSession(c) PROVE ClockInv'
  BY <1>0, <1>8 DEF CloseSession, ClockInv
<1>9. CASE UNCHANGED vars
  BY <1>9 DEF vars, ClockInv
<1> QED BY <1>1, <1>2, <1>3, <1>4, <1>5, <1>6, <1>7, <1>8, <1>9 DEF Next

-----------------------------------------------------------------------------
\* The next visit, step by step.

\* A session that is queued now is reached: touchSession after newSession.
LEMMA NewIsReached ==
  ASSUME TypeOK, ClockInv, pc = "events", NEW x \in Int, x = now + idleSeconds
  PROVE  \E q \in Turn : /\ SlotOf(q) = SlotOf(x)
                         /\ q <= x \/ (setBack /\ x >= q - Slots - MaxBack + idleSeconds)
<1>1. /\ Slots \in Nat \ {0} /\ MaxBack \in Nat /\ idleSeconds \in Nat \ {0}
      /\ now \in Int /\ wheelSecond \in Int
  BY Numbers
<1>2. PICK q \in (wheelSecond + 1)..(wheelSecond + Slots) :
        q % Slots = x % Slots /\ (x > wheelSecond => q <= x)
  BY <1>1, VisitExists
<1>3. CASE x > wheelSecond
  BY <1>2, <1>3 DEF Turn, SlotOf
<1>4. CASE ~(x > wheelSecond)
  <2>1. now >= wheelSecond - MaxBack /\ (~setBack => now >= wheelSecond)
    BY DEF ClockInv
  <2>2. setBack
    BY <1>1, <1>4, <2>1
  <2>3. x >= q - Slots - MaxBack + idleSeconds
    BY <1>1, <1>2, <2>1
  <2> QED BY <1>2, <2>2, <2>3 DEF Turn, SlotOf
<1> QED BY <1>3, <1>4

\* A packet moves the expiry of a session and leaves it reached.
LEMMA TouchedIsReached ==
  ASSUME TypeOK, ClockInv, pc = "events", NEW c \in open, NEW q \in Turn, Reached(c, q),
         NEW x \in Int, x = now + idleSeconds
  PROVE  q <= x \/ (setBack /\ x >= q - Slots - MaxBack + idleSeconds)
<1>1. /\ Slots \in Nat \ {0} /\ MaxBack \in Nat /\ idleSeconds \in Nat \ {0}
      /\ now \in Int /\ wheelSecond \in Int /\ expiresAt[c] \in Int /\ q \in Int
      /\ q <= wheelSecond + Slots
  BY Numbers DEF TypeOK, Turn
<1>2. CASE setBack
  <2>1. now >= wheelSecond - MaxBack
    BY DEF ClockInv
  <2>2. x >= q - Slots - MaxBack + idleSeconds
    BY <1>1, <2>1
  <2> QED BY <1>2, <2>2
<1>3. CASE ~setBack
  <2>1. expiresAt[c] <= now + idleSeconds
    BY <1>3 DEF ClockInv
  <2>2. q <= expiresAt[c]
    BY <1>3 DEF Reached, Soon
  <2> QED BY <1>1, <2>1, <2>2
<1> QED BY <1>2, <1>3

\* A worker more than a turn behind visits every slot before it ends.
LEMMA ClampedIsReached ==
  ASSUME TypeOK, NEW q \in Int, NEW v, v = now - Slots
  PROVE  \E p \in (v + 1)..(v + Slots) : SlotOf(p) = SlotOf(q) /\ p <= now
<1>1. Slots \in Nat \ {0} /\ now \in Int /\ v \in Int
  BY Numbers
<1>2. PICK p \in (v + 1)..(v + Slots) : p % Slots = q % Slots
  BY <1>1, VisitExists
<1>3. p <= now
  BY <1>1, <1>2
<1>4. SlotOf(p) = SlotOf(q)
  BY <1>2 DEF SlotOf
<1> QED BY <1>2, <1>3, <1>4

\* A visit closes a session or queues it again, and it passes by the others.
LEMMA ExpireKeepsVisits ==
  ASSUME TypeOK, VisitInv, ExpireWheelSlot
  PROVE  VisitInv'
<1> SUFFICES ASSUME NEW c \in open'
             PROVE  (\E q \in Turn : SlotOf(q) = slot[c] /\ Reached(c, q))'
  BY DEF VisitInv
<1> DEFINE v == wheelSecond + 1
<1>1. /\ Slots \in Nat \ {0} /\ now \in Int /\ wheelSecond \in Int
      /\ v \in Int /\ wheelSecond' = v /\ v <= now
      /\ pc = "expire" /\ UNCHANGED <<now, idleSeconds, pc, setBack>>
  BY Numbers DEF ExpireWheelSlot
<1>2. /\ c \in Clients /\ c \in open /\ expiresAt[c] \in Int /\ expiresAt'[c] = expiresAt[c]
      /\ slot[c] = SlotOf(v) => expiresAt[c] > v /\ slot'[c] = SlotOf(expiresAt[c])
      /\ slot[c] # SlotOf(v) => slot'[c] = slot[c]
  <2>1. c \in Clients /\ c \in open /\ expiresAt[c] \in Int
    BY Numbers DEF ExpireWheelSlot, TypeOK
  <2>2. ~(c \in open /\ slot[c] = SlotOf(v) /\ expiresAt[c] <= v)
    BY <1>1 DEF ExpireWheelSlot
  <2>3. expiresAt'[c] = expiresAt[c]
    BY <1>1, <2>1, <2>2 DEF ExpireWheelSlot
  <2>4. slot'[c] = IF slot[c] = SlotOf(v) THEN SlotOf(expiresAt[c]) ELSE slot[c]
    BY <1>1, <2>1, <2>2 DEF ExpireWheelSlot
  <2> QED BY <1>1, <2>1, <2>2, <2>3, <2>4
<1>3. PICK q \in Turn : SlotOf(q) = slot[c] /\ Reached(c, q)
  BY <1>2 DEF VisitInv
<1>4. Turn' = (v + 1)..(v + Slots)
  BY <1>1 DEF Turn
<1> HIDE DEF v
<1>5. CASE slot[c] = SlotOf(v)
  <2>1. PICK p \in (v + 1)..(v + Slots) :
          p % Slots = expiresAt[c] % Slots /\ (expiresAt[c] > v => p <= expiresAt[c])
    BY <1>1, <1>2, VisitExists
  <2>2. SlotOf(p) = slot'[c] /\ p <= expiresAt'[c]
    BY <1>2, <1>5, <2>1 DEF SlotOf
  <2>3. SlotOf(p)' = slot'[c] /\ Reached(c, p)'
    BY <2>2 DEF Reached, SlotOf
  <2> QED BY <1>4, <2>1, <2>3
<1>6. CASE slot[c] # SlotOf(v)
  <2>1. q # v
    BY <1>3, <1>6
  <2>2. q \in (v + 1)..(v + Slots)
    BY <1>1, <1>3, <2>1 DEF Turn, v
  <2>3. SlotOf(q)' = slot'[c] /\ Reached(c, q)'
    BY <1>1, <1>2, <1>3, <1>6 DEF Reached, Soon, SlotOf
  <2> QED BY <1>4, <2>2, <2>3
<1> QED BY <1>5, <1>6

\* A step that moves neither the wheel nor a session forgets no visit.
LEMMA StillReached ==
  ASSUME VisitInv, UNCHANGED <<wheelSecond, slot, expiresAt, idleSeconds>>, open' \subseteq open,
         setBack => setBack', pc = "expire" => FALSE
  PROVE  VisitInv'
<1> SUFFICES ASSUME NEW c \in open'
             PROVE  (\E q \in Turn : SlotOf(q) = slot[c] /\ Reached(c, q))'
  BY DEF VisitInv
<1>1. PICK q \in Turn : SlotOf(q) = slot[c] /\ Reached(c, q)
  BY DEF VisitInv
<1>2. q \in Turn' /\ SlotOf(q)' = slot'[c] /\ Reached(c, q)'
  BY <1>1 DEF Turn, SlotOf, Reached, Soon
<1> QED BY <1>2

\* Every step leaves every session reached.
LEMMA NextVisitInv == WheelInv /\ [Next]_vars => VisitInv'
<1> SUFFICES ASSUME WheelInv, [Next]_vars PROVE VisitInv'
  OBVIOUS
<1>0. TypeOK /\ ClockInv /\ VisitInv
  BY DEF WheelInv
<1>1. /\ Slots \in Nat \ {0} /\ MaxBack \in Nat /\ idleSeconds \in Nat \ {0}
      /\ now \in Int /\ wheelSecond \in Int /\ now + idleSeconds \in Int
  BY <1>0, Numbers
<1>2. CASE Wake
  <2>1. setBack => setBack'
    BY <1>2, Zenon DEF Wake
  <2>2. pc # "expire" /\ UNCHANGED <<wheelSecond, slot, expiresAt, idleSeconds, open>>
    BY <1>2 DEF Wake
  <2> QED BY <1>0, <2>1, <2>2, StillReached
<1>3. CASE SkipMaintain
  BY <1>0, <1>3, StillReached DEF SkipMaintain
<1>4. CASE BeginMaintain
  <2> SUFFICES ASSUME NEW c \in open
               PROVE  (\E q \in Turn : SlotOf(q) = slot[c] /\ Reached(c, q))'
    BY <1>4 DEF VisitInv, BeginMaintain
  <2>1. PICK q \in Turn : SlotOf(q) = slot[c] /\ Reached(c, q)
    BY <1>0 DEF VisitInv
  <2>2. /\ pc = "events" /\ pc' = "expire" /\ wheelSecond' = Clamped
        /\ UNCHANGED <<now, idleSeconds, expiresAt, slot, setBack>>
    BY <1>4 DEF BeginMaintain
  <2>3. CASE now - wheelSecond > Slots
    <3>1. PICK v : v = now - Slots
      OBVIOUS
    <3>2. q \in Int
      BY <1>1, <2>1 DEF Turn
    <3>3. PICK p \in (v + 1)..(v + Slots) : SlotOf(p) = SlotOf(q) /\ p <= now
      BY <1>0, <3>1, <3>2, ClampedIsReached
    <3>4. Turn' = (v + 1)..(v + Slots)
      BY <2>2, <2>3, <3>1 DEF Turn, Clamped
    <3>5. SlotOf(p)' = slot'[c] /\ Reached(c, p)'
      BY <2>1, <2>2, <3>3 DEF Reached, Soon, SlotOf
    <3> QED BY <3>3, <3>4, <3>5
  <2>4. CASE ~(now - wheelSecond > Slots)
    <3>1. Turn' = Turn
      BY <2>2, <2>4 DEF Turn, Clamped
    <3>2. SlotOf(q)' = slot'[c] /\ Reached(c, q)'
      BY <2>1, <2>2 DEF Reached, Soon, SlotOf
    <3> QED BY <2>1, <3>1, <3>2
  <2> QED BY <2>3, <2>4
<1>5. CASE ExpireWheelSlot
  BY <1>0, <1>5, ExpireKeepsVisits
<1>6. CASE EndMaintain
  <2> SUFFICES ASSUME NEW c \in open
               PROVE  (\E q \in Turn : SlotOf(q) = slot[c] /\ Reached(c, q))'
    BY <1>6 DEF VisitInv, EndMaintain
  <2>1. PICK q \in Turn : SlotOf(q) = slot[c] /\ Reached(c, q)
    BY <1>0 DEF VisitInv
  <2>2. wheelSecond >= now /\ UNCHANGED <<now, idleSeconds, wheelSecond, expiresAt, slot, setBack>>
    BY <1>6 DEF EndMaintain
  <2>3. ~(q <= now)
    BY <1>1, <2>1, <2>2 DEF Turn
  <2>4. q \in Turn' /\ SlotOf(q)' = slot'[c] /\ Reached(c, q)'
    BY <2>1, <2>2, <2>3 DEF Reached, Soon, SlotOf, Turn
  <2> QED BY <2>4
<1>7. CASE Cleanup \/ Restart
  BY <1>7 DEF Cleanup, Restart, Start, VisitInv
<1>8. ASSUME NEW d \in Clients, CloseSession(d) PROVE VisitInv'
  <2> SUFFICES ASSUME NEW c \in open'
               PROVE  (\E q \in Turn : SlotOf(q) = slot[c] /\ Reached(c, q))'
    BY DEF VisitInv
  <2>1. /\ c \in open /\ slot'[c] = slot[c] /\ expiresAt'[c] = expiresAt[c]
        /\ UNCHANGED <<now, idleSeconds, wheelSecond, pc, setBack>>
    BY <1>0, <1>8 DEF CloseSession, TypeOK
  <2>2. PICK q \in Turn : SlotOf(q) = slot[c] /\ Reached(c, q)
    BY <1>0, <2>1 DEF VisitInv
  <2>3. q \in Turn' /\ SlotOf(q)' = slot'[c] /\ Reached(c, q)'
    BY <2>1, <2>2 DEF Reached, Soon, SlotOf, Turn
  <2> QED BY <2>3
<1>9. ASSUME NEW d \in Clients, NewSession(d) \/ TouchSession(d) PROVE VisitInv'
  <2> SUFFICES ASSUME NEW c \in open'
               PROVE  (\E q \in Turn : SlotOf(q) = slot[c] /\ Reached(c, q))'
    BY DEF VisitInv
  <2>0. /\ pc = "events" /\ UNCHANGED <<now, idleSeconds, wheelSecond, pc, setBack>>
        /\ expiresAt' = [expiresAt EXCEPT ![d] = now + idleSeconds]
    BY <1>9 DEF NewSession, TouchSession
  <2>1. CASE c # d
    <3>1. /\ c \in open /\ slot'[c] = slot[c] /\ expiresAt'[c] = expiresAt[c]
      BY <1>0, <1>9, <2>1 DEF NewSession, TouchSession, TypeOK
    <3>2. PICK q \in Turn : SlotOf(q) = slot[c] /\ Reached(c, q)
      BY <1>0, <3>1 DEF VisitInv
    <3>3. q \in Turn' /\ SlotOf(q)' = slot'[c] /\ Reached(c, q)'
      BY <2>0, <3>1, <3>2 DEF Reached, Soon, SlotOf, Turn
    <3> QED BY <3>3
  <2>2. CASE c = d /\ NewSession(d)
    <3>1. expiresAt'[c] = now + idleSeconds /\ slot'[c] = SlotOf(now + idleSeconds)
      BY <1>0, <2>2 DEF NewSession, TypeOK
    <3>2. PICK q \in Turn : /\ SlotOf(q) = SlotOf(now + idleSeconds)
                            /\ \/ q <= now + idleSeconds
                               \/ setBack /\ now + idleSeconds >= q - Slots - MaxBack + idleSeconds
      BY <1>0, <1>1, <2>0, NewIsReached
    <3>3. q \in Turn' /\ SlotOf(q)' = slot'[c] /\ Reached(c, q)'
      BY <2>0, <3>1, <3>2 DEF Reached, Soon, SlotOf, Turn
    <3> QED BY <3>3
  <2>3. CASE c = d /\ TouchSession(d)
    <3>1. c \in open /\ slot'[c] = slot[c] /\ expiresAt'[c] = now + idleSeconds
      BY <1>0, <2>3 DEF TouchSession, TypeOK
    <3>2. PICK q \in Turn : SlotOf(q) = slot[c] /\ Reached(c, q)
      BY <1>0, <3>1 DEF VisitInv
    <3>3. \/ q <= now + idleSeconds
          \/ setBack /\ now + idleSeconds >= q - Slots - MaxBack + idleSeconds
      BY <1>0, <1>1, <2>0, <3>1, <3>2, TouchedIsReached
    <3>4. q \in Turn' /\ SlotOf(q)' = slot'[c] /\ Reached(c, q)'
      BY <2>0, <3>1, <3>2, <3>3 DEF Reached, Soon, SlotOf, Turn
    <3> QED BY <3>4
  <2> QED BY <1>9, <2>1, <2>2, <2>3
<1>10. CASE UNCHANGED vars
  BY <1>0, <1>10 DEF vars, VisitInv, Turn, SlotOf, Reached, Soon
<1> QED BY <1>2, <1>3, <1>4, <1>5, <1>6, <1>7, <1>8, <1>9, <1>10 DEF Next

-----------------------------------------------------------------------------

\* The inductive invariant holds after every step of the worker's loop.
THEOREM WheelInvariant == WheelSpec => []WheelInv
<1>1. WheelInv /\ [Next]_vars => WheelInv'
  BY NextTypeOK, NextClockInv, NextQueuedInv, NextVisitInv DEF WheelInv
<1> QED BY <1>1, InitWheelInv, PTL DEF WheelSpec

\* Every variable of the wheel has its type; no slot index is out of range.
THEOREM TypeAlwaysCorrect == WheelSpec => []TypeOK
BY WheelInvariant, PTL DEF WheelInv

\* Maintenance closes every idle session in time, with a wheel of any size,
\* any idle timeout and any delay of maintenance; a clock set back by at most
\* MaxBack seconds delays it by at most that and one turn.
THEOREM AlwaysClosedInTime == WheelSpec => []ClosedInTime
<1>1. WheelInv => ClosedInTime
  <2> SUFFICES ASSUME WheelInv PROVE ClosedInTime
    OBVIOUS
  <2>0. TypeOK /\ QueuedInv /\ VisitInv
    BY DEF WheelInv
  <2>1. ASSUME pc # "expire", NEW c \in open
        PROVE  /\ ~setBack => expiresAt[c] > wheelSecond
               /\ \/ expiresAt[c] > wheelSecond - Slots - MaxBack + idleSeconds
                  \/ expiresAt[c] > wheelSecond
    <3>1. /\ Slots \in Nat /\ MaxBack \in Nat /\ idleSeconds \in Nat
          /\ wheelSecond \in Int /\ expiresAt[c] \in Int
      BY <2>0, Numbers DEF TypeOK
    <3>2. PICK q \in Turn : Reached(c, q)
      BY <2>0 DEF VisitInv
    <3>3. q \in Int /\ q > wheelSecond
      BY <3>1 DEF Turn
    <3>4. q <= expiresAt[c] \/ (setBack /\ expiresAt[c] >= q - Slots - MaxBack + idleSeconds)
      BY <2>1, <3>2 DEF Reached, Soon
    <3> QED BY <3>1, <3>3, <3>4
  <2> QED BY <2>0, <2>1 DEF ClosedInTime, QueuedInv
<1> QED BY <1>1, WheelInvariant, PTL

\* Maintenance closes no session that forwarded a packet within the idle time.
THEOREM AlwaysNeverEarly == WheelSpec => NeverEarly
<1>1. TypeOK /\ [Next]_vars => [pc = "expire" => \A c \in open \ open' : expiresAt[c] <= now]_vars
  <2> SUFFICES ASSUME TypeOK, [Next]_vars, pc = "expire", NEW c \in open \ open'
               PROVE  expiresAt[c] <= now
    BY DEF vars
  <2>1. ExpireWheelSlot \/ UNCHANGED open
    BY DEF Next, vars, Wake, SkipMaintain, BeginMaintain, EndMaintain, Cleanup, Restart,
           NewSession, TouchSession, CloseSession
  <2>2. CASE ExpireWheelSlot
    <3>1. expiresAt[c] <= wheelSecond' /\ wheelSecond' = wheelSecond + 1 /\ wheelSecond < now
      BY <2>2 DEF ExpireWheelSlot
    <3>2. now \in Int /\ wheelSecond \in Int /\ expiresAt[c] \in Int
      BY Numbers DEF TypeOK
    <3> QED BY <3>1, <3>2
  <2> QED BY <2>1, <2>2
<1> QED BY <1>1, TypeAlwaysCorrect, PTL DEF WheelSpec, NeverEarly

=============================================================================
