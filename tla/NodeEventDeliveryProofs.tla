----------------------- MODULE NodeEventDeliveryProofs -----------------------
(***************************************************************************)
(* Proofs that the Node's delivery counts its transmissions, expires no     *)
(* event early, transmits the oldest event and none past its lifetime, for  *)
(* every capacity, number of attempts, lifetime, checkpoint, width of the   *)
(* clock and delay of the loop.  First comes the inductive invariant, with  *)
(* the charging of powered time across wraps of the clock, boots and full   *)
(* histories, and what the policy, the controller and the reclamation make  *)
(* of a view; then the steps, and the theorems.                             *)
(***************************************************************************)
EXTENDS NodeEventDelivery, NodeEventStoreProofs

-----------------------------------------------------------------------------
(* The inductive invariant *)

Clock == 0 .. ClockRange - 1

Runtimes == [tracked : BOOLEAN, baseline : Clock, uncommitted : 0 .. Checkpoint + MaxGap]

Pasts == [age : 0 .. HistoryLimit, debits : 0 .. HistoryLimit, sent : Nat]

Views == [records : [Slots -> Records], runtime : [Slots -> Runtimes], state : States,
          active : Slots \cup {NoSlot}, origin : Clock, duration : Nat,
          trail : SUBSET [Slots -> Records]]

(* The history accounts for x seconds of an event's lifetime, as far as it  *)
(* counts                                                                   *)
Lived(p, x) ==
    \/ x <= p.age + Checkpoint * p.debits
    \/ p.age = HistoryLimit \/ p.debits = HistoryLimit

(* and for not much more: at each boot up to MaxGap - 1 are forgiven *)
Young(p, x) ==
    \/ p.age <= x + p.debits * (MaxGap - 1)
    \/ p.debits = HistoryLimit /\ MaxGap > 1

Used(r) == r.lifetime - r.remaining

(* What a durable record says of the past of its event *)
Recorded(r, p) ==
    /\ Owned(r) => p.sent <= r.attempts
    /\ r.state = "EXPIRED" => Lived(p, r.lifetime)
    /\ r.state = "QUEUED" =>
           Lived(p, Used(r)) /\ Young(p, Used(r) + Checkpoint - 1 + MaxGap)

(* The seconds charged to an event, committed or not *)
Charge(r, u) == Used(r) + u.uncommitted + Elapsed(u.baseline)

(* While the delivery runs they are exact *)
Charging(r, u, p) ==
    /\ u.tracked /\ u.uncommitted < Checkpoint /\ Elapsed(u.baseline) <= MaxGap
    /\ Lived(p, Charge(r, u)) /\ Young(p, Charge(r, u))

AllCharging(v, p) ==
    \A s \in Slots : v.records[s].state = "QUEUED" =>
                         Charging(v.records[s], v.runtime[s], p[s])

(* The controller is at the head of the queue, on an attempt it has made    *)
(* durable                                                                  *)
Live(v) ==
    \/ v.state \in {"READY", "TX", "WAIT_ADMISSION", "BACKOFF"}
    \/ v.state = "QUEUED" /\ v.active # NoSlot

Led(v) ==
    /\ Live(v) => v.active \in Heads(v.records)
    /\ v.state \in {"TX", "WAIT_ADMISSION"} => v.records[v.active].attempts >= 1

DeliveryInv ==
    /\ SInv /\ DeliveryTypeOK
    /\ \A s \in Slots : Recorded(cell[s], past[s])
    /\ serving => mode = "READY" /\ Led(View) /\ AllCharging(View, past)
    /\ ~serving => state = "QUEUED" /\ active = NoSlot

(* What a handler may make of a record *)
Descends(old, new) == new = old \/ (Owned(old) /\ (new = Free \/ Advances(old, new)))

(* What a handler may install, and leave behind when it is interrupted, if  *)
(* slot s may hold the records of A[s]                                      *)
Sound(v, A) ==
    /\ v \in Views
    /\ \A s \in Slots : Descends(slots[s], v.records[s]) /\ v.records[s] \in A[s]
    /\ \A t \in v.trail : \A s \in Slots :
           /\ Descends(slots[s], t[s]) /\ Descends(t[s], v.records[s])
           /\ t[s] \in A[s]

Accounted(p) == [s \in Slots |-> {r \in Records : Recorded(r, p[s])}]

Good(v, p) == Sound(v, Accounted(p)) /\ AllCharging(v, p) /\ Led(v)

-----------------------------------------------------------------------------
(* Time *)

LEMMA Constants ==
    /\ Checkpoint \in Nat /\ Checkpoint >= 1 /\ MaxGap \in Nat /\ MaxGap >= 1
    /\ ClockRange \in Nat /\ ClockRange > MaxGap /\ AdmissionTimeout \in Nat
    /\ HistoryLimit \in Nat /\ MaxAttempts \in Nat
    /\ Jitters \subseteq Nat /\ Backoff \in [1 .. MaxAttempts - 1 -> Nat]
    /\ 0 \in Clock
  BY DeliveryAssumption, StoreAssumption DEF Clock

LEMMA ChargeLeft ==
    ASSUME NEW a \in Nat, NEW b \in Nat, a <= b, NEW x \in Nat, NEW U \in Nat, NEW L \in Nat,
           L = U - b, U <= Checkpoint - 1 + MaxGap, NEW y, y = x + a
    PROVE  /\ y <= x + U /\ x + U <= y + Checkpoint - 1 + MaxGap
           /\ y \in Int /\ x + U \in Int /\ y + Checkpoint - 1 + MaxGap \in Int
  BY Constants

LEMMA ModSmall ==
    ASSUME NEW r \in Nat, NEW x \in Int, x >= 0, x < r PROVE x % r = x
  OBVIOUS

LEMMA ModNegative ==
    ASSUME NEW r \in Nat, NEW x \in Int, x < 0, x >= 0 - r PROVE x % r = x + r
  OBVIOUS

LEMMA ElapsedFacts ==
    ASSUME now \in Clock, NEW b \in Clock
    PROVE  /\ Elapsed(b) \in Nat /\ Elapsed(b) < ClockRange
           /\ Elapsed(now) = 0
           /\ Elapsed(b) = IF now >= b THEN now - b ELSE now - b + ClockRange
  <1>1. /\ now \in Int /\ b \in Int /\ ClockRange \in Nat
        /\ 0 <= now /\ now < ClockRange /\ 0 <= b /\ b < ClockRange
    BY Constants DEF Clock
  <1>2. now >= b => (now - b) % ClockRange = now - b
    BY <1>1, ModSmall
  <1>3. ~(now >= b) => (now - b) % ClockRange = now - b + ClockRange
    BY <1>1, ModNegative
  <1>4. (now - now) % ClockRange = 0
    BY <1>1, ModSmall
  <1> QED
    BY <1>1, <1>2, <1>3, <1>4 DEF Elapsed

(* A tick is seen, as long as the loop is not later than the clock is wide *)
LEMMA TickSeen ==
    ASSUME now \in Clock, NEW b \in Clock, now' = (now + 1) % ClockRange,
           Elapsed(b) < MaxGap
    PROVE  now' \in Clock /\ Elapsed(b)' = Elapsed(b) + 1
  <1>1. /\ now \in Int /\ b \in Int /\ ClockRange \in Nat
        /\ 0 <= now /\ now < ClockRange /\ 0 <= b /\ b < ClockRange
        /\ MaxGap \in Nat /\ MaxGap < ClockRange
    BY Constants DEF Clock
  <1>2. Elapsed(b) = IF now >= b THEN now - b ELSE now - b + ClockRange
    BY ElapsedFacts
  <1>3. CASE now + 1 < ClockRange
    <2>1. now' = now + 1 /\ now' \in Clock
      BY <1>1, <1>3, ModSmall DEF Clock
    <2>2. now' >= b => (now' - b) % ClockRange = now' - b
      BY <1>1, <1>3, <2>1, ModSmall, SMTT(20)
    <2>3. ~(now' >= b) => (now' - b) % ClockRange = now' - b + ClockRange
      BY <1>1, <1>3, <2>1, ModNegative
    <2> QED
      BY <1>1, <1>2, <2>1, <2>2, <2>3 DEF Elapsed
  <1>4. CASE now + 1 = ClockRange
    <2>1. now' = 0
      BY <1>1, <1>4
    <2>2. b # 0
      <3>1. b = 0 => Elapsed(b) = now
        BY <1>1, <1>2
      <3> QED
        BY <1>1, <1>4, <3>1
    <2>3. b > 0
      BY <1>1, <2>2
    <2>4. (0 - b) % ClockRange = 0 - b + ClockRange
      <3>1. 0 - b \in Int /\ 0 - b < 0 /\ 0 - b >= 0 - ClockRange
        BY <1>1, <2>3
      <3> QED
        BY <1>1, <3>1, ModNegative
    <2>5. Elapsed(b)' = (0 - b) % ClockRange
      BY <2>1 DEF Elapsed
    <2>6. Elapsed(b) = now - b
      BY <1>1, <1>2, <1>4
    <2>7. now' \in Clock
      BY <2>1, Constants
    <2> QED
      BY <1>1, <1>4, <2>4, <2>5, <2>6, <2>7
  <1> QED
    BY <1>1, <1>3, <1>4

-----------------------------------------------------------------------------
(* Records *)

LEMMA KeptFields ==
    ASSUME NEW a \in Records, NEW b \in Records, Descends(a, b)
    PROVE  /\ Held(a) => Held(b)
           /\ Owned(b) => /\ Owned(a) /\ Custody(b) = Custody(a)
                          /\ b.epoch = a.epoch /\ b.id = a.id /\ b.lifetime = a.lifetime
                          /\ b.attempts >= a.attempts /\ b.remaining <= a.remaining
           /\ b.state = "QUEUED" => a.state = "QUEUED"
  <1>1. CASE b = a
    <2>1. Owned(a) => a.attempts \in Int /\ a.remaining \in Int
      BY OwnedShape, StoreAssumption
    <2> QED
      BY <1>1, <2>1
  <1>2. CASE Owned(a) /\ b = Free
    BY <1>2, EmptyShape
  <1>3. CASE Owned(a) /\ Advances(a, b)
    BY <1>3 DEF Advances, Custody, Owned, Held
  <1> QED
    BY <1>1, <1>2, <1>3 DEF Descends

LEMMA DescendsOn ==
    ASSUME NEW a \in Records, NEW b \in Records, NEW c \in Records,
           Descends(a, b), Descends(b, c)
    PROVE  Descends(a, c)
  <1>1. CASE c = b \/ b = a
    BY <1>1
  <1>2. CASE c # b /\ b # a
    <2>1. Owned(a) /\ Owned(b) /\ Advances(a, b)
      BY <1>2, EmptyShape DEF Descends
    <2>2. CASE c = Free
      BY <2>1, <2>2 DEF Descends
    <2>3. CASE Advances(b, c)
      <3>1. /\ a.attempts \in Int /\ a.remaining \in Int /\ b.attempts \in Int
            /\ b.remaining \in Int /\ c.attempts \in Int /\ c.remaining \in Int
        BY <2>1, <2>3, OwnedShape, StoreAssumption DEF Advances
      <3>2. Advances(a, c)
        BY <2>1, <2>3, <3>1 DEF Advances
      <3> QED
        BY <2>1, <3>2 DEF Descends
    <2> QED
      BY <1>2, <2>2, <2>3 DEF Descends
  <1> QED
    BY <1>1, <1>2

(* The others leave the queue, and nobody enters it *)
LEMMA HeadStays ==
    ASSUME NEW a \in [Slots -> Records], NEW b \in [Slots -> Records],
           \A t \in Slots : Descends(a[t], b[t]),
           NEW s \in Heads(a), b[s].state = "QUEUED"
    PROVE  s \in Heads(b)
  <1>1. s \in Slots /\ a[s].state = "QUEUED"
    BY DEF Heads
  <1>2. ASSUME NEW t \in Slots, b[t].state = "QUEUED"
        PROVE  ~IdentityLess(b[t], b[s])
    <2>1. /\ b[t].epoch = a[t].epoch /\ b[t].id = a[t].id /\ a[t].state = "QUEUED"
          /\ b[s].epoch = a[s].epoch /\ b[s].id = a[s].id
      BY <1>1, <1>2, KeptFields DEF Owned
    <2>2. ~IdentityLess(a[t], a[s])
      BY <2>1 DEF Heads
    <2> QED
      BY <2>1, <2>2 DEF IdentityLess
  <1> QED
    BY <1>1, <1>2 DEF Heads

-----------------------------------------------------------------------------
(* Ages *)

LEMMA PastFacts ==
    ASSUME NEW p \in Pasts
    PROVE  /\ p.age \in Nat /\ p.debits \in Nat /\ p.sent \in Nat
           /\ p.age <= HistoryLimit /\ p.debits <= HistoryLimit
           /\ Checkpoint * p.debits \in Nat /\ p.debits * (MaxGap - 1) \in Nat
  <1>1. /\ p.age \in Nat /\ p.debits \in Nat /\ p.sent \in Nat
        /\ p.age <= HistoryLimit /\ p.debits <= HistoryLimit
    BY Constants DEF Pasts
  <1>2. MaxGap - 1 \in Nat /\ Checkpoint \in Nat
    BY Constants
  <1> QED
    BY <1>1, <1>2

LEMMA LivedLess ==
    ASSUME NEW p \in Pasts, NEW x \in Int, NEW y \in Int, y <= x, Lived(p, x)
    PROVE  Lived(p, y)
  BY PastFacts DEF Lived

LEMMA YoungMore ==
    ASSUME NEW p \in Pasts, NEW x \in Int, NEW y \in Int, x <= y, Young(p, x)
    PROVE  Young(p, y)
  BY PastFacts DEF Young

LEMMA Tick1 ==
    ASSUME NEW p \in Pasts, NEW x \in Int
    PROVE  /\ Older(p) \in Pasts /\ Older(p).sent = p.sent
           /\ Lived(p, x) => Lived(Older(p), x + 1)
           /\ Young(p, x) => Young(Older(p), x + 1)
  <1> DEFINE q == Older(p)
  <1>1. /\ q.debits = p.debits /\ q.sent = p.sent
        /\ q.age = IF p.age < HistoryLimit THEN p.age + 1 ELSE p.age
        /\ q \in Pasts
    <2> DEFINE n == IF p.age < HistoryLimit THEN p.age + 1 ELSE p.age
    <2>1. n \in 0 .. HistoryLimit
      BY PastFacts, Constants
    <2> HIDE DEF n
    <2>2. q = [p EXCEPT !.age = n]
      BY DEF Older, n
    <2>3. q \in Pasts /\ q.age = n /\ q.debits = p.debits /\ q.sent = p.sent
      BY <2>1, <2>2 DEF Pasts
    <2> QED
      BY <2>3 DEF n
  <1> HIDE DEF q
  <1>2. Lived(p, x) => Lived(q, x + 1)
    <2>1. Checkpoint * q.debits = Checkpoint * p.debits
      BY <1>1
    <2>2. p.age # HistoryLimit => q.age = p.age + 1
      BY <1>1, PastFacts, Constants
    <2> QED
      BY <1>1, <2>1, <2>2, PastFacts DEF Lived
  <1>3. Young(p, x) => Young(q, x + 1)
    BY <1>1, PastFacts DEF Young
  <1> QED
    BY <1>1, <1>2, <1>3 DEF q

(* A boot debits a checkpoint, and forgives what was not committed *)
LEMMA Boot1 ==
    ASSUME NEW p \in Pasts, NEW x \in Int
    PROVE  LET q == DebitedOnce(p)
           IN  /\ q \in Pasts /\ q.sent = p.sent
               /\ Lived(p, x) => Lived(q, x + Checkpoint)
               /\ Young(p, x + Checkpoint - 1 + MaxGap) => Young(q, x + Checkpoint)
  <1> DEFINE q == DebitedOnce(p)
  <1>1. /\ q.age = p.age /\ q.sent = p.sent
        /\ q.debits = IF p.debits < HistoryLimit THEN p.debits + 1 ELSE p.debits
        /\ q \in Pasts
    <2> DEFINE n == IF p.debits < HistoryLimit THEN p.debits + 1 ELSE p.debits
    <2>1. n \in 0 .. HistoryLimit
      BY PastFacts, Constants
    <2> HIDE DEF n
    <2>2. q = [p EXCEPT !.debits = n]
      BY DEF DebitedOnce, n
    <2>3. q \in Pasts /\ q.debits = n /\ q.age = p.age /\ q.sent = p.sent
      BY <2>1, <2>2 DEF Pasts
    <2> QED
      BY <2>3 DEF n
  <1> HIDE DEF q
  <1>2. Checkpoint \in Nat /\ MaxGap - 1 \in Nat /\ HistoryLimit \in Nat
    BY Constants
  <1>3. CASE p.debits < HistoryLimit
    <2>1. /\ Checkpoint * q.debits = Checkpoint * p.debits + Checkpoint
          /\ q.debits * (MaxGap - 1) = p.debits * (MaxGap - 1) + (MaxGap - 1)
      <3>1. q.debits = p.debits + 1 /\ p.debits \in Nat
        BY <1>1, <1>3, PastFacts
      <3> QED
        BY <1>2, <3>1
    <2>2. Lived(p, x) => Lived(q, x + Checkpoint)
      BY <1>1, <1>2, <1>3, <2>1, PastFacts DEF Lived
    <2>3. Young(p, x + Checkpoint - 1 + MaxGap) => Young(q, x + Checkpoint)
      BY <1>1, <1>2, <1>3, <2>1, PastFacts, Constants DEF Young
    <2> QED
      BY <1>1, <2>2, <2>3 DEF q
  <1>4. CASE p.debits = HistoryLimit
    <2>1. Lived(q, x + Checkpoint)
      BY <1>1, <1>2, <1>4 DEF Lived
    <2>2. CASE MaxGap > 1
      BY <1>1, <1>2, <1>4, <2>1, <2>2 DEF Young, q
    <2>3. CASE MaxGap = 1
      <3>1. p.debits * (MaxGap - 1) = 0 /\ q.debits * (MaxGap - 1) = 0
        BY <1>1, <1>2, <1>4, <2>3
      <3>2. Young(p, x + Checkpoint - 1 + MaxGap) => Young(q, x + Checkpoint)
        BY <1>1, <1>2, <2>3, <3>1, PastFacts DEF Young
      <3> QED
        BY <1>1, <2>1, <3>2 DEF q
    <2> QED
      BY <2>2, <2>3, Constants
  <1> QED
    BY <1>2, <1>3, <1>4, PastFacts

LEMMA UnbornFacts ==
    /\ Unborn \in Pasts /\ Unborn.sent = 0
    /\ \A x \in Nat : Young(Unborn, x)
    /\ Lived(Unborn, 0)
  <1>1. /\ Unborn \in Pasts /\ Unborn.sent = 0 /\ Unborn.age = 0 /\ Unborn.debits = 0
    BY Constants DEF Unborn, Pasts
  <1>2. Checkpoint * 0 = 0 /\ 0 * (MaxGap - 1) = 0
    BY Constants
  <1> QED
    BY <1>1, <1>2 DEF Young, Lived

LEMMA QueuedNumbers ==
    ASSUME NEW r \in Records, r.state = "QUEUED"
    PROVE  /\ r.remaining \in Nat /\ r.remaining >= 1 /\ r.lifetime \in Nat
           /\ r.remaining <= r.lifetime /\ Used(r) \in Nat
           /\ r.attempts \in Nat /\ r.attempts <= MaxAttempts /\ Owned(r)
  <1>1. Owned(r)
    BY DEF Owned
  <1>2. /\ r.attempts \in 0 .. MaxAttempts /\ r.remaining \in 1 .. r.lifetime
        /\ r.lifetime \in Nat
    BY <1>1, OwnedShape
  <1> QED
    BY <1>1, <1>2, Constants DEF Used

LEMMA RuntimeNumbers ==
    ASSUME now \in Clock, NEW u \in Runtimes
    PROVE  u.uncommitted \in Nat /\ Elapsed(u.baseline) \in Nat
  BY ElapsedFacts, Constants DEF Runtimes

(* What is charged exactly is recorded well enough *)
LEMMA ChargedIsRecorded ==
    ASSUME now \in Clock, NEW r \in Records, r.state = "QUEUED", NEW u \in Runtimes,
           NEW p \in Pasts, p.sent <= r.attempts, Charging(r, u, p)
    PROVE  Recorded(r, p)
  <1>1. Used(r) \in Nat /\ u.uncommitted \in Nat /\ Elapsed(u.baseline) \in Nat
    BY QueuedNumbers, RuntimeNumbers
  <1>2. /\ Used(r) <= Charge(r, u) /\ Charge(r, u) <= Used(r) + Checkpoint - 1 + MaxGap
        /\ Charge(r, u) \in Int
    BY <1>1, Constants DEF Charging, Charge
  <1>3. Used(r) + Checkpoint - 1 + MaxGap \in Int
    BY <1>1, Constants
  <1>4. Lived(p, Used(r)) /\ Young(p, Used(r) + Checkpoint - 1 + MaxGap)
    BY <1>1, <1>2, <1>3, LivedLess, YoungMore DEF Charging
  <1> QED
    BY <1>4 DEF Recorded

-----------------------------------------------------------------------------
(* Policy::service on one record *)

LEMMA DivFacts ==
    ASSUME NEW x \in Nat, NEW c \in Nat, c >= 1
    PROVE  /\ x \div c \in Nat /\ (x \div c) * c \in Nat
           /\ (x \div c) * c <= x /\ x < (x \div c) * c + c
  <1>1. /\ x \div c \in Int /\ x % c \in 0 .. c - 1 /\ x = c * (x \div c) + (x % c)
    <2>1. x % c \in 0 .. c - 1
      OBVIOUS
    <2>2. x \div c \in Int
      OBVIOUS
    <2>3. x = c * (x \div c) + (x % c)
      OBVIOUS
    <2> QED
      BY <2>1, <2>2, <2>3
  <1>2. c * (x \div c) = (x \div c) * c /\ (x \div c) * c \in Int
    BY <1>1
  <1>3. x \div c >= 0
    BY <1>1
  <1> QED
    BY <1>1, <1>2, <1>3

LEMMA TimesMonotone ==
    ASSUME NEW c \in Nat, NEW n \in Nat, NEW k \in 0 .. n
    PROVE  k * c \in Nat /\ k * c <= n * c /\ n * c \in Nat
  <1>1. k \in Nat /\ n - k \in Nat /\ n = k + (n - k)
    OBVIOUS
  <1>2. k * c \in Nat /\ (n - k) * c \in Nat /\ n * c \in Nat
    BY <1>1
  <1>3. n * c = k * c + (n - k) * c
    BY <1>1
  <1> QED
    BY <1>2, <1>3

LEMMA DebitsFacts ==
    ASSUME now \in Clock, NEW v \in Views, NEW s \in Slots,
           v.records[s].state = "QUEUED"
    PROVE  /\ Debits(v, s) \in Nat /\ Debits(v, s) * Checkpoint \in Nat
           /\ Uncommitted(v, s) \in Nat /\ LeftOver(v, s) \in Nat
           /\ LeftOver(v, s) = Uncommitted(v, s) - Debits(v, s) * Checkpoint
           /\ Debits(v, s) * Checkpoint <= v.records[s].remaining - 1
           /\ LeftOver(v, s) < v.records[s].remaining - Debits(v, s) * Checkpoint =>
                  LeftOver(v, s) < Checkpoint
  <1> DEFINE U == Uncommitted(v, s)
             R == v.records[s].remaining - 1
             due == U \div Checkpoint
             most == R \div Checkpoint
  <1>1. v.records[s] \in Records /\ v.runtime[s] \in Runtimes
    BY DEF Views
  <1>2. R \in Nat
    BY <1>1, QueuedNumbers
  <1>3. U \in Nat
    BY <1>1, RuntimeNumbers DEF Uncommitted
  <1>4. Debits(v, s) = IF due <= most THEN due ELSE most
    BY DEF Debits
  <1> HIDE DEF U, R
  <1>5. /\ due \in Nat /\ due * Checkpoint \in Nat
        /\ due * Checkpoint <= U /\ U < due * Checkpoint + Checkpoint
    BY <1>3, DivFacts, Constants
  <1>6. /\ most \in Nat /\ most * Checkpoint \in Nat
        /\ most * Checkpoint <= R /\ R < most * Checkpoint + Checkpoint
    BY <1>2, DivFacts, Constants
  <1> HIDE DEF due, most
  <1>7. LeftOver(v, s) = U - Debits(v, s) * Checkpoint
    BY DEF LeftOver, U
  <1>8. CASE due <= most
    <2>1. due * Checkpoint <= most * Checkpoint
      BY <1>5, <1>6, <1>8, TimesMonotone, Constants
    <2>2. Debits(v, s) = due
      BY <1>4, <1>8
    <2>3. PICK d \in Nat : d = due * Checkpoint
      BY <1>5, <1>6
    <2>4. d <= U /\ d <= R /\ (U - d < R + 1 - d => U - d < Checkpoint)
      BY <1>2, <1>3, <1>5, <1>6, <2>1, <2>3, Constants
    <2>5. /\ U - d \in Nat /\ LeftOver(v, s) = U - d /\ Debits(v, s) * Checkpoint = d
          /\ v.records[s].remaining - d = R + 1 - d
      BY <1>1, <1>3, <1>7, <2>2, <2>3, <2>4, QueuedNumbers DEF R
    <2> QED
      BY <1>3, <1>5, <1>6, <2>2, <2>3, <2>4, <2>5, Zenon DEF U, R
  <1>9. CASE most <= due
    <2>1. most * Checkpoint <= due * Checkpoint
      BY <1>5, <1>6, <1>9, TimesMonotone, Constants
    <2>2. Debits(v, s) = most
      BY <1>4, <1>5, <1>6, <1>9
    <2>3. PICK d \in Nat : d = most * Checkpoint
      BY <1>5, <1>6
    <2>4. d <= U /\ d <= R /\ (U - d < R + 1 - d => U - d < Checkpoint)
      BY <1>2, <1>3, <1>5, <1>6, <2>1, <2>3, Constants
    <2>5. /\ U - d \in Nat /\ LeftOver(v, s) = U - d /\ Debits(v, s) * Checkpoint = d
          /\ v.records[s].remaining - d = R + 1 - d
      BY <1>1, <1>3, <1>7, <2>2, <2>3, <2>4, QueuedNumbers DEF R
    <2> QED
      BY <1>3, <1>5, <1>6, <2>2, <2>3, <2>4, <2>5, Zenon DEF U, R
  <1> QED
    BY <1>5, <1>6, <1>8, <1>9

LEMMA DebitedRecord ==
    ASSUME NEW r \in Records, r.state = "QUEUED", NEW k \in Nat,
           k * Checkpoint \in Nat, k * Checkpoint <= r.remaining - 1
    PROVE  LET d == Debited(r, k)
           IN  /\ d \in Records /\ d.state = "QUEUED" /\ Descends(r, d)
               /\ d.remaining = r.remaining - k * Checkpoint
               /\ d.attempts = r.attempts /\ d.lifetime = r.lifetime
               /\ Custody(d) = Custody(r)
               /\ Used(d) = Used(r) + k * Checkpoint
  <1> DEFINE n == r.remaining - k * Checkpoint
             d == [r EXCEPT !.remaining = n]
  <1>1. r.remaining \in Nat /\ r.lifetime \in Nat /\ Owned(r)
    BY QueuedNumbers
  <1>2. n \in Nat /\ n >= 1 /\ n <= r.remaining
    BY <1>1
  <1>3. Debited(r, k) = d
    BY DEF Debited
  <1> HIDE DEF n
  <1>4. r \in [state : {"QUEUED", "FAILED", "EXPIRED"}, epoch : EventEpochs,
               id : EventIds, content : Contents, lifetime : Lifetimes,
               remaining : Nat, attempts : 0 .. MaxAttempts]
    BY <1>1, OwnedShape
  <1>5. /\ d.remaining = n /\ d.attempts = r.attempts /\ d.lifetime = r.lifetime
        /\ d.state = "QUEUED" /\ Custody(d) = Custody(r)
    BY <1>4 DEF Custody
  <1>6. d \in Records /\ Descends(r, d)
    <2>1. CASE n = r.remaining
      <3>1. d = r
        BY <1>4, <2>1
      <3> QED
        BY <3>1 DEF Descends
    <2>2. CASE n < r.remaining
      <3>1. d \in Records /\ Advances(r, d)
        BY <1>2, <2>2, Advancing, Zenon
      <3> QED
        BY <1>1, <3>1 DEF Descends
    <2> QED
      BY <1>1, <1>2, <2>1, <2>2
  <1>7. Used(d) = Used(r) + k * Checkpoint
    <2>1. d.lifetime - d.remaining = r.lifetime - (r.remaining - k * Checkpoint)
      BY <1>5 DEF n
    <2> QED
      BY <1>1, <2>1 DEF Used
  <1> QED
    BY <1>3, <1>5, <1>6, <1>7 DEF n

LEMMA DebitedFurther ==
    ASSUME NEW r \in Records, r.state = "QUEUED", NEW n \in Nat, NEW k \in 0 .. n,
           n * Checkpoint <= r.remaining - 1
    PROVE  Descends(Debited(r, k), Debited(r, n))
  <1>1. /\ k * Checkpoint \in Nat /\ k * Checkpoint <= n * Checkpoint
        /\ n * Checkpoint \in Nat /\ k \in Nat
    BY TimesMonotone, Constants
  <1>2. r.remaining \in Nat
    BY QueuedNumbers
  <1> DEFINE d == Debited(r, k)
             e == Debited(r, n)
  <1>3. k * Checkpoint <= r.remaining - 1
    BY <1>1, <1>2
  <1>4. /\ d \in Records /\ d.state = "QUEUED" /\ d.attempts = r.attempts
        /\ d.remaining = r.remaining - k * Checkpoint /\ Custody(d) = Custody(r)
    BY <1>1, <1>3, DebitedRecord
  <1>5. /\ e \in Records /\ e.state = "QUEUED" /\ e.attempts = r.attempts
        /\ e.remaining = r.remaining - n * Checkpoint /\ Custody(e) = Custody(r)
    BY <1>1, DebitedRecord
  <1> HIDE DEF d, e
  <1>6. e.remaining <= d.remaining /\ e.attempts >= d.attempts
    BY <1>1, <1>2, <1>4, <1>5, QueuedNumbers
  <1>7. Owned(d) /\ Owned(e) /\ Advances(d, e)
    BY <1>4, <1>5, <1>6 DEF Advances, Owned
  <1>8. Descends(d, e)
    BY <1>7 DEF Descends
  <1> QED
    BY <1>8 DEF d, e

Expired(r) == [r EXCEPT !.state = "EXPIRED"]
Failed(r) == [r EXCEPT !.state = "FAILED"]

LEMMA TerminalRecord ==
    ASSUME NEW r \in Records, r.state = "QUEUED", NEW d \in {Expired(r), Failed(r)}
    PROVE  /\ d \in Records /\ Descends(r, d) /\ Owned(d) /\ d.state # "QUEUED"
           /\ d.state \in {"EXPIRED", "FAILED"} /\ (d = Failed(r) => d.state = "FAILED")
           /\ d.attempts = r.attempts /\ d.lifetime = r.lifetime
  <1>1. Owned(r)
    BY DEF Owned
  <1>2. r \in [state : {"QUEUED", "FAILED", "EXPIRED"}, epoch : EventEpochs,
               id : EventIds, content : Contents, lifetime : Lifetimes,
               remaining : Nat, attempts : 0 .. MaxAttempts]
    BY <1>1, OwnedShape
  <1>3. /\ d.state \in {"EXPIRED", "FAILED"} /\ (d = Failed(r) => d.state = "FAILED")
        /\ d.attempts = r.attempts /\ d.lifetime = r.lifetime
    BY <1>2 DEF Expired, Failed
  <1>4. d \in Records /\ Advances(r, d)
    BY Advancing, Zenon DEF Expired, Failed
  <1> QED
    BY <1>1, <1>3, <1>4 DEF Descends, Owned

LEMMA FailedIsRecorded ==
    ASSUME NEW r \in Records, r.state = "QUEUED", NEW p, Recorded(r, p)
    PROVE  Recorded(Failed(r), p)
  <1>1. /\ Failed(r).state = "FAILED" /\ Failed(r).attempts = r.attempts
    BY TerminalRecord
  <1> QED
    BY <1>1 DEF Recorded, Owned

(* The record of a queued event, debited k times, and after the service *)
LEMMA PolicyRecord ==
    ASSUME now \in Clock, NEW v \in Views, NEW s \in Slots,
           v.records[s].state = "QUEUED", NEW p \in Pasts,
           p.sent <= v.records[s].attempts,
           Charging(v.records[s], v.runtime[s], p)
    PROVE  LET r == v.records[s]
               d == Debited(r, Debits(v, s))
           IN  /\ \A k \in 0 .. Debits(v, s) :
                      /\ Debited(r, k) \in Records /\ Descends(r, Debited(r, k))
                      /\ Descends(Debited(r, k), d) /\ Recorded(Debited(r, k), p)
               /\ d \in Records /\ d.state = "QUEUED" /\ Descends(r, d) /\ Recorded(d, p)
               /\ d.attempts = r.attempts
               /\ Expires(v, s) => Recorded(Expired(d), p)
               /\ ~Expires(v, s) =>
                      /\ LeftOver(v, s) \in 0 .. Checkpoint - 1
                      /\ LeftOver(v, s) < d.remaining
                      /\ Charging(d, [tracked |-> TRUE, baseline |-> now,
                                      uncommitted |-> LeftOver(v, s)], p)
  <1> DEFINE r == v.records[s]
             u == v.runtime[s]
             n == Debits(v, s)
             d == Debited(r, n)
             U == Uncommitted(v, s)
             L == LeftOver(v, s)
  <1>1. r \in Records /\ u \in Runtimes /\ r.state = "QUEUED"
    BY DEF Views
  <1>2. /\ n \in Nat /\ n * Checkpoint \in Nat /\ U \in Nat /\ L \in Nat
        /\ L = U - n * Checkpoint /\ n * Checkpoint <= r.remaining - 1
        /\ L < r.remaining - n * Checkpoint => L < Checkpoint
    BY DebitsFacts, Zenon
  <1>3. /\ r.remaining \in Nat /\ r.lifetime \in Nat /\ Used(r) \in Nat
        /\ r.attempts \in Nat /\ Used(r) = r.lifetime - r.remaining
    BY <1>1, QueuedNumbers DEF Used
  <1>4. /\ U = u.uncommitted + Elapsed(u.baseline) /\ U <= Checkpoint - 1 + MaxGap
        /\ Charge(r, u) = Used(r) + U
    BY <1>1, <1>3, RuntimeNumbers, Constants, SMTT(20) DEF Uncommitted, Charging, Charge
  <1>5. Lived(p, Used(r) + U) /\ Young(p, Used(r) + U)
    BY <1>4, Zenon DEF Charging
  <1>6. /\ d \in Records /\ d.state = "QUEUED" /\ Descends(r, d)
        /\ d.remaining = r.remaining - n * Checkpoint
        /\ d.attempts = r.attempts /\ d.lifetime = r.lifetime
        /\ Used(d) = Used(r) + n * Checkpoint
    BY <1>1, <1>2, DebitedRecord, Zenon
  <1>7. Expires(v, s) <=> L >= d.remaining
    BY Zenon DEF Expires
  <1> HIDE DEF r, u, n, d, U, L
  <1>8. ASSUME NEW k \in 0 .. n
        PROVE  /\ Debited(r, k) \in Records /\ Descends(r, Debited(r, k))
               /\ Descends(Debited(r, k), d) /\ Recorded(Debited(r, k), p)
    <2> DEFINE e == Debited(r, k)
    <2>1. k \in Nat /\ k * Checkpoint \in Nat /\ k * Checkpoint <= n * Checkpoint
      BY <1>2, <1>8, TimesMonotone, Constants
    <2>2. k * Checkpoint <= r.remaining - 1
      BY <1>2, <1>3, <2>1
    <2>3. /\ e \in Records /\ e.state = "QUEUED" /\ Descends(r, e)
          /\ e.attempts = r.attempts /\ Used(e) = Used(r) + k * Checkpoint
      BY <1>1, <2>1, <2>2, DebitedRecord, Zenon
    <2>4. Descends(e, d)
      BY <1>1, <1>2, <1>8, DebitedFurther DEF d
    <2> HIDE DEF e
    <2>a. PICK a \in Nat : a = k * Checkpoint
      BY <2>1
    <2>b. PICK b \in Nat : b = n * Checkpoint
      BY <1>2
    <2>c. /\ a <= b /\ Used(e) = Used(r) + a /\ L = U - b /\ L \in Nat
          /\ U \in Nat /\ Used(r) \in Nat /\ U <= Checkpoint - 1 + MaxGap
      BY <1>2, <1>3, <1>4, <2>1, <2>3, <2>a, <2>b, Zenon
    <2>5. /\ Used(e) <= Used(r) + U /\ Used(r) + U <= Used(e) + Checkpoint - 1 + MaxGap
          /\ Used(e) \in Int /\ Used(r) + U \in Int /\ Used(e) + Checkpoint - 1 + MaxGap \in Int
      BY <2>a, <2>b, <2>c, ChargeLeft, Zenon
    <2>7. Lived(p, Used(e)) /\ Young(p, Used(e) + Checkpoint - 1 + MaxGap)
      BY <1>5, <2>5, LivedLess, YoungMore, Zenon
    <2>8. p.sent <= e.attempts
      BY <2>3 DEF r
    <2>9. Recorded(e, p)
      BY <2>3, <2>7, <2>8, Zenon DEF Recorded
    <2> QED
      BY <2>3, <2>4, <2>9 DEF e
  <1>9. Recorded(d, p)
    <2>1. n \in 0 .. n
      BY <1>2
    <2> QED
      BY <1>8, <2>1 DEF d
  <1>10. ASSUME Expires(v, s) PROVE Recorded(Expired(d), p)
    <2>1. /\ Expired(d).state \in {"EXPIRED", "FAILED"} /\ Owned(Expired(d))
          /\ Expired(d).attempts = d.attempts /\ Expired(d).lifetime = d.lifetime
      BY <1>6, TerminalRecord, Zenon
    <2>2. r.lifetime <= Used(r) + U
      BY <1>2, <1>3, <1>6, <1>7, <1>10
    <2>3. Lived(p, r.lifetime)
      BY <1>2, <1>3, <1>5, <2>2, LivedLess
    <2>4. p.sent <= d.attempts
      BY <1>6 DEF r
    <2> QED
      BY <1>6, <2>1, <2>3, <2>4, Zenon DEF Recorded
  <1>11. ASSUME ~Expires(v, s)
         PROVE  /\ L \in 0 .. Checkpoint - 1 /\ L < d.remaining
                /\ Charging(d, [tracked |-> TRUE, baseline |-> now, uncommitted |-> L], p)
    <2> DEFINE w == [tracked |-> TRUE, baseline |-> now, uncommitted |-> L]
    <2>1. L < d.remaining
      BY <1>2, <1>3, <1>6, <1>7, <1>11
    <2>2. L < Checkpoint /\ L \in 0 .. Checkpoint - 1
      BY <1>2, <1>6, <2>1, Constants
    <2>3. Elapsed(now) = 0
      BY ElapsedFacts
    <2>4. Charge(d, w) = Used(r) + U
      BY <1>2, <1>3, <1>6, <2>3 DEF Charge
    <2>5. Charging(d, w, p)
      BY <1>5, <2>2, <2>3, <2>4, Constants DEF Charging
    <2> QED
      BY <2>1, <2>2, <2>5
  <1> QED
    BY <1>6, <1>8, <1>9, <1>10, <1>11, Zenon DEF r, n, d, L

-----------------------------------------------------------------------------
(* Views *)

LEMMA ViewFields ==
    ASSUME NEW v \in Views
    PROVE  /\ v.records \in [Slots -> Records] /\ v.runtime \in [Slots -> Runtimes]
           /\ v.state \in States /\ v.active \in Slots \cup {NoSlot}
           /\ v.origin \in Clock /\ v.duration \in Nat
           /\ v.trail \in SUBSET [Slots -> Records]
  BY DEF Views

LEMMA SetState ==
    ASSUME NEW v \in Views, NEW x \in States
    PROVE  LET w == [v EXCEPT !.state = x]
           IN  /\ w \in Views /\ w.records = v.records /\ w.runtime = v.runtime
               /\ w.active = v.active /\ w.trail = v.trail /\ w.state = x
  BY DEF Views

LEMMA SetActive ==
    ASSUME NEW v \in Views, NEW x \in Slots \cup {NoSlot}
    PROVE  LET w == [v EXCEPT !.active = x]
           IN  /\ w \in Views /\ w.records = v.records /\ w.runtime = v.runtime
               /\ w.active = x /\ w.trail = v.trail /\ w.state = v.state
  BY DEF Views

LEMMA SetDeadline ==
    ASSUME NEW v \in Views, NEW x \in States, NEW o \in Clock, NEW d \in Nat
    PROVE  LET w == [v EXCEPT !.state = x, !.origin = o, !.duration = d]
           IN  /\ w \in Views /\ w.records = v.records /\ w.runtime = v.runtime
               /\ w.active = v.active /\ w.trail = v.trail /\ w.state = x
  BY Zenon DEF Views

LEMMA SetRuntime ==
    ASSUME NEW v \in Views, NEW x \in [Slots -> Runtimes]
    PROVE  LET w == [v EXCEPT !.runtime = x]
           IN  /\ w \in Views /\ w.records = v.records /\ w.runtime = x
               /\ w.active = v.active /\ w.trail = v.trail /\ w.state = v.state
  BY DEF Views

LEMMA Cleared ==
    ASSUME NEW v \in Views
    PROVE  LET w == ClearAttempt(v)
           IN  /\ w \in Views /\ w.records = v.records /\ w.runtime = v.runtime
               /\ w.active = v.active /\ w.trail = v.trail /\ w.state = v.state
  BY Constants, Zenon DEF Views, ClearAttempt

LEMMA Loaded ==
    ASSUME NEW v \in Views
    PROVE  LET w == LoadHead(v)
           IN  /\ w \in Views /\ w.records = v.records /\ w.runtime = v.runtime
               /\ w.trail = v.trail
               /\ w = v \/ (w.state = "QUEUED" /\ w.active \in Heads(v.records))
  <1>1. CASE Heads(v.records) = {}
    BY <1>1 DEF LoadHead
  <1>2. CASE Heads(v.records) # {}
    <2> DEFINE h == CHOOSE s \in Heads(v.records) : TRUE
    <2>1. h \in Heads(v.records)
      BY <1>2
    <2>2. h \in Slots
      BY <2>1, Zenon DEF Heads
    <2>3. LoadHead(v) = [v EXCEPT !.active = h, !.state = "QUEUED"]
      BY <1>2 DEF LoadHead
    <2> HIDE DEF h
    <2>4. "QUEUED" \in States
      BY DEF States
    <2> QED
      BY <2>1, <2>2, <2>3, <2>4, ZenonT(30) DEF Views
  <1> QED
    BY <1>1, <1>2

LEMMA SoundAgain ==
    ASSUME NEW A, NEW v, Sound(v, A), NEW w \in Views,
           w.records = v.records, w.trail = v.trail
    PROVE  Sound(w, A)
  BY Zenon DEF Sound

LEMMA GoodAgain ==
    ASSUME NEW p, NEW v, Good(v, p), NEW w \in Views, w.records = v.records,
           w.trail = v.trail, w.runtime = v.runtime, Led(w)
    PROVE  Good(w, p)
  BY SoundAgain, Zenon DEF Good, AllCharging

(* A trail grows by states between the records before and after *)
LEMMA SoundOn ==
    ASSUME slots \in [Slots -> Records], NEW A, NEW v, Sound(v, A), NEW w \in Views,
           \A s \in Slots : Descends(v.records[s], w.records[s]) /\ w.records[s] \in A[s],
           \A t \in w.trail : t \in v.trail \/
               \A s \in Slots : /\ Descends(v.records[s], t[s])
                                /\ Descends(t[s], w.records[s]) /\ t[s] \in A[s]
    PROVE  Sound(w, A)
  <1>1. v \in Views
    BY Zenon DEF Sound
  <1>2. /\ v.records \in [Slots -> Records] /\ w.records \in [Slots -> Records]
        /\ v.trail \subseteq [Slots -> Records] /\ w.trail \subseteq [Slots -> Records]
    BY <1>1, ViewFields, Zenon
  <1>3. ASSUME NEW s \in Slots PROVE Descends(slots[s], w.records[s])
    <2>1. Descends(slots[s], v.records[s]) /\ Descends(v.records[s], w.records[s])
      BY Zenon DEF Sound
    <2> QED
      BY <1>2, <2>1, DescendsOn, Zenon
  <1>4. ASSUME NEW t \in w.trail, NEW s \in Slots
        PROVE  /\ Descends(slots[s], t[s]) /\ Descends(t[s], w.records[s])
               /\ t[s] \in A[s]
    <2>0. t[s] \in Records
      BY <1>2
    <2>1. CASE t \in v.trail
      <3>1. /\ Descends(slots[s], t[s]) /\ Descends(t[s], v.records[s]) /\ t[s] \in A[s]
            /\ Descends(v.records[s], w.records[s])
        BY <2>1, Zenon DEF Sound
      <3> QED
        BY <1>2, <2>0, <3>1, DescendsOn, Zenon
    <2>2. CASE t \notin v.trail
      <3>1. /\ Descends(slots[s], v.records[s]) /\ Descends(v.records[s], t[s])
            /\ Descends(t[s], w.records[s]) /\ t[s] \in A[s]
        BY <2>2, Zenon DEF Sound
      <3> QED
        BY <1>2, <2>0, <3>1, DescendsOn, Zenon
    <2> QED
      BY <2>1, <2>2, Zenon
  <1> QED
    BY <1>3, <1>4, Zenon DEF Sound

(* A view whose writes have made its records those of after *)
HoldsAfter(v, w, after, A) ==
    /\ w \in Views /\ w.records = after
    /\ w.runtime = v.runtime /\ w.active = v.active /\ w.state = v.state
    /\ Sound(w, A)

LEMMA WrittenView ==
    ASSUME slots \in [Slots -> Records], NEW A, NEW v, Sound(v, A), NEW s \in Slots,
           NEW r \in Records, Descends(v.records[s], r), r \in A[s]
    PROVE  HoldsAfter(v, Written(v, s, r), [v.records EXCEPT ![s] = r], A)
  <1> DEFINE after == [v.records EXCEPT ![s] = r]
             w == Written(v, s, r)
  <1>1. v \in Views
    BY DEF Sound
  <1>2. after \in [Slots -> Records] /\ after[s] = r
        /\ \A t \in Slots : t # s => after[t] = v.records[t]
    BY <1>1, ViewFields, Zenon
  <1>3. w = [v EXCEPT !.records = after, !.trail = v.trail \cup {after}]
    BY DEF Written
  <1> HIDE DEF after, w
  <1>4. /\ w \in Views /\ w.records = after /\ w.trail = v.trail \cup {after}
        /\ w.runtime = v.runtime /\ w.active = v.active /\ w.state = v.state
    <2>1. v.trail \cup {after} \in SUBSET [Slots -> Records]
      BY <1>1, <1>2, ViewFields, Zenon
    <2> QED
      BY <1>1, <1>2, <1>3, <2>1, Zenon DEF Views
  <1>5. \A t \in Slots : Descends(v.records[t], after[t]) /\ after[t] \in A[t]
    BY <1>2, Zenon DEF Sound, Descends
  <1>6. \A t \in Slots : Descends(after[t], after[t])
    BY Zenon DEF Descends
  <1>7. Sound(w, A)
    BY <1>4, <1>5, <1>6, SoundOn, Zenon
  <1> QED
    BY <1>4, <1>7, Zenon DEF HoldsAfter, after, w

(* What slot s holds on the way to after[s] is allowed and goes forward *)
Sweeps(v, after, steps, A) ==
    \A s \in Slots :
        /\ Descends(v.records[s], after[s]) /\ after[s] \in A[s]
        /\ \A x \in steps[s] : /\ x \in Records /\ x \in A[s]
                               /\ Descends(v.records[s], x) /\ Descends(x, after[s])

LEMMA SweptView ==
    ASSUME slots \in [Slots -> Records], NEW A, NEW v, Sound(v, A),
           NEW after \in [Slots -> Records], NEW steps, Sweeps(v, after, steps, A),
           NEW w, w = Swept(v, after, steps)
    PROVE  HoldsAfter(v, w, after, A)
  <1> DEFINE T == UNION {
                {[t \in Slots |-> IF t < s THEN after[t]
                                  ELSE IF t = s THEN step ELSE v.records[t]] :
                    step \in steps[s]} : s \in Slots}
  <1>1. v \in Views
    BY Zenon DEF Sound
  <1>2. ASSUME NEW t \in T
        PROVE  /\ t \in [Slots -> Records]
               /\ \A x \in Slots : /\ Descends(v.records[x], t[x])
                                   /\ Descends(t[x], after[x]) /\ t[x] \in A[x]
    <2>0. PICK s \in Slots : \E step \in steps[s] :
              t = [x \in Slots |-> IF x < s THEN after[x]
                                   ELSE IF x = s THEN step ELSE v.records[x]]
      BY ZenonT(30)
    <2>1. PICK step \in steps[s] :
              t = [x \in Slots |-> IF x < s THEN after[x]
                                   ELSE IF x = s THEN step ELSE v.records[x]]
      BY <2>0, Zenon
    <2>2. v.records \in [Slots -> Records]
      BY <1>1, ViewFields, Zenon
    <2>3. ASSUME NEW x \in Slots
          PROVE  /\ t[x] \in Records /\ Descends(v.records[x], t[x])
                 /\ Descends(t[x], after[x]) /\ t[x] \in A[x]
      <3>1. t[x] = after[x] \/ t[x] = v.records[x] \/ (x = s /\ t[x] = step)
        BY <2>1, Zenon
      <3>2. CASE t[x] = after[x]
        BY <3>2, Zenon DEF Descends, Sweeps
      <3>3. CASE t[x] = v.records[x]
        BY <2>2, <3>3, Zenon DEF Descends, Sound, Sweeps
      <3>4. CASE x = s /\ t[x] = step
        BY <2>1, <3>4, Zenon DEF Sweeps
      <3> QED
        BY <3>1, <3>2, <3>3, <3>4, Zenon
    <2>4. t \in [Slots -> Records]
      BY <2>1, <2>3, Zenon
    <2> QED
      BY <2>3, <2>4, Zenon
  <1>3. w = [v EXCEPT !.records = after, !.trail = v.trail \cup T]
    BY DEF Swept
  <1> HIDE DEF T
  <1>4. /\ w \in Views /\ w.records = after /\ w.trail = v.trail \cup T
        /\ w.runtime = v.runtime /\ w.active = v.active /\ w.state = v.state
    <2>1. v.trail \cup T \in SUBSET [Slots -> Records]
      BY <1>1, <1>2, ViewFields, Zenon
    <2> QED
      BY <1>1, <1>3, <2>1, Zenon DEF Views
  <1>5. \A s \in Slots : Descends(v.records[s], after[s]) /\ after[s] \in A[s]
    BY Zenon DEF Sweeps
  <1>6. Sound(w, A)
    BY <1>2, <1>4, <1>5, SoundOn, Zenon
  <1> QED
    BY <1>4, <1>6, Zenon DEF HoldsAfter

-----------------------------------------------------------------------------
(* The handlers' steps *)

LEMMA AccountedFor ==
    ASSUME NEW p, NEW s \in Slots, NEW r
    PROVE  r \in Accounted(p)[s] <=> r \in Records /\ Recorded(r, p[s])
  BY DEF Accounted

LEMMA StateNames ==
    /\ "QUEUED" \in States /\ "READY" \in States /\ "TX" \in States
    /\ "WAIT_ADMISSION" \in States /\ "BACKOFF" \in States /\ "RELEASED" \in States
    /\ "FAILED" \in States /\ "EXPIRED" \in States /\ "DEGRADED" \notin States
  BY DEF States

LEMMA HeadQueued ==
    ASSUME NEW records, NEW s \in Heads(records)
    PROVE  s \in Slots /\ records[s].state = "QUEUED"
  BY DEF Heads

(* One slot's record leaves the queue, or stays as it was charged *)
LEMMA WrittenGood ==
    ASSUME slots \in [Slots -> Records], NEW p, NEW v, Good(v, p), NEW s \in Slots,
           NEW r \in Records, Descends(v.records[s], r), Recorded(r, p[s]),
           r.state # "QUEUED"
    PROVE  LET w == Written(v, s, r)
           IN  /\ w \in Views /\ w.records = [v.records EXCEPT ![s] = r]
               /\ w.runtime = v.runtime /\ w.active = v.active /\ w.state = v.state
               /\ Sound(w, Accounted(p)) /\ AllCharging(w, p)
  <1> DEFINE w == Written(v, s, r)
  <1>1. Sound(v, Accounted(p)) /\ AllCharging(v, p)
    BY Zenon DEF Good
  <1>2. r \in Accounted(p)[s]
    BY AccountedFor, Zenon
  <1>3. /\ w \in Views /\ w.records = [v.records EXCEPT ![s] = r]
        /\ w.runtime = v.runtime /\ w.active = v.active /\ w.state = v.state
        /\ Sound(w, Accounted(p))
    BY <1>1, <1>2, WrittenView, Zenon DEF HoldsAfter
  <1> HIDE DEF w
  <1>4. \A t \in Slots : w.records[t].state = "QUEUED" => w.records[t] = v.records[t]
    <2>1. v.records \in [Slots -> Records]
      BY <1>1, ViewFields, Zenon DEF Sound
    <2> QED
      BY <1>3, <2>1, Zenon
  <1>5. AllCharging(w, p)
    BY <1>1, <1>3, <1>4, Zenon DEF AllCharging
  <1> QED
    BY <1>3, <1>5, Zenon DEF w

LEMMA MarkedFailedGood ==
    ASSUME slots \in [Slots -> Records], NEW p, NEW v, Good(v, p), v.active \in Slots,
           v.records[v.active].state = "QUEUED"
    PROVE  LET w == MarkedFailed(v)
           IN  /\ w \in Views /\ Good(w, p) /\ w.active = v.active /\ w.state = "FAILED"
               /\ w.records = [v.records EXCEPT ![v.active] = Failed(v.records[v.active])]
  <1> DEFINE r == Failed(v.records[v.active])
             u == Written(v, v.active, r)
             c == ClearAttempt(u)
             w == MarkedFailed(v)
  <1>1. Sound(v, Accounted(p)) /\ v \in Views /\ v.records[v.active] \in Records
    BY ViewFields, Zenon DEF Good, Sound
  <1>2. Recorded(v.records[v.active], p[v.active])
    BY <1>1, AccountedFor, Zenon DEF Sound
  <1>3. /\ r \in Records /\ Descends(v.records[v.active], r) /\ r.state # "QUEUED"
        /\ Recorded(r, p[v.active])
    BY <1>1, <1>2, TerminalRecord, FailedIsRecorded, Zenon
  <1>4. /\ u \in Views /\ u.records = [v.records EXCEPT ![v.active] = r]
        /\ u.runtime = v.runtime /\ u.active = v.active /\ u.state = v.state
        /\ Sound(u, Accounted(p)) /\ AllCharging(u, p)
    BY <1>3, WrittenGood, Zenon
  <1>5. w = [c EXCEPT !.state = "FAILED"]
    BY DEF MarkedFailed, Failed
  <1> HIDE DEF r, u, w
  <1>6. /\ c \in Views /\ c.records = u.records /\ c.runtime = u.runtime
        /\ c.active = u.active /\ c.trail = u.trail
    BY <1>4, Cleared, Zenon
  <1> HIDE DEF c
  <1>7. /\ w \in Views /\ w.records = u.records /\ w.runtime = u.runtime
        /\ w.active = u.active /\ w.trail = u.trail /\ w.state = "FAILED"
    BY <1>5, <1>6, SetState, StateNames
  <1>8. Sound(w, Accounted(p)) /\ AllCharging(w, p) /\ Led(w)
    BY <1>4, <1>7, SoundAgain, Zenon DEF AllCharging, Led, Live
  <1> QED
    BY <1>4, <1>7, <1>8, Zenon DEF Good, r, w

LEMMA FailedAttemptGood ==
    ASSUME slots \in [Slots -> Records], now \in Clock, NEW p, NEW v, Good(v, p),
           v.active \in Heads(v.records), v.records[v.active].attempts >= 1,
           NEW jitter \in Jitters
    PROVE  LET w == FailedAttempt(v, jitter)
           IN  /\ w \in Views /\ Good(w, p) /\ w.active = v.active
               /\ w.state \in {"BACKOFF", "FAILED"}
  <1> DEFINE w == FailedAttempt(v, jitter)
             a == v.records[v.active].attempts
  <1>1. v \in Views /\ v.active \in Slots /\ v.records[v.active].state = "QUEUED"
    BY HeadQueued, Zenon DEF Good, Sound
  <1>2. CASE a >= MaxAttempts
    <2>1. w = MarkedFailed(v)
      BY <1>2 DEF FailedAttempt, AttemptsUsed
    <2> QED
      BY <1>1, <2>1, MarkedFailedGood, ZenonT(30)
  <1>3. CASE ~(a >= MaxAttempts)
    <2>1. v.records[v.active] \in Records
      BY <1>1, ViewFields, Zenon
    <2>2. a \in Nat
      BY <1>1, <2>1, QueuedNumbers, Zenon
    <2>3. a \in 1 .. MaxAttempts - 1
      BY <1>3, <2>2, Constants
    <2>4. PICK d \in Nat : d = Backoff[a] + jitter
      BY <2>3, Constants
    <2>5. w = [v EXCEPT !.state = "BACKOFF", !.origin = now, !.duration = d]
      BY <1>3, <2>4 DEF FailedAttempt, AttemptsUsed
    <2> HIDE DEF w
    <2>6. /\ w \in Views /\ w.records = v.records /\ w.runtime = v.runtime
          /\ w.active = v.active /\ w.trail = v.trail /\ w.state = "BACKOFF"
      BY <1>1, <2>5, StateNames, Zenon DEF Views
    <2>7. Led(w)
      BY <2>6 DEF Led
    <2> QED
      BY <2>6, <2>7, GoodAgain, Zenon DEF w
  <1> QED
    BY <1>2, <1>3, Zenon

(* Policy::service: what is due is debited, what is used up expires *)
LEMMA PolicyServicedView ==
    ASSUME slots \in [Slots -> Records], now \in Clock, NEW p \in [Slots -> Pasts],
           NEW v, Sound(v, Accounted(p)), AllCharging(v, p)
    PROVE  LET w == PolicyServiced(v)
           IN  /\ w \in Views /\ w.active = v.active /\ w.state = v.state
               /\ Sound(w, Accounted(p)) /\ AllCharging(w, p)
               /\ \A s \in Slots :
                      /\ Descends(v.records[s], w.records[s])
                      /\ v.records[s].state = "QUEUED" =>
                             /\ w.records[s].state \in {"QUEUED", "EXPIRED"}
                             /\ w.records[s].attempts = v.records[s].attempts
                      /\ w.records[s].state = "QUEUED" =>
                             /\ w.runtime[s].baseline = now
                             /\ w.runtime[s].uncommitted < w.records[s].remaining
  <1> DEFINE last(s) == Debited(v.records[s], Debits(v, s))
             after == [s \in Slots |->
                         IF ~Charged(v, s) THEN v.records[s]
                         ELSE IF Expires(v, s) THEN [last(s) EXCEPT !.state = "EXPIRED"]
                         ELSE last(s)]
             steps == [s \in Slots |->
                         {after[s]} \cup
                         (IF Charged(v, s)
                            THEN {Debited(v.records[s], n) : n \in 0 .. Debits(v, s)}
                            ELSE {})]
             served == [s \in Slots |->
                IF after[s].state # "QUEUED" THEN Untracked
                ELSE IF ~v.runtime[s].tracked THEN TrackedFrom(now)
                ELSE [tracked |-> TRUE, baseline |-> now,
                      uncommitted |-> LeftOver(v, s)]]
             u == Swept(v, after, steps)
             w == PolicyServiced(v)
             A == Accounted(p)
  <1>1. v \in Views /\ v.records \in [Slots -> Records] /\ v.runtime \in [Slots -> Runtimes]
    BY ViewFields, Zenon DEF Sound
  <1>2. ASSUME NEW s \in Slots
        PROVE  Charged(v, s) <=> v.records[s].state = "QUEUED"
    BY Zenon DEF AllCharging, Charging, Charged
  <1>3. \A s \in Slots : after[s] = IF ~Charged(v, s) THEN v.records[s]
                                    ELSE IF Expires(v, s) THEN Expired(last(s))
                                    ELSE last(s)
    BY DEF Expired
  <1>4. \A s \in Slots : steps[s] =
            {after[s]} \cup (IF Charged(v, s)
                               THEN {Debited(v.records[s], n) : n \in 0 .. Debits(v, s)}
                               ELSE {})
    OBVIOUS
  <1>5. \A s \in Slots : served[s] =
            IF after[s].state # "QUEUED" THEN Untracked
            ELSE IF ~v.runtime[s].tracked THEN TrackedFrom(now)
            ELSE [tracked |-> TRUE, baseline |-> now, uncommitted |-> LeftOver(v, s)]
    OBVIOUS
  <1>6. after = [s \in Slots |-> after[s]] /\ served = [s \in Slots |-> served[s]]
    OBVIOUS
  <1>7. w = [u EXCEPT !.runtime = served]
    BY DEF PolicyServiced
  <1> HIDE DEF after, steps, served, w, u
  <1>8. ASSUME NEW s \in Slots
        PROVE  /\ after[s] \in Records /\ Descends(v.records[s], after[s])
               /\ after[s] \in A[s] /\ served[s] \in Runtimes
               /\ \A x \in steps[s] : /\ x \in Records /\ x \in A[s]
                                      /\ Descends(v.records[s], x)
                                      /\ Descends(x, after[s])
               /\ v.records[s].state = "QUEUED" =>
                      /\ after[s].state \in {"QUEUED", "EXPIRED"}
                      /\ after[s].attempts = v.records[s].attempts
               /\ after[s].state = "QUEUED" =>
                      /\ Charging(after[s], served[s], p[s])
                      /\ served[s].baseline = now
                      /\ served[s].uncommitted < after[s].remaining
    <2> DEFINE r == v.records[s]
    <2>0. r \in Records /\ p[s] \in Pasts /\ Recorded(r, p[s])
      BY <1>1, AccountedFor, Zenon DEF Sound
    <2>u. Untracked \in Runtimes
      BY Constants DEF Untracked, Runtimes, Clock
    <2>1. CASE r.state # "QUEUED"
      <3>1. ~Charged(v, s)
        BY <1>2, <2>1, Zenon
      <3>2. after[s] = r /\ steps[s] = {r}
        BY <1>3, <1>4, <3>1, Zenon
      <3>3. served[s] = Untracked
        BY <1>5, <2>1, <3>2, Zenon
      <3>4. Descends(r, r) /\ r \in A[s]
        BY <2>0, AccountedFor, Zenon DEF Descends
      <3> QED
        BY <2>0, <2>1, <2>u, <3>2, <3>3, <3>4, Zenon
    <2>2. CASE r.state = "QUEUED"
      <3> DEFINE d == last(s)
                 L == LeftOver(v, s)
                 x == [tracked |-> TRUE, baseline |-> now, uncommitted |-> L]
      <3>1. Charged(v, s) /\ v.runtime[s].tracked /\ Charging(r, v.runtime[s], p[s])
        BY <2>2, Zenon DEF AllCharging, Charging, Charged
      <3>2. p[s].sent <= r.attempts
        BY <2>0, <2>2, Zenon DEF Recorded, Owned
      <3>3. /\ \A k \in 0 .. Debits(v, s) :
                      /\ Debited(r, k) \in Records /\ Descends(r, Debited(r, k))
                      /\ Descends(Debited(r, k), d) /\ Recorded(Debited(r, k), p[s])
            /\ d \in Records /\ d.state = "QUEUED" /\ Descends(r, d) /\ Recorded(d, p[s])
            /\ d.attempts = r.attempts
            /\ Expires(v, s) => Recorded(Expired(d), p[s])
            /\ ~Expires(v, s) =>
                      /\ L \in 0 .. Checkpoint - 1
                      /\ L < d.remaining
                      /\ Charging(d, x, p[s])
        BY <1>1, <2>0, <2>2, <3>1, <3>2, PolicyRecord, Zenon
      <3>4. /\ Expired(d) \in Records /\ Descends(d, Expired(d))
            /\ Expired(d).state # "QUEUED" /\ Expired(d).attempts = d.attempts
        BY <3>3, TerminalRecord, Zenon
      <3>5. Expired(d).state = "EXPIRED"
        BY <3>3, QueuedNumbers, OwnedShape DEF Expired
      <3>6. after[s] = IF Expires(v, s) THEN Expired(d) ELSE d
        BY <1>3, <3>1, Zenon
      <3>7. steps[s] = {after[s]} \cup {Debited(r, n) : n \in 0 .. Debits(v, s)}
        BY <1>4, <3>1, Zenon
      <3>8. served[s] = IF Expires(v, s) THEN Untracked ELSE x
        BY <1>5, <3>1, <3>3, <3>4, <3>6, Zenon
      <3> HIDE DEF r, d, L, last
      <3>9. /\ after[s] \in Records /\ Descends(d, after[s]) /\ Descends(r, after[s])
            /\ Recorded(after[s], p[s]) /\ after[s].attempts = r.attempts
            /\ after[s].state \in {"QUEUED", "EXPIRED"}
        BY <2>0, <3>3, <3>4, <3>5, <3>6, DescendsOn, Zenon DEF Descends
      <3>10. ASSUME NEW y \in steps[s]
             PROVE  /\ y \in Records /\ Recorded(y, p[s])
                    /\ Descends(r, y) /\ Descends(y, after[s])
        <4>1. CASE y = after[s]
          BY <3>9, <4>1, Zenon DEF Descends
        <4>2. CASE y # after[s]
          <5>1. PICK k \in 0 .. Debits(v, s) : y = Debited(r, k)
            BY <3>7, <4>2, Zenon
          <5>2. /\ y \in Records /\ Descends(r, y) /\ Descends(y, d) /\ Recorded(y, p[s])
            BY <3>3, <5>1, Zenon
          <5> QED
            BY <3>3, <3>9, <5>2, DescendsOn, Zenon
        <4> QED
          BY <4>1, <4>2, Zenon
      <3>11. ASSUME ~Expires(v, s) PROVE x \in Runtimes /\ x.baseline = now /\ x.uncommitted = L
        <4>1. L \in 0 .. Checkpoint + MaxGap
          BY <3>3, <3>11, Constants
        <4> QED
          BY <4>1 DEF Runtimes
      <3>12. served[s] \in Runtimes
        BY <2>u, <3>8, <3>11, Zenon
      <3>13. ASSUME after[s].state = "QUEUED"
             PROVE  /\ Charging(after[s], served[s], p[s])
                    /\ served[s].baseline = now
                    /\ served[s].uncommitted < after[s].remaining
        <4>1. ~Expires(v, s)
          BY <3>4, <3>6, <3>13, Zenon
        <4>2. served[s] = x /\ after[s] = d
          BY <3>6, <3>8, <4>1, Zenon
        <4> HIDE DEF x
        <4> QED
          BY <3>3, <3>11, <4>1, <4>2, Zenon
      <3> HIDE DEF x
      <3>14. after[s] \in A[s] /\ \A y \in steps[s] : y \in A[s]
        BY <3>9, <3>10, AccountedFor, Zenon
      <3> QED
        BY <3>9, <3>10, <3>12, <3>13, <3>14, Zenon DEF r
    <2> QED
      BY <2>1, <2>2, Zenon
  <1>9. after \in [Slots -> Records] /\ served \in [Slots -> Runtimes]
    BY <1>6, <1>8, Zenon
  <1>10. /\ u \in Views /\ u.records = after /\ u.active = v.active /\ u.state = v.state
         /\ Sound(u, A)
    <2>1. Sweeps(v, after, steps, A)
      BY <1>8, Zenon DEF Sweeps
    <2>2. u = Swept(v, after, steps)
      BY DEF u
    <2> QED
      <3>1. HoldsAfter(v, u, after, A)
        BY <1>9, <2>1, <2>2, SweptView, Zenon
      <3> QED
        BY <3>1, Zenon DEF HoldsAfter
  <1>11. /\ w \in Views /\ w.records = after /\ w.runtime = served /\ w.trail = u.trail
         /\ w.active = v.active /\ w.state = v.state
    BY <1>7, <1>9, <1>10, SetRuntime
  <1>12. Sound(w, A)
    BY <1>10, <1>11, SoundAgain
  <1>13. AllCharging(w, p)
    BY <1>8, <1>11, Zenon DEF AllCharging
  <1> QED
    BY <1>8, <1>11, <1>12, <1>13, Zenon DEF w

(* The event in slot s has been charged up to now, and has time left *)
Timely(v, s) ==
    v.runtime[s].baseline = now /\ v.runtime[s].uncommitted < v.records[s].remaining

LEMMA LifetimeServicedGood ==
    ASSUME slots \in [Slots -> Records], now \in Clock, NEW p \in [Slots -> Pasts],
           NEW v, Good(v, p), v.active \in Slots
    PROVE  LET w == LifetimeServiced(v)
           IN  /\ w \in Views /\ Good(w, p) /\ w.active = v.active
               /\ w.state = v.state \/ w.state = "EXPIRED"
               /\ w.state # "EXPIRED" /\ Live(v) => Timely(w, w.active)
  <1> DEFINE u == PolicyServiced(v)
             c == ClearAttempt(u)
             w == LifetimeServiced(v)
             a == v.active
  <1>1. /\ v \in Views /\ Sound(v, Accounted(p)) /\ AllCharging(v, p) /\ Led(v)
    BY Zenon DEF Good, Sound
  <1>2. /\ u \in Views /\ u.active = v.active /\ u.state = v.state
        /\ Sound(u, Accounted(p)) /\ AllCharging(u, p)
        /\ \A s \in Slots :
               /\ Descends(v.records[s], u.records[s])
               /\ v.records[s].state = "QUEUED" =>
                      /\ u.records[s].state \in {"QUEUED", "EXPIRED"}
                      /\ u.records[s].attempts = v.records[s].attempts
               /\ u.records[s].state = "QUEUED" => Timely(u, s)
    BY <1>1, PolicyServicedView, Zenon DEF Timely
  <1>3. w = IF u.records[a].state = "EXPIRED" THEN [c EXCEPT !.state = "EXPIRED"] ELSE u
    BY <1>2 DEF LifetimeServiced
  <1> HIDE DEF u, w
  <1>4. /\ c \in Views /\ c.records = u.records /\ c.runtime = u.runtime
        /\ c.active = u.active /\ c.trail = u.trail
    BY <1>2, Cleared, Zenon
  <1> HIDE DEF c
  <1>5. CASE u.records[a].state = "EXPIRED"
    <2>1. /\ w \in Views /\ w.records = u.records /\ w.runtime = u.runtime
          /\ w.active = v.active /\ w.trail = u.trail /\ w.state = "EXPIRED"
      BY <1>2, <1>3, <1>4, <1>5, SetState, StateNames
    <2>2. Sound(w, Accounted(p)) /\ AllCharging(w, p) /\ Led(w)
      BY <1>2, <2>1, SoundAgain, Zenon DEF AllCharging, Led, Live
    <2> QED
      BY <2>1, <2>2, Zenon DEF Good, w
  <1>6. CASE u.records[a].state # "EXPIRED"
    <2>1. w = u
      BY <1>3, <1>6
    <2>2. ASSUME Live(v)
          PROVE  /\ a \in Heads(u.records) /\ Timely(u, a)
                 /\ u.records[a].attempts = v.records[a].attempts
      <3>1. a \in Heads(v.records)
        BY <1>1, <2>2, Zenon DEF Led
      <3>2. v.records[a].state = "QUEUED"
        BY <3>1, HeadQueued, Zenon
      <3>3. u.records[a].state = "QUEUED"
        BY <1>2, <1>6, <3>2, Zenon
      <3>4. a \in Heads(u.records)
        BY <1>1, <1>2, <3>1, <3>3, HeadStays, ViewFields, Zenon
      <3> QED
        BY <1>2, <3>2, <3>3, <3>4, Zenon
    <2>3. Led(u)
      BY <1>1, <1>2, <2>2, Zenon DEF Led, Live
    <2> QED
      BY <1>2, <2>1, <2>2, <2>3, Zenon DEF Good, w
  <1> QED
    BY <1>5, <1>6, Zenon

(* Controller::service, after which a READY controller is at the head both  *)
(* of the queue it found and of the queue it leaves                         *)
LEMMA ServicedGood ==
    ASSUME slots \in [Slots -> Records], now \in Clock, NEW p \in [Slots -> Pasts],
           NEW v, Good(v, p), NEW sync \in BOOLEAN, NEW jitter \in Jitters
    PROVE  LET w == Serviced(v, sync, jitter)
           IN  /\ w \in Views /\ Good(w, p)
               /\ w.state = "READY" => w.active \in Heads(v.records) /\ Timely(w, w.active)
  <1> DEFINE c == ClearAttempt(v)
             n == [c EXCEPT !.active = NoSlot]
             loaded == IF v.state = "RELEASED" THEN LoadHead(n)
                       ELSE IF v.active = NoSlot THEN LoadHead(v) ELSE v
             u == LifetimeServiced(loaded)
             w == Serviced(v, sync, jitter)
             next == IF sync THEN "QUEUED" ELSE "READY"
  <1>1. /\ v \in Views /\ Led(v)
    BY Zenon DEF Good, Sound
  <1>2. /\ c \in Views /\ c.records = v.records /\ c.runtime = v.runtime
        /\ c.active = v.active /\ c.trail = v.trail /\ c.state = v.state
    BY <1>1, Cleared
  <1>3. /\ n \in Views /\ n.records = v.records /\ n.runtime = v.runtime
        /\ n.active = NoSlot /\ n.trail = v.trail /\ n.state = v.state
    <2> HIDE DEF c
    <2> QED
      BY <1>2, SetActive
  <1>4. w = IF loaded.active = NoSlot THEN loaded
        ELSE IF u.state = "QUEUED" /\ AttemptsUsed(u) >= MaxAttempts
               THEN MarkedFailed(u)
        ELSE IF u.state \in {"QUEUED", "READY"}
               THEN [u EXCEPT !.state = next]
        ELSE IF u.state = "WAIT_ADMISSION" /\ Elapsed(u.origin) >= AdmissionTimeout
               THEN FailedAttempt(u, jitter)
        ELSE IF u.state = "BACKOFF" /\ Elapsed(u.origin) >= u.duration
               THEN [u EXCEPT !.state = next]
        ELSE u
    BY DEF Serviced
  <1> HIDE DEF c, n, w
  <1>5. /\ loaded \in Views /\ loaded.records = v.records /\ loaded.runtime = v.runtime
        /\ loaded.trail = v.trail
        /\ \/ loaded.state = "QUEUED" /\ loaded.active \in Heads(v.records)
           \/ loaded = n /\ v.state = "RELEASED"
           \/ loaded = v
    BY <1>1, <1>3, Loaded, Zenon
  <1> HIDE DEF loaded
  <1>6. Led(loaded)
    <2>1. CASE loaded.state = "QUEUED" /\ loaded.active \in Heads(v.records)
      BY <1>5, <2>1, Zenon DEF Led
    <2>2. CASE loaded = n /\ v.state = "RELEASED"
      BY <1>3, <2>2, Zenon DEF Led, Live
    <2>3. CASE loaded = v
      BY <1>1, <2>3
    <2> QED
      BY <1>5, <2>1, <2>2, <2>3, Zenon
  <1>7. Good(loaded, p)
    BY <1>5, <1>6, GoodAgain
  <1>8. loaded.active = NoSlot => loaded.state # "READY"
    <2>1. NoSlot \notin Slots
      BY DEF NoSlot, Slots
    <2> QED
      BY <1>6, <2>1, HeadQueued, Zenon DEF Led, Live
  <1>9. CASE loaded.active = NoSlot
    BY <1>4, <1>5, <1>7, <1>8, <1>9 DEF w
  <1>10. CASE loaded.active # NoSlot
    <2>1. loaded.active \in Slots
      BY <1>5, <1>10, ViewFields, Zenon
    <2>2. /\ u \in Views /\ Good(u, p) /\ u.active = loaded.active
          /\ u.state = loaded.state \/ u.state = "EXPIRED"
          /\ u.state # "EXPIRED" /\ Live(loaded) => Timely(u, u.active)
      BY <1>7, <2>1, LifetimeServicedGood, Zenon
    <2> HIDE DEF u
    <2>3. Led(u)
      BY <2>2, Zenon DEF Good
    <2>4. ASSUME u.state \in {"QUEUED", "READY", "WAIT_ADMISSION", "BACKOFF"}
          PROVE  /\ u.active \in Heads(u.records) /\ u.active \in Heads(v.records)
                 /\ Timely(u, u.active)
      <3>1. Live(u) /\ Live(loaded)
        BY <1>10, <2>2, <2>4, Zenon DEF Live
      <3> QED
        BY <1>5, <1>6, <2>2, <2>3, <2>4, <3>1, Zenon DEF Led
    <2>5. ASSUME u.state \in {"QUEUED", "READY", "BACKOFF"},
                 NEW x, x = [u EXCEPT !.state = next]
          PROVE  /\ x \in Views /\ Good(x, p)
                 /\ x.state = "READY" => x.active \in Heads(v.records) /\ Timely(x, x.active)
      <3>1. next \in States /\ next \in {"QUEUED", "READY"}
        BY StateNames
      <3> HIDE DEF next
      <3>2. /\ x \in Views /\ x.records = u.records /\ x.runtime = u.runtime
            /\ x.active = u.active /\ x.trail = u.trail /\ x.state = next
        BY <2>2, <2>5, <3>1, SetState
      <3>3. Led(x)
        BY <2>4, <2>5, <3>1, <3>2 DEF Led
      <3>4. Timely(x, x.active)
        BY <2>4, <2>5, <3>2 DEF Timely
      <3> QED
        BY <2>2, <2>4, <2>5, <3>2, <3>3, <3>4, GoodAgain, Zenon
    <2>6. CASE u.state = "QUEUED" /\ AttemptsUsed(u) >= MaxAttempts
      <3>1. u.active \in Slots /\ u.records[u.active].state = "QUEUED"
        BY <2>4, <2>6, HeadQueued, Zenon
      <3>2. LET x == MarkedFailed(u) IN x \in Views /\ Good(x, p) /\ x.state = "FAILED"
        BY <2>2, <3>1, MarkedFailedGood, Zenon
      <3> QED
        BY <1>4, <1>10, <2>6, <3>2 DEF w
    <2>7. CASE /\ u.state \in {"QUEUED", "READY"}
               /\ ~(u.state = "QUEUED" /\ AttemptsUsed(u) >= MaxAttempts)
      <3>1. w = [u EXCEPT !.state = next]
        BY <1>4, <1>10, <2>7
      <3> QED
        BY <2>5, <2>7, <3>1, Zenon DEF w
    <2>8. CASE u.state = "WAIT_ADMISSION" /\ Elapsed(u.origin) >= AdmissionTimeout
      <3>1. u.active \in Heads(u.records) /\ u.records[u.active].attempts >= 1
        BY <2>3, <2>4, <2>8, Zenon DEF Led
      <3>2. LET x == FailedAttempt(u, jitter)
            IN  x \in Views /\ Good(x, p) /\ x.state \in {"BACKOFF", "FAILED"}
        BY <2>2, <3>1, FailedAttemptGood, Zenon
      <3>3. w = FailedAttempt(u, jitter)
        BY <1>4, <1>10, <2>8
      <3> QED
        BY <3>2, <3>3 DEF w
    <2>9. CASE u.state = "BACKOFF" /\ Elapsed(u.origin) >= u.duration
      <3>1. w = [u EXCEPT !.state = next]
        BY <1>4, <1>10, <2>9
      <3> QED
        BY <2>5, <2>9, <3>1, Zenon DEF w
    <2>10. CASE /\ u.state \notin {"QUEUED", "READY"}
                /\ ~(u.state = "WAIT_ADMISSION" /\ Elapsed(u.origin) >= AdmissionTimeout)
                /\ ~(u.state = "BACKOFF" /\ Elapsed(u.origin) >= u.duration)
      <3>1. w = u
        BY <1>4, <1>10, <2>10
      <3> QED
        BY <2>2, <2>10, <3>1, Zenon DEF w
    <2> QED
      BY <2>6, <2>7, <2>8, <2>9, <2>10, Zenon
  <1> QED
    BY <1>9, <1>10, Zenon

(* reclaimTerminals *)
LEMMA ReclaimedView ==
    ASSUME slots \in [Slots -> Records], NEW A, NEW v, Sound(v, A),
           \A s \in Slots : Free \in A[s]
    PROVE  LET w == Reclaimed(v)
           IN  /\ w \in Views /\ Sound(w, A) /\ w.runtime = v.runtime /\ w.state = v.state
               /\ w.records \in [Slots -> Records]
               /\ \A s \in Slots : w.records[s] = IF s \in Terminals(v) THEN Free
                                                                     ELSE v.records[s]
               /\ w.active = IF v.active \in Terminals(v) THEN NoSlot ELSE v.active
  <1> DEFINE after == [s \in Slots |-> IF s \in Terminals(v) THEN Free ELSE v.records[s]]
             steps == [s \in Slots |-> {v.records[s], after[s]}]
             u == Swept(v, after, steps)
             c == ClearAttempt(u)
             w == Reclaimed(v)
  <1>1. v \in Views /\ v.records \in [Slots -> Records]
    BY ViewFields, Zenon DEF Sound
  <1>2. w = IF v.active \in Terminals(v) THEN [c EXCEPT !.active = NoSlot] ELSE u
    BY DEF Reclaimed
  <1>3. \A s \in Slots : /\ after[s] = IF s \in Terminals(v) THEN Free ELSE v.records[s]
                         /\ steps[s] = {v.records[s], after[s]}
    BY Zenon
  <1>4. after \in [Slots -> Records]
    BY <1>1, EmptyShape, Zenon
  <1> HIDE DEF after, steps, u, w
  <1>5. ASSUME NEW s \in Slots
        PROVE  /\ Descends(v.records[s], after[s]) /\ after[s] \in A[s]
               /\ \A x \in steps[s] : /\ x \in Records /\ x \in A[s]
                                      /\ Descends(v.records[s], x) /\ Descends(x, after[s])
    <2>1. v.records[s] \in A[s]
      BY Zenon DEF Sound
    <2>2. after[s] \in A[s] /\ after[s] \in Records
      BY <1>3, <1>4, <2>1, Zenon
    <2>3. Descends(v.records[s], after[s])
      BY <1>3, Zenon DEF Descends, Terminals, Owned
    <2>4. Descends(v.records[s], v.records[s]) /\ Descends(after[s], after[s])
      BY Zenon DEF Descends
    <2> QED
      BY <1>1, <1>3, <2>1, <2>2, <2>3, <2>4
  <1>6. /\ u \in Views /\ u.records = after /\ u.runtime = v.runtime
        /\ u.active = v.active /\ u.state = v.state /\ Sound(u, A)
    <2>1. Sweeps(v, after, steps, A)
      BY <1>5, Zenon DEF Sweeps
    <2>2. u = Swept(v, after, steps)
      BY DEF u
    <2> QED
      <3>1. HoldsAfter(v, u, after, A)
        BY <1>4, <2>1, <2>2, SweptView, Zenon
      <3> QED
        BY <3>1, Zenon DEF HoldsAfter
  <1>7. /\ c \in Views /\ c.records = u.records /\ c.runtime = u.runtime
        /\ c.active = u.active /\ c.trail = u.trail /\ c.state = u.state
    BY <1>6, Cleared, Zenon
  <1> HIDE DEF c
  <1>8. /\ w \in Views /\ w.records = u.records /\ w.trail = u.trail
        /\ w.runtime = u.runtime /\ w.state = u.state
        /\ w.active = IF v.active \in Terminals(v) THEN NoSlot ELSE v.active
    <2>1. CASE v.active \in Terminals(v)
      BY <1>2, <1>7, <2>1, SetActive
    <2>2. CASE v.active \notin Terminals(v)
      BY <1>2, <1>6, <2>2
    <2> QED
      BY <2>1, <2>2, Zenon
  <1>9. Sound(w, A)
    BY <1>6, <1>8, SoundAgain, Zenon
  <1> QED
    BY <1>3, <1>4, <1>6, <1>8, <1>9, Zenon DEF w

LEMMA FreeRecorded ==
    ASSUME NEW p PROVE Free \in Records /\ Recorded(Free, p)
  BY EmptyShape, Zenon DEF Recorded

LEMMA ReclaimedGood ==
    ASSUME slots \in [Slots -> Records], NEW p, NEW v, Good(v, p)
    PROVE  LET w == Reclaimed(v)
           IN  /\ w \in Views /\ Good(w, p)
               /\ \A s \in Terminals(v) : w.records[s] = Free
  <1> DEFINE w == Reclaimed(v)
             A == Accounted(p)
  <1>1. v \in Views /\ Sound(v, A) /\ AllCharging(v, p) /\ Led(v)
    BY Zenon DEF Good, Sound
  <1>2. \A s \in Slots : Free \in A[s]
    BY FreeRecorded, AccountedFor, Zenon
  <1>3. /\ w \in Views /\ Sound(w, A) /\ w.runtime = v.runtime /\ w.state = v.state
        /\ w.records \in [Slots -> Records]
        /\ \A s \in Slots : w.records[s] = IF s \in Terminals(v) THEN Free
                                                                 ELSE v.records[s]
        /\ w.active = IF v.active \in Terminals(v) THEN NoSlot ELSE v.active
    BY <1>1, <1>2, ReclaimedView, Zenon
  <1> HIDE DEF w
  <1>4. \A s \in Slots : w.records[s].state = "QUEUED" => w.records[s] = v.records[s]
    BY <1>3, EmptyShape, Zenon
  <1>5. AllCharging(w, p)
    BY <1>1, <1>3, <1>4, Zenon DEF AllCharging
  <1>6. ASSUME Live(w)
        PROVE  /\ w.active = v.active /\ w.active \in Heads(w.records)
               /\ w.records[w.active] = v.records[v.active]
    <2>1. Live(v)
      BY <1>3, <1>6, Zenon DEF Live
    <2>2. v.active \in Heads(v.records)
      BY <1>1, <2>1, Zenon DEF Led
    <2>3. v.active \in Slots /\ v.records[v.active].state = "QUEUED"
      BY <2>2, HeadQueued, Zenon
    <2>4. v.active \notin Terminals(v)
      BY <2>3 DEF Terminals
    <2>5. w.active = v.active /\ w.records[v.active] = v.records[v.active]
      BY <1>3, <2>3, <2>4, Zenon
    <2>6. \A s \in Slots : Descends(v.records[s], w.records[s])
      BY <1>3, Zenon DEF Descends, Terminals, Owned
    <2>7. v.active \in Heads(w.records)
      BY <1>1, <1>3, <2>2, <2>3, <2>5, <2>6, HeadStays, ViewFields, Zenon
    <2> QED
      BY <2>5, <2>7
  <1>7. Led(w)
    BY <1>1, <1>3, <1>6, Zenon DEF Led, Live
  <1> QED
    BY <1>3, <1>5, <1>7, Zenon DEF Good, w, Terminals

(* grantTransmit of the head: one more attempt, durable *)
LEMMA GrantedGood ==
    ASSUME slots \in [Slots -> Records], NEW p \in [Slots -> Pasts], NEW v, Good(v, p),
           v.active \in Heads(v.records)
    PROVE  LET w == Granted(v)
           IN  /\ w \in Views /\ Good(w, p) /\ w.active = v.active
               /\ w.state \in {"TX", "FAILED"}
               /\ w.state = "TX" =>
                      /\ w.active \in Heads(w.records)
                      /\ w.records[w.active].attempts = v.records[v.active].attempts + 1
  <1> DEFINE w == Granted(v)
             a == v.active
             r == v.records[a]
             A == Accounted(p)
  <1>1. /\ v \in Views /\ Sound(v, A) /\ AllCharging(v, p)
        /\ a \in Slots /\ r.state = "QUEUED"
    BY HeadQueued, Zenon DEF Good, Sound
  <1>2. r \in Records /\ v.records \in [Slots -> Records]
    BY <1>1, ViewFields, Zenon
  <1>3. CASE r.attempts >= MaxAttempts
    <2>1. w = MarkedFailed(v)
      BY <1>3 DEF Granted, HeadStillAuthoritative, AttemptsUsed
    <2> QED
      BY <1>1, <2>1, MarkedFailedGood, ZenonT(30)
  <1>4. CASE ~(r.attempts >= MaxAttempts)
    <2> DEFINE d == [r EXCEPT !.attempts = @ + 1]
               u == Written(v, a, d)
    <2>1. w = [u EXCEPT !.state = "TX"]
      BY <1>4 DEF Granted, HeadStillAuthoritative, AttemptsUsed
    <2>2. r.attempts \in Nat /\ Owned(r)
      BY <1>1, <1>2, QueuedNumbers, Zenon
    <2>a. r.attempts < MaxAttempts
      BY <1>4, <2>2, Constants
    <2>3. d \in Records /\ Advances(r, d) /\ d.state = "QUEUED"
      <3> HIDE DEF r
      <3> QED
        BY <1>1, <1>2, <2>a, Advancing, Zenon
    <2>4. d.attempts = r.attempts + 1 /\ d.lifetime = r.lifetime /\ d.remaining = r.remaining
      <3>1. r \in [state : {"QUEUED", "FAILED", "EXPIRED"}, epoch : EventEpochs,
                   id : EventIds, content : Contents, lifetime : Lifetimes,
                   remaining : Nat, attempts : 0 .. MaxAttempts]
        BY <1>2, <2>2, OwnedShape, Zenon
      <3> QED
        BY <3>1
    <2> HIDE DEF d
    <2>5. Descends(r, d) /\ Used(d) = Used(r) /\ Owned(d)
      BY <2>2, <2>3, <2>4, Zenon DEF Descends, Used, Owned
    <2>6. Recorded(r, p[a])
      BY <1>1, AccountedFor, Zenon DEF Sound
    <2>7. p[a].sent <= r.attempts
      BY <2>2, <2>6, Zenon DEF Recorded
    <2>8. Recorded(d, p[a])
      <3>0. p[a].sent \in Nat
        BY <1>1, PastFacts, Zenon
      <3>1. p[a].sent <= d.attempts
        BY <2>2, <2>4, <2>7, <3>0
      <3> QED
        BY <1>1, <2>3, <2>5, <2>6, <3>1, Zenon DEF Recorded
    <2>9. d \in A[a]
      BY <1>1, <2>3, <2>8, AccountedFor, Zenon
    <2>10. /\ u \in Views /\ u.records = [v.records EXCEPT ![a] = d]
           /\ u.runtime = v.runtime /\ u.active = v.active /\ u.state = v.state
           /\ Sound(u, A)
      BY <1>1, <2>3, <2>5, <2>9, WrittenView, Zenon DEF HoldsAfter
    <2> HIDE DEF u, w
    <2>11. /\ w \in Views /\ w.records = u.records /\ w.runtime = u.runtime
           /\ w.active = u.active /\ w.trail = u.trail /\ w.state = "TX"
      BY <2>1, <2>10, SetState, StateNames
    <2>12. Sound(w, A)
      BY <2>10, <2>11, SoundAgain, Zenon
    <2>13. w.records[a] = d /\ \A t \in Slots : t # a => w.records[t] = v.records[t]
      BY <1>1, <1>2, <2>10, <2>11, Zenon
    <2>14. AllCharging(w, p)
      <3>1. Charging(r, v.runtime[a], p[a])
        BY <1>1, Zenon DEF AllCharging
      <3>2. Charging(d, v.runtime[a], p[a])
        BY <2>5, <3>1, Zenon DEF Charging, Charge
      <3> QED
        BY <1>1, <2>10, <2>11, <2>13, <3>2, Zenon DEF AllCharging
    <2>15. a \in Heads(w.records)
      <3>1. \A t \in Slots : Descends(v.records[t], w.records[t])
        BY <2>5, <2>13, Zenon DEF Descends
      <3>2. w.records[a].state = "QUEUED" /\ w.records \in [Slots -> Records]
        BY <2>3, <2>11, <2>13, ViewFields, Zenon
      <3> QED
        BY <1>2, <3>1, <3>2, HeadStays, Zenon
    <2>16. d.attempts >= 1
      BY <2>2, <2>4
    <2>17. Led(w)
      BY <2>10, <2>11, <2>13, <2>15, <2>16, Zenon DEF Led
    <2> QED
      BY <2>4, <2>10, <2>11, <2>12, <2>13, <2>14, <2>15, <2>17, Zenon DEF Good, w
  <1> QED
    BY <1>3, <1>4, Zenon

LEMMA ReleasedGood ==
    ASSUME slots \in [Slots -> Records], NEW p, NEW v, Good(v, p), v.active \in Slots,
           v.records[v.active].state = "QUEUED"
    PROVE  LET w == [ClearAttempt(Written(v, v.active, Free)) EXCEPT !.state = "RELEASED"]
           IN  w \in Views /\ Good(w, p)
  <1> DEFINE u == Written(v, v.active, Free)
             c == ClearAttempt(u)
             w == [c EXCEPT !.state = "RELEASED"]
  <1>1. Descends(v.records[v.active], Free)
    BY Zenon DEF Descends, Owned
  <1>2. Free \in Records /\ Recorded(Free, p[v.active]) /\ Free.state # "QUEUED"
    BY FreeRecorded, EmptyShape, Zenon
  <1>3. /\ u \in Views /\ u.records = [v.records EXCEPT ![v.active] = Free]
        /\ u.runtime = v.runtime /\ u.active = v.active /\ u.state = v.state
        /\ Sound(u, Accounted(p)) /\ AllCharging(u, p)
    BY <1>1, <1>2, WrittenGood, Zenon
  <1> HIDE DEF u
  <1>4. /\ c \in Views /\ c.records = u.records /\ c.runtime = u.runtime
        /\ c.active = u.active /\ c.trail = u.trail
    BY <1>3, Cleared, Zenon
  <1> HIDE DEF c
  <1>5. /\ w \in Views /\ w.records = u.records /\ w.runtime = u.runtime
        /\ w.trail = u.trail /\ w.state = "RELEASED"
    BY <1>4, SetState, StateNames
  <1> HIDE DEF w
  <1>6. Sound(w, Accounted(p)) /\ AllCharging(w, p) /\ Led(w)
    BY <1>3, <1>5, SoundAgain, Zenon DEF AllCharging, Led, Live
  <1> QED
    BY <1>5, <1>6 DEF Good, w, c, u

(* admissionCandidate *)
LEMMA AnsweredGood ==
    ASSUME slots \in [Slots -> Records], now \in Clock, past \in [Slots -> Pasts],
           Good(View, past), state = "WAIT_ADMISSION", NEW matches \in BOOLEAN,
           NEW status \in Statuses, NEW jitter \in Jitters
    PROVE  LET w == Answered(matches, status, jitter)
           IN  w \in Views /\ Good(w, past)
  <1> DEFINE v == LifetimeServiced(View)
             w == Answered(matches, status, jitter)
  <1>1. View \in Views /\ Led(View) /\ View.state = "WAIT_ADMISSION"
    BY Zenon DEF Good, Sound, View
  <1>2. Live(View)
    BY <1>1 DEF Live
  <1>3. View.active \in Slots
    BY <1>1, <1>2, HeadQueued, Zenon DEF Led
  <1>4. /\ v \in Views /\ Good(v, past) /\ v.active = View.active
        /\ v.state = View.state \/ v.state = "EXPIRED"
    BY <1>3, LifetimeServicedGood, Zenon
  <1>5. w = IF v.state = "EXPIRED" \/ ~matches THEN v
            ELSE IF status = "ADMITTED"
              THEN [ClearAttempt(Written(v, v.active, Free)) EXCEPT !.state = "RELEASED"]
            ELSE IF status = "CAPACITY" THEN FailedAttempt(v, jitter)
            ELSE MarkedFailed(v)
    BY DEF Answered
  <1> HIDE DEF v, w
  <1>6. CASE v.state = "EXPIRED" \/ ~matches
    BY <1>4, <1>5, <1>6 DEF w
  <1>7. CASE ~(v.state = "EXPIRED" \/ ~matches)
    <2>1. v.state = "WAIT_ADMISSION" /\ Led(v)
      BY <1>1, <1>4, <1>7, Zenon DEF Good
    <2>2. v.active \in Heads(v.records) /\ v.records[v.active].attempts >= 1
      BY <2>1, Zenon DEF Led, Live
    <2>3. v.active \in Slots /\ v.records[v.active].state = "QUEUED"
      BY <2>2, HeadQueued, Zenon
    <2>4. CASE status = "ADMITTED"
      <3>1. w = [ClearAttempt(Written(v, v.active, Free)) EXCEPT !.state = "RELEASED"]
        BY <1>5, <1>7, <2>4
      <3> QED
        BY <1>4, <2>3, <3>1, ReleasedGood DEF w
    <2>5. CASE status # "ADMITTED"
      <3>1. w = FailedAttempt(v, jitter) \/ w = MarkedFailed(v)
        BY <1>5, <1>7, <2>5
      <3>2. LET x == FailedAttempt(v, jitter) IN x \in Views /\ Good(x, past)
        BY <1>4, <2>2, FailedAttemptGood, Zenon
      <3>3. LET x == MarkedFailed(v) IN x \in Views /\ Good(x, past)
        BY <1>4, <2>3, MarkedFailedGood, Zenon
      <3> QED
        BY <3>1, <3>2, <3>3 DEF w
    <2> QED
      BY <2>4, <2>5
  <1> QED
    BY <1>6, <1>7

-----------------------------------------------------------------------------
(* The steps *)

(* The store's invariant, when a handler has committed some records *)
LEMMA StoreKept ==
    ASSUME SInv, mode = "READY", NEW last \in [Slots -> Records],
           cell' \in [Slots -> Records],
           \A s \in Slots : Descends(slots[s], cell'[s]) /\ Descends(cell'[s], last[s]),
           promised' = promised \ {Custody(slots[s]) :
                                      s \in {t \in Slots : last[t].state # "QUEUED"}},
           UNCHANGED <<meta, lastIssued>>,
           (slots' = cell' /\ UNCHANGED <<mode, allocator>>) \/ OutOfService
    PROVE  SInv'
  <1>1. /\ slots = cell /\ cell \in [Slots -> Records]
        /\ \A s \in Slots : Held(cell[s])
    BY DEF SInv, TypeOK, StoreInService
  <1>2. \A s \in Slots : Owned(cell'[s]) =>
            /\ Owned(cell[s])
            /\ cell'[s].epoch = cell[s].epoch /\ cell'[s].id = cell[s].id
    BY <1>1, KeptFields
  <1>3. Distinct(cell)'
    BY <1>2, Zenon DEF SInv, FlashInv, Distinct, Identity
  <1>4. OwnedIssued'
    BY <1>2, Zenon DEF SInv, FlashInv, OwnedIssued, IdentityLess
  <1>5. IssuedBelowMeta'
    BY Zenon DEF SInv, FlashInv, IssuedBelowMeta, Boundary
  <1>6. EnqueuedSurvives'
    <2> SUFFICES ASSUME NEW p \in promised'
                 PROVE  \E s \in Slots : cell'[s].state = "QUEUED" /\ Custody(cell'[s]) = p
      BY DEF EnqueuedSurvives
    <2>1. PICK s \in Slots : cell[s].state = "QUEUED" /\ Custody(cell[s]) = p
      BY DEF SInv, FlashInv, EnqueuedSurvives
    <2>2. last[s].state = "QUEUED"
      BY <1>1, <2>1
    <2>3. cell'[s].state = "QUEUED"
      BY <2>2, KeptFields, Zenon
    <2>4. Custody(cell'[s]) = Custody(cell[s])
      BY <1>1, <2>3, KeptFields DEF Owned
    <2> QED
      BY <2>1, <2>3, <2>4
  <1>7. FlashInv'
    BY <1>3, <1>4, <1>5, <1>6 DEF FlashInv
  <1>8. promised' \subseteq promised
    OBVIOUS
  <1>9. CASE slots' = cell' /\ UNCHANGED <<mode, allocator>>
    <2>1. \A s \in Slots : Held(cell'[s])
      BY <1>1, KeptFields
    <2>2. TypeOK'
      BY <1>8, <1>9 DEF SInv, TypeOK, allocator
    <2>3. StoreInService'
      BY <1>9, <2>1, Zenon DEF SInv, StoreInService, allocator, Volatile
    <2> QED
      BY <1>7, <2>2, <2>3 DEF SInv
  <1>10. CASE OutOfService
    <2>1. TypeOK' /\ mode' # "READY"
      BY <1>8, <1>10, OutOfServiceState DEF SInv, TypeOK, HeldMetas
    <2> QED
      BY <1>7, <2>1, Zenon DEF SInv, StoreInService
  <1> QED
    BY <1>9, <1>10, Zenon

-----------------------------------------------------------------------------
(* What a handler leaves *)

LEMMA InvTypes ==
    ASSUME DeliveryInv
    PROVE  /\ slots \in [Slots -> Records] /\ cell \in [Slots -> Records]
           /\ now \in Clock /\ past \in [Slots -> Pasts]
           /\ owner \in {"LISTENING", "EVENT_TX"}
           /\ mode = "READY" => slots = cell
  BY DEF DeliveryInv, SInv, TypeOK, DeliveryTypeOK, StoreInService, Clock, Pasts

LEMMA ViewGood ==
    ASSUME DeliveryInv, mode = "READY"
    PROVE  /\ Sound(View, Accounted(past)) /\ View \in Views
           /\ serving => Good(View, past)
  <1>1. /\ slots \in [Slots -> Records] /\ slots = cell
        /\ past \in [Slots -> Pasts]
    BY InvTypes
  <1>2. /\ View.records = slots /\ View.trail = {slots} /\ View \in Views
    BY <1>1, Zenon DEF View, Views, DeliveryInv, DeliveryTypeOK, Runtimes, Clock
  <1>3. \A s \in Slots : slots[s] \in Accounted(past)[s] /\ Descends(slots[s], slots[s])
    BY <1>1, AccountedFor, Zenon DEF DeliveryInv, Descends
  <1>4. Sound(View, Accounted(past))
    BY <1>2, <1>3 DEF Sound
  <1> QED
    BY <1>2, <1>4, Zenon DEF Good, DeliveryInv

LEMMA Installed ==
    ASSUME DeliveryInv, mode = "READY", NEW v, NEW q \in [Slots -> Pasts], NEW A,
           Sound(v, A), v.state \in States,
           \A s \in Slots : Recorded(v.records[s], q[s]), AllCharging(v, q), Led(v),
           cell' = v.records, slots' = v.records, runtime' = v.runtime,
           state' = v.state, active' = v.active, origin' \in Clock, duration' \in Nat,
           GivenUpIn(v), serving' = TRUE, UNCHANGED <<meta, mode, allocator, lastIssued>>,
           now' = now, owner' \in {"LISTENING", "EVENT_TX"}, past' = q
    PROVE  DeliveryInv'
  <1>1. v \in Views /\ v.records \in [Slots -> Records] /\ v.runtime \in [Slots -> Runtimes]
        /\ v.active \in Slots \cup {NoSlot}
    BY ViewFields, Zenon DEF Sound
  <1>2. SInv'
    <2>1. \A s \in Slots : Descends(slots[s], cell'[s]) /\ Descends(cell'[s], v.records[s])
      BY Zenon DEF Sound, Descends
    <2>2. SInv
      BY Zenon DEF DeliveryInv
    <2> QED
      BY <1>1, <2>1, <2>2, StoreKept, Zenon DEF GivenUpIn
  <1>3. DeliveryTypeOK'
    <2>1. TypeOK'
      BY <1>2 DEF SInv
    <2>2. now' \in Clock
      BY InvTypes
    <2> QED
      BY <1>1, <2>1, <2>2, Zenon DEF DeliveryTypeOK, Clock, Runtimes, Pasts
  <1>4. \A s \in Slots : Recorded(cell'[s], past'[s])
    OBVIOUS
  <1>5. /\ View.records' = v.records /\ View.runtime' = v.runtime
        /\ View.state' = v.state /\ View.active' = v.active
    BY DEF View
  <1>6. Led(View)'
    BY <1>5, Zenon DEF Led, Live, Heads, IdentityLess
  <1>7. AllCharging(View, past)'
    <2>1. \A s \in Slots : v.records[s].state = "QUEUED" =>
             Charging(v.records[s], v.runtime[s], q[s])
      BY Zenon DEF AllCharging
    <2> QED
      BY <1>5, <2>1, Zenon DEF AllCharging, Charging, Charge, Elapsed
  <1> QED
    BY <1>2, <1>3, <1>4, <1>6, <1>7, Zenon DEF DeliveryInv

LEMMA UntrackedRuntime == Untracked \in Runtimes
  BY Constants DEF Untracked, Runtimes, Clock

LEMMA Stopped ==
    ASSUME DeliveryInv, SInv', serving' = FALSE, ResetController,
           now' \in {0, now}, owner' \in {"LISTENING", "EVENT_TX"},
           past' \in [Slots -> Pasts], \A s \in Slots : Recorded(cell'[s], past'[s])
    PROVE  DeliveryInv'
  <1>1. TypeOK' /\ now' \in Clock /\ owner' \in {"LISTENING", "EVENT_TX"}
    BY InvTypes, Constants DEF SInv
  <1>2. runtime' \in [Slots -> Runtimes]
    BY UntrackedRuntime DEF ResetController
  <1>3. /\ state' \in States /\ active' \in Slots \cup {NoSlot}
        /\ origin' \in Clock /\ duration' \in Nat
    BY StateNames, Constants DEF ResetController
  <1>4. DeliveryTypeOK'
    BY <1>1, <1>2, <1>3, Zenon DEF DeliveryTypeOK, Clock, Runtimes, Pasts
  <1> QED
    BY <1>4, Zenon DEF DeliveryInv, ResetController

(* What a handler that stops may leave of the radio *)
LEMMA OwnersLeft ==
    ASSUME DeliveryInv
    PROVE  /\ {owner} \subseteq GrantedThenListening
           /\ {"LISTENING", owner} \subseteq GrantedThenListening
  BY InvTypes DEF GrantedThenListening

LEMMA Broken ==
    ASSUME DeliveryInv, mode = "READY", NEW v, NEW A, Sound(v, A), cell' \in v.trail,
           NEW owners, owners \subseteq GrantedThenListening,
           GivenUpIn(v), StopDelivery(owners), UNCHANGED <<meta, lastIssued>>,
           past' \in [Slots -> Pasts], \A s \in Slots : Recorded(cell'[s], past'[s])
    PROVE  DeliveryInv'
  <1>1. v \in Views /\ v.records \in [Slots -> Records] /\ cell' \in [Slots -> Records]
    BY ViewFields, Zenon DEF Sound
  <1>2. \A s \in Slots : Descends(slots[s], cell'[s]) /\ Descends(cell'[s], v.records[s])
    BY Zenon DEF Sound
  <1>3. SInv'
    BY <1>1, <1>2, StoreKept, Zenon DEF GivenUpIn, StopDelivery, DeliveryInv
  <1> QED
    BY <1>3, Stopped, Zenon DEF StopDelivery, GrantedThenListening

LEMMA InterruptedInv ==
    ASSUME DeliveryInv, mode = "READY", NEW v, Good(v, past),
           NEW owners, owners \subseteq GrantedThenListening, Interrupted(v, owners)
    PROVE  DeliveryInv'
  <1>1. Sound(v, Accounted(past)) /\ past' = past /\ cell' \in v.trail
    BY DEF Good, Interrupted
  <1>2. past' \in [Slots -> Pasts]
    BY <1>1, InvTypes, Zenon
  <1>3. \A s \in Slots : Recorded(cell'[s], past'[s])
    BY <1>1, AccountedFor, Zenon DEF Sound
  <1> QED
    BY <1>1, <1>2, <1>3, Broken, Zenon DEF Interrupted

LEMMA InstallInv ==
    ASSUME DeliveryInv, InService, NEW v, Good(v, past), Install(v), now' = now,
           owner' \in {"LISTENING", "EVENT_TX"}, NEW q \in [Slots -> Pasts], past' = q,
           \A s \in Slots : Recorded(v.records[s], q[s]), AllCharging(v, q)
    PROVE  DeliveryInv'
  <1>1. /\ Sound(v, Accounted(past)) /\ v \in Views /\ v.state \in States /\ Led(v)
        /\ v.origin \in Clock /\ v.duration \in Nat
    BY ViewFields, Zenon DEF Good, Sound
  <1>2. serving' = TRUE
    BY <1>1, StateNames, Zenon DEF Install
  <1> QED
    BY <1>1, <1>2, Installed, Zenon DEF Install, InService

(* The history may be forgotten with the event *)
LEMMA Forgotten ==
    ASSUME NEW p \in [Slots -> Pasts], NEW v, Good(v, p), NEW q,
           \A s \in Slots : Owned(v.records[s]) => q[s] = p[s]
    PROVE  AllCharging(v, q) /\ \A s \in Slots : Recorded(v.records[s], q[s])
  <1>1. AllCharging(v, p) /\ \A s \in Slots : Recorded(v.records[s], p[s])
    BY AccountedFor, Zenon DEF Good, Sound
  <1> QED
    BY <1>1, Zenon DEF AllCharging, Recorded, Owned

-----------------------------------------------------------------------------
(* Every step keeps the invariant *)

LEMMA NotServing == DeliveryInv /\ mode # "READY" => serving = FALSE
  BY DEF DeliveryInv, DeliveryTypeOK

LEMMA UnownedRecorded ==
    ASSUME NEW r, ~Owned(r), NEW p PROVE Recorded(r, p)
  BY DEF Recorded, Owned

(* No event is added or changed while the delivery does not run *)
LEMMA QuietInv ==
    ASSUME DeliveryInv, SInv', serving = FALSE,
           UNCHANGED <<now, serving, controller, owner, past>>,
           \A s \in Slots : Owned(cell'[s]) => cell'[s] = cell[s]
    PROVE  DeliveryInv'
  <1>1. DeliveryTypeOK'
    BY Zenon DEF DeliveryInv, DeliveryTypeOK, SInv, controller
  <1>2. \A s \in Slots : Recorded(cell'[s], past'[s])
    BY UnownedRecorded, Zenon DEF DeliveryInv
  <1> QED
    BY <1>1, <1>2, Zenon DEF DeliveryInv, controller

LEMMA InvStoreRecover == DeliveryInv /\ StoreRecover => DeliveryInv'
  <1> SUFFICES ASSUME DeliveryInv, StoreRecover PROVE DeliveryInv'
    OBVIOUS
  <1>1. SInv /\ Recover /\ mode = "OFF" /\ cell' = BootCells
    BY Zenon DEF DeliveryInv, StoreRecover, Recover
  <1>2. SInv'
    BY <1>1, SInvRecover
  <1>3. \A s \in Slots : Owned(cell'[s]) => cell'[s] = cell[s]
    BY <1>1, BootCellsKeepFlash
  <1> QED
    BY <1>1, <1>2, <1>3, NotServing, QuietInv, Zenon DEF StoreRecover

LEMMA InvStoreRecoverFails == DeliveryInv /\ StoreRecoverFails => DeliveryInv'
  <1> SUFFICES ASSUME DeliveryInv, StoreRecoverFails PROVE DeliveryInv'
    OBVIOUS
  <1>0. SInv /\ mode = "OFF"
    BY Zenon DEF DeliveryInv, StoreRecoverFails, RecoverFails, FormatFails, FreshMetadataFails
  <1>1. CASE RecoverFails
    <2>1. SInv'
      BY <1>0, <1>1, SInvNext DEF Next
    <2>2. cell' = cell
      BY <1>1 DEF RecoverFails, flash
    <2> QED
      BY <1>0, <2>1, <2>2, NotServing, QuietInv DEF StoreRecoverFails
  <1>2. CASE FormatFails
    <2>1. SInv'
      BY <1>0, <1>2, SInvFormatFails
    <2>2. \A s \in Slots : ~Owned(cell'[s])
      <3>1. PICK last \in Slots, left \in InDoubt(Missing, Free) :
                cell' = [s \in Slots |-> IF s < last THEN Free
                                         ELSE IF s = last THEN left ELSE Missing]
        BY <1>2 DEF FormatFails
      <3>2. left \in {Missing, [Missing EXCEPT !.state = "INVALID"], Free}
        BY EmptyShape DEF InDoubt
      <3>3. [Missing EXCEPT !.state = "INVALID"].state = "INVALID"
        BY DEF Missing, Nothing
      <3>4. ~Owned(left) /\ ~Owned(Free) /\ ~Owned(Missing)
        BY <3>2, <3>3, EmptyShape, Zenon DEF Owned
      <3> QED
        BY <3>1, <3>4
    <2> QED
      BY <1>0, <2>1, <2>2, NotServing, QuietInv, Zenon DEF StoreRecoverFails
  <1>3. CASE FreshMetadataFails
    <2>1. SInv' /\ cell' = BootCells
      BY <1>0, <1>3, SInvFreshMetadataFails DEF FreshMetadataFails
    <2>2. \A s \in Slots : Owned(cell'[s]) => cell'[s] = cell[s]
      BY <1>0, <2>1, BootCellsKeepFlash
    <2> QED
      BY <1>0, <2>1, <2>2, NotServing, QuietInv, Zenon DEF StoreRecoverFails
  <1> QED
    BY <1>1, <1>2, <1>3 DEF StoreRecoverFails

LEMMA InvServiceOnly ==
    ASSUME DeliveryInv, NEW sync \in Sync, NEW jitter \in Jitters,
           ServiceOnly(sync, jitter)
    PROVE  DeliveryInv'
  <1>1. InService /\ mode = "READY" /\ serving /\ sync \in BOOLEAN
    BY Zenon DEF ServiceOnly, InService, Sync
  <1>2. /\ slots \in [Slots -> Records] /\ now \in Clock /\ past \in [Slots -> Pasts]
        /\ owner \in {"LISTENING", "EVENT_TX"} /\ Good(View, past)
    BY <1>1, InvTypes, ViewGood
  <1>3. PICK v : /\ v = Serviced(View, sync, jitter)
                 /\ \/ /\ Install(v)
                       /\ IF Restores(v) THEN StartListening ELSE UNCHANGED owner
                       /\ UNCHANGED <<now, past>>
                    \/ Interrupted(v, {owner})
    BY DEF ServiceOnly
  <1>4. Good(v, past)
    BY <1>1, <1>2, <1>3, ServicedGood
  <1>5. CASE Interrupted(v, {owner})
    BY <1>1, <1>4, <1>5, OwnersLeft, InterruptedInv, Zenon
  <1>6. CASE /\ Install(v)
             /\ IF Restores(v) THEN StartListening ELSE UNCHANGED owner
             /\ UNCHANGED <<now, past>>
    <2>1. AllCharging(v, past) /\ \A s \in Slots : Recorded(v.records[s], past[s])
      BY <1>2, <1>4, Forgotten, Zenon
    <2>2. owner' \in {"LISTENING", "EVENT_TX"}
      BY <1>2, <1>6 DEF StartListening
    <2> QED
      BY <1>1, <1>2, <1>4, <1>6, <2>1, <2>2, InstallInv
  <1> QED
    BY <1>3, <1>5, <1>6

LEMMA InvServiceReclaims ==
    ASSUME DeliveryInv, NEW jitter \in Jitters, ServiceReclaims(jitter)
    PROVE  DeliveryInv'
  <1>1. InService /\ mode = "READY" /\ serving /\ owner = "LISTENING"
    BY DEF ServiceReclaims, InService
  <1>2. /\ slots \in [Slots -> Records] /\ now \in Clock /\ past \in [Slots -> Pasts]
        /\ Good(View, past)
    BY <1>1, InvTypes, ViewGood
  <1>3. PICK v, w :
            /\ v = Serviced(View, FALSE, jitter) /\ w = Reclaimed(v)
            /\ \/ /\ Install(w)
                  /\ past' = [s \in Slots |-> IF s \in Terminals(v) THEN Unborn
                                                                    ELSE past[s]]
                  /\ UNCHANGED <<now, owner>>
               \/ Interrupted(w, {owner})
    BY Zenon DEF ServiceReclaims
  <1>4. Good(v, past) /\ v \in Views
    BY <1>1, <1>2, <1>3, ServicedGood, Zenon
  <1>5. Good(w, past) /\ \A s \in Terminals(v) : w.records[s] = Free
    BY <1>2, <1>3, <1>4, ReclaimedGood, Zenon
  <1>6. CASE Interrupted(w, {owner})
    BY <1>1, <1>5, <1>6, OwnersLeft, InterruptedInv, Zenon
  <1>7. CASE /\ Install(w)
             /\ past' = [s \in Slots |-> IF s \in Terminals(v) THEN Unborn ELSE past[s]]
             /\ UNCHANGED <<now, owner>>
    <2>1. PICK q : q = [s \in Slots |-> IF s \in Terminals(v) THEN Unborn ELSE past[s]]
      BY Zenon
    <2>2. q \in [Slots -> Pasts]
      BY <1>2, <2>1, UnbornFacts
    <2>3. \A s \in Slots : Owned(w.records[s]) => q[s] = past[s]
      BY <1>5, <2>1, EmptyShape, Zenon
    <2>4. AllCharging(w, q) /\ \A s \in Slots : Recorded(w.records[s], q[s])
      BY <1>2, <1>5, <2>3, Forgotten, Zenon
    <2>5. past' = q /\ now' = now /\ owner' \in {"LISTENING", "EVENT_TX"}
      BY <1>1, <1>7, <2>1
    <2> QED
      BY <1>1, <1>5, <1>7, <2>2, <2>4, <2>5, InstallInv, Zenon
  <1> QED
    BY <1>3, <1>6, <1>7, Zenon

LEMMA SentOnce ==
    ASSUME NEW p \in Pasts, NEW n \in Nat
    PROVE  LET q == [p EXCEPT !.sent = n]
           IN  /\ q \in Pasts /\ q.sent = n
               /\ \A r : Recorded(r, p) /\ (Owned(r) => n <= r.attempts) => Recorded(r, q)
               /\ \A r, u : Charging(r, u, p) => Charging(r, u, q)
  <1> DEFINE q == [p EXCEPT !.sent = n]
  <1>1. q \in Pasts /\ q.sent = n /\ q.age = p.age /\ q.debits = p.debits
    BY DEF Pasts
  <1> HIDE DEF q
  <1>2. \A x : (Lived(p, x) <=> Lived(q, x)) /\ (Young(p, x) <=> Young(q, x))
    BY <1>1 DEF Lived, Young
  <1>3. \A r : Recorded(r, p) /\ (Owned(r) => n <= r.attempts) => Recorded(r, q)
    BY <1>1, <1>2, Zenon DEF Recorded
  <1>4. \A r, u : Charging(r, u, p) => Charging(r, u, q)
    BY <1>2 DEF Charging
  <1> QED
    BY <1>1, <1>3, <1>4 DEF q

(* What the service leaves a READY controller to transmit *)
LEMMA RequestedHead ==
    ASSUME NEW p, NEW v, Good(v, p), v.state = "READY"
    PROVE  v.active \in Heads(v.records)
  BY Zenon DEF Good, Led, Live

LEMMA OneMoreEach == ASSUME NEW k \in Nat, NEW n \in Nat, k <= n PROVE k + 1 <= n + 1
  OBVIOUS

LEMMA InvServiceTransmits ==
    ASSUME DeliveryInv, NEW jitter \in Jitters, ServiceTransmits(jitter)
    PROVE  DeliveryInv'
  <1>1. InService /\ mode = "READY" /\ serving /\ owner = "LISTENING"
    BY DEF ServiceTransmits, InService
  <1>2. /\ slots \in [Slots -> Records] /\ now \in Clock /\ past \in [Slots -> Pasts]
        /\ Good(View, past)
    BY <1>1, InvTypes, ViewGood
  <1>3. PICK v, w :
            /\ v = Serviced(View, FALSE, jitter) /\ w = Granted(v) /\ v.state = "READY"
            /\ \/ /\ Install(w)
                  /\ owner' \in IF w.state = "TX" THEN {"EVENT_TX"}
                                                   ELSE GrantedThenListening
                  /\ past' = [past EXCEPT ![w.active].sent =
                                            IF w.state = "TX" THEN @ + 1 ELSE @]
                  /\ UNCHANGED now
               \/ Interrupted(w, GrantedThenListening)
    BY Zenon DEF ServiceTransmits, Requests
  <1>4. Good(v, past) /\ v \in Views
    BY <1>1, <1>2, <1>3, ServicedGood, Zenon
  <1>5. v.active \in Heads(v.records)
    BY <1>3, <1>4, RequestedHead, Zenon
  <1>6. /\ Good(w, past) /\ w \in Views /\ w.active = v.active
        /\ w.state = "TX" =>
               w.records[w.active].attempts = v.records[v.active].attempts + 1
    BY <1>2, <1>3, <1>4, <1>5, GrantedGood, Zenon
  <1>7. CASE Interrupted(w, GrantedThenListening)
    BY <1>1, <1>6, <1>7, InterruptedInv, Zenon
  <1>8. CASE /\ Install(w)
             /\ owner' \in IF w.state = "TX" THEN {"EVENT_TX"} ELSE GrantedThenListening
             /\ past' = [past EXCEPT ![w.active].sent = IF w.state = "TX" THEN @ + 1 ELSE @]
             /\ UNCHANGED now
    <2> DEFINE a == v.active
               n == IF w.state = "TX" THEN past[a].sent + 1 ELSE past[a].sent
               e == [past[a] EXCEPT !.sent = n]
               q == [past EXCEPT ![a] = e]
    <2>1. a \in Slots /\ v.records[a].state = "QUEUED" /\ past[a] \in Pasts
      BY <1>2, <1>5, HeadQueued, Zenon
    <2>2. past[a].sent \in Nat /\ n \in Nat
      BY <2>1, PastFacts
    <2>3. past' = q
      BY <1>2, <1>6, <1>8, <2>1
    <2>4. /\ AllCharging(w, past) /\ \A s \in Slots : Recorded(w.records[s], past[s])
          /\ \A s \in Slots : Recorded(v.records[s], past[s])
      BY <1>2, <1>4, <1>6, Forgotten, Zenon
    <2>5. Owned(w.records[a]) => n <= w.records[a].attempts
      <3>1. past[a].sent <= v.records[a].attempts /\ v.records[a].attempts \in Nat
        <4>1. v.records[a] \in Records
          BY <1>4, <2>1, ViewFields, Zenon
        <4> QED
          BY <2>1, <2>4, <4>1, QueuedNumbers, Zenon DEF Recorded
      <3>2. CASE w.state = "TX"
        <4>1. w.records[a].attempts = v.records[a].attempts + 1 /\ n = past[a].sent + 1
          BY <1>6, <3>2, Zenon
        <4>2. past[a].sent \in Nat
          BY <2>2, Zenon
        <4> QED
          BY <3>1, <4>1, <4>2, OneMoreEach, Zenon
      <3>3. CASE w.state # "TX"
        BY <2>1, <2>4, <3>3, Zenon DEF Recorded
      <3> QED
        BY <3>2, <3>3, Zenon
    <2> HIDE DEF n
    <2>6. /\ e \in Pasts
          /\ \A r : Recorded(r, past[a]) /\ (Owned(r) => n <= r.attempts) => Recorded(r, e)
          /\ \A r, u : Charging(r, u, past[a]) => Charging(r, u, e)
      BY <2>1, <2>2, SentOnce
    <2> HIDE DEF e
    <2>7. q \in [Slots -> Pasts] /\ q[a] = e /\ \A s \in Slots : s # a => q[s] = past[s]
      BY <1>2, <2>1, <2>6, Zenon
    <2> HIDE DEF q
    <2>8. \A s \in Slots : Recorded(w.records[s], q[s])
      BY <2>1, <2>4, <2>5, <2>6, <2>7, Zenon
    <2>9. AllCharging(w, q)
      BY <2>1, <2>4, <2>6, <2>7, Zenon DEF AllCharging
    <2>10. owner' \in {"LISTENING", "EVENT_TX"} /\ now' = now
      BY <1>8 DEF GrantedThenListening
    <2> QED
      BY <1>1, <1>6, <1>8, <2>3, <2>7, <2>8, <2>9, <2>10, InstallInv
  <1> QED
    BY <1>3, <1>7, <1>8, Zenon

LEMMA InvServiceStartFails ==
    ASSUME DeliveryInv, NEW jitter \in Jitters, ServiceStartFails(jitter)
    PROVE  DeliveryInv'
  <1>1. InService /\ mode = "READY" /\ serving /\ owner = "LISTENING"
    BY DEF ServiceStartFails, InService
  <1>2. /\ slots \in [Slots -> Records] /\ now \in Clock /\ past \in [Slots -> Pasts]
        /\ Good(View, past)
    BY <1>1, InvTypes, ViewGood
  <1>3. PICK v, granted, w :
            /\ v = Serviced(View, FALSE, jitter) /\ granted = Granted(v)
            /\ v.state = "READY" /\ granted.state = "TX"
            /\ w = FailedAttempt(granted, jitter)
            /\ \/ /\ Install(w)
                  /\ owner' \in GrantedThenListening
                  /\ UNCHANGED <<now, past>>
               \/ Interrupted(w, GrantedThenListening)
    BY Zenon DEF ServiceStartFails, Requests
  <1>4. Good(v, past) /\ v \in Views
    BY <1>1, <1>2, <1>3, ServicedGood, Zenon
  <1>5. v.active \in Heads(v.records)
    BY <1>3, <1>4, RequestedHead, Zenon
  <1>6. Good(granted, past) /\ granted.active \in Heads(granted.records)
    BY <1>2, <1>3, <1>4, <1>5, GrantedGood, Zenon
  <1>7. granted.records[granted.active].attempts >= 1
    BY <1>3, <1>6, Zenon DEF Good, Led
  <1>8. Good(w, past)
    BY <1>2, <1>3, <1>6, <1>7, FailedAttemptGood, Zenon
  <1>9. CASE Interrupted(w, GrantedThenListening)
    BY <1>1, <1>8, <1>9, InterruptedInv, Zenon
  <1>10. CASE /\ Install(w) /\ owner' \in GrantedThenListening
              /\ UNCHANGED <<now, past>>
    <2>1. AllCharging(w, past) /\ \A s \in Slots : Recorded(w.records[s], past[s])
      BY <1>2, <1>8, Forgotten, Zenon
    <2>2. owner' \in {"LISTENING", "EVENT_TX"}
      BY <1>10 DEF GrantedThenListening
    <2> QED
      BY <1>1, <1>2, <1>8, <1>10, <2>1, <2>2, InstallInv
  <1> QED
    BY <1>3, <1>9, <1>10, Zenon

LEMMA OwnerAlone ==
    ASSUME DeliveryInv, UNCHANGED <<vars, now, serving, controller, past>>,
           owner' \in {"LISTENING", "EVENT_TX"}
    PROVE  DeliveryInv'
  <1>1. SInv'
    BY SInvNext, Zenon DEF DeliveryInv
  <1>2. UNCHANGED <<slots, cell, mode, runtime, state, active, origin, duration>>
    BY DEF vars, flash, ram, controller
  <1>3. DeliveryTypeOK'
    BY <1>1, <1>2, Zenon DEF DeliveryInv, DeliveryTypeOK, SInv
  <1>4. Led(View)' <=> Led(View)
    BY <1>2, Zenon DEF Led, Live, Heads, IdentityLess, View
  <1>5. AllCharging(View, past)' <=> AllCharging(View, past)
    BY <1>2, Zenon DEF AllCharging, Charging, Charge, Elapsed, View
  <1> QED
    BY <1>1, <1>2, <1>3, <1>4, <1>5, Zenon DEF DeliveryInv

LEMMA TransmittingView ==
    ASSUME DeliveryInv, InService, state = "TX"
    PROVE  LET v == LifetimeServiced(View)
           IN  /\ Good(v, past) /\ v \in Views
               /\ v.state # "EXPIRED" =>
                      /\ v.active \in Heads(v.records)
                      /\ v.records[v.active].attempts >= 1
  <1> DEFINE v == LifetimeServiced(View)
  <1>1. /\ slots \in [Slots -> Records] /\ now \in Clock /\ past \in [Slots -> Pasts]
        /\ Good(View, past) /\ View.state = "TX"
    BY InvTypes, ViewGood, Zenon DEF InService, View
  <1>2. View.active \in Slots
    BY <1>1, HeadQueued, Zenon DEF Good, Led, Live
  <1>3. /\ v \in Views /\ Good(v, past) /\ (v.state = "TX" \/ v.state = "EXPIRED")
    BY <1>1, <1>2, LifetimeServicedGood, Zenon
  <1> HIDE DEF v
  <1>4. v.state # "EXPIRED" => /\ v.active \in Heads(v.records)
                               /\ v.records[v.active].attempts >= 1
    BY <1>3, Zenon DEF Good, Led, Live
  <1> QED
    BY <1>3, <1>4, Zenon DEF v

LEMMA InvTxCompleted == DeliveryInv /\ TxCompleted => DeliveryInv'
  <1> SUFFICES ASSUME DeliveryInv, TxCompleted PROVE DeliveryInv'
    OBVIOUS
  <1>1. /\ owner' \in {"LISTENING", "EVENT_TX"} /\ UNCHANGED <<now, past>>
    BY DEF TxCompleted, StartListening
  <1>2. CASE state # "TX" /\ UNCHANGED <<vars, serving, controller>>
    BY <1>1, <1>2, OwnerAlone
  <1>3. CASE /\ InService /\ state = "TX"
             /\ \E v \in {LifetimeServiced(View)} :
                    Install(IF v.state = "EXPIRED" THEN v
                            ELSE [v EXCEPT !.state = "WAIT_ADMISSION", !.origin = now,
                                           !.duration = AdmissionTimeout])
    <2>0. past \in [Slots -> Pasts] /\ now \in Clock /\ mode = "READY"
      BY <1>3, InvTypes DEF InService
    <2>1. PICK v, w : /\ v = LifetimeServiced(View) /\ Install(w)
                      /\ w = IF v.state = "EXPIRED" THEN v
                             ELSE [v EXCEPT !.state = "WAIT_ADMISSION", !.origin = now,
                                            !.duration = AdmissionTimeout]
      BY <1>3, Zenon
    <2>2. /\ Good(v, past) /\ v \in Views
          /\ v.state # "EXPIRED" => /\ v.active \in Heads(v.records)
                                    /\ v.records[v.active].attempts >= 1
      BY <1>3, <2>1, TransmittingView
    <2>3. Good(w, past)
      <3>1. CASE v.state = "EXPIRED"
        BY <2>1, <2>2, <3>1
      <3>2. CASE v.state # "EXPIRED"
        <4>1. w = [v EXCEPT !.state = "WAIT_ADMISSION", !.origin = now,
                            !.duration = AdmissionTimeout]
          BY <2>1, <3>2
        <4>2. /\ w \in Views /\ w.records = v.records /\ w.runtime = v.runtime
              /\ w.active = v.active /\ w.trail = v.trail /\ w.state = "WAIT_ADMISSION"
          BY <2>0, <2>2, <4>1, StateNames, Constants, Zenon DEF Views
        <4>3. Led(w)
          BY <2>2, <3>2, <4>2, Zenon DEF Led
        <4> QED
          BY <2>2, <4>2, <4>3, GoodAgain, Zenon
      <3> QED
        BY <3>1, <3>2
    <2>4. AllCharging(w, past) /\ \A s \in Slots : Recorded(w.records[s], past[s])
      BY <2>0, <2>3, Forgotten, Zenon
    <2> QED
      BY <1>1, <1>3, <2>0, <2>1, <2>3, <2>4, InstallInv, Zenon
  <1> QED
    BY <1>2, <1>3 DEF TxCompleted

LEMMA InvTxCompletedFails == DeliveryInv /\ TxCompletedFails => DeliveryInv'
  <1> SUFFICES ASSUME DeliveryInv, TxCompletedFails PROVE DeliveryInv'
    OBVIOUS
  <1>1. InService /\ state = "TX" /\ mode = "READY"
    BY DEF TxCompletedFails, InService
  <1>2. PICK v : v = LifetimeServiced(View) /\ Interrupted(v, {"LISTENING", owner})
    BY DEF TxCompletedFails
  <1>3. Good(v, past)
    BY <1>1, <1>2, TransmittingView, Zenon
  <1> QED
    BY <1>1, <1>2, <1>3, OwnersLeft, InterruptedInv, Zenon

LEMMA InvAdmissionCandidate ==
    ASSUME DeliveryInv, NEW matches \in BOOLEAN, NEW status \in Statuses,
           NEW jitter \in Jitters, AdmissionCandidate(matches, status, jitter)
    PROVE  DeliveryInv'
  <1>1. /\ InService /\ mode = "READY" /\ serving /\ owner = "LISTENING"
        /\ state = "WAIT_ADMISSION"
    BY Zenon DEF AdmissionCandidate, InService
  <1>2. /\ slots \in [Slots -> Records] /\ now \in Clock /\ past \in [Slots -> Pasts]
        /\ Good(View, past)
    BY <1>1, InvTypes, ViewGood
  <1>3. PICK v : /\ v = Answered(matches, status, jitter)
                 /\ \/ /\ Install(v)
                       /\ past' = [s \in Slots |-> IF v.records[s].state = "FREE"
                                                      THEN Unborn ELSE past[s]]
                       /\ UNCHANGED <<now, owner>>
                    \/ Interrupted(v, {owner})
    BY Zenon DEF AdmissionCandidate
  <1>4. Good(v, past)
    BY <1>1, <1>2, <1>3, AnsweredGood, Zenon
  <1>5. CASE Interrupted(v, {owner})
    BY <1>1, <1>4, <1>5, OwnersLeft, InterruptedInv, Zenon
  <1>6. CASE /\ Install(v)
             /\ past' = [s \in Slots |-> IF v.records[s].state = "FREE"
                                            THEN Unborn ELSE past[s]]
             /\ UNCHANGED <<now, owner>>
    <2>1. PICK q : q = [s \in Slots |-> IF v.records[s].state = "FREE"
                                           THEN Unborn ELSE past[s]]
      BY Zenon
    <2>2. q \in [Slots -> Pasts]
      BY <1>2, <2>1, UnbornFacts, Zenon
    <2>3. \A s \in Slots : Owned(v.records[s]) => q[s] = past[s]
      BY <2>1 DEF Owned
    <2>4. AllCharging(v, q) /\ \A s \in Slots : Recorded(v.records[s], q[s])
      BY <1>2, <1>4, <2>3, Forgotten, Zenon
    <2>5. past' = q /\ now' = now /\ owner' \in {"LISTENING", "EVENT_TX"}
      BY <1>1, <1>6, <2>1, Zenon
    <2> QED
      BY <1>1, <1>4, <1>6, <2>2, <2>4, <2>5, InstallInv, Zenon
  <1> QED
    BY <1>3, <1>5, <1>6, Zenon

(* A second passes for a queued event that is served in time *)
LEMMA TickCharges ==
    ASSUME now \in Clock, now' = (now + 1) % ClockRange, NEW r \in Records,
           r.state = "QUEUED", NEW u \in Runtimes, NEW p \in Pasts,
           p.sent <= r.attempts, Charging(r, u, p), Elapsed(u.baseline) < MaxGap
    PROVE  Charging(r, u, Older(p))' /\ Recorded(r, Older(p))
  <1> DEFINE q == Older(p)
             c == Charge(r, u)
  <1>1. u.baseline \in Clock /\ u.uncommitted \in Nat /\ Elapsed(u.baseline) \in Nat
    BY RuntimeNumbers DEF Runtimes
  <1>2. Elapsed(u.baseline)' = Elapsed(u.baseline) + 1
    BY <1>1, TickSeen
  <1>3. Used(r) \in Nat
    BY QueuedNumbers
  <1>4. c \in Nat /\ c = Used(r) + u.uncommitted + Elapsed(u.baseline)
    BY <1>1, <1>3 DEF Charge
  <1>5. Used(r) + u.uncommitted + Elapsed(u.baseline)' = c + 1
    BY <1>1, <1>2, <1>3, <1>4
  <1> HIDE DEF c
  <1>6. /\ q \in Pasts /\ q.sent = p.sent /\ Lived(q, c + 1) /\ Young(q, c + 1)
    BY <1>4, Tick1 DEF Charging, c
  <1> HIDE DEF q
  <1>7. u.tracked /\ u.uncommitted < Checkpoint
    BY DEF Charging
  <1>8. Elapsed(u.baseline)' <= MaxGap
    BY <1>1, <1>2, Constants
  <1>9. /\ Used(r) <= c + 1 /\ c + 1 <= Used(r) + Checkpoint - 1 + MaxGap
        /\ c + 1 \in Int /\ Used(r) + Checkpoint - 1 + MaxGap \in Int
    <2>1. PICK e \in Nat : e = Elapsed(u.baseline)
      BY <1>1
    <2>2. PICK x \in Nat : x = Used(r)
      BY <1>3
    <2>3. PICK y \in Nat : y = u.uncommitted
      BY <1>1
    <2>4. c = x + y + e /\ e < MaxGap /\ y < Checkpoint
      BY <1>4, <1>7, <2>1, <2>2, <2>3
    <2>5. /\ x <= c + 1 /\ c + 1 <= x + Checkpoint - 1 + MaxGap
          /\ c + 1 \in Int /\ x + Checkpoint - 1 + MaxGap \in Int
      BY <2>4, Constants
    <2> QED
      BY <2>2, <2>5
  <1>10. Lived(q, Used(r)) /\ Young(q, Used(r) + Checkpoint - 1 + MaxGap)
    BY <1>3, <1>6, <1>9, LivedLess, YoungMore
  <1>11. Recorded(r, q)
    BY <1>6, <1>10, Zenon DEF Recorded
  <1>12. Charging(r, u, q)'
    BY <1>5, <1>6, <1>7, <1>8, Zenon DEF Charging, Charge, Elapsed
  <1> QED
    BY <1>11, <1>12 DEF q

LEMMA InvTick == DeliveryInv /\ Tick => DeliveryInv'
  <1> SUFFICES ASSUME DeliveryInv, Tick PROVE DeliveryInv'
    OBVIOUS
  <1>1. /\ now' = (now + 1) % ClockRange
        /\ past' = [s \in Slots |-> IF serving /\ slots[s].state = "QUEUED"
                                       THEN Older(past[s]) ELSE past[s]]
        /\ UNCHANGED <<vars, serving, controller, owner>>
        /\ serving => \A s \in Slots : Charged(View, s) =>
                           Elapsed(runtime[s].baseline) < MaxGap
    BY Zenon DEF Tick
  <1>2. UNCHANGED <<slots, cell, mode, runtime, state, active, origin, duration>>
    BY <1>1, Zenon DEF vars, flash, ram, controller
  <1>3. SInv'
    BY <1>1, SInvNext, Zenon DEF DeliveryInv
  <1>4. /\ slots \in [Slots -> Records] /\ now \in Clock /\ past \in [Slots -> Pasts]
        /\ cell \in [Slots -> Records]
        /\ runtime \in [Slots -> Runtimes]
    BY InvTypes, Zenon DEF DeliveryInv, DeliveryTypeOK, Runtimes, Clock
  <1>5. now' \in Clock
    <2>1. 0 \in Clock /\ 0 < MaxGap
      BY Constants
    <2>2. Elapsed(now) = 0
      BY <1>4, ElapsedFacts, Zenon
    <2> QED
      BY <1>1, <1>4, <2>1, <2>2, TickSeen, Zenon
  <1>6. past' \in [Slots -> Pasts]
    <2>1. \A s \in Slots : Older(past[s]) \in Pasts
      BY <1>4, Tick1
    <2> QED
      BY <1>1, <1>4, <2>1, Zenon
  <1>7. DeliveryTypeOK'
    BY <1>1, <1>2, <1>3, <1>5, <1>6, Zenon DEF DeliveryInv, DeliveryTypeOK, SInv, Clock, Pasts
  <1>8. CASE ~serving
    <2>1. past' = past
      BY <1>1, <1>4, <1>8, Zenon
    <2> QED
      BY <1>1, <1>2, <1>3, <1>7, <1>8, <2>1, Zenon DEF DeliveryInv
  <1>9. CASE serving
    <2>1. mode = "READY" /\ slots = cell /\ Led(View) /\ AllCharging(View, past)
      BY <1>9, InvTypes, Zenon DEF DeliveryInv
    <2>2. ASSUME NEW s \in Slots, slots[s].state = "QUEUED"
          PROVE  Charging(slots[s], runtime[s], past[s])' /\ Recorded(slots[s], past'[s])
      <3>1. Charging(slots[s], runtime[s], past[s])
        BY <2>1, <2>2, Zenon DEF AllCharging, View
      <3>2. Elapsed(runtime[s].baseline) < MaxGap
        BY <1>1, <1>9, <2>2, <3>1, Zenon DEF Charged, View, Charging
      <3>3. past[s].sent <= slots[s].attempts
        BY <2>1, <2>2, Zenon DEF DeliveryInv, Recorded, Owned
      <3>4. past'[s] = Older(past[s])
        BY <1>1, <1>9, <2>2, Zenon
      <3>5. PICK r \in Records, u \in Runtimes, p \in Pasts :
                r = slots[s] /\ u = runtime[s] /\ p = past[s]
        BY <1>4
      <3>6. Charging(r, u, Older(p))' /\ Recorded(r, Older(p))
        BY <1>1, <1>4, <2>2, <3>1, <3>2, <3>3, <3>5, TickCharges, Zenon
      <3>7. r = slots'[s] /\ u = runtime'[s] /\ past'[s] = Older(p)
        BY <1>2, <3>4, <3>5, Zenon
      <3>8. Charging(slots[s], runtime[s], past[s])'
        BY <3>6, <3>7, Zenon DEF Charging, Charge, Elapsed
      <3> QED
        BY <3>5, <3>6, <3>7, <3>8, Zenon
    <2>3. \A s \in Slots : Recorded(cell'[s], past'[s])
      <3>1. \A s \in Slots : slots[s].state # "QUEUED" => past'[s] = past[s]
        BY <1>1, Zenon
      <3> QED
        BY <1>2, <2>1, <2>2, <3>1, Zenon DEF DeliveryInv
    <2>4. AllCharging(View, past)'
      <3>1. /\ View.records' = slots /\ View.runtime' = runtime' /\ slots' = slots
        BY <1>2, Zenon DEF View
      <3> QED
        BY <2>2, <3>1, Zenon DEF AllCharging
    <2>5. Led(View)'
      BY <1>2, <2>1, Zenon DEF Led, Live, Heads, IdentityLess, View
    <2>6. serving' /\ mode' = "READY"
      BY <1>1, <1>2, <1>9, <2>1, Zenon
    <2> QED
      BY <1>3, <1>7, <2>3, <2>4, <2>5, <2>6, Zenon DEF DeliveryInv
  <1> QED
    BY <1>8, <1>9

LEMMA InvLosePower == DeliveryInv /\ LosePower => DeliveryInv'
  <1> SUFFICES ASSUME DeliveryInv, LosePower PROVE DeliveryInv'
    OBVIOUS
  <1>1. SInv'
    BY SInvNext, Zenon DEF DeliveryInv, LosePower, Next
  <1>2. cell' = cell /\ past' = past
    BY DEF LosePower, PowerLoss, flash
  <1>3. past' \in [Slots -> Pasts] /\ \A s \in Slots : Recorded(cell'[s], past'[s])
    BY <1>2, InvTypes DEF DeliveryInv
  <1> QED
    BY <1>1, <1>3, Stopped, Zenon DEF LosePower

LEMMA InvQuietMaintenance == DeliveryInv /\ QuietMaintenance => DeliveryInv'
  BY OwnerAlone DEF QuietMaintenance

LEMMA OneFreeSlot ==
    ASSUME NEW s \in FreeSlot, NEW t \in FreeSlot PROVE s = t
  <1>1. s \in Int /\ t \in Int /\ s <= t /\ t <= s
    BY DEF FreeSlot, FreeSlots, Slots
  <1> QED
    BY <1>1

(* A new event has used nothing *)
LEMMA NewRecord ==
    ASSUME DeliveryInv, mode = "READY", MustReserve => ~EpochExhausted,
           NEW input \in Inputs
    PROVE  LET r == QueuedRecord(NextIdentity, input)
           IN  /\ r \in Records /\ r.state = "QUEUED" /\ Recorded(r, Unborn)
               /\ Charging(r, TrackedFrom(now), Unborn)
               /\ TrackedFrom(now) \in Runtimes
               /\ \A s \in Slots : Owned(cell[s]) => ~IdentityLess(r, cell[s])
  <1> DEFINE r == QueuedRecord(NextIdentity, input)
             u == TrackedFrom(now)
  <1>1. /\ SInv /\ now \in Clock /\ cell \in [Slots -> Records]
    BY InvTypes, Zenon DEF DeliveryInv
  <1>2. NextIdentity \in Identities /\ IdentityLess(lastIssued, NextIdentity)
    BY <1>1, AllocationFacts, Zenon
  <1>3. /\ r \in Records /\ Owned(r) /\ r.state = "QUEUED"
        /\ r.epoch = NextIdentity.epoch /\ r.id = NextIdentity.id
    BY <1>2, QueuedShape, Zenon
  <1>4. r.attempts = 0 /\ r.lifetime = r.remaining /\ r.lifetime \in Nat
    BY <1>3, QueuedNumbers, Zenon DEF QueuedRecord
  <1> HIDE DEF r
  <1>5. Used(r) = 0
    BY <1>4 DEF Used
  <1>6. /\ u \in Runtimes /\ u.tracked /\ u.baseline = now /\ u.uncommitted = 0
    BY <1>1, Constants DEF TrackedFrom, Runtimes
  <1> HIDE DEF u
  <1>7. Elapsed(now) = 0
    BY <1>1, ElapsedFacts
  <1>8. Charge(r, u) = 0
    BY <1>5, <1>6, <1>7 DEF Charge
  <1>9. 0 + Checkpoint - 1 + MaxGap \in Nat /\ 0 \in Nat
    BY Constants
  <1>10. /\ Lived(Unborn, 0) /\ Young(Unborn, 0) /\ Unborn.sent = 0
         /\ Young(Unborn, 0 + Checkpoint - 1 + MaxGap)
    BY <1>9, UnbornFacts
  <1>11. Recorded(r, Unborn)
    <2>1. Unborn.sent <= r.attempts
      BY <1>4, <1>10
    <2> QED
      BY <1>3, <1>4, <1>5, <1>10, <2>1, Zenon DEF Recorded
  <1>12. Charging(r, u, Unborn)
    BY <1>6, <1>7, <1>8, <1>10, Constants DEF Charging
  <1>13. ASSUME NEW s \in Slots, Owned(cell[s])
         PROVE  ~IdentityLess(r, cell[s])
    <2>1. ~IdentityLess(lastIssued, cell[s])
      BY <1>1, <1>13, Zenon DEF SInv, FlashInv, OwnedIssued
    <2>2. /\ cell[s].epoch \in Int /\ cell[s].id \in Int
          /\ NextIdentity.epoch \in Int /\ NextIdentity.id \in Int
      <3>1. cell[s].epoch \in EventEpochs /\ cell[s].id \in EventIds
        BY <1>1, <1>13, OwnedShape
      <3> QED
        BY <1>2, <3>1 DEF EventEpochs, EventIds, Identities
    <2>3. lastIssued.epoch \in Int /\ lastIssued.id \in Int
      BY <1>1 DEF SInv, TypeOK, NoIdentity, EventEpochs, EventIds
    <2> QED
      BY <1>2, <1>3, <2>1, <2>2, <2>3 DEF IdentityLess
  <1> QED
    BY <1>3, <1>6, <1>11, <1>12, <1>13, Zenon DEF r, u

LEMMA InvCreate ==
    ASSUME DeliveryInv, NEW input \in Inputs, Create(input) PROVE DeliveryInv'
  <1> DEFINE record == QueuedRecord(NextIdentity, input)
  <1>1. PICK target \in FreeSlot :
            /\ cell' = [cell EXCEPT ![target] = record]
            /\ slots' = [slots EXCEPT ![target] = record]
    BY Zenon DEF Create, Enqueue
  <1>2. /\ mode = "READY" /\ mode' = mode /\ serving /\ (MustReserve => ~EpochExhausted)
        /\ runtime' = [s \in Slots |-> IF s \in FreeSlot THEN TrackedFrom(now)
                                                            ELSE runtime[s]]
        /\ past' = [s \in Slots |-> IF s \in FreeSlot THEN Unborn ELSE past[s]]
        /\ UNCHANGED <<now, serving, state, active, origin, duration, owner>>
    BY Zenon DEF Create, Enqueue, Allocate
  <1>3. /\ SInv /\ slots \in [Slots -> Records] /\ slots = cell
        /\ past \in [Slots -> Pasts] /\ runtime \in [Slots -> Runtimes]
        /\ now \in Clock
    BY <1>2, InvTypes, Zenon DEF DeliveryInv, DeliveryTypeOK, Runtimes, Clock
  <1>4. SInv'
    BY <1>3, SInvEnqueue, Zenon DEF Create
  <1>5. target \in Slots /\ slots[target].state = "FREE"
    BY <1>2, <1>3, FreeSlotFacts, Zenon
  <1>6. /\ record \in Records /\ record.state = "QUEUED" /\ Recorded(record, Unborn)
        /\ Charging(record, TrackedFrom(now), Unborn) /\ TrackedFrom(now) \in Runtimes
        /\ \A s \in Slots : Owned(cell[s]) => ~IdentityLess(record, cell[s])
    BY <1>2, NewRecord, Zenon
  <1> HIDE DEF record
  <1>7. /\ slots'[target] = record /\ cell'[target] = record
        /\ runtime'[target] = TrackedFrom(now) /\ past'[target] = Unborn
    BY <1>1, <1>2, <1>3, <1>5, Zenon
  <1>8. ASSUME NEW s \in Slots, s # target
        PROVE  /\ slots'[s] = slots[s] /\ cell'[s] = cell[s]
               /\ runtime'[s] = runtime[s] /\ past'[s] = past[s]
    <2>1. s \notin FreeSlot
      BY <1>8, OneFreeSlot
    <2> QED
      BY <1>1, <1>2, <1>3, <1>8, <2>1, Zenon
  <1>9. runtime' \in [Slots -> Runtimes] /\ past' \in [Slots -> Pasts]
    BY <1>2, <1>3, <1>6, UnbornFacts, Zenon
  <1>10. DeliveryTypeOK'
    BY <1>2, <1>4, <1>9, Zenon DEF DeliveryInv, DeliveryTypeOK, SInv, Runtimes, Pasts, Clock
  <1>11. \A s \in Slots : Recorded(cell'[s], past'[s])
    BY <1>6, <1>7, <1>8, Zenon DEF DeliveryInv
  <1>12. Led(View) /\ AllCharging(View, past)
    BY <1>2, Zenon DEF DeliveryInv
  <1>13. AllCharging(View, past)'
    <2>1. \A s \in Slots : slots'[s].state = "QUEUED" =>
              Charging(slots'[s], runtime'[s], past'[s])
      BY <1>6, <1>7, <1>8, <1>12, Zenon DEF AllCharging, View
    <2> QED
      BY <1>2, <2>1, Zenon DEF AllCharging, Charging, Charge, Elapsed, View
  <1>14. ASSUME Live(View)
         PROVE  active \in Heads(slots') /\ slots'[active] = slots[active]
    <2>1. active \in Heads(slots)
      BY <1>12, <1>14, Zenon DEF Led, View
    <2>2. active \in Slots /\ slots[active].state = "QUEUED" /\ active # target
      BY <1>5, <2>1, HeadQueued, Zenon
    <2>3. slots'[active] = slots[active]
      BY <1>8, <2>2, Zenon
    <2>4. ASSUME NEW t \in Slots, slots'[t].state = "QUEUED"
          PROVE  ~IdentityLess(slots'[t], slots'[active])
      <3>1. CASE t = target
        BY <1>3, <1>6, <1>7, <2>2, <2>3, <3>1, Zenon DEF Owned
      <3>2. CASE t # target
        BY <1>8, <2>1, <2>3, <2>4, <3>2, Zenon DEF Heads
      <3> QED
        BY <3>1, <3>2
    <2> QED
      BY <2>2, <2>3, <2>4, Zenon DEF Heads
  <1>15. Led(View)'
    <2>1. /\ View.records' = slots' /\ View.state' = state /\ View.active' = active
          /\ View.state = state /\ View.active = active /\ View.records = slots
      BY <1>2, Zenon DEF View
    <2>2. Live(View)' <=> Live(View)
      BY <2>1, Zenon DEF Live
    <2>3. Heads(View.records)' = Heads(slots')
      BY <2>1, Zenon DEF Heads, IdentityLess
    <2>4. Live(View)' => View.active' \in Heads(View.records)'
      BY <1>14, <2>1, <2>2, <2>3, Zenon
    <2>5. ASSUME View.state' \in {"TX", "WAIT_ADMISSION"}
          PROVE  View.records'[View.active'].attempts >= 1
      <3>1. Live(View)
        BY <2>1, <2>5, Zenon DEF Live
      <3> QED
        BY <1>12, <1>14, <2>1, <2>5, <3>1, Zenon DEF Led
    <2> QED
      BY <2>4, <2>5, Zenon DEF Led
  <1> QED
    BY <1>2, <1>4, <1>10, <1>11, <1>13, <1>15, Zenon DEF DeliveryInv

LEMMA InvCreateFails ==
    ASSUME DeliveryInv, NEW input \in Inputs, CreateFails(input) PROVE DeliveryInv'
  <1> DEFINE record == QueuedRecord(NextIdentity, input)
  <1>1. /\ SInv /\ mode = "READY" /\ slots = cell /\ cell \in [Slots -> Records]
        /\ past \in [Slots -> Pasts]
        /\ past' = [s \in Slots |-> IF s \in FreeSlot THEN Unborn ELSE past[s]]
    BY InvTypes, Zenon DEF DeliveryInv, CreateFails
  <1>2. past' \in [Slots -> Pasts]
    BY <1>1, UnbornFacts, Zenon
  <1>3. SInv'
    BY <1>1, SInvEnqueueIdentityFails, SInvEnqueueRecordFails, Zenon DEF CreateFails
  <1>4. ASSUME NEW s \in Slots PROVE Recorded(cell'[s], past'[s])
    <2>1. cell[s].state = "FREE" \/ past'[s] = past[s]
      BY <1>1, FreeSlotFacts
    <2>2. Recorded(cell[s], past'[s])
      BY <2>1, UnownedRecorded, Zenon DEF DeliveryInv, Owned
    <2>3. CASE EnqueueIdentityFails
      BY <2>2, <2>3, Zenon DEF EnqueueIdentityFails
    <2>4. CASE EnqueueRecordFails(input)
      <3>1. PICK target, left :
                /\ target \in FreeSlot /\ left \in InDoubt(cell[target], record)
                /\ cell' = [cell EXCEPT ![target] = left]
        BY <2>4, Zenon DEF EnqueueRecordFails
      <3>2. left \in {cell[target], record} /\ target \in Slots
        BY <1>1, <3>1, FreeSlotFacts DEF InDoubt
      <3>3. MustReserve => ~EpochExhausted
        BY <2>4 DEF EnqueueRecordFails, Allocate
      <3>4. Recorded(record, Unborn)
        BY <1>1, <3>3, NewRecord, Zenon
      <3> HIDE DEF record
      <3>5. CASE s = target
        <4>1. past'[s] = Unborn /\ cell'[s] = left
          BY <1>1, <3>1, <3>2, <3>5, Zenon
        <4> QED
          BY <2>2, <3>2, <3>4, <3>5, <4>1, Zenon
      <3>6. CASE s # target
        BY <1>1, <2>2, <3>1, <3>2, <3>6
      <3> QED
        BY <3>5, <3>6, Zenon
    <2> QED
      BY <2>3, <2>4, Zenon DEF CreateFails
  <1> QED
    BY <1>2, <1>3, <1>4, Stopped, InvTypes, Zenon DEF CreateFails

-----------------------------------------------------------------------------
(* setup: Policy::recover debits every queued event one checkpoint *)

BootPast == [s \in Slots |-> IF slots[s].state = "QUEUED" THEN DebitedOnce(past[s])
                                                         ELSE past[s]]

(* A record is untouched, or debited *)
BootAllowed == [s \in Slots |-> {r \in Records : r = slots[s] \/ Recorded(r, BootPast[s])}]

LEMMA BootAllows ==
    ASSUME NEW s \in Slots, NEW r
    PROVE  r \in BootAllowed[s] <=> r \in Records /\ (r = slots[s] \/ Recorded(r, BootPast[s]))
  BY DEF BootAllowed

LEMMA BootRecord ==
    ASSUME now \in Clock, NEW r \in Records, r.state = "QUEUED", NEW p \in Pasts,
           Recorded(r, p)
    PROVE  LET q == DebitedOnce(p)
           IN  /\ q \in Pasts
               /\ r.remaining <= Checkpoint => Recorded(Expired(r), q)
               /\ ~(r.remaining <= Checkpoint) =>
                      /\ Debited(r, 1) \in Records /\ Debited(r, 1).state = "QUEUED"
                      /\ Descends(r, Debited(r, 1)) /\ Recorded(Debited(r, 1), q)
                      /\ Charging(Debited(r, 1), TrackedFrom(now), q)
  <1> DEFINE q == DebitedOnce(p)
             x == Used(r)
             d == Debited(r, 1)
             u == TrackedFrom(now)
  <1>1. /\ r.remaining \in Nat /\ r.lifetime \in Nat /\ x \in Nat /\ Owned(r)
        /\ x = r.lifetime - r.remaining /\ r.attempts \in Nat
    BY QueuedNumbers DEF Used
  <1>2. Lived(p, x) /\ Young(p, x + Checkpoint - 1 + MaxGap) /\ p.sent <= r.attempts
    BY <1>1, Zenon DEF Recorded
  <1> HIDE DEF x
  <1>3. /\ q \in Pasts /\ q.sent = p.sent
        /\ Lived(q, x + Checkpoint) /\ Young(q, x + Checkpoint)
    BY <1>1, <1>2, Boot1
  <1> HIDE DEF q
  <1>4. ASSUME r.remaining <= Checkpoint PROVE Recorded(Expired(r), q)
    <2>1. /\ Expired(r).state \in {"EXPIRED", "FAILED"} /\ Owned(Expired(r))
          /\ Expired(r).attempts = r.attempts /\ Expired(r).lifetime = r.lifetime
      BY TerminalRecord, Zenon
    <2>2. r.lifetime <= x + Checkpoint /\ r.lifetime \in Int /\ x + Checkpoint \in Int
      BY <1>1, <1>4, Constants
    <2>3. Lived(q, r.lifetime)
      BY <1>3, <2>2, LivedLess
    <2> QED
      BY <1>2, <1>3, <2>1, <2>3, Zenon DEF Recorded
  <1>5. ASSUME ~(r.remaining <= Checkpoint)
        PROVE  /\ d \in Records /\ d.state = "QUEUED"
               /\ Descends(r, d) /\ Recorded(d, q) /\ Charging(d, u, q)
    <2>1. 1 * Checkpoint = Checkpoint /\ 1 \in Nat
      BY Constants
    <2>2. 1 * Checkpoint \in Nat /\ 1 * Checkpoint <= r.remaining - 1
      BY <1>1, <1>5, <2>1, Constants
    <2>3. /\ d \in Records /\ d.state = "QUEUED" /\ Descends(r, d)
          /\ d.attempts = r.attempts /\ Used(d) = x + Checkpoint
      BY <2>1, <2>2, DebitedRecord DEF x
    <2> HIDE DEF d
    <2>4. /\ u \in Runtimes /\ u.tracked /\ u.baseline = now /\ u.uncommitted = 0
      BY Constants DEF TrackedFrom, Runtimes
    <2> HIDE DEF u
    <2>5. Elapsed(now) = 0
      BY ElapsedFacts
    <2>6. Charge(d, u) = x + Checkpoint
      BY <1>1, <2>3, <2>4, <2>5, Constants DEF Charge
    <2>7. Charging(d, u, q)
      BY <1>3, <2>4, <2>5, <2>6, Constants DEF Charging
    <2>8. q.sent <= d.attempts
      BY <1>2, <1>3, <2>3, Zenon
    <2> QED
      BY <1>3, <2>3, <2>4, <2>7, <2>8, ChargedIsRecorded, Zenon
  <1> QED
    BY <1>3, <1>4, <1>5, Zenon DEF q, d, u

LEMMA BootDebitedView ==
    ASSUME DeliveryInv, mode = "READY", NEW v, Sound(v, BootAllowed),
           \A s \in Slots : v.records[s] = IF Owned(slots[s]) /\ slots[s].state # "QUEUED"
                                             THEN Free ELSE slots[s]
    PROVE  LET w == BootDebited(v)
           IN  /\ w \in Views /\ w.active = v.active /\ w.state = v.state
               /\ Sound(w, BootAllowed) /\ AllCharging(w, BootPast)
               /\ \A s \in Slots : Recorded(w.records[s], BootPast[s])
               /\ \A s \in Slots : slots[s].state # "QUEUED" => ~Owned(w.records[s])
  <1> DEFINE after == [s \in Slots |->
                     IF v.records[s].state # "QUEUED" THEN v.records[s]
                     ELSE IF v.records[s].remaining <= Checkpoint
                       THEN [v.records[s] EXCEPT !.state = "EXPIRED"]
                     ELSE Debited(v.records[s], 1)]
             steps == [s \in Slots |-> {v.records[s], after[s]}]
             booted == [s \in Slots |-> IF after[s].state = "QUEUED" THEN TrackedFrom(now)
                                                                   ELSE Untracked]
             u == Swept(v, after, steps)
             w == BootDebited(v)
             A == BootAllowed
  <1>1. /\ v \in Views /\ v.records \in [Slots -> Records]
    BY ViewFields, Zenon DEF Sound
  <1>2. /\ slots \in [Slots -> Records] /\ now \in Clock /\ past \in [Slots -> Pasts]
        /\ slots = cell
    BY InvTypes, Zenon
  <1>3. w = [u EXCEPT !.runtime = booted]
    BY DEF BootDebited
  <1>4. \A s \in Slots : /\ after[s] = IF v.records[s].state # "QUEUED" THEN v.records[s]
                                       ELSE IF v.records[s].remaining <= Checkpoint
                                         THEN Expired(v.records[s])
                                       ELSE Debited(v.records[s], 1)
                         /\ steps[s] = {v.records[s], after[s]}
                         /\ booted[s] = IF after[s].state = "QUEUED" THEN TrackedFrom(now)
                                                                    ELSE Untracked
    BY DEF Expired
  <1>5. after = [s \in Slots |-> after[s]] /\ booted = [s \in Slots |-> booted[s]]
    OBVIOUS
  <1> HIDE DEF after, steps, booted, u, w
  <1>6. TrackedFrom(now) \in Runtimes /\ Untracked \in Runtimes
    BY <1>2, UntrackedRuntime, Constants, SMTT(20) DEF TrackedFrom, Runtimes
  <1>7. ASSUME NEW s \in Slots
        PROVE  /\ after[s] \in Records /\ Descends(v.records[s], after[s])
               /\ Recorded(after[s], BootPast[s])
               /\ slots[s].state # "QUEUED" => ~Owned(after[s])
               /\ after[s].state = "QUEUED" => Charging(after[s], booted[s], BootPast[s])
    <2>1. CASE slots[s].state # "QUEUED"
      <3>1. ~Owned(v.records[s])
        BY <2>1, EmptyShape, Zenon DEF Owned
      <3>2. after[s] = v.records[s]
        BY <1>4, <3>1, Zenon DEF Owned
      <3>3. after[s].state # "QUEUED"
        BY <3>1, <3>2, Zenon DEF Owned
      <3> QED
        BY <1>1, <3>1, <3>2, <3>3, UnownedRecorded, Zenon DEF Descends
    <2>2. CASE slots[s].state = "QUEUED"
      <3> DEFINE r == slots[s]
                 q == DebitedOnce(past[s])
      <3>1. v.records[s] = r /\ r \in Records /\ past[s] \in Pasts /\ Recorded(r, past[s])
        BY <1>2, <2>2, Zenon DEF DeliveryInv
      <3>2. BootPast[s] = q
        BY <2>2, Zenon DEF BootPast
      <3> HIDE DEF r, q
      <3>3. r.state = "QUEUED"
        BY <2>2, Zenon DEF r
      <3>4. /\ r.remaining <= Checkpoint => Recorded(Expired(r), q)
            /\ ~(r.remaining <= Checkpoint) =>
                   /\ Debited(r, 1) \in Records /\ Debited(r, 1).state = "QUEUED"
                   /\ Descends(r, Debited(r, 1)) /\ Recorded(Debited(r, 1), q)
                   /\ Charging(Debited(r, 1), TrackedFrom(now), q)
        BY <1>2, <3>1, <3>3, BootRecord, Zenon DEF q
      <3>5. /\ Expired(r) \in Records /\ Descends(r, Expired(r)) /\ Expired(r).state # "QUEUED"
        BY <3>1, <3>3, TerminalRecord, Zenon
      <3>6. CASE r.remaining <= Checkpoint
        <4>1. after[s] = Expired(r)
          BY <1>4, <3>1, <3>3, <3>6, Zenon
        <4> QED
          BY <2>2, <3>1, <3>2, <3>4, <3>5, <3>6, <4>1, Zenon
      <3>7. CASE ~(r.remaining <= Checkpoint)
        <4>1. after[s] = Debited(r, 1)
          BY <1>4, <3>1, <3>3, <3>7, Zenon
        <4>2. booted[s] = TrackedFrom(now)
          BY <1>4, <3>4, <3>7, <4>1, Zenon
        <4> QED
          BY <2>2, <3>1, <3>2, <3>4, <3>7, <4>1, <4>2, Zenon
      <3> QED
        BY <3>6, <3>7, Zenon
    <2> QED
      BY <2>1, <2>2, Zenon
  <1>8. after \in [Slots -> Records] /\ booted \in [Slots -> Runtimes]
    BY <1>4, <1>5, <1>6, <1>7, Zenon
  <1>9. \A s \in Slots : Descends(v.records[s], after[s]) /\ after[s] \in A[s]
    BY <1>7, BootAllows, Zenon
  <1>10. \A s \in Slots : \A x \in steps[s] :
             /\ x \in Records /\ x \in A[s]
             /\ Descends(v.records[s], x) /\ Descends(x, after[s])
    <2>1. \A s \in Slots : v.records[s] \in A[s]
      BY Zenon DEF Sound
    <2>2. \A s \in Slots : /\ Descends(v.records[s], v.records[s])
                           /\ Descends(after[s], after[s])
      BY Zenon DEF Descends
    <2>3. ASSUME NEW s \in Slots, NEW x \in steps[s] PROVE x \in {v.records[s], after[s]}
      BY <1>4, Zenon
    <2>4. \A s \in Slots : v.records[s] \in Records /\ after[s] \in Records
      BY <1>1, <1>8, Zenon
    <2> QED
      BY <1>9, <2>1, <2>2, <2>3, <2>4, Zenon
  <1>11. /\ u \in Views /\ u.records = after /\ u.active = v.active /\ u.state = v.state
         /\ Sound(u, A)
    <2>1. Sweeps(v, after, steps, A)
      BY <1>9, <1>10, Zenon DEF Sweeps
    <2> QED
      <3>1. u = Swept(v, after, steps)
        BY Zenon DEF u
      <3>2. HoldsAfter(v, u, after, A)
        BY <1>2, <1>8, <2>1, <3>1, SweptView, Zenon
      <3> QED
        BY <3>2, Zenon DEF HoldsAfter
  <1>12. /\ w \in Views /\ w.records = after /\ w.runtime = booted /\ w.trail = u.trail
         /\ w.active = v.active /\ w.state = v.state
    BY <1>3, <1>8, <1>11, SetRuntime
  <1>13. Sound(w, A)
    BY <1>11, <1>12, SoundAgain, Zenon
  <1>14. AllCharging(w, BootPast)
    BY <1>7, <1>12, Zenon DEF AllCharging
  <1> QED
    BY <1>7, <1>12, <1>13, <1>14, Zenon DEF w

LEMMA StartedView ==
    ASSUME DeliveryInv, Booting
    PROVE  /\ Sound(Started, BootAllowed) /\ Led(Started) /\ Started.state \in States
           /\ AllCharging(Started, BootPast)
           /\ \A s \in Slots : Recorded(Started.records[s], BootPast[s])
           /\ \A s \in Slots : slots[s].state # "QUEUED" => ~Owned(Started.records[s])
  <1> DEFINE reclaimed == Reclaimed(View)
             debited == BootDebited(reclaimed)
             v == LoadHead(debited)
             A == BootAllowed
  <1>1. mode = "READY" /\ state = "QUEUED" /\ active = NoSlot
    BY Zenon DEF Booting, DeliveryInv
  <1>2. /\ slots \in [Slots -> Records] /\ View \in Views
        /\ Sound(View, Accounted(past))
    BY <1>1, InvTypes, ViewGood
  <1>3. /\ View.records = slots /\ View.trail = {slots} /\ View.active = NoSlot
        /\ View.state = "QUEUED"
    BY <1>1, Zenon DEF View
  <1>4. Sound(View, A)
    <2>1. \A s \in Slots : slots[s] \in A[s]
      BY <1>2, BootAllows, Zenon
    <2> QED
      BY <1>2, <1>3, <2>1, Zenon DEF Sound
  <1>5. \A s \in Slots : Free \in A[s]
    BY BootAllows, FreeRecorded, Zenon
  <1>6. NoSlot \notin Terminals(View)
    BY DEF Terminals, NoSlot, Slots
  <1>7. /\ Sound(reclaimed, A) /\ reclaimed.state = "QUEUED" /\ reclaimed.active = NoSlot
        /\ \A s \in Slots : reclaimed.records[s] = IF s \in Terminals(View) THEN Free
                                                                           ELSE slots[s]
    BY <1>2, <1>3, <1>4, <1>5, <1>6, ReclaimedView, Zenon
  <1> HIDE DEF reclaimed
  <1>8. \A s \in Slots : reclaimed.records[s] =
            IF Owned(slots[s]) /\ slots[s].state # "QUEUED" THEN Free ELSE slots[s]
    BY <1>3, <1>7, Zenon DEF Terminals, Owned
  <1>9. /\ debited \in Views /\ debited.active = NoSlot /\ debited.state = "QUEUED"
        /\ Sound(debited, A) /\ AllCharging(debited, BootPast)
        /\ \A s \in Slots : Recorded(debited.records[s], BootPast[s])
        /\ \A s \in Slots : slots[s].state # "QUEUED" => ~Owned(debited.records[s])
    BY <1>1, <1>7, <1>8, BootDebitedView, Zenon
  <1> HIDE DEF debited
  <1>10. /\ v \in Views /\ v.records = debited.records /\ v.runtime = debited.runtime
         /\ v.trail = debited.trail
         /\ v = debited \/ (v.state = "QUEUED" /\ v.active \in Heads(debited.records))
    BY <1>9, Loaded, Zenon
  <1>11. Started = IF v.active # NoSlot /\ AttemptsUsed(v) >= MaxAttempts
                     THEN MarkedFailed(v) ELSE v
    BY Zenon DEF Started, debited, reclaimed
  <1> HIDE DEF v
  <1>12. /\ Sound(v, A) /\ AllCharging(v, BootPast) /\ Led(v) /\ v.state = "QUEUED"
         /\ v.active # NoSlot => v.active \in Heads(v.records)
    <2>1. Sound(v, A) /\ AllCharging(v, BootPast)
      BY <1>9, <1>10, SoundAgain, Zenon DEF AllCharging
    <2>2. v.state = "QUEUED" /\ (v.active # NoSlot => v.active \in Heads(v.records))
      BY <1>9, <1>10, Zenon
    <2> QED
      BY <2>1, <2>2, Zenon DEF Led, Live
  <1>13. CASE ~(v.active # NoSlot /\ AttemptsUsed(v) >= MaxAttempts)
    <2>1. Started = v
      BY <1>11, <1>13
    <2> QED
      BY <1>9, <1>10, <1>12, <2>1, StateNames, Zenon
  <1>14. CASE v.active # NoSlot /\ AttemptsUsed(v) >= MaxAttempts
    <2> DEFINE a == v.active
               r == Failed(v.records[a])
               u == Written(v, a, r)
               c == ClearAttempt(u)
               w == [c EXCEPT !.state = "FAILED"]
    <2>1. Started = w
      BY <1>11, <1>14 DEF MarkedFailed, Failed
    <2>2. a \in Slots /\ v.records[a].state = "QUEUED"
      BY <1>12, <1>14, HeadQueued, Zenon
    <2>3. v.records[a] \in Records /\ v.records \in [Slots -> Records]
      BY <1>10, <2>2, ViewFields, Zenon
    <2>4. Recorded(v.records[a], BootPast[a])
      BY <1>9, <1>10, <2>2, Zenon
    <2>5. /\ r \in Records /\ Descends(v.records[a], r) /\ r.state # "QUEUED" /\ Owned(r)
          /\ Recorded(r, BootPast[a])
      BY <2>2, <2>3, <2>4, TerminalRecord, FailedIsRecorded, Zenon
    <2> HIDE DEF r
    <2>6. r \in A[a]
      BY <2>2, <2>5, BootAllows, Zenon
    <2>7. /\ u \in Views /\ u.records = [v.records EXCEPT ![a] = r]
          /\ u.runtime = v.runtime /\ Sound(u, A)
      <3> HIDE DEF a
      <3>1. slots \in [Slots -> Records] /\ Sound(v, A)
        BY <1>2, <1>12, Zenon
      <3> HIDE DEF A
      <3>2. HoldsAfter(v, Written(v, a, r), [v.records EXCEPT ![a] = r], A)
        BY <2>2, <2>5, <2>6, <3>1, WrittenView, Zenon
      <3> QED
        BY <3>2, Zenon DEF HoldsAfter, u
    <2> HIDE DEF u
    <2>8. /\ c \in Views /\ c.records = u.records /\ c.runtime = u.runtime
          /\ c.trail = u.trail
      BY <2>7, Cleared, Zenon
    <2> HIDE DEF c
    <2>9. /\ w \in Views /\ w.records = u.records /\ w.runtime = u.runtime
          /\ w.trail = u.trail /\ w.state = "FAILED"
      BY <2>8, SetState, StateNames
    <2> HIDE DEF w
    <2>10. w.records[a] = r /\ \A s \in Slots : s # a => w.records[s] = v.records[s]
      BY <2>2, <2>3, <2>7, <2>9, Zenon
    <2>11. Sound(w, A) /\ Led(w) /\ w.state \in States
      BY <2>7, <2>9, SoundAgain, StateNames, Zenon DEF Led, Live
    <2>12. AllCharging(w, BootPast)
      BY <1>12, <2>5, <2>7, <2>9, <2>10, Zenon DEF AllCharging
    <2>13. \A s \in Slots : Recorded(w.records[s], BootPast[s])
      BY <1>9, <1>10, <2>5, <2>10, Zenon
    <2>14. \A s \in Slots : slots[s].state # "QUEUED" => ~Owned(w.records[s])
      <3>1. slots[a].state = "QUEUED"
        BY <1>9, <1>10, <2>2, Zenon DEF Owned
      <3> QED
        BY <1>9, <1>10, <2>10, <3>1, Zenon
    <2> QED
      BY <2>1, <2>11, <2>12, <2>13, <2>14, Zenon
  <1> QED
    BY <1>13, <1>14, Zenon

LEMMA InvStartDelivery == DeliveryInv /\ StartDelivery => DeliveryInv'
  <1> SUFFICES ASSUME DeliveryInv, StartDelivery PROVE DeliveryInv'
    OBVIOUS
  <1>1. Booting /\ mode = "READY"
    BY Zenon DEF StartDelivery, Booting
  <1>2. /\ past \in [Slots -> Pasts] /\ owner \in {"LISTENING", "EVENT_TX"}
    BY InvTypes
  <1>3. PICK v : /\ v = Started /\ cell' = v.records /\ slots' = v.records
                 /\ runtime' = v.runtime /\ state' = v.state /\ active' = v.active
                 /\ GivenUpIn(v)
    BY Zenon DEF StartDelivery
  <1>4. PICK q : q = [s \in Slots |-> IF slots[s].state = "QUEUED"
                                        THEN DebitedOnce(past[s]) ELSE Unborn]
    BY Zenon
  <1>5. past' = q
    BY <1>4, Zenon DEF StartDelivery
  <1>6. q \in [Slots -> Pasts]
    <2>1. \A s \in Slots : DebitedOnce(past[s]) \in Pasts
      <3>1. 0 \in Int
        OBVIOUS
      <3> QED
        BY <1>2, <3>1, Boot1, Zenon
    <2> QED
      BY <1>4, <2>1, UnbornFacts, Zenon
  <1>7. /\ Sound(v, BootAllowed) /\ Led(v) /\ v.state \in States
        /\ AllCharging(v, BootPast)
        /\ \A s \in Slots : Recorded(v.records[s], BootPast[s])
        /\ \A s \in Slots : slots[s].state # "QUEUED" => ~Owned(v.records[s])
    BY <1>1, <1>3, StartedView, Zenon
  <1>8. \A s \in Slots : Owned(v.records[s]) => q[s] = BootPast[s]
    BY <1>4, <1>7, Zenon DEF BootPast
  <1>9. \A s \in Slots : Recorded(v.records[s], q[s])
    BY <1>7, <1>8, UnownedRecorded, Zenon
  <1>10. AllCharging(v, q)
    BY <1>7, <1>8, Zenon DEF AllCharging, Owned
  <1>11. /\ origin' \in Clock /\ duration' \in Nat /\ serving' = TRUE /\ now' = now
         /\ owner' \in {"LISTENING", "EVENT_TX"}
         /\ UNCHANGED <<meta, mode, allocator, lastIssued>>
    BY <1>2, Constants, Zenon DEF StartDelivery
  <1> QED
    BY <1>1, <1>3, <1>5, <1>6, <1>7, <1>9, <1>10, <1>11, Installed, Zenon

LEMMA InvStartDeliveryFails == DeliveryInv /\ StartDeliveryFails => DeliveryInv'
  <1> SUFFICES ASSUME DeliveryInv, StartDeliveryFails PROVE DeliveryInv'
    OBVIOUS
  <1>1. Booting /\ mode = "READY"
    BY Zenon DEF StartDeliveryFails, Booting
  <1>2. /\ past \in [Slots -> Pasts] /\ slots = cell
    BY <1>1, InvTypes, Zenon
  <1>3. PICK v : v = Started /\ cell' \in v.trail /\ GivenUpIn(v)
    BY Zenon DEF StartDeliveryFails
  <1>4. past' = [s \in Slots |-> IF slots[s].state = "QUEUED" /\ cell'[s] # slots[s]
                                   THEN DebitedOnce(past[s])
                                   ELSE past[s]]
    BY Zenon DEF StartDeliveryFails
  <1>5. past' \in [Slots -> Pasts]
    <2>1. \A s \in Slots : DebitedOnce(past[s]) \in Pasts
      <3>1. 0 \in Int
        OBVIOUS
      <3> QED
        BY <1>2, <3>1, Boot1, Zenon
    <2> QED
      BY <1>2, <1>4, <2>1, Zenon
  <1>6. Sound(v, BootAllowed)
    BY <1>1, <1>3, StartedView, Zenon
  <1>7. ASSUME NEW s \in Slots PROVE Recorded(cell'[s], past'[s])
    <2>1. cell'[s] = slots[s] \/ Recorded(cell'[s], BootPast[s])
      BY <1>3, <1>6, BootAllows, Zenon DEF Sound
    <2>2. CASE cell'[s] = slots[s]
      BY <1>2, <1>4, <2>2, Zenon DEF DeliveryInv
    <2>3. CASE cell'[s] # slots[s]
      BY <1>4, <2>1, <2>3, Zenon DEF BootPast
    <2> QED
      BY <2>2, <2>3, Zenon
  <1> QED
    BY <1>1, <1>3, <1>5, <1>6, <1>7, OwnersLeft, Broken, Zenon DEF StartDeliveryFails

-----------------------------------------------------------------------------

LEMMA DeliveryInvInit == DeliveryInit => DeliveryInv
  <1> SUFFICES ASSUME DeliveryInit PROVE DeliveryInv
    OBVIOUS
  <1>1. SInv
    BY SInvInit DEF DeliveryInit
  <1>2. runtime \in [Slots -> Runtimes] /\ past \in [Slots -> Pasts]
    BY UntrackedRuntime, UnbornFacts, Zenon DEF DeliveryInit
  <1>3. now \in Clock /\ origin \in Clock /\ state \in States
    BY Constants, StateNames, Zenon DEF DeliveryInit
  <1>4. DeliveryTypeOK
    BY <1>1, <1>2, <1>3, Zenon DEF DeliveryTypeOK, DeliveryInit, SInv, Clock, Runtimes, Pasts
  <1>5. \A s \in Slots : Recorded(cell[s], past[s])
    BY EmptyShape, UnownedRecorded, Zenon DEF DeliveryInit, Init
  <1> QED
    BY <1>1, <1>4, <1>5, Zenon DEF DeliveryInv, DeliveryInit

LEMMA DeliveryInvNext == DeliveryInv /\ [DeliveryNext]_deliveryVars => DeliveryInv'
  <1> SUFFICES ASSUME DeliveryInv, [DeliveryNext]_deliveryVars PROVE DeliveryInv'
    OBVIOUS
  <1>1. CASE StoreRecover \/ StoreRecoverFails
    BY <1>1, InvStoreRecover, InvStoreRecoverFails
  <1>2. CASE StartDelivery \/ StartDeliveryFails
    BY <1>2, InvStartDelivery, InvStartDeliveryFails
  <1>3. CASE \E input \in Inputs : Create(input) \/ CreateFails(input)
    BY <1>3, InvCreate, InvCreateFails
  <1>4. CASE ServiceNodeEvents
    BY <1>4, InvServiceOnly, InvServiceReclaims, InvServiceTransmits, InvServiceStartFails
       DEF ServiceNodeEvents
  <1>5. CASE TxCompleted \/ TxCompletedFails
    BY <1>5, InvTxCompleted, InvTxCompletedFails
  <1>6. CASE \E matches \in BOOLEAN, status \in Statuses, jitter \in Jitters :
                 AdmissionCandidate(matches, status, jitter)
    BY <1>6, InvAdmissionCandidate
  <1>7. CASE QuietMaintenance \/ Tick \/ LosePower
    BY <1>7, InvQuietMaintenance, InvTick, InvLosePower
  <1>8. CASE UNCHANGED deliveryVars
    <2>1. owner' \in {"LISTENING", "EVENT_TX"}
      BY <1>8, InvTypes DEF deliveryVars
    <2> QED
      BY <1>8, <2>1, OwnerAlone DEF deliveryVars
  <1> QED
    BY <1>1, <1>2, <1>3, <1>4, <1>5, <1>6, <1>7, <1>8, Zenon DEF DeliveryNext

LEMMA DeliveryInvHolds == DeliverySpec => []DeliveryInv
  BY DeliveryInvInit, DeliveryInvNext, PTL DEF DeliverySpec

(* However often the Node reboots, loses a TX interrupt or fails to start a *)
(* transmission, an event has never been on the air more often than its     *)
(* durable record says, so that MAX_ATTEMPTS bounds it                      *)
THEOREM EveryTransmissionIsCounted == DeliverySpec => []TransmissionsAreCounted
  <1>1. DeliveryInv => TransmissionsAreCounted
    BY Zenon DEF DeliveryInv, Recorded, TransmissionsAreCounted
  <1> QED
    BY <1>1, DeliveryInvHolds, PTL

(* The lifetime policy expires no event before the powered time since its   *)
(* creation, with one checkpoint for each boot, has used its lifetime up,   *)
(* as far as the history counts                                             *)
THEOREM NothingExpiresEarly ==
    ASSUME \A l \in Lifetimes : l <= HistoryLimit
    PROVE  DeliverySpec => []NeverExpiresEarly
  <1>1. DeliveryInv => NeverExpiresEarly
    <2> SUFFICES ASSUME DeliveryInv, NEW s \in Slots, cell[s].state = "EXPIRED"
                 PROVE  past[s].age + Checkpoint * past[s].debits >= cell[s].lifetime
      BY Zenon DEF NeverExpiresEarly, DeliveryInv
    <2> DEFINE p == past[s]
               l == cell[s].lifetime
    <2>1. p \in Pasts /\ cell[s] \in Records /\ Owned(cell[s])
      BY InvTypes, Zenon DEF Owned
    <2>2. Lived(p, l)
      BY Zenon DEF DeliveryInv, Recorded
    <2>3. l \in Nat /\ l <= HistoryLimit
      BY <2>1, OwnedShape, Zenon
    <2> HIDE DEF p, l
    <2>4. /\ p.age \in Nat /\ p.debits \in Nat /\ Checkpoint * p.debits \in Nat
      BY <2>1, PastFacts, Zenon
    <2>5. Checkpoint * HistoryLimit >= HistoryLimit
      BY Constants
    <2>6. p.age + Checkpoint * p.debits >= l
      <3>1. PICK d \in Nat : d = Checkpoint * p.debits
        BY <2>4, Zenon
      <3>2. CASE l <= p.age + Checkpoint * p.debits
        BY <2>3, <2>4, <3>2, Zenon
      <3>3. CASE p.age = HistoryLimit
        BY <2>3, <2>4, <3>1, <3>3
      <3>4. CASE p.debits = HistoryLimit
        <4>1. d >= HistoryLimit
          BY <2>5, <3>1, <3>4, Zenon
        <4> QED
          BY <2>3, <2>4, <3>1, <4>1, Constants, SMTT(20)
      <3> QED
        BY <2>2, <3>2, <3>3, <3>4, Zenon DEF Lived
    <2> QED
      BY <2>6, Zenon DEF p, l
  <1> QED
    BY <1>1, DeliveryInvHolds, PTL

-----------------------------------------------------------------------------
(* The radio *)

LEMMA StoppedFacts ==
    ASSUME NEW owners, StopDelivery(owners)
    PROVE  mode' # "READY" /\ state' = "QUEUED"
  BY Zenon DEF StopDelivery, OutOfService, ResetController

(* Only grantTransmit puts an event on the air *)
LEMMA OnlyGrantsTransmit ==
    ASSUME DeliveryInv, [DeliveryNext]_deliveryVars, NEW s \in Slots, Transmits(s)
    PROVE  \E jitter \in Jitters : ServiceTransmits(jitter)
  <1>1. /\ owner = "LISTENING" /\ owner' = "EVENT_TX" /\ state' = "TX"
        /\ owner' \notin {"LISTENING", owner}
    BY InvTypes DEF Transmits
  <1>2. ASSUME NEW v, NEW owners PROVE ~Interrupted(v, owners)
    BY <1>1, StoppedFacts, Zenon DEF Interrupted
  <1>3. ASSUME StoreRecover \/ StoreRecoverFails \/ StartDelivery \/ StartDeliveryFails
        PROVE  FALSE
    BY <1>1, <1>3, StoppedFacts, Zenon
       DEF StoreRecover, StoreRecoverFails, StartDelivery, StartDeliveryFails
  <1>4. ASSUME NEW input \in Inputs, Create(input) \/ CreateFails(input) PROVE FALSE
    BY <1>1, <1>4, Zenon DEF Create, CreateFails
  <1>5. ASSUME NEW sync \in Sync, NEW jitter \in Jitters, ServiceOnly(sync, jitter)
        PROVE  FALSE
    BY <1>1, <1>2, <1>5, Zenon DEF ServiceOnly, StartListening
  <1>6. ASSUME NEW jitter \in Jitters, ServiceReclaims(jitter) PROVE FALSE
    BY <1>1, <1>2, <1>6, Zenon DEF ServiceReclaims
  <1>7. ASSUME NEW jitter \in Jitters, ServiceStartFails(jitter) PROVE FALSE
    <2>1. InService /\ mode = "READY" /\ serving
      BY <1>7, Zenon DEF ServiceStartFails, InService
    <2>2. /\ slots \in [Slots -> Records] /\ now \in Clock /\ past \in [Slots -> Pasts]
          /\ Good(View, past)
      BY <2>1, InvTypes, ViewGood, Zenon
    <2>3. PICK v, granted, w :
              /\ v = Serviced(View, FALSE, jitter) /\ granted = Granted(v)
              /\ v.state = "READY" /\ granted.state = "TX"
              /\ w = FailedAttempt(granted, jitter)
              /\ (Install(w) \/ Interrupted(w, GrantedThenListening))
      BY <1>7, Zenon DEF ServiceStartFails, Requests
    <2>4. Good(v, past)
      BY <2>2, <2>3, ServicedGood, Zenon
    <2>5. Good(granted, past) /\ granted.active \in Heads(granted.records)
      BY <2>2, <2>3, <2>4, RequestedHead, GrantedGood, Zenon
    <2>6. granted.records[granted.active].attempts >= 1
      BY <2>3, <2>5, Zenon DEF Good, Led
    <2>7. w.state \in {"BACKOFF", "FAILED"}
      BY <2>2, <2>3, <2>5, <2>6, FailedAttemptGood, Zenon
    <2>8. state' = w.state
      BY <1>2, <2>3, Zenon DEF Install
    <2> QED
      BY <1>1, <2>7, <2>8
  <1>8. ASSUME TxCompleted \/ TxCompletedFails PROVE FALSE
    BY <1>1, <1>8 DEF TxCompleted, TxCompletedFails
  <1>9. ASSUME NEW matches \in BOOLEAN, NEW status \in Statuses, NEW jitter \in Jitters,
               AdmissionCandidate(matches, status, jitter)
        PROVE  FALSE
    BY <1>1, <1>2, <1>9, Zenon DEF AdmissionCandidate
  <1>10. ASSUME QuietMaintenance \/ Tick \/ LosePower \/ UNCHANGED deliveryVars
         PROVE  FALSE
    BY <1>1, <1>10, Zenon DEF QuietMaintenance, Tick, LosePower, deliveryVars
  <1> QED
    BY <1>3, <1>4, <1>5, <1>6, <1>7, <1>8, <1>9, <1>10, Zenon DEF DeliveryNext, ServiceNodeEvents

(* Charged up to now, with time left: the event has not outlived its        *)
(* lifetime, but for what the boots forgave                                 *)
LEMMA InTime ==
    ASSUME now \in Clock, NEW r \in Records, r.state = "QUEUED", NEW u \in Runtimes,
           NEW p \in Pasts, Charging(r, u, p), u.baseline = now,
           u.uncommitted < r.remaining
    PROVE  p.age < r.lifetime + p.debits * (MaxGap - 1)
  <1>1. /\ r.remaining \in Nat /\ r.lifetime \in Nat /\ r.lifetime >= 1
        /\ Used(r) = r.lifetime - r.remaining
    BY QueuedNumbers DEF Used
  <1>2. u.uncommitted \in Nat /\ Elapsed(u.baseline) = 0
    BY RuntimeNumbers, ElapsedFacts, Zenon
  <1>3. Charge(r, u) = Used(r) + u.uncommitted
    BY <1>1, <1>2 DEF Charge
  <1>4. PICK c \in Int : c = Charge(r, u) /\ c < r.lifetime
    BY <1>1, <1>2, <1>3
  <1>5. Young(p, c)
    BY <1>4, Zenon DEF Charging
  <1>6. p.age \in Nat /\ p.debits \in Nat /\ p.age <= HistoryLimit
    BY PastFacts, Zenon
  <1>7. PICK d \in Nat : d = p.debits * (MaxGap - 1)
    BY PastFacts, Zenon
  <1>8. CASE p.age <= c + p.debits * (MaxGap - 1)
    BY <1>1, <1>4, <1>6, <1>7, <1>8
  <1>9. CASE p.debits = HistoryLimit /\ MaxGap > 1
    <2>1. d >= HistoryLimit
      <3>1. PICK g \in Nat : g = MaxGap - 1 /\ g >= 1
        BY <1>9, Constants
      <3>2. d = HistoryLimit * g /\ HistoryLimit \in Nat
        BY <1>7, <1>9, <3>1, Constants, Zenon
      <3> QED
        BY <3>1, <3>2
    <2> QED
      BY <1>1, <1>6, <1>7, <2>1, Constants
  <1> QED
    BY <1>5, <1>8, <1>9, Zenon DEF Young

LEMMA TransmitsHead ==
    ASSUME DeliveryInv, NEW jitter \in Jitters, ServiceTransmits(jitter),
           NEW s \in Slots, Transmits(s)
    PROVE  /\ \A t \in Slots : cell[t].state = "QUEUED" => ~IdentityLess(cell[t], cell[s])
           /\ past[s].age < cell[s].lifetime + past[s].debits * (MaxGap - 1)
  <1>1. InService /\ mode = "READY" /\ serving
    BY DEF ServiceTransmits, InService
  <1>2. /\ slots \in [Slots -> Records] /\ now \in Clock /\ past \in [Slots -> Pasts]
        /\ Good(View, past) /\ slots = cell /\ View.records = slots
    BY <1>1, InvTypes, ViewGood, Zenon DEF View
  <1>3. PICK v, w :
            /\ v = Serviced(View, FALSE, jitter) /\ w = Granted(v) /\ v.state = "READY"
            /\ Install(w) \/ Interrupted(w, GrantedThenListening)
    BY Zenon DEF ServiceTransmits, Requests
  <1>4. /\ Good(v, past) /\ v \in Views
        /\ v.active \in Heads(slots) /\ Timely(v, v.active)
    BY <1>1, <1>2, <1>3, ServicedGood, Zenon
  <1>5. v.active \in Heads(v.records)
    BY <1>3, <1>4, RequestedHead, Zenon
  <1>6. w.active = v.active
    BY <1>2, <1>3, <1>4, <1>5, GrantedGood, Zenon
  <1>7. ~Interrupted(w, GrantedThenListening)
    BY StoppedFacts, Zenon DEF Interrupted, Transmits
  <1>8. s = v.active
    BY <1>3, <1>6, <1>7, Zenon DEF Install, Transmits
  <1>9. \A t \in Slots : cell[t].state = "QUEUED" => ~IdentityLess(cell[t], cell[s])
    BY <1>2, <1>4, <1>8, Zenon DEF Heads
  <1>10. /\ v.records[s].state = "QUEUED" /\ v.records[s] \in Records
         /\ v.runtime[s] \in Runtimes /\ past[s] \in Pasts
    BY <1>2, <1>4, <1>5, <1>8, HeadQueued, ViewFields, Zenon
  <1>11. Charging(v.records[s], v.runtime[s], past[s])
    BY <1>4, <1>10, Zenon DEF Good, AllCharging
  <1>12. v.runtime[s].baseline = now /\ v.runtime[s].uncommitted < v.records[s].remaining
    BY <1>4, <1>8, Zenon DEF Timely
  <1>13. past[s].age < v.records[s].lifetime + past[s].debits * (MaxGap - 1)
    BY <1>2, <1>10, <1>11, <1>12, InTime, Zenon
  <1>14. v.records[s].lifetime = cell[s].lifetime
    <2>1. Descends(slots[s], v.records[s])
      BY <1>4, Zenon DEF Good, Sound
    <2> QED
      BY <1>2, <1>10, <2>1, KeptFields, Zenon DEF Owned
  <1> QED
    BY <1>9, <1>13, <1>14, Zenon

(* A healthy store keeps the controller in service *)
LEMMA NeverDegrades ==
    ASSUME DeliveryInv, DeliveryInv', [DeliveryNext]_deliveryVars, serving,
           mode' = "READY"
    PROVE  serving'
  <1>1. mode = "READY" /\ state' # "DEGRADED"
    <2>1. state' \in States
      BY Zenon DEF DeliveryInv, DeliveryTypeOK
    <2> QED
      BY <2>1, StateNames, Zenon DEF DeliveryInv
  <1>2. ASSUME NEW v, NEW owners, Install(v) \/ Interrupted(v, owners)
        PROVE  serving'
    BY <1>1, <1>2, StoppedFacts, Zenon DEF Install, Interrupted
  <1>3. CASE StoreRecover \/ StoreRecoverFails
    BY <1>3 DEF StoreRecover, StoreRecoverFails
  <1>4. CASE StartDelivery \/ StartDeliveryFails
    BY <1>4, Zenon DEF StartDelivery, StartDeliveryFails, Booting
  <1>5. ASSUME NEW input \in Inputs, Create(input) \/ CreateFails(input) PROVE serving'
    BY <1>5, Zenon DEF Create, CreateFails, EnqueueIdentityFails, EnqueueRecordFails, OutOfService
  <1>6. CASE ServiceNodeEvents
    BY <1>2, <1>6, Zenon DEF ServiceNodeEvents, ServiceOnly, ServiceReclaims, ServiceTransmits,
                      ServiceStartFails
  <1>7. CASE TxCompleted \/ TxCompletedFails
    BY <1>2, <1>7, Zenon DEF TxCompleted, TxCompletedFails
  <1>8. ASSUME NEW matches \in BOOLEAN, NEW status \in Statuses, NEW jitter \in Jitters,
               AdmissionCandidate(matches, status, jitter)
        PROVE  serving'
    BY <1>2, <1>8, Zenon DEF AdmissionCandidate
  <1>9. CASE QuietMaintenance \/ Tick \/ LosePower \/ UNCHANGED deliveryVars
    BY <1>9, Zenon DEF QuietMaintenance, Tick, LosePower, PowerLoss, deliveryVars
  <1> QED
    BY <1>3, <1>4, <1>5, <1>6, <1>7, <1>8, <1>9, Zenon DEF DeliveryNext

(* The event that goes on the air is the oldest one queued and has not      *)
(* outlived its lifetime, and headStillAuthoritative never has to degrade   *)
(* the controller                                                           *)
THEOREM OldestIsTransmitted == DeliverySpec => TransmitsOldest
  <1> DEFINE Step ==
          /\ \A s \in Slots : Transmits(s) =>
                /\ \A t \in Slots : cell[t].state = "QUEUED" => ~IdentityLess(cell[t], cell[s])
                /\ past[s].age < cell[s].lifetime + past[s].debits * (MaxGap - 1)
          /\ serving /\ mode' = "READY" => serving'
  <1>1. DeliveryInv /\ DeliveryInv' /\ [DeliveryNext]_deliveryVars => Step
    <2> SUFFICES ASSUME DeliveryInv, DeliveryInv', [DeliveryNext]_deliveryVars PROVE Step
      BY Zenon
    <2>1. ASSUME NEW s \in Slots, Transmits(s)
          PROVE  /\ \A t \in Slots : cell[t].state = "QUEUED" =>
                                         ~IdentityLess(cell[t], cell[s])
                 /\ past[s].age < cell[s].lifetime + past[s].debits * (MaxGap - 1)
      BY <2>1, OnlyGrantsTransmit, TransmitsHead, Zenon
    <2>2. serving /\ mode' = "READY" => serving'
      BY NeverDegrades
    <2> QED
      BY <2>1, <2>2, Zenon
  <1>2. DeliverySpec => [][Step]_deliveryVars
    <2> HIDE DEF Step
    <2> QED
      BY <1>1, DeliveryInvHolds, PTL DEF DeliverySpec
  <1> QED
    BY <1>2 DEF TransmitsOldest
=============================================================================
