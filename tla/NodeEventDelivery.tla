-------------------------- MODULE NodeEventDelivery --------------------------
(***************************************************************************)
(* The Node's event delivery (node_event_delivery.h) as the firmware drives *)
(* it (src-rx/main.cpp): the lifetime policy that charges powered time to   *)
(* every queued event, the controller that takes the oldest event through   *)
(* READY, TX, WAIT_ADMISSION and BACKOFF, the reclamation of terminal       *)
(* slots, and the one radio owner that matters here, an event transmission. *)
(*                                                                         *)
(* Time is a clock that wraps (millis()); one tick stands for a second of   *)
(* remaining lifetime and for its 1000 milliseconds.  A handler runs to its *)
(* end on one sample of the clock.  It may commit several records, one      *)
(* after the other: a storage fault or power loss stops it at any of them.  *)
(* What an action computes is a "view": the records and the controller      *)
(* after the handler, with the trail of durable states it passes through.   *)
(***************************************************************************)
EXTENDS NodeEventStore

CONSTANTS Checkpoint,        \* CHECKPOINT_SECONDS
          ClockRange,        \* 2^32: millis() wraps
          MaxGap,            \* ticks the loop may take between two services
          AdmissionTimeout,  \* ADMISSION_TIMEOUT_MILLISECONDS
          Backoff,           \* base[]: attempts used |-> delay
          Jitters,           \* what EventJitter may add
          HistoryLimit       \* where the history stops counting

ASSUME DeliveryAssumption ==
    /\ Checkpoint \in Nat \ {0}
    /\ MaxGap \in Nat \ {0} /\ ClockRange \in Nat /\ ClockRange > MaxGap
    /\ AdmissionTimeout \in 0 .. ClockRange - 1
    /\ Backoff \in [1 .. MaxAttempts - 1 -> Nat] /\ Jitters \subseteq Nat
    /\ \A l \in Lifetimes : l >= Checkpoint
    /\ HistoryLimit \in Nat

VARIABLES
    now,          \* millis()
    serving,      \* eventSubsystemReady, and the controller is usable
    runtime,      \* policy_.runtime_
    state,        \* state_
    active,       \* activeSlot_, 0 when active_ is false
    origin,       \* deadlineOrigin_
    duration,     \* deadlineDuration_
    owner,        \* the radio: "EVENT_TX" or "LISTENING"
    past          \* history of the event in each slot: [age, debits, sent]

controller == <<runtime, state, active, origin, duration>>
deliveryVars == <<vars, now, serving, controller, owner, past>>

Untracked == [tracked |-> FALSE, baseline |-> 0, uncommitted |-> 0]
TrackedFrom(time) == [tracked |-> TRUE, baseline |-> time, uncommitted |-> 0]
Unborn == [age |-> 0, debits |-> 0, sent |-> 0]

NoSlot == 0

DeliveryInit ==
    /\ Init
    /\ now = 0 /\ serving = FALSE /\ owner = "LISTENING"
    /\ runtime = [s \in Slots |-> Untracked]
    /\ state = "QUEUED" /\ active = NoSlot /\ origin = 0 /\ duration = 0
    /\ past = [s \in Slots |-> Unborn]

(* Controller::reset *)
ResetController ==
    /\ runtime' = [s \in Slots |-> Untracked]
    /\ state' = "QUEUED" /\ active' = NoSlot /\ origin' = 0 /\ duration' = 0

(* uint32_t subtraction *)
Elapsed(then) == (now - then) % ClockRange

-----------------------------------------------------------------------------
(* Views *)

View == [records |-> slots, runtime |-> runtime, state |-> state,
         active |-> active, origin |-> origin, duration |-> duration,
         trail |-> {slots}]

(* One commit *)
Written(v, s, record) ==
    LET after == [v.records EXCEPT ![s] = record]
    IN  [v EXCEPT !.records = after, !.trail = @ \cup {after}]

(* A commit or more per slot, in slot order; steps[s] is what slot s holds  *)
(* on the way from v.records[s] to after[s]                                 *)
Swept(v, after, steps) ==
    [v EXCEPT
        !.records = after,
        !.trail = @ \cup UNION {
            {[t \in Slots |-> IF t < s THEN after[t]
                              ELSE IF t = s THEN step ELSE v.records[t]] :
                step \in steps[s]} : s \in Slots}]

Terminals(v) == {s \in Slots : v.records[s].state \in {"FAILED", "EXPIRED"}}

(* Mutant: the queue is in slot order *)
HeadsBySlot(records) ==
    {s \in Slots : /\ records[s].state = "QUEUED"
                   /\ \A t \in Slots : records[t].state = "QUEUED" => s <= t}

(* queuedAt(0): the first of the queue, if any *)
Heads(records) ==
    {s \in Slots : /\ records[s].state = "QUEUED"
                   /\ \A t \in Slots : records[t].state = "QUEUED" =>
                          ~IdentityLess(records[t], records[s])}

ClearAttempt(v) == [v EXCEPT !.origin = 0, !.duration = 0]

LoadHead(v) ==
    IF Heads(v.records) = {} THEN v
    ELSE [v EXCEPT !.active = CHOOSE s \in Heads(v.records) : TRUE,
                   !.state = "QUEUED"]

AttemptsUsed(v) == v.records[v.active].attempts

MarkedFailed(v) ==
    [ClearAttempt(Written(v, v.active, [v.records[v.active] EXCEPT !.state = "FAILED"]))
        EXCEPT !.state = "FAILED"]

(* failedAttempt.  Its check of the jitter (INVALID_CONFIGURATION) never    *)
(* fails: EventJitter draws up to MAX_BACKOFF_JITTER_MILLISECONDS.          *)
FailedAttempt(v, jitter) ==
    IF AttemptsUsed(v) >= MaxAttempts THEN MarkedFailed(v)
    ELSE [v EXCEPT !.state = "BACKOFF", !.origin = now,
                   !.duration = Backoff[AttemptsUsed(v)] + jitter]

-----------------------------------------------------------------------------
(* Policy::service *)

Charged(v, s) == v.records[s].state = "QUEUED" /\ v.runtime[s].tracked

Uncommitted(v, s) == v.runtime[s].uncommitted + Elapsed(v.runtime[s].baseline)

(* How often the loop debits a checkpoint: while more than one remains *)
Debits(v, s) ==
    LET due  == Uncommitted(v, s) \div Checkpoint
        most == (v.records[s].remaining - 1) \div Checkpoint
    IN  IF due <= most THEN due ELSE most

Debited(record, n) == [record EXCEPT !.remaining = @ - n * Checkpoint]

(* Mutant: debited seconds stay uncommitted *)
LeftOverKept(v, s) == Uncommitted(v, s)

LeftOver(v, s) == Uncommitted(v, s) - Debits(v, s) * Checkpoint

Expires(v, s) ==
    LeftOver(v, s) >= Debited(v.records[s], Debits(v, s)).remaining

PolicyServiced(v) ==
    LET last(s) == Debited(v.records[s], Debits(v, s))
        after == [s \in Slots |->
                     IF ~Charged(v, s) THEN v.records[s]
                     ELSE IF Expires(v, s) THEN [last(s) EXCEPT !.state = "EXPIRED"]
                     ELSE last(s)]
        steps == [s \in Slots |->
                     {after[s]} \cup
                     (IF Charged(v, s)
                        THEN {Debited(v.records[s], n) : n \in 0 .. Debits(v, s)}
                        ELSE {})]
    IN  [Swept(v, after, steps) EXCEPT !.runtime =
            [s \in Slots |->
                IF after[s].state # "QUEUED" THEN Untracked
                ELSE IF ~v.runtime[s].tracked THEN TrackedFrom(now)
                ELSE [tracked |-> TRUE, baseline |-> now,
                      uncommitted |-> LeftOver(v, s)]]]

(* serviceLifetime *)
LifetimeServiced(v) ==
    LET w == PolicyServiced(v)
    IN  IF w.records[w.active].state = "EXPIRED"
          THEN [ClearAttempt(w) EXCEPT !.state = "EXPIRED"] ELSE w

(* Controller::service; sync is synchronousWork *)
Serviced(v, sync, jitter) ==
    LET loaded == IF v.state = "RELEASED"
                    THEN LoadHead([ClearAttempt(v) EXCEPT !.active = NoSlot])
                  ELSE IF v.active = NoSlot THEN LoadHead(v) ELSE v
        w == LifetimeServiced(loaded)
    IN  IF loaded.active = NoSlot THEN loaded
        ELSE IF w.state = "QUEUED" /\ AttemptsUsed(w) >= MaxAttempts
               THEN MarkedFailed(w)
        ELSE IF w.state \in {"QUEUED", "READY"}
               THEN [w EXCEPT !.state = IF sync THEN "QUEUED" ELSE "READY"]
        ELSE IF w.state = "WAIT_ADMISSION" /\ Elapsed(w.origin) >= AdmissionTimeout
               THEN FailedAttempt(w, jitter)
        ELSE IF w.state = "BACKOFF" /\ Elapsed(w.origin) >= w.duration
               THEN [w EXCEPT !.state = IF sync THEN "QUEUED" ELSE "READY"]
        ELSE w

(* reclaimTerminals: every terminal slot is freed, the active one through   *)
(* the controller                                                           *)
Reclaimed(v) ==
    LET after == [s \in Slots |-> IF s \in Terminals(v) THEN Free ELSE v.records[s]]
        w == Swept(v, after, [s \in Slots |-> {v.records[s], after[s]}])
    IN  IF v.active \in Terminals(v)
          THEN [ClearAttempt(w) EXCEPT !.active = NoSlot] ELSE w

(* headStillAuthoritative *)
HeadStillAuthoritative(v) == v.active \in Heads(v.records)

(* Mutant: the attempt is not made durable before it goes on the air *)
GrantedUnarmed(v) ==
    IF ~HeadStillAuthoritative(v) THEN [v EXCEPT !.state = "DEGRADED"]
    ELSE IF AttemptsUsed(v) >= MaxAttempts THEN MarkedFailed(v)
    ELSE [v EXCEPT !.state = "TX"]

(* grantTransmit, called on the clock sample of the service before it, so   *)
(* that charging the lifetime again changes nothing.  SEQUENCE_FAILURE and  *)
(* ENCODE_FAILURE cannot occur: EventSequence always has a next number, and *)
(* a record that passed enqueue's checks encodes.                           *)
Granted(v) ==
    IF ~HeadStillAuthoritative(v) THEN [v EXCEPT !.state = "DEGRADED"]
    ELSE IF AttemptsUsed(v) >= MaxAttempts THEN MarkedFailed(v)
    ELSE [Written(v, v.active, [v.records[v.active] EXCEPT !.attempts = @ + 1])
            EXCEPT !.state = "TX"]

-----------------------------------------------------------------------------
(* What a handler does with the view it computed *)

(* Events no longer queued in v have been given up by the delivery code *)
GivenUpIn(v) ==
    promised' = promised \ {Custody(slots[s]) :
                               s \in {t \in Slots : v.records[t].state # "QUEUED"}}

(* Every commit is verified *)
Install(v) ==
    /\ cell' = v.records /\ slots' = v.records
    /\ runtime' = v.runtime /\ state' = v.state /\ active' = v.active
    /\ origin' = v.origin /\ duration' = v.duration
    /\ GivenUpIn(v)
    /\ serving' = (v.state # "DEGRADED")
    /\ UNCHANGED <<meta, mode, allocator, lastIssued>>

(* A commit fails, and the subsystem refuses everything until the next      *)
(* boot; or power is lost.  (The controller's fields are not read again.)   *)
(* A handler that goes on after the failure leaves one of the owners.       *)
StopDelivery(owners) ==
    /\ OutOfService
    /\ serving' = FALSE /\ ResetController
    /\ now' = IF mode' = "OFF" THEN 0 ELSE now
    /\ owner' \in IF mode' = "OFF" THEN {"LISTENING"} ELSE owners

Interrupted(v, owners) ==
    /\ cell' \in v.trail
    /\ GivenUpIn(v)
    /\ StopDelivery(owners)
    /\ UNCHANGED <<meta, lastIssued, past>>

(* startListening: the owner changes only if startReceive succeeds *)
StartListening == owner' \in {"LISTENING", owner}

(* The owners that granting the radio (finishStandby) and calling           *)
(* startListening again may leave                                           *)
GrantedThenListening == {"LISTENING", "EVENT_TX"}

-----------------------------------------------------------------------------
(* setup *)

StoreRecover ==
    /\ Recover
    /\ UNCHANGED <<now, serving, controller, owner, past>>

StoreRecoverFails ==
    /\ RecoverFails \/ FormatFails \/ FreshMetadataFails
    /\ UNCHANGED <<now, serving, controller, owner, past>>

(* Mutant: a boot costs nothing *)
BootUndebited(v) ==
    [v EXCEPT !.runtime = [s \in Slots |-> IF v.records[s].state = "QUEUED"
                                              THEN TrackedFrom(now) ELSE Untracked]]

(* Policy::recover: every queued event is debited one checkpoint *)
BootDebited(v) ==
    LET after == [s \in Slots |->
                     IF v.records[s].state # "QUEUED" THEN v.records[s]
                     ELSE IF v.records[s].remaining <= Checkpoint
                       THEN [v.records[s] EXCEPT !.state = "EXPIRED"]
                     ELSE Debited(v.records[s], 1)]
    IN  [Swept(v, after, [s \in Slots |-> {v.records[s], after[s]}])
            EXCEPT !.runtime = [s \in Slots |-> IF after[s].state = "QUEUED"
                                                  THEN TrackedFrom(now)
                                                  ELSE Untracked]]

(* reclaimTerminals without a controller, then Controller::recover *)
Started ==
    LET v == LoadHead(BootDebited(Reclaimed(View)))
    IN  IF v.active # NoSlot /\ AttemptsUsed(v) >= MaxAttempts
          THEN MarkedFailed(v) ELSE v

Booting == mode = "READY" /\ ~serving

DebitedOnce(p) == [p EXCEPT !.debits = IF @ < HistoryLimit THEN @ + 1 ELSE @]

StartDelivery ==
    /\ Booting
    /\ \E v \in {Started} :
           /\ cell' = v.records /\ slots' = v.records
           /\ runtime' = v.runtime /\ state' = v.state /\ active' = v.active
           /\ GivenUpIn(v)
    /\ origin' = 0 /\ duration' = 0
    /\ serving' = TRUE
    /\ past' = [s \in Slots |-> IF slots[s].state = "QUEUED"
                                   THEN DebitedOnce(past[s])
                                   ELSE Unborn]
    /\ UNCHANGED <<meta, mode, allocator, lastIssued, now, owner>>

(* A debit counts where it has landed *)
StartDeliveryFails ==
    /\ Booting
    /\ \E v \in {Started} : cell' \in v.trail /\ GivenUpIn(v)
    /\ past' = [s \in Slots |-> IF slots[s].state = "QUEUED" /\ cell'[s] # slots[s]
                                   THEN DebitedOnce(past[s])
                                   ELSE past[s]]
    /\ StopDelivery({owner})
    /\ UNCHANGED <<meta, lastIssued>>

-----------------------------------------------------------------------------
(* TrackedCreationSink::create *)

Create(input) ==
    /\ serving /\ Enqueue(input)
    /\ runtime' = [s \in Slots |-> IF s \in FreeSlot THEN TrackedFrom(now)
                                                        ELSE runtime[s]]
    /\ past' = [s \in Slots |-> IF s \in FreeSlot THEN Unborn ELSE past[s]]
    /\ UNCHANGED <<now, serving, state, active, origin, duration, owner>>

CreateFails(input) ==
    /\ serving
    /\ EnqueueIdentityFails \/ EnqueueRecordFails(input)
    /\ past' = [s \in Slots |-> IF s \in FreeSlot THEN Unborn ELSE past[s]]
    /\ serving' = FALSE /\ ResetController
    /\ now' = IF mode' = "OFF" THEN 0 ELSE now
    /\ owner' = IF mode' = "OFF" THEN "LISTENING" ELSE owner

-----------------------------------------------------------------------------
(* serviceNodeEvents *)

Sync == IF owner = "LISTENING" THEN BOOLEAN ELSE {TRUE}

InService == mode = "READY" /\ serving

(* Mutant: a terminal event keeps the radio *)
RestoresNever(v) == FALSE

(* A terminal event still owns the radio: receive is restored first *)
Restores(v) == /\ Terminals(v) # {} /\ owner = "EVENT_TX"
               /\ v.state \in {"EXPIRED", "FAILED"}

Reclaims(v, sync) ==
    /\ Terminals(v) # {} /\ ~Restores(v) /\ ~sync
    /\ v.state \notin {"TX", "TX_PREPARE", "WAIT_ADMISSION"}

Requests(v, sync) ==
    ~Restores(v) /\ ~Reclaims(v, sync) /\ ~sync /\ v.state = "READY"

(* No radio work follows, or standby fails or a received packet wins the    *)
(* radio.  (The safe point's other conditions are part of sync.)            *)
ServiceOnly(sync, jitter) ==
    /\ InService
    /\ \E v \in {Serviced(View, sync, jitter)} :
           \/ /\ Install(v)
              /\ IF Restores(v) THEN StartListening ELSE UNCHANGED owner
              /\ UNCHANGED <<now, past>>
           \/ Interrupted(v, {owner})

ServiceReclaims(jitter) ==
    /\ InService /\ owner = "LISTENING"
    /\ \E v \in {Serviced(View, FALSE, jitter)} : \E w \in {Reclaimed(v)} :
           /\ Reclaims(v, FALSE)
           /\ \/ /\ Install(w)
                 /\ past' = [s \in Slots |-> IF s \in Terminals(v) THEN Unborn
                                                                  ELSE past[s]]
                 /\ UNCHANGED <<now, owner>>
              \/ Interrupted(w, {owner})

(* The head is granted the radio and its transmission starts.  A grant that *)
(* cannot be committed leaves the radio to startListening.                  *)
ServiceTransmits(jitter) ==
    /\ InService /\ owner = "LISTENING"
    /\ \E v \in {Serviced(View, FALSE, jitter)} : \E w \in {Granted(v)} :
           /\ Requests(v, FALSE)
           /\ \/ /\ Install(w)
                 /\ owner' \in IF w.state = "TX" THEN {"EVENT_TX"}
                                                  ELSE GrantedThenListening
                 /\ past' = [past EXCEPT ![w.active].sent =
                                           IF w.state = "TX" THEN @ + 1 ELSE @]
                 /\ UNCHANGED now
              \/ Interrupted(w, GrantedThenListening)

(* startTransmit is refused: the attempt is spent *)
ServiceStartFails(jitter) ==
    /\ InService /\ owner = "LISTENING"
    /\ \E v \in {Serviced(View, FALSE, jitter)} : \E granted \in {Granted(v)} :
           /\ Requests(v, FALSE) /\ granted.state = "TX"
           /\ \E w \in {FailedAttempt(granted, jitter)} :
                  \/ /\ Install(w)
                     /\ owner' \in GrantedThenListening
                     /\ UNCHANGED <<now, past>>
                  \/ Interrupted(w, GrantedThenListening)

-----------------------------------------------------------------------------
(* The radio interrupts, the rest of the firmware, time and power *)

(* txCompletedNow, then startListening *)
TxCompleted ==
    /\ mode # "OFF" /\ owner = "EVENT_TX"
    /\ \/ state # "TX" /\ UNCHANGED <<vars, serving, controller>>
       \/ /\ InService /\ state = "TX"
          /\ \E v \in {LifetimeServiced(View)} :
                 Install(IF v.state = "EXPIRED" THEN v
                         ELSE [v EXCEPT !.state = "WAIT_ADMISSION", !.origin = now,
                                        !.duration = AdmissionTimeout])
    /\ StartListening
    /\ UNCHANGED <<now, past>>

(* startListening is called whatever txCompletedNow returns *)
TxCompletedFails ==
    /\ InService /\ owner = "EVENT_TX" /\ state = "TX"
    /\ \E v \in {LifetimeServiced(View)} : Interrupted(v, {"LISTENING", owner})

Statuses == {"ADMITTED", "CAPACITY", "IDENTITY_CONTENT_MISMATCH",
             "UNSUPPORTED_EVENT", "MALFORMED_EVENT"}

(* admissionCandidate: a packet arrives while the admission is awaited; it  *)
(* answers this attempt or it does not (matchesEvent)                       *)
Answered(matches, status, jitter) ==
    LET v == LifetimeServiced(View)
    IN  IF v.state = "EXPIRED" \/ ~matches THEN v
        ELSE IF status = "ADMITTED"
          THEN [ClearAttempt(Written(v, v.active, Free)) EXCEPT !.state = "RELEASED"]
        ELSE IF status = "CAPACITY" THEN FailedAttempt(v, jitter)
        ELSE MarkedFailed(v)

AdmissionCandidate(matches, status, jitter) ==
    /\ InService /\ owner = "LISTENING" /\ state = "WAIT_ADMISSION"
    /\ \E v \in {Answered(matches, status, jitter)} :
           \/ /\ Install(v)
              /\ past' = [s \in Slots |-> IF v.records[s].state = "FREE"
                                             THEN Unborn ELSE past[s]]
              /\ UNCHANGED <<now, owner>>
           \/ Interrupted(v, {owner})

(* serviceQuietMaintenance and serviceProductionHost put the radio in       *)
(* standby and restart receive.  Both ask for the LISTENING phase, which an *)
(* event transmission does not leave.                                       *)
QuietMaintenance ==
    /\ mode # "OFF" /\ owner = "EVENT_TX"
    /\ owner' = "LISTENING"
    /\ UNCHANGED <<vars, now, serving, controller, past>>

Older(p) == [p EXCEPT !.age = IF @ < HistoryLimit THEN @ + 1 ELSE @]

(* The loop services every tracked slot within MaxGap ticks *)
Tick ==
    /\ mode # "OFF"
    /\ serving => \A s \in Slots : Charged(View, s) =>
                       Elapsed(runtime[s].baseline) < MaxGap
    /\ now' = (now + 1) % ClockRange
    /\ past' = [s \in Slots |-> IF serving /\ slots[s].state = "QUEUED"
                                   THEN Older(past[s]) ELSE past[s]]
    /\ UNCHANGED <<vars, serving, controller, owner>>

LosePower ==
    /\ PowerLoss
    /\ serving' = FALSE /\ now' = 0 /\ owner' = "LISTENING" /\ ResetController
    /\ UNCHANGED past

ServiceNodeEvents ==
    \E jitter \in Jitters :
        \/ \E sync \in Sync : ServiceOnly(sync, jitter)
        \/ ServiceReclaims(jitter) \/ ServiceTransmits(jitter)
        \/ ServiceStartFails(jitter)

DeliveryNext ==
    \/ StoreRecover \/ StoreRecoverFails
    \/ StartDelivery \/ StartDeliveryFails
    \/ \E input \in Inputs : Create(input) \/ CreateFails(input)
    \/ ServiceNodeEvents
    \/ TxCompleted \/ TxCompletedFails
    \/ \E matches \in BOOLEAN, status \in Statuses, jitter \in Jitters :
           AdmissionCandidate(matches, status, jitter)
    \/ QuietMaintenance \/ Tick \/ LosePower

DeliverySpec == DeliveryInit /\ [][DeliveryNext]_deliveryVars

(* Every event charged by the policy has been charged up to now *)
ChargedToNow ==
    serving => \A s \in Slots : Charged(View, s) => runtime[s].baseline = now

(* serviceNodeEvents calls startListening on every pass until it succeeds *)
AwaitsReceive == serving /\ Restores(View)

(* The clock runs; the loop keeps calling serviceNodeEvents, so that events *)
(* are charged again and again and a startReceive that fails is retried     *)
(* until it succeeds; power returns and the flash can be read, so that of   *)
(* infinitely many boots infinitely many reach the end of setup.  Nothing   *)
(* is assumed of the TX interrupt, of the Hub's answers, of the commands    *)
(* that keep the loop busy (sync) or of the producers, and nothing keeps    *)
(* the power on.                                                            *)
DeliveryFairness ==
    /\ WF_deliveryVars(Tick)
    /\ []<>ChargedToNow /\ []<>~AwaitsReceive
    /\ SF_deliveryVars(StoreRecover)
    /\ []<>Booting => []<><<StartDelivery>>_deliveryVars

FairDeliverySpec == DeliverySpec /\ DeliveryFairness

-----------------------------------------------------------------------------

States == {"QUEUED", "READY", "TX", "WAIT_ADMISSION", "BACKOFF", "RELEASED",
           "FAILED", "EXPIRED"}

(* The state has its shape *)
DeliveryTypeOK ==
    /\ TypeOK
    /\ now \in 0 .. ClockRange - 1
    /\ serving \in BOOLEAN
    /\ runtime \in [Slots -> [tracked : BOOLEAN, baseline : 0 .. ClockRange - 1,
                              uncommitted : 0 .. Checkpoint + MaxGap]]
    /\ state \in States
    /\ active \in Slots \cup {NoSlot}
    /\ origin \in 0 .. ClockRange - 1
    /\ duration \in Nat
    /\ owner \in {"LISTENING", "EVENT_TX"}
    /\ past \in [Slots -> [age : 0 .. HistoryLimit, debits : 0 .. HistoryLimit,
                           sent : Nat]]

(* An event is put on the air only on an attempt that is already durable,   *)
(* so MAX_ATTEMPTS bounds its transmissions over any number of reboots,     *)
(* lost TX interrupts and failed starts.                                    *)
TransmissionsAreCounted ==
    \A s \in Slots : Owned(cell[s]) => past[s].sent <= cell[s].attempts

(* An event expires only when the powered time since its creation, with one *)
(* checkpoint for each boot, has used its lifetime up: no wrap of the clock *)
(* and no leftover of the slot's former occupant expires it early.  Clock,  *)
(* baselines and leftovers stay within their ranges.                        *)
NeverExpiresEarly ==
    /\ DeliveryTypeOK
    /\ \A s \in Slots : cell[s].state = "EXPIRED" =>
        past[s].age + Checkpoint * past[s].debits >= cell[s].lifetime

Transmits(s) == owner # "EVENT_TX" /\ owner' = "EVENT_TX" /\ state' = "TX" /\ active' = s

(* Transmission is strictly first in, first out: the event that goes on the *)
(* air is the oldest queued one, and the controller, which degrades itself  *)
(* when the event it was granted the radio for is no longer the head, never *)
(* does so while storage works.  An event is not transmitted past its       *)
(* lifetime: a reboot forgives what was not committed, less the checkpoint  *)
(* it debits, at most the ticks the loop may run late.                      *)
TransmitsOldest ==
    [][/\ \A s \in Slots : Transmits(s) =>
             /\ \A t \in Slots : cell[t].state = "QUEUED" => ~IdentityLess(cell[t], cell[s])
             /\ past[s].age < cell[s].lifetime + past[s].debits * (MaxGap - 1)
       /\ serving /\ mode' = "READY" => serving'
      ]_deliveryVars

(* "Once nonblocking Event TX has started it is not preempted": the radio    *)
(* leaves a transmission in progress only through its completion            *)
TxNotPreempted ==
    [][owner = "EVENT_TX" /\ state = "TX" /\ owner' = "LISTENING" =>
           state' # "TX"]_deliveryVars

(* Every queued event is delivered, fails or expires, or storage has        *)
(* failed: neither a lost TX interrupt, a transmission cut short by         *)
(* maintenance, a silent Hub, a loop that is always busy nor an endless     *)
(* reboot cycle keeps it in the queue.                                      *)
QueuedEventEnds ==
    \A s \in Slots : cell[s].state = "QUEUED" ~>
                        (cell[s].state # "QUEUED" \/ mode = "DEGRADED")

(* The arbiter does not leave the radio with an event transmission: if its  *)
(* interrupt is lost or receive cannot be restarted, the expiry of the      *)
(* event hands it back, once a startReceive succeeds and unless storage has *)
(* failed                                                                   *)
RadioReturns == owner = "EVENT_TX" ~> (owner = "LISTENING" \/ mode = "DEGRADED")
=============================================================================
