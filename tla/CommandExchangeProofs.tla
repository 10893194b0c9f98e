------------------------ MODULE CommandExchangeProofs ------------------------
(***************************************************************************)
(* Proofs that a command is executed at most once per life of the Node and  *)
(* that answers and repetitions are told apart up to the wrap of the        *)
(* sequence, for every width of the sequence, number of retries, commands,  *)
(* packets on the way, restarts and faults.                                 *)
(***************************************************************************)
EXTENDS CommandExchange, Integers, TLAPS

-----------------------------------------------------------------------------
(* Sequence numbers *)

LEMMA ModUnique ==
    ASSUME NEW m \in Nat, m > 0, NEW q \in Int, NEW r \in 0 .. m - 1, NEW x \in Int,
           x = m * q + r
    PROVE  x % m = r
  OBVIOUS

LEMMA ModParts ==
    ASSUME NEW m \in Nat, m > 0, NEW x \in Int
    PROVE  x % m \in 0 .. m - 1 /\ \E q \in Int : x = m * q + (x % m)
  <1>1. x % m \in 0 .. m - 1
    OBVIOUS
  <1>2. x \div m \in Int
    OBVIOUS
  <1>3. x = m * (x \div m) + (x % m)
    OBVIOUS
  <1> QED
    BY <1>1, <1>2, <1>3

(* The sequence after the one of x is that of x + 1 *)
LEMMA ModNext ==
    ASSUME NEW m \in Nat, m > 0, NEW x \in Int
    PROVE  ((x % m) + 1) % m = (x + 1) % m
  <1>1. PICK q \in Int : x = m * q + (x % m)
    BY ModParts
  <1>2. PICK r \in 0 .. m - 1 : r = x % m
    BY ModParts
  <1>3. PICK y \in Int : y = x + 1
    OBVIOUS
  <1>4. PICK s \in Int : s = r + 1
    OBVIOUS
  <1>5. CASE s < m
    <2>1. s \in 0 .. m - 1 /\ 0 \in Int
      BY <1>4, <1>5
    <2>2. y = m * q + s
      BY <1>1, <1>2, <1>3, <1>4
    <2>3. s = m * 0 + s
      BY <1>4
    <2>4. y % m = s
      BY <2>1, <2>2, ModUnique
    <2>5. s % m = s
      BY <2>1, <2>3, ModUnique
    <2> QED
      BY <1>2, <1>3, <1>4, <2>4, <2>5
  <1>6. CASE s = m
    <2>1. PICK p \in Int : p = q + 1
      OBVIOUS
    <2>2. y = m * p + 0 /\ 0 \in 0 .. m - 1
      BY <1>1, <1>2, <1>3, <1>4, <1>6, <2>1
    <2>3. s = m * 1 + 0 /\ 1 \in Int
      BY <1>6
    <2>4. y % m = 0
      BY <2>2, ModUnique
    <2>5. s % m = 0
      BY <2>2, <2>3, ModUnique
    <2> QED
      BY <1>2, <1>3, <1>4, <2>4, <2>5
  <1> QED
    BY <1>4, <1>5, <1>6

(* Two numbers with the same sequence are a multiple of the range apart *)
LEMMA ModSame ==
    ASSUME NEW m \in Nat, m > 0, NEW x \in Int, NEW y \in Int, y < x, x % m = y % m
    PROVE  (x - y) % m = 0 /\ x - y >= m
  <1>1. PICK q \in Int : x = m * q + (x % m)
    BY ModParts
  <1>2. PICK p \in Int : y = m * p + (y % m)
    BY ModParts
  <1>3. x % m \in Int
    BY ModParts
  <1>4. q - p \in Int /\ x - y = m * (q - p) + 0
    BY <1>1, <1>2, <1>3
  <1>5. (x - y) % m = 0
    BY <1>4, ModUnique
  <1>6. ASSUME x - y < m PROVE FALSE
    <2>1. x - y \in 0 .. m - 1 /\ x - y = m * 0 + (x - y)
      BY <1>6
    <2>2. (x - y) % m = x - y
      BY <2>1, ModUnique
    <2> QED
      BY <1>5, <2>2
  <1> QED
    BY <1>5, <1>6

-----------------------------------------------------------------------------
(* The inductive invariant *)

CommandSet ==
    [type : {"COMMAND"}, from : {Hub}, to : {Node}, seq : Sequences8,
     op : Operations \cup {"TEST"}, body : {"NONE"}, origin : 1 .. MaxCommands]
OperationSet == {c \in CommandSet : c.op # "TEST"}
TestSet == {c \in CommandSet : c.op = "TEST"}

AckSet ==
    [type : {"ACK"}, from : {Node}, to : {Hub}, seq : Sequences8,
     op : Operations \cup {"TEST"}, body : {"SUCCESS"}, origin : 1 .. MaxCommands]
ResponseSet ==
    [type : {"RESPONSE"}, from : {Node}, to : {Hub}, seq : Sequences8,
     op : Operations, body : {"OK"}, origin : 1 .. MaxCommands]

BridgeSet ==
    [active : BOOLEAN, next : Sequences8, command : OperationSet \cup {Nothing},
     acked : BOOLEAN, retries : Nat, expired : BOOLEAN,
     support : {"UNKNOWN", "SUPPORTED", "UNSUPPORTED"},
     done : [class : {"TIMEOUT", "OPERATION_RESULT"}, origin : 1 .. MaxCommands]
            \cup {Nothing}]
TransactionSet ==
    [seq : Sequences8, retries : Nat, awaiting : BOOLEAN, expired : BOOLEAN]
RetainedSet ==
    [command : OperationSet \cup {Nothing}, complete : BOOLEAN,
     response : ResponseSet \cup {Nothing}]
Counters == [1 .. MaxCommands -> Nat]

TypeInv ==
    /\ bridge \in BridgeSet /\ txn \in TransactionSet
    /\ toNode \in Seq(CommandSet) /\ Len(toNode) <= Capacity
    /\ toHub \in Seq(AckSet \cup ResponseSet) /\ Len(toHub) <= Capacity
    /\ retained \in RetainedSet /\ tracker \in TestSet \cup {Nothing}
    /\ asked \in Nat /\ tests \in Nat /\ asked + tests <= MaxCommands
    /\ executed \in Counters /\ accepted \in Counters
    /\ hubRestarts \in Nat /\ nodeRestarts \in Nat

(* c was first sent no later than d, and is d itself if it is about the same *)
Before(c, d) ==
    (c.op = "TEST" <=> d.op = "TEST") =>
        c.origin <= d.origin /\ (c.origin = d.origin => c = d)

(* The Hub has a TEST transaction to go on with *)
Open == txn.awaiting \/ txn.retries > 0

(* Nothing is younger than the command the Hub is at, and what is as young  *)
(* is that command                                                          *)
Current(c) ==
    IF c.op = "TEST"
    THEN c.origin <= tests /\ (Open /\ c.origin = tests => c.seq = txn.seq)
    ELSE c.origin <= asked /\ (bridge.active /\ c.origin = asked => c = bridge.command)

(* What is on the way, and what the Node remembers *)
On(channel) == {channel[i] : i \in 1 .. Len(channel)}
Remembered == {retained.command, tracker} \ {Nothing}

InOrder(channel) ==
    \A i, j \in 1 .. Len(channel) : i < j => Before(channel[i], channel[j])

(* What the Node remembers, and then what is on the way to it, is in the    *)
(* order the Hub first sent it                                              *)
OrderInv ==
    /\ InOrder(toNode)
    /\ \A c \in On(toNode) : Current(c)
    /\ \A m \in Remembered : Current(m) /\ \A c \in On(toNode) : Before(m, c)

HubInv ==
    /\ bridge.active => bridge.command # Nothing /\ bridge.command.origin = asked
    /\ Open => tests >= 1

(* What is younger than the command the Node remembers was taken in an      *)
(* earlier life of it only                                                  *)
CountInv ==
    /\ \A o \in 1 .. MaxCommands :
         /\ executed[o] <= 1 + nodeRestarts
         /\ (retained.command = Nothing \/ o > retained.command.origin) =>
                executed[o] <= nodeRestarts
    /\ \A t \in 1 .. MaxCommands :
         /\ accepted[t] <= 1 + nodeRestarts
         /\ (tracker = Nothing \/ t > tracker.origin) => accepted[t] <= nodeRestarts

(* A response is the one of an operation that was executed *)
AnswerInv ==
    /\ \A p \in On(toHub) :
         /\ p.op # "TEST" => p.origin <= asked
         /\ p.type = "RESPONSE" => executed[p.origin] >= 1
    /\ retained.complete =>
         /\ retained.command # Nothing /\ retained.response # Nothing
         /\ retained.response.origin = retained.command.origin
         /\ retained.response.seq = retained.command.seq
         /\ executed[retained.command.origin] >= 1

(* The sequence of a command is its number, TESTs from one and operations    *)
(* from zero                                                                *)
Numbered(p) ==
    IF p.op = "TEST" THEN p.seq = p.origin % SequenceRange
    ELSE p.seq = (p.origin - 1) % SequenceRange

NumberInv ==
    hubRestarts = 0 =>
        /\ IF bridge.active THEN bridge.next = (asked - 1) % SequenceRange
           ELSE bridge.next = asked % SequenceRange
        /\ IF Open THEN txn.seq = tests % SequenceRange
           ELSE txn.seq = (tests + 1) % SequenceRange
        /\ bridge.active => bridge.command.seq = bridge.next
        /\ \A p \in On(toNode) \cup On(toHub) \cup Remembered : Numbered(p)

ExchangeInv ==
    /\ TypeInv /\ OrderInv /\ HubInv /\ CountInv /\ AnswerInv /\ NumberInv
    /\ AnswerIsForTheOperation /\ MistakenOnlyByWrap

-----------------------------------------------------------------------------
(* Channels *)

(* What is sent joins what is on the way, as far as there is room *)
LEMMA SentFacts ==
    ASSUME NEW S, NEW ch \in Seq(S), NEW ps \in Seq(S)
    PROVE  /\ Sent(ch, ps) \in Seq(S) /\ Len(Sent(ch, ps)) <= Capacity
           /\ Len(Sent(ch, ps)) <= Len(ch) + Len(ps)
           /\ \A i \in 1 .. Len(Sent(ch, ps)) :
                Sent(ch, ps)[i] = IF i <= Len(ch) THEN ch[i] ELSE ps[i - Len(ch)]
  <1> DEFINE all == ch \o ps
  <1>1. all \in Seq(S) /\ Len(all) = Len(ch) + Len(ps)
    OBVIOUS
  <1>2. \A i \in 1 .. Len(all) : all[i] = IF i <= Len(ch) THEN ch[i] ELSE ps[i - Len(ch)]
    OBVIOUS
  <1>3. Capacity \in Nat \ {0}
    BY ExchangeAssumption
  <1>4. CASE Len(all) <= Capacity
    BY <1>1, <1>2, <1>4 DEF Sent
  <1>5. CASE ~(Len(all) <= Capacity)
    <2>1. Sent(ch, ps) = SubSeq(all, 1, Capacity)
      BY <1>5, Zenon DEF Sent
    <2> HIDE DEF all
    <2>2. SubSeq(all, 1, Capacity) \in Seq(S) /\ Len(SubSeq(all, 1, Capacity)) = Capacity
      BY <1>1, <1>3, <1>5
    <2>3. \A i \in 1 .. Capacity : SubSeq(all, 1, Capacity)[i] = all[i] /\ i \in 1 .. Len(all)
      BY <1>1, <1>3, <1>5
    <2> QED
      BY <1>1, <1>2, <1>3, <1>5, <2>1, <2>2, <2>3
  <1> QED
    BY <1>4, <1>5

LEMMA OnSent ==
    ASSUME NEW S, NEW ch \in Seq(S), NEW ps \in Seq(S)
    PROVE  On(Sent(ch, ps)) \subseteq On(ch) \cup On(ps)
  <1> SUFFICES ASSUME NEW i \in 1 .. Len(Sent(ch, ps))
               PROVE  Sent(ch, ps)[i] \in On(ch) \cup On(ps)
    BY DEF On
  <1>1. CASE i <= Len(ch)
    BY <1>1, SentFacts DEF On
  <1>2. CASE ~(i <= Len(ch))
    <2>1. Sent(ch, ps)[i] = ps[i - Len(ch)] /\ i - Len(ch) \in 1 .. Len(ps)
      BY <1>2, SentFacts
    <2> QED
      BY <2>1 DEF On
  <1> QED
    BY <1>1, <1>2

LEMMA OnOne ==
    ASSUME NEW S, NEW a \in S
    PROVE  <<a>> \in Seq(S) /\ On(<<a>>) = {a}
  BY DEF On

LEMMA OnTwo ==
    ASSUME NEW S, NEW a \in S, NEW b \in S
    PROVE  <<a, b>> \in Seq(S) /\ On(<<a, b>>) = {a, b}
  BY DEF On

LEMMA TailFacts ==
    ASSUME NEW S, NEW ch \in Seq(S), ch # <<>>
    PROVE  /\ Tail(ch) \in Seq(S) /\ Len(Tail(ch)) <= Len(ch)
           /\ Head(ch) \in S /\ Head(ch) \in On(ch)
           /\ On(Tail(ch)) \subseteq On(ch)
  BY DEF On

LEMMA OrderTail ==
    ASSUME NEW S, NEW ch \in Seq(S), ch # <<>>, InOrder(ch)
    PROVE  InOrder(Tail(ch)) /\ \A d \in On(Tail(ch)) : Before(Head(ch), d)
  <1>1. Len(Tail(ch)) = Len(ch) - 1 /\ Head(ch) = ch[1] /\ Len(ch) \in Nat
    OBVIOUS
  <1>2. \A i \in 1 .. Len(Tail(ch)) : Tail(ch)[i] = ch[i + 1]
    OBVIOUS
  <1>3. ASSUME NEW i \in 1 .. Len(Tail(ch)), NEW j \in 1 .. Len(Tail(ch)), i < j
        PROVE  Before(Tail(ch)[i], Tail(ch)[j])
    <2>1. Tail(ch)[i] = ch[i + 1] /\ Tail(ch)[j] = ch[j + 1]
      BY <1>2
    <2>2. i + 1 \in 1 .. Len(ch) /\ j + 1 \in 1 .. Len(ch) /\ i + 1 < j + 1
      BY <1>1, <1>3
    <2>3. Before(ch[i + 1], ch[j + 1])
      BY <2>2 DEF InOrder
    <2> QED
      BY <2>1, <2>3
  <1>4. ASSUME NEW i \in 1 .. Len(Tail(ch))
        PROVE  Before(Head(ch), Tail(ch)[i])
    <2>1. 1 \in 1 .. Len(ch) /\ i + 1 \in 1 .. Len(ch) /\ 1 < i + 1
      BY <1>1
    <2>2. Before(ch[1], ch[i + 1])
      BY <2>1 DEF InOrder
    <2> QED
      BY <1>1, <1>2, <2>2
  <1> QED
    BY <1>3, <1>4 DEF InOrder, On

LEMMA OrderSent ==
    ASSUME NEW S, NEW ch \in Seq(S), NEW c \in S, InOrder(ch), \A d \in On(ch) : Before(d, c)
    PROVE  InOrder(Sent(ch, <<c>>))
  <1> DEFINE new == Sent(ch, <<c>>)
  <1> SUFFICES ASSUME NEW i \in 1 .. Len(new), NEW j \in 1 .. Len(new), i < j
               PROVE  Before(new[i], new[j])
    BY DEF InOrder
  <1>1. <<c>> \in Seq(S) /\ Len(<<c>>) = 1 /\ <<c>>[1] = c /\ Len(ch) \in Nat
    OBVIOUS
  <1>2. /\ new \in Seq(S) /\ Len(new) <= Len(ch) + Len(<<c>>)
        /\ \A k \in 1 .. Len(new) : new[k] = IF k <= Len(ch) THEN ch[k] ELSE <<c>>[k - Len(ch)]
    BY <1>1, SentFacts, Zenon
  <1> HIDE DEF new
  <1>3. Len(new) \in Nat /\ Len(new) <= Len(ch) + 1
    BY <1>1, <1>2
  <1>4. i \in 1 .. Len(ch)
    BY <1>1, <1>3
  <1>5. new[i] = ch[i] /\ ch[i] \in On(ch)
    BY <1>1, <1>2, <1>4 DEF On
  <1>6. CASE j <= Len(ch)
    <2>1. j \in 1 .. Len(ch) /\ new[j] = ch[j]
      BY <1>1, <1>2, <1>6
    <2> QED
      BY <1>4, <1>5, <2>1 DEF InOrder
  <1>7. CASE ~(j <= Len(ch))
    <2>1. j - Len(ch) = 1
      BY <1>1, <1>3, <1>7
    <2>2. new[j] = c
      BY <1>1, <1>2, <1>7, <2>1
    <2> QED
      BY <1>5, <2>2
  <1> QED
    BY <1>6, <1>7

-----------------------------------------------------------------------------
(* The engines *)

LEMMA NextSequenceType ==
    ASSUME NEW n \in Sequences8
    PROVE  NextSequence(n) \in Sequences8
  <1>1. SequenceRange \in Nat /\ SequenceRange > 0 /\ n + 1 \in Int
    BY WireAssumption DEF Sequences8
  <1>2. (n + 1) % SequenceRange \in 0 .. SequenceRange - 1
    BY <1>1, ModParts
  <1> QED
    BY <1>2 DEF NextSequence, Sequences8

(* A bridge that goes on with its operation, or ends it *)
GoesOn(b, d) == d.active = b.active /\ d.next = b.next /\ d.done = b.done
Ends(b, d) == ~d.active /\ d.next = NextSequence(b.next)

LEMMA SubmittedFacts ==
    ASSUME NEW b \in BridgeSet, NEW c \in OperationSet
    PROVE  /\ Submitted(b, c) \in BridgeSet /\ Submitted(b, c).command = c
           /\ Submitted(b, c).active /\ Submitted(b, c).next = b.next
           /\ Submitted(b, c).done = Nothing
  BY Zenon DEF Submitted, BridgeSet

LEMMA ServicedFacts ==
    ASSUME NEW b \in BridgeSet, b.active, b.command # Nothing
    PROVE  /\ Serviced(b) \in BridgeSet /\ Serviced(b).command = b.command
           /\ \/ GoesOn(b, Serviced(b))
              \/ /\ Ends(b, Serviced(b))
                 /\ Serviced(b).done = Outcome("TIMEOUT", b.command.origin)
  <1>1. NextSequence(b.next) \in Sequences8
    BY NextSequenceType DEF BridgeSet
  <1>2. b.command \in OperationSet /\ b.command.origin \in 1 .. MaxCommands
    BY DEF BridgeSet, OperationSet, CommandSet
  <1>3. CASE b.retries < MaxRetries
    <2>1. Serviced(b) = [b EXCEPT !.retries = b.retries + 1]
      BY <1>3 DEF Serviced
    <2>2. b.retries + 1 \in Nat
      BY DEF BridgeSet
    <2> QED
      BY <2>1, <2>2, Zenon DEF BridgeSet, GoesOn
  <1>4. CASE ~(b.retries < MaxRetries)
    <2>1. Serviced(b) = [b EXCEPT !.active = FALSE, !.next = NextSequence(b.next),
                                  !.done = Outcome("TIMEOUT", b.command.origin)]
      BY <1>4 DEF Serviced, Finished, BridgeSet
    <2>2. Outcome("TIMEOUT", b.command.origin)
            \in [class : {"TIMEOUT", "OPERATION_RESULT"}, origin : 1 .. MaxCommands]
      BY <1>2 DEF Outcome
    <2> QED
      BY <1>1, <2>1, <2>2, Zenon DEF BridgeSet, Ends
  <1> QED
    BY <1>3, <1>4

LEMMA ReceivedFacts ==
    ASSUME NEW b \in BridgeSet, NEW p \in AckSet \cup ResponseSet
    PROVE  /\ Received(b, p) \in BridgeSet /\ Received(b, p).command = b.command
           /\ \/ GoesOn(b, Received(b, p))
              \/ /\ Answers(b, p) /\ p.type = "RESPONSE" /\ Ends(b, Received(b, p))
                 /\ Received(b, p).done = Outcome("OPERATION_RESULT", p.origin)
  <1>1. NextSequence(b.next) \in Sequences8
    BY NextSequenceType DEF BridgeSet
  <1>2. CASE ~Answers(b, p)
    BY <1>2 DEF Received, GoesOn
  <1>3. CASE Answers(b, p) /\ p \in AckSet
    <2>1. Received(b, p) = [b EXCEPT !.acked = TRUE]
      BY <1>3 DEF Received, AckSet
    <2> QED
      BY <2>1, Zenon DEF GoesOn, BridgeSet
  <1>4. CASE Answers(b, p) /\ p \in ResponseSet
    <2>1. p.type = "RESPONSE" /\ p.body = "OK" /\ p.origin \in 1 .. MaxCommands
      BY <1>4 DEF ResponseSet
    <2>2. Received(b, p) = [b EXCEPT !.active = FALSE, !.next = NextSequence(b.next),
                                     !.done = Outcome("OPERATION_RESULT", p.origin),
                                     !.support = "SUPPORTED"]
      BY <1>4, <2>1 DEF Received, Finished, BridgeSet
    <2>3. Outcome("OPERATION_RESULT", p.origin)
            \in [class : {"TIMEOUT", "OPERATION_RESULT"}, origin : 1 .. MaxCommands]
      BY <2>1 DEF Outcome
    <2> QED
      BY <1>1, <1>4, <2>1, <2>2, <2>3, Zenon DEF BridgeSet, Ends
  <1> QED
    BY <1>2, <1>3, <1>4

LEMMA TransactionFacts ==
    ASSUME NEW t \in TransactionSet
    PROVE  /\ BeginWait(t) \in TransactionSet /\ BeginWait(t).awaiting
           /\ BeginWait(t).seq = t.seq /\ BeginWait(t).retries = t.retries
           /\ Complete(t) \in TransactionSet /\ ~Complete(t).awaiting
           /\ Complete(t).retries = 0 /\ Complete(t).seq = NextSequence(t.seq)
           /\ AttemptFailed(t) \in TransactionSet
           /\ \/ AttemptFailed(t).retries > 0 /\ AttemptFailed(t).seq = t.seq
              \/ AttemptFailed(t) = Complete(t)
  <1>1. NextSequence(t.seq) \in Sequences8
    BY NextSequenceType DEF TransactionSet
  <1>2. BeginWait(t) \in TransactionSet /\ BeginWait(t).awaiting
          /\ BeginWait(t).seq = t.seq /\ BeginWait(t).retries = t.retries
    BY Zenon DEF BeginWait, TransactionSet
  <1>3. Complete(t) \in TransactionSet /\ ~Complete(t).awaiting
          /\ Complete(t).retries = 0 /\ Complete(t).seq = NextSequence(t.seq)
    BY <1>1, Zenon DEF Complete, TransactionSet
  <1>4. CASE t.retries < MaxRetries
    <2>1. AttemptFailed(t) = [t EXCEPT !.retries = t.retries + 1, !.awaiting = FALSE,
                                       !.expired = FALSE]
      BY <1>4 DEF AttemptFailed
    <2>2. t.retries + 1 \in Nat /\ t.retries + 1 > 0
      BY DEF TransactionSet
    <2>3. AttemptFailed(t) \in TransactionSet /\ AttemptFailed(t).retries = t.retries + 1
            /\ AttemptFailed(t).seq = t.seq
      BY <2>1, <2>2, Zenon DEF TransactionSet
    <2> QED
      BY <1>2, <1>3, <2>2, <2>3
  <1>5. CASE ~(t.retries < MaxRetries)
    BY <1>2, <1>3, <1>5 DEF AttemptFailed
  <1> QED
    BY <1>4, <1>5

-----------------------------------------------------------------------------
(* Commands *)

LEMMA CommandFacts ==
    /\ Nothing \notin CommandSet
    /\ \A c \in CommandSet : c.seq \in Sequences8 /\ c.origin \in 1 .. MaxCommands
    /\ \A c \in OperationSet : c \in CommandSet /\ c.op # "TEST"
    /\ \A c \in TestSet : c \in CommandSet /\ c.op = "TEST"
    /\ "TEST" \notin Operations /\ MaxCommands \in Nat /\ Sequences8 \subseteq Nat
  BY WireAssumption, ExchangeAssumption
  DEF CommandSet, OperationSet, TestSet, Nothing, Sequences8

(* Two transmissions of a TEST with one sequence are the same *)
LEMMA SameTest ==
    ASSUME NEW c \in TestSet, NEW d \in TestSet, c.seq = d.seq, c.origin = d.origin
    PROVE  c = d
  BY DEF TestSet, CommandSet

LEMMA MadeCommand ==
    ASSUME NEW n \in Sequences8, NEW op \in Operations \cup {"TEST"},
           NEW o \in 1 .. MaxCommands
    PROVE  \E c \in CommandSet :
             /\ c = Packet("COMMAND", Hub, Node, n, op, "NONE", o)
             /\ c.seq = n /\ c.op = op /\ c.origin = o
             /\ IF op = "TEST" THEN c \in TestSet ELSE c \in OperationSet
  <1> DEFINE c == Packet("COMMAND", Hub, Node, n, op, "NONE", o)
  <1>1. c \in CommandSet /\ c.seq = n /\ c.op = op /\ c.origin = o
    BY DEF Packet, CommandSet
  <1> QED
    BY <1>1 DEF TestSet, OperationSet

(* A Hub that has just started *)
LEMMA FirstFacts ==
    /\ IdleBridge \in BridgeSet /\ IdleBridge.active = FALSE /\ IdleBridge.done = Nothing
    /\ FirstTransaction \in TransactionSet
    /\ FirstTransaction.awaiting = FALSE /\ ~(FirstTransaction.retries > 0)
  BY WireAssumption DEF IdleBridge, FirstTransaction, BridgeSet, TransactionSet, Sequences8

LEMMA OutcomeFacts ==
    \A class, o : Outcome(class, o) # Nothing /\ Outcome(class, o).origin = o
  BY DEF Outcome, Nothing

LEMMA MadeTest ==
    ASSUME NEW n \in Sequences8, NEW o \in 1 .. MaxCommands
    PROVE  \E c \in CommandSet :
             /\ c = Packet("COMMAND", Hub, Node, n, "TEST", "NONE", o)
             /\ c \in TestSet /\ c.seq = n /\ c.origin = o
  <1>1. "TEST" \in Operations \cup {"TEST"}
    OBVIOUS
  <1>2. PICK c \in CommandSet :
          /\ c = Packet("COMMAND", Hub, Node, n, "TEST", "NONE", o)
          /\ c.seq = n /\ c.op = "TEST" /\ c.origin = o
          /\ IF "TEST" = "TEST" THEN c \in TestSet ELSE c \in OperationSet
    BY <1>1, MadeCommand
  <1> QED
    BY <1>2, Zenon

LEMMA MadeAnswers ==
    ASSUME NEW c \in CommandSet
    PROVE  /\ Acknowledgment(c, "SUCCESS") \in AckSet
           /\ Acknowledgment(c, "SUCCESS").seq = c.seq
           /\ Acknowledgment(c, "SUCCESS").op = c.op
           /\ Acknowledgment(c, "SUCCESS").type = "ACK"
           /\ Acknowledgment(c, "SUCCESS").origin = c.origin
  BY DEF Acknowledgment, Packet, CommandSet, AckSet, Hub, Node

LEMMA MadeResponse ==
    ASSUME NEW n \in Sequences8, NEW op \in Operations, NEW o \in 1 .. MaxCommands
    PROVE  \E r \in ResponseSet :
             /\ r = Packet("RESPONSE", Node, Hub, n, op, "OK", o)
             /\ r.seq = n /\ r.op = op /\ r.origin = o
  <1> DEFINE r == Packet("RESPONSE", Node, Hub, n, op, "OK", o)
  <1>1. r \in ResponseSet /\ r.seq = n /\ r.op = op /\ r.origin = o
    BY DEF Packet, ResponseSet
  <1> QED
    BY <1>1

(* What the Node remembers is a command of the Hub *)
LEMMA RememberedType ==
    ASSUME TypeInv
    PROVE  /\ Remembered \subseteq CommandSet /\ On(toNode) \subseteq CommandSet
           /\ On(toHub) \subseteq AckSet \cup ResponseSet
           /\ retained.command \in OperationSet \cup {Nothing}
  <1>1. retained.command \in OperationSet \cup {Nothing} /\ tracker \in TestSet \cup {Nothing}
    BY DEF TypeInv, RetainedSet
  <1>2. \A i \in 1 .. Len(toNode) : toNode[i] \in CommandSet
    BY DEF TypeInv
  <1>3. \A i \in 1 .. Len(toHub) : toHub[i] \in AckSet \cup ResponseSet
    BY DEF TypeInv
  <1> QED
    BY <1>1, <1>2, <1>3 DEF Remembered, On, OperationSet, TestSet

-----------------------------------------------------------------------------
(* The Node's steps: operations *)

(* The first command on the way is taken off, and perhaps remembered *)
LEMMA CommandTaken ==
    ASSUME ExchangeInv, toNode # <<>>, toNode' = Tail(toNode),
           UNCHANGED <<bridge, txn, asked, tests>>,
           Remembered' \subseteq Remembered \cup {Head(toNode)}
    PROVE  /\ toNode' \in Seq(CommandSet) /\ Len(toNode') <= Capacity
           /\ Head(toNode) \in On(toNode) /\ Head(toNode) \in CommandSet
           /\ On(toNode)' \subseteq On(toNode) /\ OrderInv' /\ HubInv' /\ Open' = Open
  <1>1. /\ toNode \in Seq(CommandSet) /\ Len(toNode) <= Capacity /\ Capacity \in Nat
        /\ Len(toNode) \in Nat
    BY ExchangeAssumption DEF ExchangeInv, TypeInv
  <1>2. /\ Tail(toNode) \in Seq(CommandSet) /\ Len(Tail(toNode)) <= Capacity
        /\ Head(toNode) \in On(toNode) /\ Head(toNode) \in CommandSet
        /\ On(Tail(toNode)) \subseteq On(toNode)
    BY <1>1, TailFacts
  <1>3. InOrder(Tail(toNode)) /\ \A d \in On(Tail(toNode)) : Before(Head(toNode), d)
    BY <1>1, OrderTail DEF ExchangeInv, OrderInv
  <1>4. On(toNode)' = On(Tail(toNode)) /\ InOrder(toNode)' = InOrder(Tail(toNode))
    BY DEF On, InOrder, Before
  <1>5. \A d : Current(d)' = Current(d)
    BY DEF Current, Open
  <1>6. \A d \in On(toNode) \cup Remembered : Current(d)
    BY DEF ExchangeInv, OrderInv
  <1>7. \A m \in Remembered', d \in On(toNode)' : Before(m, d)
    BY <1>2, <1>3, <1>4 DEF ExchangeInv, OrderInv
  <1>8. OrderInv'
    BY <1>2, <1>3, <1>4, <1>5, <1>6, <1>7 DEF OrderInv, Before
  <1>9. HubInv' /\ Open' = Open
    BY DEF ExchangeInv, HubInv, Open
  <1> QED
    BY <1>2, <1>4, <1>8, <1>9

(* The answers the Node sends are true and numbered *)
LEMMA NodeAnswers ==
    ASSUME ExchangeInv, NEW ps \in Seq(AckSet \cup ResponseSet), toHub' = Sent(toHub, ps),
           UNCHANGED <<asked, hubRestarts>>,
           \A o \in 1 .. MaxCommands : executed[o] >= 1 => executed'[o] >= 1,
           \A p \in On(ps) : /\ p.op # "TEST" => p.origin <= asked
                             /\ p.type = "RESPONSE" => executed'[p.origin] >= 1
                             /\ hubRestarts = 0 => Numbered(p)
    PROVE  /\ toHub' \in Seq(AckSet \cup ResponseSet) /\ Len(toHub') <= Capacity
           /\ \A p \in On(toHub)' : /\ p.op # "TEST" => p.origin <= asked
                                    /\ p.type = "RESPONSE" => executed'[p.origin] >= 1
                                    /\ hubRestarts = 0 => Numbered(p)
  <1>1. toHub \in Seq(AckSet \cup ResponseSet)
    BY DEF ExchangeInv, TypeInv
  <1>2. toHub' \in Seq(AckSet \cup ResponseSet) /\ Len(toHub') <= Capacity
    BY <1>1, SentFacts
  <1>3. On(toHub') \subseteq On(toHub) \cup On(ps)
    BY <1>1, OnSent
  <1>4. On(toHub)' \subseteq On(toHub) \cup On(ps)
    BY <1>3, Zenon DEF On
  <1>5. \A p \in On(toHub) : p.origin \in 1 .. MaxCommands
    BY RememberedType DEF ExchangeInv, AckSet, ResponseSet
  <1>6. \A p \in On(toHub) : /\ p.op # "TEST" => p.origin <= asked
                             /\ p.type = "RESPONSE" => executed'[p.origin] >= 1
                             /\ hubRestarts = 0 => Numbered(p)
    BY <1>5 DEF ExchangeInv, AnswerInv, NumberInv
  <1> QED
    BY <1>2, <1>4, <1>6

(* What is left of the invariant once the Node has dealt with an operation *)
LEMMA OperationTaken ==
    ASSUME ExchangeInv, toNode # <<>>, toNode' = Tail(toNode),
           UNCHANGED <<bridge, txn, tracker, asked, tests, accepted, mistaken, hubRestarts,
                       nodeRestarts>>,
           retained' \in RetainedSet, executed' \in Counters,
           retained'.command \in {retained.command, Head(toNode)},
           toHub' \in Seq(AckSet \cup ResponseSet), Len(toHub') <= Capacity,
           \A p \in On(toHub)' : hubRestarts = 0 => Numbered(p),
           \A o \in 1 .. MaxCommands : executed[o] >= 1 => executed'[o] >= 1,
           AnswerInv', CountInv'
    PROVE  ExchangeInv'
  <1>1. Remembered' \subseteq Remembered \cup {Head(toNode)}
    BY DEF Remembered
  <1>2. /\ toNode' \in Seq(CommandSet) /\ Len(toNode') <= Capacity
        /\ Head(toNode) \in On(toNode)
        /\ On(toNode)' \subseteq On(toNode) /\ OrderInv' /\ HubInv' /\ Open' = Open
    BY <1>1, CommandTaken
  <1>3. TypeInv' /\ MistakenOnlyByWrap'
    <2>1. TypeInv'
      BY <1>2 DEF ExchangeInv, TypeInv
    <2>2. MistakenOnlyByWrap'
      BY <1>2 DEF ExchangeInv, MistakenOnlyByWrap
    <2> QED
      BY <2>1, <2>2
  <1>4. AnswerIsForTheOperation'
    <2>1. bridge.done # Nothing => bridge.done.origin \in 1 .. MaxCommands
      BY DEF ExchangeInv, TypeInv, BridgeSet
    <2> QED
      BY <2>1, Zenon DEF ExchangeInv, AnswerIsForTheOperation
  <1>5. \A p \in (On(toNode) \cup On(toHub) \cup Remembered)' : hubRestarts = 0 => Numbered(p)
    BY <1>1, <1>2, Zenon DEF ExchangeInv, NumberInv
  <1>6. NumberInv'
    BY <1>2, <1>5 DEF ExchangeInv, NumberInv, Numbered
  <1> QED
    BY <1>2, <1>3, <1>4, <1>6 DEF ExchangeInv

LEMMA InvNodeOperation == ExchangeInv /\ NodeOperation => ExchangeInv'
  <1> SUFFICES ASSUME ExchangeInv, NodeOperation PROVE ExchangeInv'
    OBVIOUS
  <1>1. /\ toNode # <<>> /\ Head(toNode).op # "TEST" /\ toNode' = Tail(toNode)
        /\ UNCHANGED <<bridge, txn, tracker, asked, tests, accepted, mistaken, hubRestarts,
                       nodeRestarts>>
    BY DEF NodeOperation, hubVars
  <1>2. Head(toNode) \in On(toNode) /\ Head(toNode) \in CommandSet
    BY <1>1, TailFacts DEF ExchangeInv, TypeInv
  <1>3. PICK c \in OperationSet : c = Head(toNode)
    BY <1>1, <1>2 DEF OperationSet
  <1>4. /\ c \in CommandSet /\ c.op \in Operations /\ c.op # "TEST" /\ c.type = "COMMAND"
        /\ c.from = Hub /\ c.to = Node /\ c.body = "NONE" /\ c.origin \in 1 .. MaxCommands
        /\ c.seq \in Sequences8 /\ c # Nothing
    BY DEF OperationSet, CommandSet, Nothing
  <1>5. c.origin <= asked /\ (hubRestarts = 0 => Numbered(c))
    BY <1>2, <1>3, <1>4, Zenon DEF ExchangeInv, OrderInv, Current, NumberInv
  <1>6. PICK a \in AckSet : /\ a = Acknowledgment(c, "SUCCESS") /\ a.seq = c.seq /\ a.op = c.op
                            /\ a.type = "ACK" /\ a.origin = c.origin
    BY <1>4, MadeAnswers
  <1>7. a.origin <= asked /\ (hubRestarts = 0 => Numbered(a))
    BY <1>5, <1>6 DEF Numbered
  <1>8. /\ retained \in RetainedSet /\ executed \in Counters /\ nodeRestarts \in Nat
        /\ toHub \in Seq(AckSet \cup ResponseSet) /\ Len(toHub) <= Capacity
        /\ retained.command \in OperationSet \cup {Nothing}
    BY DEF ExchangeInv, TypeInv, RetainedSet
  <1>9. retained.command # Nothing =>
          /\ retained.command.origin \in 1 .. MaxCommands
          /\ retained.command.origin <= c.origin
          /\ (retained.command.origin = c.origin => retained.command = c)
    <2>1. SUFFICES ASSUME retained.command # Nothing
                   PROVE  /\ retained.command.origin \in 1 .. MaxCommands
                          /\ retained.command.origin <= c.origin
                          /\ (retained.command.origin = c.origin => retained.command = c)
      OBVIOUS
    <2>2. retained.command \in OperationSet /\ retained.command \in Remembered
      BY <1>8, <2>1 DEF Remembered
    <2>3. retained.command.op # "TEST" /\ retained.command.origin \in 1 .. MaxCommands
      BY <2>2, CommandFacts
    <2>4. Before(retained.command, c)
      BY <1>2, <1>3, <2>2 DEF ExchangeInv, OrderInv
    <2> QED
      BY <1>4, <2>2, <2>3, <2>4 DEF Before
  <1>10. Admission(c, Node, Hub, retained) =
           IF SameCommand(c, retained.command)
           THEN IF retained.complete THEN "DUPLICATE_COMPLETE" ELSE "DUPLICATE_PENDING"
           ELSE IF Active(retained) THEN "ACTIVE_BUSY" ELSE "ADMITTED"
    BY <1>4 DEF Admission
  <1>11. \A o \in 1 .. MaxCommands :
           /\ executed[o] <= 1 + nodeRestarts /\ executed[o] \in Nat
           /\ (retained.command = Nothing \/ o > retained.command.origin) =>
                executed[o] <= nodeRestarts
    BY <1>8 DEF ExchangeInv, CountInv, Counters
  <1>12. ~SameCommand(c, retained.command) =>
           \A o \in 1 .. MaxCommands : o >= c.origin => executed[o] <= nodeRestarts
    <2>1. SameCommand(c, c)
      BY <1>4 DEF SameCommand
    <2> QED
      BY <1>4, <1>9, <1>11, <2>1
  <1>13. CASE /\ Admission(c, Node, Hub, retained) = "ADMITTED"
              /\ retained' = Executed(Reserved(c), "OK")
              /\ executed' = [executed EXCEPT ![c.origin] = @ + 1]
              /\ toHub' = Sent(toHub, <<a, retained'.response>>)
    <2>1. PICK r \in ResponseSet :
            /\ r = Packet("RESPONSE", Node, Hub, c.seq, c.op, "OK", c.origin)
            /\ r.seq = c.seq /\ r.op = c.op /\ r.origin = c.origin
      BY <1>4, MadeResponse
    <2>2. retained' = [command |-> c, complete |-> TRUE, response |-> r]
      BY <1>4, <1>13, <2>1, Zenon DEF Executed, Reserved
    <2>3. executed' \in Counters
      BY <1>4, <1>8, <1>13 DEF Counters
    <2>4. \A o \in 1 .. MaxCommands :
            executed'[o] = IF o = c.origin THEN executed[o] + 1 ELSE executed[o]
      BY <1>4, <1>8, <1>13 DEF Counters
    <2>5. /\ executed'[c.origin] >= 1
          /\ \A o \in 1 .. MaxCommands : executed[o] >= 1 => executed'[o] >= 1
      BY <1>4, <1>11, <2>4
    <2>6. <<a, r>> \in Seq(AckSet \cup ResponseSet) /\ On(<<a, r>>) = {a, r}
      BY OnTwo, Zenon
    <2>7. toHub' = Sent(toHub, <<a, r>>)
      BY <1>13, <2>2
    <2>8. hubRestarts = 0 => Numbered(r)
      BY <1>5, <2>1 DEF Numbered
    <2>9. /\ toHub' \in Seq(AckSet \cup ResponseSet) /\ Len(toHub') <= Capacity
          /\ \A p \in On(toHub)' : /\ p.op # "TEST" => p.origin <= asked
                                   /\ p.type = "RESPONSE" => executed'[p.origin] >= 1
                                   /\ hubRestarts = 0 => Numbered(p)
      BY <1>1, <1>5, <1>6, <1>7, <2>1, <2>5, <2>6, <2>7, <2>8, NodeAnswers, Zenon
    <2>10. retained' \in RetainedSet /\ retained'.command = c
      BY <2>2 DEF RetainedSet
    <2>11. AnswerInv'
      BY <1>1, <1>4, <2>1, <2>2, <2>5, <2>9, CommandFacts DEF AnswerInv, ResponseSet, Nothing
    <2>12. ~SameCommand(c, retained.command)
      BY <1>10, <1>13
    <2>13. CountInv'
      <3>1. \A o \in 1 .. MaxCommands :
              executed'[o] <= 1 + nodeRestarts /\ (o > c.origin => executed'[o] <= nodeRestarts)
        BY <1>4, <1>8, <1>11, <1>12, <2>4, <2>12
      <3> QED
        BY <1>1, <1>4, <2>10, <3>1, Zenon DEF ExchangeInv, CountInv
    <2> QED
      BY <1>1, <1>3, <2>3, <2>5, <2>9, <2>10, <2>11, <2>13, OperationTaken
  <1>14. CASE /\ Admission(c, Node, Hub, retained) = "ADMITTED"
              /\ retained' = Reserved(c) /\ UNCHANGED <<executed, toHub>>
    <2>1. retained' \in RetainedSet /\ retained'.command = c /\ ~retained'.complete
      BY <1>14 DEF Reserved, RetainedSet
    <2>2. ~SameCommand(c, retained.command)
      BY <1>10, <1>14
    <2>3. CountInv'
      <3>1. \A o \in 1 .. MaxCommands :
              executed'[o] <= 1 + nodeRestarts /\ (o > c.origin => executed'[o] <= nodeRestarts)
        BY <1>4, <1>8, <1>11, <1>12, <1>14, <2>2
      <3> QED
        BY <1>1, <1>4, <1>14, <2>1, <3>1 DEF ExchangeInv, CountInv
    <2>4. On(toHub)' = On(toHub)
      BY <1>14 DEF On
    <2>5. AnswerInv'
      BY <1>1, <1>14, <2>1, <2>4, Zenon DEF ExchangeInv, AnswerInv
    <2>6. \A p \in On(toHub)' : hubRestarts = 0 => Numbered(p)
      BY <2>4 DEF ExchangeInv, NumberInv
    <2> QED
      BY <1>1, <1>3, <1>8, <1>14, <2>1, <2>3, <2>5, <2>6, OperationTaken
  <1>15. ASSUME UNCHANGED <<retained, executed>>, AnswerInv',
                toHub' \in Seq(AckSet \cup ResponseSet), Len(toHub') <= Capacity,
                \A p \in On(toHub)' : hubRestarts = 0 => Numbered(p)
         PROVE  ExchangeInv'
    <2>1. CountInv'
      BY <1>1, <1>15 DEF ExchangeInv, CountInv
    <2> QED
      BY <1>1, <1>3, <1>8, <1>15, <2>1, OperationTaken
  <1>16. CASE /\ Admission(c, Node, Hub, retained) = "DUPLICATE_PENDING"
              /\ toHub' = Sent(toHub, <<a>>) /\ UNCHANGED <<retained, executed>>
    <2>1. <<a>> \in Seq(AckSet \cup ResponseSet) /\ On(<<a>>) = {a}
      BY OnOne
    <2>2. /\ toHub' \in Seq(AckSet \cup ResponseSet) /\ Len(toHub') <= Capacity
          /\ \A p \in On(toHub)' : /\ p.op # "TEST" => p.origin <= asked
                                   /\ p.type = "RESPONSE" => executed'[p.origin] >= 1
                                   /\ hubRestarts = 0 => Numbered(p)
      BY <1>1, <1>6, <1>7, <1>16, <2>1, NodeAnswers, Zenon
    <2>3. AnswerInv'
      BY <1>1, <1>16, <2>2, Zenon DEF ExchangeInv, AnswerInv
    <2> QED
      BY <1>15, <1>16, <2>2, <2>3
  <1>17. CASE /\ Admission(c, Node, Hub, retained) = "DUPLICATE_COMPLETE"
              /\ toHub' = Sent(toHub, <<a, retained.response>>)
              /\ UNCHANGED <<retained, executed>>
    <2>1. /\ retained.complete /\ retained.command # Nothing /\ retained.response # Nothing
          /\ retained.response.origin = retained.command.origin
          /\ retained.response.seq = retained.command.seq
          /\ executed[retained.command.origin] >= 1
      BY <1>10, <1>17, Zenon DEF ExchangeInv, AnswerInv
    <2>2. PICK r \in ResponseSet : r = retained.response
      BY <1>8, <2>1 DEF RetainedSet
    <2>3. r.op # "TEST" /\ retained.command.op # "TEST" /\ retained.command \in Remembered
      BY <1>8, <2>1, CommandFacts DEF ResponseSet, Remembered
    <2>4. r.origin <= asked /\ executed[r.origin] >= 1
      BY <2>1, <2>2, <2>3 DEF ExchangeInv, OrderInv, Current
    <2>5. hubRestarts = 0 => Numbered(r)
      BY <2>1, <2>2, <2>3 DEF ExchangeInv, NumberInv, Numbered
    <2>6. <<a, r>> \in Seq(AckSet \cup ResponseSet) /\ On(<<a, r>>) = {a, r}
      BY OnTwo, Zenon
    <2>7. /\ toHub' \in Seq(AckSet \cup ResponseSet) /\ Len(toHub') <= Capacity
          /\ \A p \in On(toHub)' : /\ p.op # "TEST" => p.origin <= asked
                                   /\ p.type = "RESPONSE" => executed'[p.origin] >= 1
                                   /\ hubRestarts = 0 => Numbered(p)
      BY <1>1, <1>6, <1>7, <1>17, <2>2, <2>4, <2>5, <2>6, NodeAnswers, Zenon
    <2>8. AnswerInv'
      BY <1>1, <1>17, <2>7, Zenon DEF ExchangeInv, AnswerInv
    <2> QED
      BY <1>15, <1>17, <2>7, <2>8
  <1>18. CASE UNCHANGED <<toHub, retained, executed>>
    <2>1. On(toHub)' = On(toHub)
      BY <1>18 DEF On
    <2>2. AnswerInv' /\ \A p \in On(toHub)' : hubRestarts = 0 => Numbered(p)
      BY <1>1, <1>18, <2>1, Zenon DEF ExchangeInv, AnswerInv, NumberInv
    <2> QED
      BY <1>8, <1>15, <1>18, <2>2
  <1> QED
    BY <1>3, <1>6, <1>13, <1>14, <1>16, <1>17, <1>18, Zenon DEF NodeOperation

-----------------------------------------------------------------------------
(* The invariant holds at the start, and the Hub's steps keep it *)

LEMMA InvInit == Init => ExchangeInv
  <1> SUFFICES ASSUME Init PROVE ExchangeInv
    OBVIOUS
  <1>1. On(toNode) = {} /\ On(toHub) = {} /\ Remembered = {}
    BY DEF Init, On, Remembered, NoOperation
  <1>2. SequenceRange \in Nat /\ SequenceRange > 1 /\ MaxCommands \in Nat /\ Capacity \in Nat
    BY WireAssumption, ExchangeAssumption
  <1>3. bridge \in BridgeSet /\ txn \in TransactionSet /\ retained \in RetainedSet
    BY <1>2 DEF Init, IdleBridge, FirstTransaction, NoOperation, BridgeSet, TransactionSet,
       RetainedSet, Sequences8
  <1>4. TypeInv
    BY <1>2, <1>3 DEF Init, TypeInv, Counters
  <1>5. OrderInv /\ InOrder(toNode)
    BY <1>1 DEF Init, OrderInv, InOrder
  <1>6. HubInv /\ AnswerIsForTheOperation /\ MistakenOnlyByWrap
    BY DEF Init, HubInv, Open, IdleBridge, FirstTransaction, AnswerIsForTheOperation,
       MistakenOnlyByWrap
  <1>7. CountInv /\ AnswerInv
    BY <1>1 DEF Init, CountInv, AnswerInv, NoOperation
  <1>8. NumberInv
    <2>1. 0 % SequenceRange = 0
      <3>1. 0 \in 0 .. SequenceRange - 1 /\ 0 \in Int /\ 0 = SequenceRange * 0 + 0
        BY <1>2
      <3> QED
        BY <1>2, <3>1, ModUnique
    <2>2. 1 % SequenceRange = 1
      <3>1. 1 \in 0 .. SequenceRange - 1 /\ 0 \in Int /\ 1 = SequenceRange * 0 + 1
        BY <1>2
      <3> QED
        BY <1>2, <3>1, ModUnique
    <2>3. ~bridge.active /\ ~Open /\ bridge.next = 0 /\ txn.seq = 1 /\ asked = 0 /\ tests + 1 = 1
      BY DEF Init, IdleBridge, FirstTransaction, Open
    <2> QED
      BY <1>1, <2>1, <2>2, <2>3 DEF NumberInv
  <1> QED
    BY <1>4, <1>5, <1>6, <1>7, <1>8 DEF ExchangeInv

(* A command that nothing is younger than is sent *)
LEMMA CommandSent ==
    ASSUME TypeInv, OrderInv, NEW c \in CommandSet, toNode' = Sent(toNode, <<c>>),
           UNCHANGED <<retained, tracker>>, Current(c)',
           \A d \in On(toNode) \cup Remembered : Before(d, c) /\ Current(d)'
    PROVE  /\ toNode' \in Seq(CommandSet) /\ Len(toNode') <= Capacity
           /\ OrderInv' /\ Remembered' = Remembered
           /\ On(toNode)' \subseteq On(toNode) \cup {c}
  <1>1. toNode \in Seq(CommandSet)
    BY DEF TypeInv
  <1>2. <<c>> \in Seq(CommandSet) /\ On(<<c>>) = {c}
    BY OnOne
  <1>3. toNode' \in Seq(CommandSet) /\ Len(toNode') <= Capacity
    BY <1>1, <1>2, SentFacts, Zenon
  <1>4. Remembered' = Remembered
    BY DEF Remembered
  <1>5. On(toNode') \subseteq On(toNode) \cup {c}
    BY <1>1, <1>2, OnSent, Zenon
  <1>6. InOrder(toNode')
    BY <1>1, OrderSent DEF OrderInv
  <1>7. \A d \in On(toNode') : Current(d)'
    BY <1>5
  <1>8. \A m \in Remembered : Current(m)' /\ \A d \in On(toNode') : Before(m, d)
    BY <1>5 DEF OrderInv
  <1>9. On(toNode)' = On(toNode') /\ InOrder(toNode)' = InOrder(toNode')
    BY Zenon DEF On, InOrder, Before
  <1>10. OrderInv'
    BY <1>4, <1>6, <1>7, <1>8, <1>9 DEF OrderInv, Before
  <1> QED
    BY <1>3, <1>4, <1>5, <1>9, <1>10

LEMMA InvAsk == ExchangeInv /\ Ask => ExchangeInv'
  <1> SUFFICES ASSUME ExchangeInv, Ask PROVE ExchangeInv'
    OBVIOUS
  <1>1. PICK op \in Operations :
          /\ bridge' = Submitted(bridge, Packet("COMMAND", Hub, Node, bridge.next, op, "NONE",
                                                asked + 1))
          /\ toNode' = Sent(toNode, <<Packet("COMMAND", Hub, Node, bridge.next, op, "NONE",
                                             asked + 1)>>)
    BY DEF Ask
  <1>2. /\ ~bridge.active /\ asked + tests < MaxCommands /\ asked' = asked + 1
        /\ UNCHANGED <<txn, toHub, retained, tracker, tests, executed, accepted, mistaken,
                       hubRestarts, nodeRestarts>>
    BY DEF Ask, nodeVars, counts
  <1>3. /\ bridge \in BridgeSet /\ bridge.next \in Sequences8 /\ asked \in Nat /\ tests \in Nat
        /\ asked + 1 \in 1 .. MaxCommands
    BY <1>2, CommandFacts DEF ExchangeInv, TypeInv, BridgeSet
  <1>4. PICK c \in OperationSet :
          /\ bridge' = Submitted(bridge, c) /\ toNode' = Sent(toNode, <<c>>)
          /\ c.seq = bridge.next /\ c.origin = asked + 1
    <2>1. op \in Operations \cup {"TEST"} /\ op # "TEST"
      BY CommandFacts
    <2>2. PICK c \in CommandSet :
            /\ c = Packet("COMMAND", Hub, Node, bridge.next, op, "NONE", asked + 1)
            /\ c.seq = bridge.next /\ c.origin = asked + 1 /\ c \in OperationSet
      BY <1>3, <2>1, MadeCommand
    <2> QED
      BY <1>1, <2>2, Zenon
  <1>5. c \in CommandSet /\ c.op # "TEST"
    BY CommandFacts
  <1>6. /\ bridge' \in BridgeSet /\ bridge'.command = c /\ bridge'.active
        /\ bridge'.next = bridge.next /\ bridge'.done = Nothing
    BY <1>3, <1>4, SubmittedFacts
  <1>7. \A d \in On(toNode) \cup Remembered : d \in CommandSet /\ Current(d)
    BY RememberedType DEF ExchangeInv, OrderInv
  <1>8. \A d \in On(toNode) \cup Remembered : Before(d, c) /\ Current(d)'
    <2> SUFFICES ASSUME NEW d \in On(toNode) \cup Remembered
                 PROVE  Before(d, c) /\ Current(d)'
      OBVIOUS
    <2>1. d.origin \in Nat
      BY <1>7, CommandFacts
    <2> QED
      BY <1>2, <1>3, <1>4, <1>5, <1>7, <2>1 DEF Before, Current, Open
  <1>9. Current(c)'
    BY <1>2, <1>3, <1>4, <1>5, <1>6 DEF Current
  <1>10. /\ toNode' \in Seq(CommandSet) /\ Len(toNode') <= Capacity
         /\ OrderInv' /\ Remembered' = Remembered
         /\ On(toNode)' \subseteq On(toNode) \cup {c}
    BY <1>2, <1>4, <1>5, <1>8, <1>9, CommandSent, Zenon DEF ExchangeInv
  <1>11. TypeInv'
    <2>1. asked' \in Nat /\ asked' + tests <= MaxCommands
      BY <1>2, <1>3, CommandFacts
    <2> QED
      BY <1>2, <1>6, <1>10, <2>1 DEF ExchangeInv, TypeInv
  <1>12. HubInv'
    BY <1>2, <1>4, <1>5, <1>6, CommandFacts, Zenon DEF ExchangeInv, HubInv, Open
  <1>13. CountInv'
    BY <1>2 DEF ExchangeInv, CountInv
  <1>14. AnswerInv'
    <2>1. On(toHub)' = On(toHub) /\ \A p \in On(toHub) : p.origin \in Nat
      BY <1>2, RememberedType DEF On, ExchangeInv, AckSet, ResponseSet
    <2> QED
      BY <1>2, <1>3, <2>1 DEF ExchangeInv, AnswerInv
  <1>15. NumberInv'
    <2> SUFFICES ASSUME hubRestarts = 0
                 PROVE  NumberInv'
      BY <1>2, Zenon DEF NumberInv
    <2>1. bridge.next = asked % SequenceRange /\ asked' - 1 = asked /\ c.origin - 1 = asked
      BY <1>2, <1>3, <1>4 DEF ExchangeInv, NumberInv
    <2>2. Numbered(c)
      BY <1>4, <1>5, <2>1 DEF Numbered
    <2>3. On(toHub)' = On(toHub) /\ Open' = Open
      BY <1>2 DEF On, Open
    <2>4. \A p \in (On(toNode) \cup On(toHub) \cup Remembered)' : Numbered(p)
      BY <1>10, <2>2, <2>3 DEF ExchangeInv, NumberInv
    <2> QED
      BY <1>2, <1>4, <1>6, <2>1, <2>3, <2>4, Zenon DEF ExchangeInv, NumberInv, Numbered
  <1>16. AnswerIsForTheOperation' /\ MistakenOnlyByWrap'
    <2>1. AnswerIsForTheOperation'
      BY <1>2, <1>6 DEF ExchangeInv, AnswerIsForTheOperation
    <2>2. MistakenOnlyByWrap'
      BY <1>2, <1>6 DEF ExchangeInv, MistakenOnlyByWrap
    <2> QED
      BY <2>1, <2>2
  <1> QED
    BY <1>10, <1>11, <1>12, <1>13, <1>14, <1>15, <1>16 DEF ExchangeInv

(* The sequence after that of the operation is the one of the next *)
LEMMA NextAfter ==
    ASSUME NEW x \in Int, NEW n, n = x % SequenceRange
    PROVE  NextSequence(n) = (x + 1) % SequenceRange
  <1>1. SequenceRange \in Nat /\ SequenceRange > 0
    BY WireAssumption
  <1>2. ((x % SequenceRange) + 1) % SequenceRange = (x + 1) % SequenceRange
    BY <1>1, ModNext, Zenon
  <1> QED
    BY <1>2, Zenon DEF NextSequence

(* The Hub ends its operation and sends nothing *)
LEMMA OperationEnds ==
    ASSUME ExchangeInv, bridge.active, bridge' \in BridgeSet, Ends(bridge, bridge'),
           bridge'.command = bridge.command, bridge'.done # Nothing,
           UNCHANGED <<toNode, retained, tracker, asked, tests, executed, accepted, mistaken,
                       hubRestarts, nodeRestarts, txn>>,
           toHub' \in Seq(AckSet \cup ResponseSet), Len(toHub') <= Capacity,
           On(toHub)' \subseteq On(toHub), AnswerIsForTheOperation'
    PROVE  ExchangeInv'
  <1>1. On(toNode)' = On(toNode) /\ Remembered' = Remembered /\ Open' = Open
          /\ InOrder(toNode)' = InOrder(toNode)
    BY DEF On, Remembered, Open, InOrder, Before
  <1>2. TypeInv' /\ HubInv' /\ CountInv' /\ MistakenOnlyByWrap'
    <2>1. TypeInv'
      BY <1>1 DEF ExchangeInv, TypeInv, Ends
    <2>2. HubInv'
      BY <1>1, Zenon DEF ExchangeInv, HubInv, Ends
    <2>3. CountInv'
      BY <1>1 DEF ExchangeInv, CountInv, Ends
    <2>4. MistakenOnlyByWrap'
      BY <1>1, Zenon DEF ExchangeInv, MistakenOnlyByWrap, Ends
    <2> QED
      BY <2>1, <2>2, <2>3, <2>4
  <1>3. AnswerInv'
    BY DEF ExchangeInv, AnswerInv
  <1>4. \A d : Current(d) => Current(d)'
    BY <1>1, Zenon DEF Current, Ends
  <1>5. OrderInv'
    BY <1>1, <1>4, Zenon DEF ExchangeInv, OrderInv, Before
  <1>6. ASSUME hubRestarts = 0
        PROVE  bridge'.next = asked % SequenceRange
    <2>1. asked - 1 \in Int /\ asked - 1 + 1 = asked
      BY DEF ExchangeInv, TypeInv
    <2>2. NextSequence(bridge.next) = (asked - 1 + 1) % SequenceRange
      <3>1. bridge.next = (asked - 1) % SequenceRange
        BY <1>6, Zenon DEF ExchangeInv, NumberInv
      <3> QED
        BY <2>1, <3>1, NextAfter, Zenon
    <2> QED
      BY <2>1, <2>2, Zenon DEF Ends
  <1>7. NumberInv'
    BY <1>1, <1>6, Zenon DEF ExchangeInv, NumberInv, Numbered, Ends
  <1> QED
    BY <1>2, <1>3, <1>5, <1>7 DEF ExchangeInv

LEMMA InvServiceOperation == ExchangeInv /\ ServiceOperation => ExchangeInv'
  <1> SUFFICES ASSUME ExchangeInv, ServiceOperation PROVE ExchangeInv'
    OBVIOUS
  <1>1. /\ bridge.active /\ bridge' = Serviced(bridge)
        /\ toNode' = (IF bridge'.active THEN Sent(toNode, <<bridge.command>>) ELSE toNode)
        /\ UNCHANGED <<txn, toHub, retained, tracker, asked, tests, executed, accepted, mistaken,
                       hubRestarts, nodeRestarts>>
    BY DEF ServiceOperation, nodeVars, history, counts
  <1>2. bridge \in BridgeSet /\ bridge.command # Nothing /\ bridge.command.origin = asked
    BY <1>1, Zenon DEF ExchangeInv, TypeInv, HubInv
  <1>3. PICK c \in OperationSet : c = bridge.command
    BY <1>2 DEF BridgeSet
  <1>4. c \in CommandSet /\ c.op # "TEST" /\ c.origin = asked /\ asked \in Nat
    BY <1>2, <1>3, CommandFacts, Zenon DEF ExchangeInv, TypeInv
  <1>5. bridge' \in BridgeSet /\ bridge'.command = c
    BY <1>1, <1>2, <1>3, ServicedFacts
  <1>6. On(toHub)' = On(toHub) /\ Open' = Open
    BY <1>1 DEF On, Open
  <1>7. CASE GoesOn(bridge, bridge')
    <2>1. \A d \in On(toNode) \cup Remembered : d \in CommandSet /\ Current(d)
      BY RememberedType DEF ExchangeInv, OrderInv
    <2>2. \A d \in On(toNode) \cup Remembered : Before(d, c) /\ Current(d)'
      BY <1>1, <1>3, <1>4, <1>5, <1>6, <1>7, <2>1, Zenon DEF Before, Current, GoesOn
    <2>3. Current(c)'
      BY <1>1, <1>4, <1>5 DEF Current
    <2>4. toNode' = Sent(toNode, <<c>>)
      BY <1>1, <1>3, <1>7, Zenon DEF GoesOn
    <2>5. /\ toNode' \in Seq(CommandSet) /\ Len(toNode') <= Capacity
          /\ OrderInv' /\ Remembered' = Remembered
          /\ On(toNode)' \subseteq On(toNode) \cup {c}
      BY <1>1, <1>4, <2>2, <2>3, <2>4, CommandSent, Zenon DEF ExchangeInv
    <2>6. TypeInv'
      BY <1>1, <1>5, <2>5 DEF ExchangeInv, TypeInv
    <2>7. HubInv' /\ CountInv' /\ AnswerInv' /\ MistakenOnlyByWrap'
      <3>1. HubInv'
        BY <1>1, <1>3, <1>5, <1>6, <1>7, Zenon DEF ExchangeInv, HubInv, GoesOn
      <3>2. CountInv'
        BY <1>1, <1>3, <1>5, <1>6, <1>7, Zenon DEF ExchangeInv, CountInv, GoesOn
      <3>3. AnswerInv'
        BY <1>1, <1>3, <1>5, <1>6, <1>7, Zenon DEF ExchangeInv, AnswerInv, GoesOn
      <3>4. MistakenOnlyByWrap'
        BY <1>1, <1>3, <1>5, <1>6, <1>7, Zenon DEF ExchangeInv, MistakenOnlyByWrap, GoesOn
      <3> QED
        BY <3>1, <3>2, <3>3, <3>4
    <2>8. AnswerIsForTheOperation'
      BY <1>1, <1>7, Zenon DEF ExchangeInv, AnswerIsForTheOperation, GoesOn
    <2>9. ASSUME hubRestarts = 0
          PROVE  Numbered(c)
      BY <1>1, <1>3, <1>4, <2>9, Zenon DEF ExchangeInv, NumberInv, Numbered
    <2>10. NumberInv'
      BY <1>1, <1>3, <1>5, <1>6, <1>7, <2>5, <2>9, Zenon DEF ExchangeInv, NumberInv, Numbered, GoesOn
    <2> QED
      BY <2>5, <2>6, <2>7, <2>8, <2>10 DEF ExchangeInv
  <1>8. CASE Ends(bridge, bridge') /\ bridge'.done = Outcome("TIMEOUT", bridge.command.origin)
    <2>1. toNode' = toNode
      BY <1>1, <1>8 DEF Ends
    <2>2. bridge'.done.origin = asked /\ bridge'.done.class = "TIMEOUT"
      BY <1>2, <1>8 DEF Outcome
    <2>3. bridge'.done # Nothing
      BY <1>8 DEF Outcome, Nothing
    <2>4. AnswerIsForTheOperation'
      BY <1>1, <2>2, Zenon DEF AnswerIsForTheOperation
    <2>5. toHub' \in Seq(AckSet \cup ResponseSet) /\ Len(toHub') <= Capacity
      BY <1>1 DEF ExchangeInv, TypeInv
    <2> QED
      BY <1>1, <1>3, <1>5, <1>6, <1>8, <2>1, <2>3, <2>4, <2>5, OperationEnds, Zenon
  <1> QED
    BY <1>1, <1>2, <1>7, <1>8, ServicedFacts

LEMMA InvSendTest == ExchangeInv /\ SendTest => ExchangeInv'
  <1> SUFFICES ASSUME ExchangeInv, SendTest PROVE ExchangeInv'
    OBVIOUS
  <1>1. /\ ~txn.awaiting /\ txn' = BeginWait(txn) /\ toNode' = Sent(toNode, <<TestCommand(tests')>>)
        /\ IF txn.retries = 0 THEN asked + tests < MaxCommands /\ tests' = tests + 1
           ELSE tests' = tests
        /\ UNCHANGED <<bridge, toHub, retained, tracker, asked, executed, accepted, mistaken,
                       hubRestarts, nodeRestarts>>
    BY DEF SendTest, nodeVars, counts
  <1>2. /\ txn \in TransactionSet /\ txn.retries \in Nat /\ txn.seq \in Sequences8
        /\ asked \in Nat /\ tests \in Nat /\ asked + tests <= MaxCommands
    BY DEF ExchangeInv, TypeInv, TransactionSet
  <1>3. txn' \in TransactionSet /\ txn'.seq = txn.seq /\ Open'
    BY <1>1, <1>2, TransactionFacts, Zenon DEF Open
  <1>4. tests' \in 1 .. MaxCommands /\ asked + tests' <= MaxCommands
    <2>1. CASE txn.retries = 0
      BY <1>1, <1>2, <2>1, CommandFacts
    <2>2. CASE txn.retries # 0
      <3>1. tests >= 1 /\ tests' = tests
        BY <1>1, <1>2, <2>2 DEF ExchangeInv, HubInv, Open
      <3> QED
        BY <1>2, <3>1, CommandFacts
    <2> QED
      BY <2>1, <2>2
  <1>5. PICK c \in CommandSet : /\ c = TestCommand(tests') /\ c \in TestSet
                                /\ c.seq = txn.seq /\ c.origin = tests'
    <2>1. PICK t \in 1 .. MaxCommands : t = tests'
      BY <1>4, Zenon
    <2>2. PICK c \in CommandSet :
            /\ c = Packet("COMMAND", Hub, Node, txn.seq, "TEST", "NONE", t)
            /\ c \in TestSet /\ c.seq = txn.seq /\ c.origin = t
      BY <1>2, MadeTest, Zenon
    <2> QED
      BY <2>1, <2>2, Zenon DEF TestCommand
  <1>6. c.op = "TEST"
    BY <1>5, CommandFacts
  <1>7. \A d \in On(toNode) \cup Remembered : d \in CommandSet /\ d.origin \in Nat /\ Current(d)
    <2> SUFFICES ASSUME NEW d \in On(toNode) \cup Remembered
                 PROVE  d \in CommandSet /\ d.origin \in Nat /\ Current(d)
      BY Zenon
    <2>1. TypeInv /\ OrderInv
      BY Zenon DEF ExchangeInv
    <2>2. d \in CommandSet
      BY <2>1, RememberedType, Zenon
    <2>3. d.origin \in Nat
      BY <2>2, CommandFacts
    <2> QED
      BY <2>1, <2>2, <2>3, Zenon DEF OrderInv
  <1>8. \A d \in On(toNode) \cup Remembered : Before(d, c) /\ Current(d)'
    <2> SUFFICES ASSUME NEW d \in On(toNode) \cup Remembered
                 PROVE  Before(d, c) /\ Current(d)'
      OBVIOUS
    <2>1. CASE d.op # "TEST"
      BY <1>1, <1>6, <1>7, <2>1, Zenon DEF Before, Current
    <2>2. CASE d.op = "TEST" /\ txn.retries = 0
      <3>1. d.origin <= tests /\ tests' = tests + 1
        BY <1>1, <1>7, <2>2, Zenon DEF Current
      <3> QED
        BY <1>2, <1>5, <1>7, <2>2, <3>1 DEF Before, Current
    <2>3. CASE d.op = "TEST" /\ txn.retries # 0
      <3>1. Open /\ tests' = tests
        BY <1>1, <1>2, <2>3 DEF Open
      <3>2. d.origin <= tests /\ (d.origin = tests => d.seq = txn.seq)
        BY <1>7, <2>3, <3>1 DEF Current
      <3>3. d \in TestSet
        BY <1>7, <2>3 DEF TestSet
      <3>4. d.origin = tests => d = c
        BY <1>5, <3>1, <3>2, <3>3, SameTest
      <3> QED
        BY <1>3, <1>5, <2>3, <3>1, <3>2, <3>4, Zenon DEF Before, Current
    <2> QED
      BY <2>1, <2>2, <2>3
  <1>9. Current(c)'
    BY <1>3, <1>4, <1>5, <1>6 DEF Current
  <1>10. /\ toNode' \in Seq(CommandSet) /\ Len(toNode') <= Capacity
         /\ OrderInv' /\ Remembered' = Remembered
         /\ On(toNode)' \subseteq On(toNode) \cup {c}
    BY <1>1, <1>5, <1>8, <1>9, CommandSent, Zenon DEF ExchangeInv
  <1>11. TypeInv'
    BY <1>1, <1>3, <1>4, <1>10 DEF ExchangeInv, TypeInv
  <1>12. HubInv' /\ CountInv' /\ MistakenOnlyByWrap' /\ AnswerIsForTheOperation'
    <2>1. HubInv'
      BY <1>1, <1>4 DEF ExchangeInv, HubInv
    <2>2. CountInv'
      BY <1>1, <1>4, Zenon DEF ExchangeInv, CountInv
    <2>3. MistakenOnlyByWrap'
      BY <1>1, <1>4 DEF ExchangeInv, MistakenOnlyByWrap
    <2>4. AnswerIsForTheOperation'
      BY <1>1, <1>4, Zenon DEF ExchangeInv, AnswerIsForTheOperation
    <2> QED
      BY <2>1, <2>2, <2>3, <2>4
  <1>13. On(toHub)' = On(toHub)
    BY <1>1 DEF On
  <1>14. AnswerInv'
    BY <1>1, <1>13, Zenon DEF ExchangeInv, AnswerInv
  <1>15. NumberInv'
    <2> SUFFICES ASSUME hubRestarts = 0
                 PROVE  NumberInv'
      BY <1>1, Zenon DEF NumberInv
    <2>1. txn.seq = tests' % SequenceRange
      <3>1. IF Open THEN txn.seq = tests % SequenceRange
            ELSE txn.seq = (tests + 1) % SequenceRange
        BY Zenon DEF ExchangeInv, NumberInv
      <3>2. ~txn.awaiting
        BY Zenon DEF SendTest
      <3>3. Open <=> txn.retries # 0
        BY <1>2, <3>2 DEF Open
      <3> QED
        BY <1>1, <3>1, <3>3, Zenon
    <2>2. Numbered(c)
      BY <1>5, <1>6, <2>1 DEF Numbered
    <2>3. \A p \in (On(toNode) \cup On(toHub) \cup Remembered)' : Numbered(p)
      BY <1>10, <1>13, <2>2, Zenon DEF ExchangeInv, NumberInv
    <2> QED
      BY <1>1, <1>3, <2>1, <2>3, Zenon DEF ExchangeInv, NumberInv, Numbered
  <1> QED
    BY <1>10, <1>11, <1>12, <1>14, <1>15 DEF ExchangeInv

(* The Hub's TEST transaction is tried again, or is over *)
LEMMA TestMoves ==
    ASSUME ExchangeInv, Open, txn' \in TransactionSet,
           \/ Open' /\ txn'.seq = txn.seq
           \/ ~Open' /\ txn'.seq = NextSequence(txn.seq),
           UNCHANGED <<bridge, toNode, retained, tracker, asked, tests, executed, accepted,
                       mistaken, hubRestarts, nodeRestarts>>,
           toHub' \in Seq(AckSet \cup ResponseSet), Len(toHub') <= Capacity,
           On(toHub)' \subseteq On(toHub)
    PROVE  ExchangeInv'
  <1>1. On(toNode)' = On(toNode) /\ Remembered' = Remembered
          /\ InOrder(toNode)' = InOrder(toNode)
    BY DEF On, Remembered, InOrder, Before
  <1>2. TypeInv' /\ HubInv' /\ CountInv' /\ MistakenOnlyByWrap' /\ AnswerIsForTheOperation'
    <2>1. TypeInv'
      BY Zenon DEF ExchangeInv, TypeInv
    <2>2. HubInv'
      BY Zenon DEF ExchangeInv, HubInv
    <2>3. CountInv'
      BY Zenon DEF ExchangeInv, CountInv
    <2>4. MistakenOnlyByWrap'
      BY Zenon DEF ExchangeInv, MistakenOnlyByWrap
    <2>5. AnswerIsForTheOperation'
      BY Zenon DEF ExchangeInv, AnswerIsForTheOperation
    <2> QED
      BY <2>1, <2>2, <2>3, <2>4, <2>5, Zenon
  <1>3. AnswerInv'
    BY Zenon DEF ExchangeInv, AnswerInv
  <1>4. \A d : Current(d) => Current(d)'
    BY Zenon DEF Current
  <1>5. OrderInv'
    BY <1>1, <1>4, Zenon DEF ExchangeInv, OrderInv, Before
  <1>6. ASSUME hubRestarts = 0
        PROVE  NextSequence(txn.seq) = (tests + 1) % SequenceRange
    <2>1. txn.seq = tests % SequenceRange
      BY <1>6, Zenon DEF ExchangeInv, NumberInv
    <2>2. tests \in Int
      BY DEF ExchangeInv, TypeInv
    <2> QED
      BY <2>1, <2>2, NextAfter, Zenon
  <1>7. NumberInv'
    BY <1>1, <1>6, Zenon DEF ExchangeInv, NumberInv, Numbered
  <1> QED
    BY <1>2, <1>3, <1>5, <1>7, Zenon DEF ExchangeInv

LEMMA InvTestTimeout == ExchangeInv /\ TestTimeout => ExchangeInv'
  <1> SUFFICES ASSUME ExchangeInv, TestTimeout PROVE ExchangeInv'
    OBVIOUS
  <1>1. /\ txn.awaiting /\ txn' = AttemptFailed(txn)
        /\ UNCHANGED <<bridge, toNode, toHub, retained, tracker, asked, tests, executed, accepted,
                       mistaken, hubRestarts, nodeRestarts>>
    BY DEF TestTimeout, air, nodeVars, history, counts
  <1>2. /\ txn \in TransactionSet
        /\ toHub' \in Seq(AckSet \cup ResponseSet) /\ Len(toHub') <= Capacity
    BY <1>1 DEF ExchangeInv, TypeInv
  <1>3. /\ txn' \in TransactionSet
        /\ \/ Open' /\ txn'.seq = txn.seq
           \/ ~Open' /\ txn'.seq = NextSequence(txn.seq)
    BY <1>1, <1>2, TransactionFacts DEF Open
  <1>4. On(toHub)' = On(toHub) /\ Open
    BY <1>1 DEF On, Open
  <1> QED
    BY <1>1, <1>2, <1>3, <1>4, TestMoves

(* The bridge may note an acknowledgment, and an answer be gone *)
LEMMA AnswerPasses ==
    ASSUME ExchangeInv, bridge' \in BridgeSet, GoesOn(bridge, bridge'),
           bridge'.command = bridge.command,
           UNCHANGED <<toNode, retained, tracker, asked, tests, executed, accepted, mistaken,
                       hubRestarts, nodeRestarts, txn>>,
           toHub' \in Seq(AckSet \cup ResponseSet), Len(toHub') <= Capacity,
           On(toHub)' \subseteq On(toHub)
    PROVE  ExchangeInv'
  <1>1. On(toNode)' = On(toNode) /\ Remembered' = Remembered /\ Open' = Open
          /\ InOrder(toNode)' = InOrder(toNode)
    BY Zenon DEF Remembered, Open
  <1>2. TypeInv' /\ HubInv' /\ CountInv' /\ MistakenOnlyByWrap' /\ AnswerIsForTheOperation'
    <2>1. TypeInv'
      BY <1>1, Zenon DEF ExchangeInv, TypeInv, GoesOn
    <2>2. HubInv'
      BY <1>1, Zenon DEF ExchangeInv, HubInv, GoesOn
    <2>3. CountInv'
      BY <1>1, Zenon DEF ExchangeInv, CountInv, GoesOn
    <2>4. MistakenOnlyByWrap'
      BY <1>1, Zenon DEF ExchangeInv, MistakenOnlyByWrap, GoesOn
    <2>5. AnswerIsForTheOperation'
      BY <1>1, Zenon DEF ExchangeInv, AnswerIsForTheOperation, GoesOn
    <2> QED
      BY <2>1, <2>2, <2>3, <2>4, <2>5, Zenon
  <1>3. AnswerInv'
    BY Zenon DEF ExchangeInv, AnswerInv
  <1>4. \A d : Current(d) => Current(d)'
    BY <1>1, Zenon DEF Current, GoesOn
  <1>5. OrderInv'
    BY <1>1, <1>4, Zenon DEF ExchangeInv, OrderInv, Before
  <1>6. NumberInv'
    BY <1>1, Zenon DEF ExchangeInv, NumberInv, Numbered, GoesOn
  <1> QED
    BY <1>2, <1>3, <1>5, <1>6, Zenon DEF ExchangeInv

LEMMA InvLoseAnswer == ExchangeInv /\ LoseAnswer => ExchangeInv'
  <1> SUFFICES ASSUME ExchangeInv, LoseAnswer PROVE ExchangeInv'
    OBVIOUS
  <1>1. /\ toHub # <<>> /\ toHub' = Tail(toHub)
        /\ UNCHANGED <<bridge, txn, toNode, retained, tracker, asked, tests, executed, accepted,
                       mistaken, hubRestarts, nodeRestarts>>
    BY DEF LoseAnswer, hubVars, nodeVars, history, counts
  <1>2. /\ toHub \in Seq(AckSet \cup ResponseSet) /\ Len(toHub) <= Capacity
        /\ bridge \in BridgeSet /\ Capacity \in Nat /\ Len(toHub) \in Nat
    BY ExchangeAssumption DEF ExchangeInv, TypeInv
  <1>3. /\ toHub' \in Seq(AckSet \cup ResponseSet) /\ Len(toHub') <= Capacity
        /\ On(Tail(toHub)) \subseteq On(toHub)
    BY <1>1, <1>2, TailFacts
  <1>4. On(toHub)' \subseteq On(toHub) /\ GoesOn(bridge, bridge')
    BY <1>1, <1>3 DEF On, GoesOn
  <1> QED
    BY <1>1, <1>2, <1>3, <1>4, AnswerPasses


-----------------------------------------------------------------------------
(* The Node's steps: TESTs *)

LEMMA InvNodeTest == ExchangeInv /\ NodeTest => ExchangeInv'
  <1> SUFFICES ASSUME ExchangeInv, NodeTest PROVE ExchangeInv'
    OBVIOUS
  <1>1. /\ toNode # <<>> /\ Head(toNode).op = "TEST" /\ toNode' = Tail(toNode)
        /\ toHub' = Sent(toHub, <<Acknowledgment(Head(toNode), "SUCCESS")>>)
        /\ tracker' = Head(toNode)
        /\ UNCHANGED <<bridge, txn, retained, asked, tests, executed, hubRestarts, nodeRestarts>>
    BY Zenon DEF NodeTest, hubVars, counts
  <1>2. Remembered' \subseteq Remembered \cup {Head(toNode)}
    BY <1>1 DEF Remembered
  <1>3. /\ toNode' \in Seq(CommandSet) /\ Len(toNode') <= Capacity
        /\ Head(toNode) \in On(toNode) /\ Head(toNode) \in CommandSet
        /\ On(toNode)' \subseteq On(toNode) /\ OrderInv' /\ HubInv' /\ Open' = Open
    BY <1>1, <1>2, CommandTaken
  <1>4. PICK c \in TestSet : c = Head(toNode)
    BY <1>1, <1>3 DEF TestSet
  <1>5. /\ c \in CommandSet /\ c.op = "TEST" /\ c.type = "COMMAND" /\ c.from = Hub /\ c.to = Node
        /\ c.body = "NONE" /\ c.origin \in 1 .. MaxCommands
    BY DEF TestSet, CommandSet
  <1>6. /\ accepted' = (IF ~SameCommand(c, tracker) THEN [accepted EXCEPT ![c.origin] = @ + 1]
                        ELSE accepted)
        /\ mistaken' = (IF SameCommand(c, tracker) /\ tracker.origin # c.origin
                        THEN mistaken \cup {<<c.origin, tracker.origin>>} ELSE mistaken)
    BY <1>4, <1>5, Zenon DEF NodeTest, NodeVerdict
  <1>7. PICK a \in AckSet : /\ a = Acknowledgment(c, "SUCCESS") /\ a.seq = c.seq /\ a.op = c.op
                            /\ a.type = "ACK" /\ a.origin = c.origin
    BY <1>5, MadeAnswers, Zenon
  <1>8. /\ toHub' \in Seq(AckSet \cup ResponseSet) /\ Len(toHub') <= Capacity
        /\ On(toHub)' \subseteq On(toHub) \cup {a}
    <2>1. toHub \in Seq(AckSet \cup ResponseSet) /\ a \in AckSet \cup ResponseSet
      BY DEF ExchangeInv, TypeInv
    <2>2. <<a>> \in Seq(AckSet \cup ResponseSet) /\ On(<<a>>) = {a}
      BY <2>1, OnOne
    <2>3. toHub' = Sent(toHub, <<a>>)
      BY <1>1, <1>4, <1>7, Zenon
    <2>4. On(toHub') \subseteq On(toHub) \cup {a}
      BY <2>1, <2>2, <2>3, OnSent, Zenon
    <2> QED
      BY <2>1, <2>2, <2>3, <2>4, SentFacts, Zenon DEF On
  <1>9. tracker # Nothing => /\ tracker \in TestSet /\ tracker.origin \in 1 .. MaxCommands
                             /\ tracker.origin <= c.origin
                             /\ (tracker.origin = c.origin => tracker = c)
    <2>1. SUFFICES ASSUME tracker # Nothing
                   PROVE  /\ tracker \in TestSet /\ tracker.origin \in 1 .. MaxCommands
                          /\ tracker.origin <= c.origin
                          /\ (tracker.origin = c.origin => tracker = c)
      OBVIOUS
    <2>2. tracker \in TestSet /\ tracker \in Remembered
      BY <2>1 DEF ExchangeInv, TypeInv, Remembered
    <2>3. tracker.op = "TEST" /\ tracker.origin \in 1 .. MaxCommands
      BY <2>2, CommandFacts
    <2>4. Before(tracker, c)
      BY <1>3, <1>4, <2>2 DEF ExchangeInv, OrderInv
    <2> QED
      BY <1>5, <2>2, <2>3, <2>4 DEF Before
  <1>10. SameCommand(c, tracker) => tracker # Nothing
    BY DEF SameCommand, Nothing
  <1>11. ~SameCommand(c, tracker) /\ tracker # Nothing => tracker.origin < c.origin
    <2>1. SameCommand(c, c)
      BY <1>5 DEF SameCommand
    <2> QED
      BY <1>5, <1>9, <2>1
  <1>12. accepted' \in Counters /\ accepted \in Counters /\ nodeRestarts \in Nat
           /\ retained \in RetainedSet
    BY <1>5, <1>6 DEF ExchangeInv, TypeInv, Counters
  <1>13. TypeInv'
    BY <1>1, <1>3, <1>4, <1>8, <1>12, Zenon DEF ExchangeInv, TypeInv
  <1>14. CountInv'
    <2>1. \A o \in 1 .. MaxCommands :
            /\ accepted[o] <= 1 + nodeRestarts /\ accepted[o] \in Nat
            /\ (tracker = Nothing \/ o > tracker.origin) => accepted[o] <= nodeRestarts
      BY <1>12 DEF ExchangeInv, CountInv, Counters
    <2>2. ASSUME NEW o \in 1 .. MaxCommands
          PROVE  accepted'[o] <= 1 + nodeRestarts /\ (o > c.origin => accepted'[o] <= nodeRestarts)
      <3>1. CASE SameCommand(c, tracker)
        BY <1>5, <1>6, <1>9, <1>10, <1>12, <2>1, <3>1
      <3>2. CASE ~SameCommand(c, tracker)
        <4>1. accepted'[o] = IF o = c.origin THEN accepted[o] + 1 ELSE accepted[o]
          BY <1>5, <1>6, <1>12, <3>2, Zenon DEF Counters
        <4>2. o >= c.origin => accepted[o] <= nodeRestarts
          BY <1>5, <1>9, <1>11, <2>1, <3>2
        <4> QED
          BY <1>5, <1>12, <2>1, <4>1, <4>2
      <3> QED
        BY <3>1, <3>2
    <2>3. tracker' = c /\ c # Nothing
      BY <1>1, <1>4, <1>5 DEF Nothing
    <2> QED
      BY <1>1, <2>2, <2>3, Zenon DEF ExchangeInv, CountInv
  <1>15. AnswerInv'
    BY <1>1, <1>5, <1>7, <1>8, Zenon DEF ExchangeInv, AnswerInv
  <1>16. \A p \in On(toNode) \cup On(toHub) \cup Remembered : hubRestarts = 0 => Numbered(p)
    BY Zenon DEF ExchangeInv, NumberInv
  <1>17. NumberInv'
    <2>1. hubRestarts = 0 => Numbered(a)
      BY <1>3, <1>4, <1>7, <1>16, Zenon DEF Numbered
    <2>2. \A p \in (On(toNode) \cup On(toHub) \cup Remembered)' : hubRestarts = 0 => Numbered(p)
      BY <1>2, <1>3, <1>8, <1>16, <2>1
    <2> QED
      BY <1>1, <1>3, <2>2, Zenon DEF ExchangeInv, NumberInv, Numbered
  <1>18. MistakenOnlyByWrap'
    <2>1. ASSUME SameCommand(c, tracker), tracker.origin # c.origin, hubRestarts = 0
          PROVE  c.origin - tracker.origin >= SequenceRange
      <3>1. PICK d \in TestSet : d = tracker /\ d \in Remembered /\ d.op = "TEST"
        BY <1>9, <1>10, <2>1, CommandFacts, Zenon DEF Remembered
      <3>2. d.origin < c.origin /\ d.origin \in Int /\ c.origin \in Int
        BY <1>5, <1>9, <1>10, <2>1, <3>1
      <3>3. c.seq = c.origin % SequenceRange
        BY <1>3, <1>4, <1>5, <1>16, <2>1, Zenon DEF Numbered
      <3>4. d.seq = d.origin % SequenceRange
        BY <1>16, <2>1, <3>1 DEF Numbered
      <3>5. c.origin % SequenceRange = d.origin % SequenceRange
        BY <2>1, <3>1, <3>3, <3>4, Zenon DEF SameCommand
      <3>6. SequenceRange \in Nat /\ SequenceRange > 0
        BY WireAssumption
      <3>7. c.origin - d.origin >= SequenceRange
        BY <3>2, <3>5, <3>6, ModSame, Zenon
      <3> QED
        BY <3>1, <3>7
    <2>2. hubRestarts \in Nat
      BY DEF ExchangeInv, TypeInv
    <2> QED
      BY <1>1, <1>6, <2>1, <2>2 DEF ExchangeInv, MistakenOnlyByWrap
  <1>19. AnswerIsForTheOperation'
    BY <1>1, Zenon DEF ExchangeInv, AnswerIsForTheOperation
  <1> QED
    BY <1>3, <1>13, <1>14, <1>15, <1>17, <1>18, <1>19 DEF ExchangeInv

-----------------------------------------------------------------------------
(* Answers reach the Hub, and the Hub restarts *)

LEMMA InvHubReceives == ExchangeInv /\ HubReceives => ExchangeInv'
  <1> SUFFICES ASSUME ExchangeInv, HubReceives PROVE ExchangeInv'
    OBVIOUS
  <1>1. /\ toHub # <<>> /\ toHub' = Tail(toHub) /\ bridge' = Received(bridge, Head(toHub))
        /\ txn' = (IF txn.awaiting /\ MatchesCommand(Head(toHub), TestCommand(tests))
                   THEN Complete(txn) ELSE txn)
        /\ UNCHANGED <<toNode, retained, tracker, asked, tests, executed, accepted, mistaken,
                       hubRestarts, nodeRestarts>>
    BY DEF HubReceives, nodeVars, history, counts
  <1>2. /\ toHub \in Seq(AckSet \cup ResponseSet) /\ Len(toHub) <= Capacity
        /\ bridge \in BridgeSet /\ txn \in TransactionSet /\ Capacity \in Nat
        /\ Len(toHub) \in Nat
    BY ExchangeAssumption DEF ExchangeInv, TypeInv
  <1>3. /\ toHub' \in Seq(AckSet \cup ResponseSet) /\ Len(toHub') <= Capacity
        /\ Head(toHub) \in On(toHub) /\ On(Tail(toHub)) \subseteq On(toHub)
        /\ Head(toHub) \in AckSet \cup ResponseSet
    BY <1>1, <1>2, TailFacts
  <1>4. On(toHub)' \subseteq On(toHub)
    BY <1>1, <1>3, Zenon DEF On
  <1>5. PICK p \in AckSet \cup ResponseSet : p = Head(toHub)
    BY <1>3
  <1>6. /\ bridge' \in BridgeSet /\ bridge'.command = bridge.command
        /\ \/ GoesOn(bridge, bridge')
           \/ /\ Answers(bridge, p) /\ p.type = "RESPONSE" /\ Ends(bridge, bridge')
              /\ bridge'.done = Outcome("OPERATION_RESULT", p.origin)
    BY <1>1, <1>2, <1>5, ReceivedFacts, Zenon
  <1>7. CASE txn.awaiting /\ MatchesCommand(p, TestCommand(tests))
    <2>1. p.op = "TEST"
      BY <1>7, Zenon DEF MatchesCommand, TestCommand, Packet
    <2>2. bridge.active => bridge.command \in OperationSet
      BY <1>2 DEF ExchangeInv, HubInv, BridgeSet
    <2>3. ~Answers(bridge, p)
      BY <2>1, <2>2, CommandFacts, Zenon DEF Answers
    <2>4. bridge' = bridge
      BY <1>1, <1>5, <2>3 DEF Received
    <2>5. txn' = Complete(txn)
      BY <1>1, <1>5, <1>7
    <2>6. txn' \in TransactionSet /\ ~Open' /\ txn'.seq = NextSequence(txn.seq) /\ Open
      BY <1>2, <1>7, <2>5, TransactionFacts DEF Open
    <2> QED
      BY <1>1, <1>3, <1>4, <2>4, <2>6, TestMoves, Zenon
  <1>8. CASE ~(txn.awaiting /\ MatchesCommand(p, TestCommand(tests)))
    <2>1. txn' = txn
      BY <1>1, <1>5, <1>8
    <2>2. CASE GoesOn(bridge, bridge')
      BY <1>1, <1>3, <1>4, <1>6, <2>1, <2>2, AnswerPasses, Zenon
    <2>3. CASE /\ Answers(bridge, p) /\ p.type = "RESPONSE" /\ Ends(bridge, bridge')
               /\ bridge'.done = Outcome("OPERATION_RESULT", p.origin)
      <3>1. bridge.active /\ bridge.command \in OperationSet /\ bridge.command.origin = asked
        BY <1>2, <2>3, Zenon DEF Answers, ExchangeInv, HubInv, BridgeSet
      <3>2. p.op # "TEST" /\ p.seq = bridge.command.seq
        BY <2>3, <3>1, CommandFacts, Zenon DEF Answers
      <3>3. p.origin <= asked /\ executed[p.origin] >= 1
        BY <1>3, <1>5, <2>3, <3>2, Zenon DEF ExchangeInv, AnswerInv
      <3>4. p.origin \in Nat /\ asked \in Nat
        BY DEF AckSet, ResponseSet, ExchangeInv, TypeInv
      <3>5. ASSUME hubRestarts = 0, p.origin < asked
            PROVE  (asked - p.origin) % SequenceRange = 0
        <4>1. p.seq = (p.origin - 1) % SequenceRange
          BY <1>3, <1>5, <3>2, <3>5, Zenon DEF ExchangeInv, NumberInv, Numbered
        <4>2. p.seq = (asked - 1) % SequenceRange
          BY <3>1, <3>2, <3>5, Zenon DEF ExchangeInv, NumberInv
        <4>3. PICK x \in Int : x = asked - 1
          BY <3>4
        <4>4. PICK y \in Int : y = p.origin - 1
          BY <3>4
        <4>5. x % SequenceRange = y % SequenceRange
          BY <4>1, <4>2, <4>3, <4>4
        <4>6. y < x /\ x - y = asked - p.origin
          BY <3>4, <3>5, <4>3, <4>4
        <4>7. SequenceRange \in Nat /\ SequenceRange > 0
          BY WireAssumption
        <4>8. (x - y) % SequenceRange = 0
          BY <4>5, <4>6, <4>7, ModSame, Zenon
        <4> QED
          BY <4>6, <4>8
      <3>6. bridge'.done # Nothing /\ bridge'.done.origin = p.origin
        <4>1. bridge'.done = Outcome("OPERATION_RESULT", p.origin)
          BY <2>3, Zenon
        <4> QED
          BY <4>1, OutcomeFacts, Zenon
      <3>7. AnswerIsForTheOperation'
        <4>1. hubRestarts = 0 => p.origin = asked \/ (/\ p.origin < asked
                                                     /\ (asked - p.origin) % SequenceRange = 0)
          <5>1. p.origin = asked \/ p.origin < asked
            BY <3>3, <3>4
          <5> QED
            BY <3>5, <5>1, Zenon
        <4>2. asked' = asked /\ hubRestarts' = hubRestarts /\ executed' = executed
          BY <1>1, Zenon
        <4> QED
          BY <3>3, <3>6, <4>1, <4>2, Zenon DEF AnswerIsForTheOperation
      <3> QED
        BY <1>1, <1>3, <1>4, <1>6, <2>1, <2>3, <3>1, <3>6, <3>7, OperationEnds, Zenon
    <2> QED
      BY <1>6, <2>2, <2>3, Zenon
  <1> QED
    BY <1>7, <1>8

LEMMA InvHubRestarts == ExchangeInv /\ HubRestarts => ExchangeInv'
  <1> SUFFICES ASSUME ExchangeInv, HubRestarts PROVE ExchangeInv'
    OBVIOUS
  <1>1. /\ bridge' = IdleBridge /\ txn' = FirstTransaction /\ hubRestarts' = hubRestarts + 1
        /\ UNCHANGED <<toNode, toHub, retained, tracker, asked, tests, executed, accepted,
                       mistaken, nodeRestarts>>
    BY DEF HubRestarts, air, nodeVars, history
  <1>2. hubRestarts' \in Nat /\ hubRestarts' > 0
    BY <1>1 DEF ExchangeInv, TypeInv
  <1>3. bridge' \in BridgeSet /\ txn' \in TransactionSet
    BY <1>1, FirstFacts, Zenon
  <1>4. ~bridge'.active /\ ~Open' /\ bridge'.done = Nothing
    BY <1>1, FirstFacts, Zenon DEF Open
  <1>5. /\ On(toNode)' = On(toNode) /\ On(toHub)' = On(toHub) /\ Remembered' = Remembered
        /\ InOrder(toNode)' = InOrder(toNode)
    BY <1>1, Zenon DEF Remembered
  <1>6. TypeInv' /\ HubInv' /\ CountInv'
    <2>1. TypeInv'
      BY <1>1, <1>2, <1>3, <1>4, Zenon DEF ExchangeInv, TypeInv
    <2>2. HubInv'
      BY <1>1, <1>2, <1>3, <1>4, Zenon DEF ExchangeInv, HubInv
    <2>3. CountInv'
      BY <1>1, <1>2, <1>3, <1>4, Zenon DEF ExchangeInv, CountInv
    <2> QED
      BY <2>1, <2>2, <2>3
  <1>7. AnswerInv'
    BY <1>1, <1>5, Zenon DEF ExchangeInv, AnswerInv
  <1>8. \A d : Current(d) => Current(d)'
    BY <1>1, <1>4, Zenon DEF Current
  <1>9. OrderInv'
    BY <1>5, <1>8 DEF ExchangeInv, OrderInv, Before
  <1>10. NumberInv' /\ AnswerIsForTheOperation' /\ MistakenOnlyByWrap'
    <2>1. NumberInv'
      BY <1>2, <1>4 DEF ExchangeInv, NumberInv
    <2>2. AnswerIsForTheOperation'
      BY <1>2, <1>4 DEF ExchangeInv, AnswerIsForTheOperation
    <2>3. MistakenOnlyByWrap'
      BY <1>2, <1>4 DEF ExchangeInv, MistakenOnlyByWrap
    <2> QED
      BY <2>1, <2>2, <2>3
  <1> QED
    BY <1>6, <1>7, <1>9, <1>10 DEF ExchangeInv

-----------------------------------------------------------------------------
(* Losses and restarts, and every step *)

LEMMA InvLoseCommand == ExchangeInv /\ LoseCommand => ExchangeInv'
  <1> SUFFICES ASSUME ExchangeInv, LoseCommand PROVE ExchangeInv'
    OBVIOUS
  <1>1. /\ toNode # <<>> /\ toNode' = Tail(toNode)
        /\ UNCHANGED <<bridge, txn, toHub, retained, tracker, asked, tests, executed, accepted,
                       mistaken, hubRestarts, nodeRestarts>>
    BY DEF LoseCommand, hubVars, nodeVars, history, counts
  <1>2. Remembered' = Remembered /\ On(toHub)' = On(toHub)
    BY <1>1 DEF Remembered, On
  <1>3. /\ toNode' \in Seq(CommandSet) /\ Len(toNode') <= Capacity
        /\ On(toNode)' \subseteq On(toNode) /\ OrderInv' /\ HubInv' /\ Open' = Open
    BY <1>1, <1>2, CommandTaken
  <1>4. TypeInv' /\ CountInv' /\ MistakenOnlyByWrap' /\ AnswerIsForTheOperation'
    <2>1. TypeInv'
      BY <1>1, <1>3 DEF ExchangeInv, TypeInv
    <2>2. CountInv'
      BY <1>1, <1>3, Zenon DEF ExchangeInv, CountInv
    <2>3. MistakenOnlyByWrap'
      BY <1>1, <1>3 DEF ExchangeInv, MistakenOnlyByWrap
    <2>4. AnswerIsForTheOperation'
      BY <1>1, <1>3, Zenon DEF ExchangeInv, AnswerIsForTheOperation
    <2> QED
      BY <2>1, <2>2, <2>3, <2>4
  <1>5. AnswerInv'
    BY <1>1, <1>2, Zenon DEF ExchangeInv, AnswerInv
  <1>6. NumberInv'
    BY <1>1, <1>2, <1>3, Zenon DEF ExchangeInv, NumberInv, Numbered
  <1> QED
    BY <1>3, <1>4, <1>5, <1>6 DEF ExchangeInv

LEMMA InvNodeRestarts == ExchangeInv /\ NodeRestarts => ExchangeInv'
  <1> SUFFICES ASSUME ExchangeInv, NodeRestarts PROVE ExchangeInv'
    OBVIOUS
  <1>1. /\ retained' = NoOperation /\ tracker' = Nothing /\ nodeRestarts' = nodeRestarts + 1
        /\ UNCHANGED <<bridge, txn, toNode, toHub, asked, tests, executed, accepted,
                       mistaken, hubRestarts>>
    BY DEF NodeRestarts, hubVars, air, history
  <1>2. Remembered' = {} /\ On(toHub)' = On(toHub) /\ On(toNode)' = On(toNode)
          /\ InOrder(toNode)' = InOrder(toNode) /\ Open' = Open
    BY <1>1 DEF Remembered, On, NoOperation, InOrder, Before, Open
  <1>3. retained' \in RetainedSet /\ nodeRestarts' \in Nat /\ nodeRestarts \in Nat
    BY <1>1 DEF NoOperation, RetainedSet, ExchangeInv, TypeInv
  <1>4. TypeInv' /\ HubInv' /\ MistakenOnlyByWrap' /\ AnswerIsForTheOperation'
    <2>1. TypeInv'
      BY <1>1, <1>2, <1>3, Zenon DEF ExchangeInv, TypeInv
    <2>2. HubInv'
      <3>1. HubInv /\ bridge' = bridge /\ asked' = asked /\ tests' = tests
        BY <1>1, Zenon DEF ExchangeInv
      <3> QED
        BY <1>2, <3>1, Zenon DEF HubInv
    <2>3. MistakenOnlyByWrap'
      BY <1>1, <1>2, <1>3, Zenon DEF ExchangeInv, MistakenOnlyByWrap
    <2>4. AnswerIsForTheOperation'
      BY <1>1, <1>2, <1>3, Zenon DEF ExchangeInv, AnswerIsForTheOperation
    <2> QED
      BY <2>1, <2>2, <2>3, <2>4
  <1>5. \A o \in 1 .. MaxCommands : executed[o] \in Nat /\ accepted[o] \in Nat
    BY Zenon DEF ExchangeInv, TypeInv, Counters
  <1>6. CountInv'
    <2>1. CountInv
      BY Zenon DEF ExchangeInv
    <2> QED
      BY <1>1, <1>3, <1>5, <2>1 DEF CountInv
  <1>7. AnswerInv'
    BY <1>1, <1>2, Zenon DEF ExchangeInv, AnswerInv, NoOperation
  <1>8. \A d : Current(d)' = Current(d)
    BY <1>1, <1>2, Zenon DEF Current
  <1>9. OrderInv'
    BY <1>2, <1>8, Zenon DEF ExchangeInv, OrderInv
  <1>10. NumberInv'
    BY <1>1, <1>2, Zenon DEF ExchangeInv, NumberInv, Numbered
  <1> QED
    BY <1>4, <1>6, <1>7, <1>9, <1>10 DEF ExchangeInv

LEMMA InvNext == ExchangeInv /\ [Next]_vars => ExchangeInv'
  <1> SUFFICES ASSUME ExchangeInv, [Next]_vars PROVE ExchangeInv'
    OBVIOUS
  <1>1. CASE UNCHANGED vars
    <2>1. UNCHANGED <<bridge, txn, toNode, toHub, retained, tracker, asked, tests, executed,
                      accepted, mistaken, hubRestarts, nodeRestarts>>
      BY <1>1 DEF vars, hubVars, air, nodeVars, history, counts
    <2>2. On(toHub)' = On(toHub) /\ GoesOn(bridge, bridge')
      BY <2>1, Zenon DEF On, GoesOn
    <2>3. /\ bridge' \in BridgeSet /\ toHub' \in Seq(AckSet \cup ResponseSet)
          /\ Len(toHub') <= Capacity
      BY <2>1 DEF ExchangeInv, TypeInv
    <2> QED
      BY <2>1, <2>2, <2>3, AnswerPasses, Zenon
  <1> QED
    BY <1>1, InvAsk, InvServiceOperation, InvSendTest, InvTestTimeout, InvHubReceives,
       InvHubRestarts, InvNodeTest, InvNodeOperation, InvNodeRestarts, InvLoseCommand,
       InvLoseAnswer
    DEF Next

LEMMA ExchangeInvHolds == Spec => []ExchangeInv
  BY InvInit, InvNext, PTL DEF Spec

-----------------------------------------------------------------------------
(* An operation is executed, and a TEST counted as accepted, at most once   *)
(* per life of the Node: isDuplicate and evaluateNodeCommand recognise      *)
(* every retransmission, whatever is lost and whenever the Hub restarts,    *)
(* since the radio keeps the order of the commands                          *)
THEOREM RetransmissionIsIdempotent == Spec => []ExecutedOnce
  <1>1. ExchangeInv => ExecutedOnce
    <2> SUFFICES ASSUME ExchangeInv PROVE ExecutedOnce
      OBVIOUS
    <2>1. ExchangeTypeOK
      BY ExchangeAssumption DEF ExchangeInv, TypeInv, BridgeSet, TransactionSet, ExchangeTypeOK
    <2>2. DOMAIN executed = 1 .. MaxCommands /\ DOMAIN accepted = 1 .. MaxCommands
      BY DEF ExchangeInv, TypeInv, Counters
    <2> QED
      BY <2>1, <2>2, Zenon DEF ExchangeInv, CountInv, ExecutedOnce
  <1> QED
    BY <1>1, ExchangeInvHolds, PTL

(* The host is told the result of the operation it asked for, which was     *)
(* executed, unless the sequence has wrapped or the Hub has restarted       *)
(* (HubStructuredTransaction::receive compares source, sequence and opcode) *)
THEOREM AnswersFollowTheSequence == Spec => []AnswerIsForTheOperation
  <1>1. ExchangeInv => AnswerIsForTheOperation
    BY DEF ExchangeInv
  <1> QED
    BY <1>1, ExchangeInvHolds, PTL

(* The Node's duplicate tracker takes a new TEST for a repetition only at   *)
(* a distance of a whole wrap of the sequence, or after a Hub restart       *)
THEOREM MistakesNeedAWrap == Spec => []MistakenOnlyByWrap
  <1>1. ExchangeInv => MistakenOnlyByWrap
    BY DEF ExchangeInv
  <1> QED
    BY <1>1, ExchangeInvHolds, PTL
=============================================================================
