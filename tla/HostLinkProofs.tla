--------------------------- MODULE HostLinkProofs ---------------------------
(***************************************************************************)
(* Proofs about HostLink: a request of the host runs at most once, and what *)
(* it is answered is its result, for any number of requests and frames,     *)
(* any set of events and any serial buffer.  First the inductive invariant  *)
(* with what its proof rests on (the requests in the serial buffer, the     *)
(* stages of serviceProductionHost up to the request it reads, and what an  *)
(* operation finds and changes), then the request's service, the other      *)
(* steps, and the theorems.                                                 *)
(***************************************************************************)
EXTENDS HostLink, FiniteSetTheorems, TLAPS

-----------------------------------------------------------------------------
(* The inductive invariant.  It is about values rather than variables: what *)
(* serviceProductionHost does in one call is proved one part after another. *)

Operations ==
    {<<"REMOTE">>, <<"POLL">>, <<"BAD_TARGET">>} \cup {<<"CONSUME", e>> : e \in Events \ {0}}
Results ==
    Events \cup {0} \cup {"OK", "NOT_FOUND", "STORAGE_FAILURE", "BAD_TARGET", "BUSY",
                          "MISMATCH", "UNSUPPORTED_OPERATION", "OPERATION_RESULT",
                          "RADIO_RESULT"}
Classes == {"SUCCESS", "EVENT_RESULT", "OPERATION_RESULT", "RADIO_RESULT", "REQUEST_REJECTED"}

FrameSet == [type : {"REQUEST"}, id : Ids, op : Operations] \cup [type : Others]
ResponseSet == [type : {"OPERATION_RESPONSE"}, id : Ids, class : Classes, result : Results]
AnswerSet == ResponseSet \cup [type : {"NONE", "HELLO_RESPONSE", "PROTOCOL_ERROR"}]
LifeSet ==
    [state : {"EMPTY", "ACTIVE", "COMPLETED"}, id : 0 .. MaxRequests,
     op : Operations \cup {<< >>}, response : ResponseSet \cup {None}]
StackSet == [connected : BOOLEAN, tx : AnswerSet, life : LifeSet, pending : BOOLEAN]
LedgerSet == [active : SUBSET Events, consumed : SUBSET Events, healthy : BOOLEAN]
HostSet ==
    [id : 0 .. MaxRequests, op : Operations \cup {<< >>}, event : Events \cup {0},
     consumed : SUBSET Events, writes : Nat, others : Nat, stale : BOOLEAN]
HistorySet ==
    [Ids -> [sent : Nat, executed : Nat, answered : Nat, result : SUBSET Results]]

Types(s, b, l, i, o, h) ==
    /\ s \in StackSet /\ b \in BOOLEAN /\ l \in LedgerSet /\ i \in Seq(FrameSet)
    /\ o \in HostSet /\ h \in HistorySet

(* The lifecycle, the bridge and the delivery that waits agree *)
Agree(s, b) ==
    /\ b <=> s.life.state = "ACTIVE"
    /\ s.life.state = "EMPTY" <=> s.life.id = 0
    /\ s.life.state = "COMPLETED" =>
           /\ s.life.response \in ResponseSet /\ s.life.response.id = s.life.id
           /\ s.life.response.class # "REQUEST_REJECTED"
    /\ s.pending => s.connected /\ s.life.state = "COMPLETED"

(* The requests on the way are in the order of their IDs, none older than   *)
(* the retained one                                                         *)
InOrder(s, i, o) ==
    /\ s.life.id <= o.id
    /\ \A k \in DOMAIN i : i[k].type = "REQUEST" => s.life.id <= i[k].id /\ i[k].id <= o.id
    /\ \A j, k \in DOMAIN i :
           j < k /\ i[j].type = "REQUEST" /\ i[k].type = "REQUEST" => i[j].id <= i[k].id

(* r, unless it is a rejection, is what running the request gave *)
Genuine(r, h) ==
    r.type = "OPERATION_RESPONSE" /\ r.class # "REQUEST_REJECTED" =>
        h[r.id].result = {r.result}

(* A request later than the retained one has not run *)
Once(s, h) ==
    /\ \A id \in Ids :
           /\ h[id].executed <= 1 /\ (h[id].executed = 1 => id <= s.life.id)
           /\ h[id].executed = 0 => h[id].result = {}
    /\ s.life.state = "ACTIVE" => h[s.life.id].executed = 1 /\ h[s.life.id].result = {}
    /\ Genuine(s.tx, h)
    /\ s.life.state = "COMPLETED" => Genuine(s.life.response, h)

(* What the device still has to do for the frames the host sent with an ID:  *)
(* an answer goes out, one is owed, the frame waits in the serial buffer     *)
Asks(f, id) == f.type = "REQUEST" /\ f.id = id
Asked(i, id) == {k \in DOMAIN i : Asks(i[k], id)}
Sending(s, id) == IF s.tx.type = "OPERATION_RESPONSE" /\ s.tx.id = id THEN 1 ELSE 0
Owed(s, id) ==
    IF s.life.id = id /\ (s.life.state = "ACTIVE" \/ s.pending) THEN 1 ELSE 0

Counted(s, i, o, h) ==
    \A id \in Ids :
        /\ id > o.id => h[id].sent = 0
        /\ h[id].answered + Sending(s, id) + Owed(s, id) + Cardinality(Asked(i, id))
               <= h[id].sent

(* r does not bring the host an event that it has consumed, and tells it of *)
(* consuming one only when the ledger has                                   *)
Current(r, l, o) ==
    r.type = "OPERATION_RESPONSE" =>
        /\ r.id <= o.id
        /\ r.id = o.id /\ r.class = "SUCCESS" =>
               /\ o.op = <<"POLL">> => r.result \in (Events \cup {0}) \ o.consumed
               /\ o.op[1] = "CONSUME" => o.op[2] \in l.consumed

Told(s, l, i, o) ==
    /\ ~o.stale /\ 0 \notin o.consumed /\ (o.id > 0 => o.op \in Operations)
    /\ o.consumed \subseteq l.consumed /\ l.active \cap l.consumed = {}
    /\ \A k \in DOMAIN i :
           Asks(i[k], o.id) => i[k].op = o.op \/ i[k].op = <<"BAD_TARGET">>
    /\ Current(s.tx, l, o)
    /\ s.life.state = "COMPLETED" => Current(s.life.response, l, o)

LinkInv(s, b, l, i, o, h) ==
    /\ Types(s, b, l, i, o, h) /\ Agree(s, b) /\ InOrder(s, i, o) /\ Once(s, h)
    /\ Counted(s, i, o, h) /\ Told(s, l, i, o)

-----------------------------------------------------------------------------
(* Counting the requests in the serial buffer *)

LEMMA AskedFinite ==
    ASSUME NEW i \in Seq(FrameSet), NEW id
    PROVE  IsFiniteSet(Asked(i, id)) /\ Cardinality(Asked(i, id)) \in Nat
  <1>1. IsFiniteSet(1 .. Len(i))
    BY FS_Interval
  <1>2. Asked(i, id) \in SUBSET (1 .. Len(i))
    BY DEF Asked
  <1>3. IsFiniteSet(Asked(i, id))
    BY <1>1, <1>2, FS_Subset
  <1> QED
    BY <1>3, FS_CardinalityType

LEMMA AppendCount ==
    ASSUME NEW i \in Seq(FrameSet), NEW f \in FrameSet, NEW id
    PROVE  Cardinality(Asked(Append(i, f), id)) =
               Cardinality(Asked(i, id)) + (IF Asks(f, id) THEN 1 ELSE 0)
  <1>1. IsFiniteSet(Asked(i, id)) /\ Cardinality(Asked(i, id)) \in Nat
    BY AskedFinite
  <1>2. Len(i) + 1 \notin Asked(i, id)
    BY DEF Asked
  <1>3. CASE Asks(f, id)
    <2>1. Asked(Append(i, f), id) = Asked(i, id) \cup {Len(i) + 1}
      BY <1>3 DEF Asked
    <2> QED
      BY <1>1, <1>2, <1>3, <2>1, FS_AddElement, Zenon
  <1>4. CASE ~Asks(f, id)
    <2>1. Asked(Append(i, f), id) = Asked(i, id)
      BY <1>4 DEF Asked
    <2> QED
      BY <1>1, <1>4, <2>1
  <1> QED
    BY <1>3, <1>4

(* The frames after the first one *)
LEMMA TailCount ==
    ASSUME NEW i \in Seq(FrameSet), i # << >>, NEW id
    PROVE  Cardinality(Asked(i, id)) =
               Cardinality(Asked(Tail(i), id)) + (IF Asks(Head(i), id) THEN 1 ELSE 0)
  <1> DEFINE later == Asked(i, id) \ {1}
             next == [k \in Asked(Tail(i), id) |-> k + 1]
  <1>1. Tail(i) \in Seq(FrameSet) /\ Len(Tail(i)) = Len(i) - 1 /\ Len(i) \in Nat
        /\ \A k \in 1 .. Len(i) - 1 : Tail(i)[k] = i[k + 1]
    OBVIOUS
  <1>2. /\ IsFiniteSet(Asked(i, id)) /\ Cardinality(Asked(i, id)) \in Nat
        /\ IsFiniteSet(Asked(Tail(i), id)) /\ Cardinality(Asked(Tail(i), id)) \in Nat
    BY <1>1, AskedFinite, Zenon
  <1>3. \A k \in Asked(Tail(i), id) : k + 1 \in later /\ k \in Nat
    BY <1>1 DEF Asked
  <1>4. \A k \in later : k - 1 \in Asked(Tail(i), id) /\ k \in Nat
    BY <1>1 DEF Asked
  <1>5. next \in Bijection(Asked(Tail(i), id), later)
    <2>1. next \in [Asked(Tail(i), id) -> later]
      BY <1>3
    <2>2. \A j, k \in Asked(Tail(i), id) : next[j] = next[k] => j = k
      BY <1>3
    <2>3. \A k \in later : \E j \in Asked(Tail(i), id) : next[j] = k
      <3> SUFFICES ASSUME NEW k \in later PROVE \E j \in Asked(Tail(i), id) : next[j] = k
        OBVIOUS
      <3>1. k - 1 \in Asked(Tail(i), id) /\ next[k - 1] = k
        BY <1>4
      <3> QED
        BY <3>1
    <2> QED
      BY <2>1, <2>2, <2>3, Zenon DEF Bijection, Injection, Surjection, IsInjective
  <1>6. Cardinality(later) = Cardinality(Asked(Tail(i), id))
    BY <1>2, <1>5, FS_Bijection DEF ExistsBijection
  <1>7. Asks(Head(i), id) <=> 1 \in Asked(i, id)
    BY DEF Asked
  <1>8. Cardinality(later) =
            IF 1 \in Asked(i, id) THEN Cardinality(Asked(i, id)) - 1
            ELSE Cardinality(Asked(i, id))
    BY <1>2, FS_RemoveElement, Zenon
  <1> QED
    BY <1>2, <1>6, <1>7, <1>8

-----------------------------------------------------------------------------
(* The parts of serviceProductionHost *)

(* What the stack holds without its pending frame, or unconnected *)
LEMMA TxDropped ==
    ASSUME NEW s, NEW b, NEW l, NEW i, NEW o, NEW h, LinkInv(s, b, l, i, o, h),
           NEW c \in BOOLEAN, NEW p \in BOOLEAN, p => s.pending /\ c,
           NEW t, t = [s EXCEPT !.connected = c, !.tx = None, !.pending = p]
    PROVE  LinkInv(t, b, l, i, o, h)
  <1>1. t \in StackSet /\ t.life = s.life /\ t.tx = None /\ t.pending = p /\ t.connected = c
    BY Zenon DEF LinkInv, Types, StackSet, AnswerSet, None
  <1>2. Types(t, b, l, i, o, h)
    BY <1>1 DEF LinkInv, Types
  <1>3. Agree(t, b)
    BY <1>1 DEF LinkInv, Agree
  <1>4. InOrder(t, i, o)
    BY <1>1 DEF LinkInv, InOrder
  <1>5. Once(t, h)
    BY <1>1 DEF LinkInv, Once, Genuine, None
  <1>6. Counted(t, i, o, h)
    <2> SUFFICES ASSUME NEW id \in Ids
                 PROVE  /\ id > o.id => h[id].sent = 0
                        /\ h[id].answered + Sending(t, id) + Owed(t, id)
                               + Cardinality(Asked(i, id)) <= h[id].sent
      BY DEF Counted
    <2>1. Sending(t, id) = 0 /\ Sending(s, id) \in 0 .. 1 /\ Owed(s, id) \in 0 .. 1
          /\ Owed(t, id) \in 0 .. 1 /\ Owed(t, id) <= Owed(s, id)
      BY <1>1 DEF Sending, Owed, None
    <2>2. Cardinality(Asked(i, id)) \in Nat
      BY AskedFinite DEF LinkInv, Types
    <2>3. h[id].answered \in Nat /\ h[id].sent \in Nat
      BY DEF LinkInv, Types, HistorySet
    <2> QED
      BY <2>1, <2>2, <2>3 DEF LinkInv, Counted
  <1>7. Told(t, l, i, o)
    BY <1>1 DEF LinkInv, Told, Current, None
  <1> QED
    BY <1>2, <1>3, <1>4, <1>5, <1>6, <1>7 DEF LinkInv

LEMMA ObserveKeeps ==
    ASSUME NEW s, NEW b, NEW l, NEW i, NEW o, NEW h, LinkInv(s, b, l, i, o, h),
           NEW up \in BOOLEAN
    PROVE  LinkInv(ObserveConnection(s, up), b, l, i, o, h)
  <1>1. CASE up = s.connected
    BY <1>1 DEF ObserveConnection
  <1>2. CASE up # s.connected /\ up
    <2> DEFINE t == ObserveConnection(s, up)
    <2>1. t \in StackSet /\ t.life = s.life /\ t.tx = s.tx /\ t.pending = s.pending
          /\ t.connected
      BY <1>2, Zenon DEF LinkInv, Types, StackSet, ObserveConnection
    <2>2. Types(t, b, l, i, o, h)
      BY <2>1 DEF LinkInv, Types
    <2>3. Agree(t, b)
      BY <2>1 DEF LinkInv, Agree
    <2>4. InOrder(t, i, o)
      BY <2>1 DEF LinkInv, InOrder
    <2>5. Once(t, h)
      BY <2>1 DEF LinkInv, Once
    <2>6. Counted(t, i, o, h)
      BY <2>1 DEF LinkInv, Counted, Sending, Owed
    <2>7. Told(t, l, i, o)
      BY <2>1 DEF LinkInv, Told
    <2> QED
      BY <2>2, <2>3, <2>4, <2>5, <2>6, <2>7 DEF LinkInv
  <1>3. CASE up # s.connected /\ ~up
    <2>1. ObserveConnection(s, up) =
              [s EXCEPT !.connected = FALSE, !.tx = None, !.pending = FALSE]
      BY <1>3 DEF ObserveConnection
    <2> QED
      BY <2>1, TxDropped, Zenon
  <1> QED
    BY <1>1, <1>2, <1>3

LEMMA AnsweredFacts ==
    ASSUME NEW h \in HistorySet, NEW r \in ResponseSet
    PROVE  /\ Answered(h, r) \in HistorySet
           /\ \A id \in Ids :
                  /\ Answered(h, r)[id].sent = h[id].sent
                  /\ Answered(h, r)[id].executed = h[id].executed
                  /\ Answered(h, r)[id].result = h[id].result
                  /\ Answered(h, r)[id].answered =
                         h[id].answered + (IF r.id = id THEN 1 ELSE 0)
  BY DEF Answered, HistorySet, ResponseSet

LEMMA OperationForms ==
    ASSUME NEW op \in Operations
    PROVE  /\ op = <<"POLL">> => op[1] = "POLL"
           /\ op[1] = "POLL" => op = <<"POLL">>
           /\ op[1] = "CONSUME" => op # <<"POLL">> /\ op[2] \in Events \ {0}
           /\ op[1] \in {"REMOTE", "POLL", "BAD_TARGET", "CONSUME"}
           /\ op[1] = "REMOTE" => op = <<"REMOTE">>
           /\ op[1] = "BAD_TARGET" <=> op = <<"BAD_TARGET">>
  BY DEF Operations

LEMMA GotFacts ==
    ASSUME NEW o \in HostSet, NEW l \in LedgerSet, NEW r \in ResponseSet, Current(r, l, o),
           ~o.stale, 0 \notin o.consumed, o.consumed \subseteq l.consumed,
           o.id > 0 => o.op \in Operations
    PROVE  /\ Got(o, r) \in HostSet /\ Got(o, r).id = o.id /\ Got(o, r).op = o.op
           /\ ~Got(o, r).stale /\ 0 \notin Got(o, r).consumed
           /\ Got(o, r).consumed \subseteq l.consumed
           /\ o.op = <<"POLL">> => Got(o, r).consumed = o.consumed
  <1>1. CASE r.id # o.id \/ r.class # "SUCCESS"
    BY <1>1 DEF Got
  <1> SUFFICES ASSUME r.id = o.id, r.class = "SUCCESS"
               PROVE  /\ Got(o, r) \in HostSet /\ Got(o, r).id = o.id /\ Got(o, r).op = o.op
                      /\ ~Got(o, r).stale /\ 0 \notin Got(o, r).consumed
                      /\ Got(o, r).consumed \subseteq l.consumed
                      /\ o.op = <<"POLL">> => Got(o, r).consumed = o.consumed
    BY <1>1
  <1>2. o.op \in Operations /\ r.type = "OPERATION_RESPONSE"
    BY LinkAssumption DEF ResponseSet, Ids, HostSet
  <1>3. CASE o.op = <<"POLL">>
    <2>1. r.result \in (Events \cup {0}) \ o.consumed
      BY <1>2, <1>3 DEF Current
    <2>2. Got(o, r) = [o EXCEPT !.event = r.result, !.stale = FALSE]
      BY <1>2, <1>3, <2>1, Zenon DEF Got, HostSet
    <2> QED
      BY <2>1, <2>2, Zenon DEF HostSet
  <1>4. CASE o.op[1] = "CONSUME"
    <2>1. o.op[2] \in l.consumed /\ o.op[2] \in Events \ {0} /\ o.op # <<"POLL">>
      BY <1>2, <1>4, OperationForms DEF Current
    <2>2. Got(o, r) = [o EXCEPT !.consumed = @ \cup {o.op[2]}, !.event = 0]
      BY <1>2, <1>4, <2>1 DEF Got
    <2>3. o.consumed \in SUBSET Events
      BY DEF HostSet
    <2>4. PICK c \in SUBSET Events : c = o.consumed \cup {o.op[2]}
      BY <2>1, <2>3, Zenon
    <2>5. Got(o, r) = [o EXCEPT !.consumed = c, !.event = 0]
      BY <2>2, <2>4, Zenon
    <2>6. Got(o, r) \in HostSet
      BY <2>5, Zenon DEF HostSet
    <2>7. /\ Got(o, r).id = o.id /\ Got(o, r).op = o.op /\ Got(o, r).stale = o.stale
          /\ Got(o, r).consumed = c
      BY <2>5 DEF HostSet
    <2>8. 0 \notin c /\ c \subseteq l.consumed
      BY <2>1, <2>4
    <2> QED
      BY <2>1, <2>6, <2>7, <2>8
  <1>5. CASE o.op # <<"POLL">> /\ o.op[1] # "CONSUME"
    BY <1>2, <1>5 DEF Got
  <1> QED
    BY <1>3, <1>4, <1>5

(* The host gets the pending frame *)
LEMMA MovedKeeps ==
    ASSUME NEW s, NEW b, NEW l, NEW i, NEW o, NEW h, LinkInv(s, b, l, i, o, h)
    PROVE  LinkInv([s EXCEPT !.tx = None], b, l, i, Got(o, s.tx), Answered(h, s.tx))
  <1> DEFINE t == [s EXCEPT !.tx = None]
  <1>1. /\ s \in StackSet /\ l \in LedgerSet /\ o \in HostSet /\ h \in HistorySet
        /\ i \in Seq(FrameSet) /\ s.tx \in AnswerSet
    BY DEF LinkInv, Types, StackSet
  <1>2. LinkInv(t, b, l, i, o, h)
    <2>1. t = [s EXCEPT !.connected = s.connected, !.tx = None, !.pending = s.pending]
      BY <1>1, Zenon DEF StackSet
    <2>2. s.connected \in BOOLEAN /\ s.pending \in BOOLEAN /\ (s.pending => s.connected)
      BY <1>1 DEF StackSet, LinkInv, Agree
    <2> HIDE DEF t
    <2> QED
      BY <2>1, <2>2, TxDropped, Zenon
  <1>3. CASE s.tx \notin ResponseSet
    <2>1. s.tx.type # "OPERATION_RESPONSE"
      BY <1>1, <1>3 DEF AnswerSet
    <2>2. Got(o, s.tx) = o /\ Answered(h, s.tx) = h
      BY <2>1 DEF Got, Answered
    <2> QED
      BY <1>2, <2>2
  <1>4. CASE s.tx \in ResponseSet
    <2> DEFINE p == Got(o, s.tx)
               g == Answered(h, s.tx)
    <2>1. t.tx = None /\ t.life = s.life /\ t.pending = s.pending
      BY <1>1 DEF StackSet
    <2>2. Current(s.tx, l, o) /\ ~o.stale /\ 0 \notin o.consumed
          /\ o.consumed \subseteq l.consumed /\ (o.id > 0 => o.op \in Operations)
      BY DEF LinkInv, Told
    <2>3. /\ p \in HostSet /\ p.id = o.id /\ p.op = o.op /\ ~p.stale /\ 0 \notin p.consumed
          /\ p.consumed \subseteq l.consumed /\ (o.op = <<"POLL">> => p.consumed = o.consumed)
      BY <1>1, <1>4, <2>2, GotFacts
    <2>4. /\ g \in HistorySet
          /\ \A id \in Ids :
                 /\ g[id].sent = h[id].sent /\ g[id].executed = h[id].executed
                 /\ g[id].result = h[id].result
                 /\ g[id].answered = h[id].answered + (IF s.tx.id = id THEN 1 ELSE 0)
      BY <1>1, <1>4, AnsweredFacts
    <2> HIDE DEF p, g, t
    <2>5. Types(t, b, l, i, p, g)
      BY <1>2, <2>3, <2>4 DEF LinkInv, Types
    <2>6. Agree(t, b)
      BY <1>2 DEF LinkInv
    <2>7. InOrder(t, i, p)
      BY <1>2, <2>3 DEF LinkInv, InOrder
    <2>8. Once(t, g)
      <3>1. t.life.state = "COMPLETED" => t.life.response.id \in Ids
        BY <1>2 DEF LinkInv, Agree, ResponseSet
      <3>2. t.life.state = "ACTIVE" => t.life.id \in Ids
        BY <1>2, LinkAssumption DEF LinkInv, Agree, Types, StackSet, LifeSet, Ids
      <3> QED
        BY <1>2, <2>1, <2>4, <3>1, <3>2 DEF LinkInv, Once, Genuine, None
    <2>9. Counted(t, i, p, g)
      <3> SUFFICES ASSUME NEW id \in Ids
                   PROVE  /\ id > p.id => g[id].sent = 0
                          /\ g[id].answered + Sending(t, id) + Owed(t, id)
                                 + Cardinality(Asked(i, id)) <= g[id].sent
        BY DEF Counted
      <3>1. Sending(t, id) = 0 /\ Sending(s, id) = (IF s.tx.id = id THEN 1 ELSE 0)
            /\ Owed(t, id) = Owed(s, id) /\ Owed(s, id) \in 0 .. 1
        BY <1>4, <2>1 DEF Sending, Owed, None, ResponseSet
      <3>2. Cardinality(Asked(i, id)) \in Nat
        BY <1>1, AskedFinite
      <3>3. h[id].answered \in Nat /\ h[id].sent \in Nat
        BY <1>1 DEF HistorySet
      <3> QED
        BY <2>3, <2>4, <3>1, <3>2, <3>3 DEF LinkInv, Counted
    <2>10. Told(t, l, i, p)
      <3>1. t.life.state = "COMPLETED" => Current(t.life.response, l, p)
        BY <1>2, <2>3, Zenon DEF LinkInv, Told, Current
      <3>2. Current(t.tx, l, p)
        BY <2>1 DEF Current, None
      <3> QED
        BY <1>2, <2>3, <3>1, <3>2, Zenon DEF LinkInv, Told
    <2> QED
      BY <2>5, <2>6, <2>7, <2>8, <2>9, <2>10 DEF LinkInv, t, p, g
  <1> QED
    BY <1>3, <1>4

(* One more answer for id stays within what the host asked *)
Room(s, i, h, id) ==
    h[id].answered + Sending(s, id) + Owed(s, id) + Cardinality(Asked(i, id)) < h[id].sent

LEMMA OneMore ==
    ASSUME NEW a \in Nat, NEW x \in 0 .. 1, NEW y \in 0 .. 1, NEW n \in Nat, NEW c \in 0 .. 1,
           NEW t \in Nat, a + x + y + n <= t
    PROVE  a + x + y + (n + c) <= t + c
  OBVIOUS

LEMMA OneLess ==
    ASSUME NEW a \in Nat, NEW x \in 0 .. 1, NEW y \in 0 .. 1, NEW n \in Nat,
           NEW t \in Nat
    PROVE  /\ a + x + y + (n + 1) <= t => a + x + y + n < t
           /\ a + x + 1 + n <= t => a + x + 0 + n < t /\ a + x + 0 + n <= t
  OBVIOUS

LEMMA CountTypes ==
    ASSUME NEW s, NEW b, NEW l, NEW i, NEW o, NEW h, Types(s, b, l, i, o, h), NEW id \in Ids
    PROVE  /\ h[id].answered \in Nat /\ h[id].sent \in Nat /\ h[id].executed \in Nat
           /\ Sending(s, id) \in 0 .. 1 /\ Owed(s, id) \in 0 .. 1
           /\ Cardinality(Asked(i, id)) \in Nat
  <1>1. h[id].answered \in Nat /\ h[id].sent \in Nat /\ h[id].executed \in Nat
    BY DEF Types, HistorySet
  <1>2. Sending(s, id) \in 0 .. 1 /\ Owed(s, id) \in 0 .. 1
    BY DEF Sending, Owed
  <1>3. Cardinality(Asked(i, id)) \in Nat
    BY AskedFinite DEF Types
  <1> QED
    BY <1>1, <1>2, <1>3

(* A response is handed to a transport that is free *)
LEMMA ResponseHandedOff ==
    ASSUME NEW s, NEW b, NEW l, NEW i, NEW o, NEW h, LinkInv(s, b, l, i, o, h),
           s.tx = None, NEW r \in ResponseSet, Genuine(r, h), Current(r, l, o),
           Room(s, i, h, r.id)
    PROVE  LinkInv(HandOff(s, r), b, l, i, o, h)
  <1> DEFINE t == HandOff(s, r)
  <1>1. t \in StackSet /\ t.life = s.life /\ t.tx = r /\ t.pending = s.pending
        /\ t.connected = s.connected
    BY DEF LinkInv, Types, StackSet, AnswerSet, HandOff
  <1> HIDE DEF t
  <1>2. Types(t, b, l, i, o, h)
    BY <1>1 DEF LinkInv, Types
  <1>3. Agree(t, b)
    BY <1>1 DEF LinkInv, Agree
  <1>4. InOrder(t, i, o)
    BY <1>1 DEF LinkInv, InOrder
  <1>5. Once(t, h)
    BY <1>1, Zenon DEF LinkInv, Once
  <1>6. Counted(t, i, o, h)
    <2> SUFFICES ASSUME NEW id \in Ids
                 PROVE  /\ id > o.id => h[id].sent = 0
                        /\ h[id].answered + Sending(t, id) + Owed(t, id)
                               + Cardinality(Asked(i, id)) <= h[id].sent
      BY DEF Counted
    <2>1. Sending(s, id) = 0 /\ Sending(t, id) = (IF r.id = id THEN 1 ELSE 0)
          /\ Owed(t, id) = Owed(s, id)
      BY <1>1 DEF Sending, Owed, None, ResponseSet
    <2>2. /\ h[id].answered \in Nat /\ h[id].sent \in Nat
          /\ Owed(s, id) \in 0 .. 1 /\ Cardinality(Asked(i, id)) \in Nat
      BY CountTypes DEF LinkInv
    <2> QED
      BY <2>1, <2>2 DEF LinkInv, Counted, Room
  <1>7. Told(t, l, i, o)
    BY <1>1 DEF LinkInv, Told
  <1> QED
    BY <1>2, <1>3, <1>4, <1>5, <1>6, <1>7 DEF LinkInv, t

(* So is a frame that is no response *)
LEMMA OtherHandedOff ==
    ASSUME NEW s, NEW b, NEW l, NEW i, NEW o, NEW h, LinkInv(s, b, l, i, o, h),
           s.tx = None, NEW r \in [type : {"HELLO_RESPONSE", "PROTOCOL_ERROR"}]
    PROVE  LinkInv(HandOff(s, r), b, l, i, o, h)
  <1> DEFINE t == HandOff(s, r)
  <1>1. t \in StackSet /\ t.life = s.life /\ t.tx = r /\ t.pending = s.pending
        /\ t.connected = s.connected
    BY DEF LinkInv, Types, StackSet, AnswerSet, HandOff
  <1>2. r.type # "OPERATION_RESPONSE" /\ s.tx.type # "OPERATION_RESPONSE"
    BY DEF None
  <1> HIDE DEF t
  <1>3. Types(t, b, l, i, o, h)
    BY <1>1 DEF LinkInv, Types
  <1>4. Agree(t, b)
    BY <1>1 DEF LinkInv, Agree
  <1>5. InOrder(t, i, o)
    BY <1>1 DEF LinkInv, InOrder
  <1>6. Once(t, h)
    BY <1>1, <1>2, Zenon DEF LinkInv, Once, Genuine
  <1>7. Counted(t, i, o, h)
    <2>1. \A id \in Ids : Sending(t, id) = Sending(s, id) /\ Owed(t, id) = Owed(s, id)
      BY <1>1, <1>2 DEF Sending, Owed
    <2> QED
      BY <2>1 DEF LinkInv, Counted
  <1>8. Told(t, l, i, o)
    BY <1>1, <1>2, Zenon DEF LinkInv, Told, Current
  <1> QED
    BY <1>3, <1>4, <1>5, <1>6, <1>7, <1>8 DEF LinkInv, t

(* servicePendingDelivery leaves nothing waiting for a transport that is free *)
LEMMA DeliveryKeeps ==
    ASSUME NEW s, NEW b, NEW l, NEW i, NEW o, NEW h, LinkInv(s, b, l, i, o, h)
    PROVE  /\ LinkInv(PendingDelivery(s), b, l, i, o, h)
           /\ PendingDelivery(s).tx = None => ~PendingDelivery(s).pending
  <1>1. s \in StackSet /\ Types(s, b, l, i, o, h)
    BY DEF LinkInv, Types
  <1>2. CASE s.connected /\ s.pending /\ s.tx = None /\ s.life.state = "COMPLETED"
    <2> DEFINE t == [s EXCEPT !.connected = TRUE, !.tx = None, !.pending = FALSE]
               r == s.life.response
    <2>1. r \in ResponseSet /\ r.id = s.life.id /\ Genuine(r, h) /\ Current(r, l, o)
      BY <1>2, Zenon DEF LinkInv, Agree, Once, Told
    <2>2. t.tx = None /\ t.life = s.life /\ ~t.pending /\ HandOff(t, r) = PendingDelivery(s)
      BY <1>1, <1>2, Zenon DEF StackSet, HandOff, PendingDelivery
    <2>3. LinkInv(t, b, l, i, o, h)
      BY TxDropped, Zenon
    <2> HIDE DEF t
    <2>4. Room(t, i, h, r.id)
      <3>1. r.id \in Ids
        BY <2>1 DEF ResponseSet
      <3>2. Owed(s, r.id) = 1 /\ Owed(t, r.id) = 0 /\ Sending(s, r.id) = 0
            /\ Sending(t, r.id) = 0
        BY <1>2, <2>1, <2>2 DEF Owed, Sending, None
      <3>3. /\ h[r.id].answered \in Nat /\ h[r.id].sent \in Nat
            /\ Cardinality(Asked(i, r.id)) \in Nat
        BY <1>1, <3>1, CountTypes, Zenon
      <3>4. h[r.id].answered + Sending(s, r.id) + Owed(s, r.id)
                + Cardinality(Asked(i, r.id)) <= h[r.id].sent
        BY <3>1, Zenon DEF LinkInv, Counted
      <3> QED
        BY <3>2, <3>3, <3>4 DEF Room
    <2>5. LinkInv(PendingDelivery(s), b, l, i, o, h)
      BY <2>1, <2>2, <2>3, <2>4, ResponseHandedOff
    <2>6. ~PendingDelivery(s).pending
      BY <1>1, <1>2 DEF StackSet, PendingDelivery
    <2> QED
      BY <2>5, <2>6
  <1>3. CASE ~(s.connected /\ s.pending /\ s.tx = None /\ s.life.state = "COMPLETED")
    <2>1. PendingDelivery(s) = s
      BY <1>3 DEF PendingDelivery
    <2>2. s.pending => s.connected /\ s.life.state = "COMPLETED"
      BY DEF LinkInv, Agree
    <2> QED
      BY <1>3, <2>1, <2>2
  <1> QED
    BY <1>2, <1>3

(* There is room for one answer owed *)
LEMMA OneDue ==
    ASSUME NEW a \in Nat, NEW c \in Nat, NEW n \in Nat, NEW x \in Nat, NEW y, NEW z,
           y = 1, z = 0, a + x + z + c < n
    PROVE  a + x + y + c <= n
  OBVIOUS

LEMMA FewerAsked ==
    ASSUME NEW a \in Nat, NEW x \in Nat, NEW y \in Nat, NEW c \in Nat, NEW d \in Nat,
           NEW n \in Nat, c <= d, a + x + y + d <= n
    PROVE  a + x + y + c <= n
  OBVIOUS

(* The parser held a part of the first frame when it was reset *)
LEMMA CutKeeps ==
    ASSUME NEW s, NEW b, NEW l, NEW i, NEW o, NEW h, LinkInv(s, b, l, i, o, h), i # << >>,
           NEW j, j = <<[type |-> "UNTRUSTED"]>> \o Tail(i)
    PROVE  LinkInv(s, b, l, j, o, h)
  <1>1. i \in Seq(FrameSet)
    BY DEF LinkInv, Types
  <1>2. [type |-> "UNTRUSTED"] \in FrameSet
    BY DEF FrameSet, Others
  <1>3. j \in Seq(FrameSet) /\ DOMAIN j = DOMAIN i /\ j[1].type = "UNTRUSTED"
        /\ \A k \in DOMAIN i : k # 1 => j[k] = i[k]
    BY <1>1, <1>2
  <1>4. Types(s, b, l, j, o, h)
    BY <1>3 DEF LinkInv, Types
  <1>5. InOrder(s, j, o)
    <2>1. \A k \in DOMAIN j : k \in DOMAIN i /\ (j[k].type = "REQUEST" => j[k] = i[k])
      <3> SUFFICES ASSUME NEW k \in DOMAIN j, j[k].type = "REQUEST"
                   PROVE  j[k] = i[k]
        BY <1>3, Zenon
      <3>1. k # 1
        BY <1>3
      <3> QED
        BY <1>3, <3>1, Zenon
    <2>2. InOrder(s, i, o)
      BY Zenon DEF LinkInv
    <2>3. \A k \in DOMAIN j : j[k].type = "REQUEST" => s.life.id <= j[k].id /\ j[k].id <= o.id
      <3> SUFFICES ASSUME NEW k \in DOMAIN j, j[k].type = "REQUEST"
                   PROVE  s.life.id <= j[k].id /\ j[k].id <= o.id
        BY Zenon
      <3>1. j[k] = i[k] /\ k \in DOMAIN i
        BY <2>1, Zenon
      <3> QED
        BY <2>2, <3>1, Zenon DEF InOrder
    <2>4. \A k, m \in DOMAIN j :
              k < m /\ j[k].type = "REQUEST" /\ j[m].type = "REQUEST" => j[k].id <= j[m].id
      <3> SUFFICES ASSUME NEW k \in DOMAIN j, NEW m \in DOMAIN j,
                          k < m, j[k].type = "REQUEST", j[m].type = "REQUEST"
                   PROVE  j[k].id <= j[m].id
        BY Zenon
      <3>1. j[k] = i[k] /\ k \in DOMAIN i /\ j[m] = i[m] /\ m \in DOMAIN i
        BY <2>1, Zenon
      <3> QED
        BY <2>2, <3>1, Zenon DEF InOrder
    <2> QED
      BY <2>2, <2>3, <2>4, Zenon DEF InOrder
  <1>6. Counted(s, j, o, h)
    <2> SUFFICES ASSUME NEW id \in Ids
                 PROVE  /\ id > o.id => h[id].sent = 0
                        /\ h[id].answered + Sending(s, id) + Owed(s, id)
                               + Cardinality(Asked(j, id)) <= h[id].sent
      BY DEF Counted
    <2>1. Asked(j, id) \in SUBSET Asked(i, id)
      BY <1>3 DEF Asked, Asks
    <2>2. Cardinality(Asked(j, id)) <= Cardinality(Asked(i, id))
      BY <1>1, <2>1, AskedFinite, FS_Subset
    <2>3. /\ h[id].answered \in Nat /\ h[id].sent \in Nat /\ Sending(s, id) \in 0 .. 1
          /\ Owed(s, id) \in 0 .. 1 /\ Cardinality(Asked(i, id)) \in Nat
      BY CountTypes, Zenon DEF LinkInv
    <2>4. Cardinality(Asked(j, id)) \in Nat
      BY <1>3, AskedFinite, Zenon
    <2>5. /\ id > o.id => h[id].sent = 0
          /\ h[id].answered + Sending(s, id) + Owed(s, id) + Cardinality(Asked(i, id))
                 <= h[id].sent
      BY DEF LinkInv, Counted
    <2>6. Sending(s, id) \in Nat /\ Owed(s, id) \in Nat
      BY <2>3
    <2> QED
      BY <2>2, <2>3, <2>4, <2>5, <2>6, FewerAsked, Zenon
  <1>7. Told(s, l, j, o)
    BY <1>3, Zenon DEF LinkInv, Told, Asks
  <1> QED
    BY <1>4, <1>5, <1>6, <1>7 DEF LinkInv

(* The first frame is read: its answer is still to be given *)
LEMMA HeadRead ==
    ASSUME NEW s, NEW b, NEW l, NEW i, NEW o, NEW h, LinkInv(s, b, l, i, o, h), i # << >>
    PROVE  /\ Head(i) \in FrameSet /\ LinkInv(s, b, l, Tail(i), o, h)
           /\ Head(i).type = "REQUEST" =>
                  /\ Room(s, Tail(i), h, Head(i).id)
                  /\ s.life.id <= Head(i).id /\ Head(i).id <= o.id
                  /\ Head(i).id = o.id => Head(i).op = o.op \/ Head(i).op = <<"BAD_TARGET">>
                  /\ \A k \in DOMAIN Tail(i) :
                         Tail(i)[k].type = "REQUEST" => Head(i).id <= Tail(i)[k].id
  <1> DEFINE j == Tail(i)
             f == Head(i)
  <1>1. i \in Seq(FrameSet)
    BY DEF LinkInv, Types
  <1>2. /\ j \in Seq(FrameSet) /\ f \in FrameSet /\ 1 \in DOMAIN i /\ f = i[1]
        /\ \A k \in DOMAIN j : k + 1 \in DOMAIN i /\ j[k] = i[k + 1] /\ k + 1 > 1 /\ k \in Nat
    BY <1>1
  <1>3. \A id : Cardinality(Asked(i, id)) =
                    Cardinality(Asked(j, id)) + (IF Asks(f, id) THEN 1 ELSE 0)
    BY <1>1, TailCount
  <1> HIDE DEF j, f
  <1>4. Types(s, b, l, j, o, h)
    BY <1>2 DEF LinkInv, Types
  <1>5. InOrder(s, j, o)
    <2>1. InOrder(s, i, o)
      BY Zenon DEF LinkInv
    <2>2. \A k, m \in DOMAIN j : k < m => k + 1 < m + 1
      BY <1>2
    <2> QED
      BY <1>2, <2>1, <2>2, ZenonT(30) DEF InOrder
  <1>6. \A id \in Ids :
            /\ h[id].answered \in Nat /\ h[id].sent \in Nat /\ Sending(s, id) \in 0 .. 1
            /\ Owed(s, id) \in 0 .. 1 /\ Cardinality(Asked(j, id)) \in Nat
    BY <1>4, CountTypes, Zenon
  <1>7. Counted(s, j, o, h)
    <2> SUFFICES ASSUME NEW id \in Ids
                 PROVE  /\ id > o.id => h[id].sent = 0
                        /\ h[id].answered + Sending(s, id) + Owed(s, id)
                               + Cardinality(Asked(j, id)) <= h[id].sent
      BY Zenon DEF Counted
    <2> QED
      BY <1>3, <1>6 DEF LinkInv, Counted
  <1>8. Told(s, l, j, o)
    BY <1>2, Zenon DEF LinkInv, Told
  <1>9. ASSUME f.type = "REQUEST"
        PROVE  /\ Room(s, j, h, f.id) /\ s.life.id <= f.id /\ f.id <= o.id
               /\ f.id = o.id => f.op = o.op \/ f.op = <<"BAD_TARGET">>
               /\ \A k \in DOMAIN j : j[k].type = "REQUEST" => f.id <= j[k].id
    <2>1. f.id \in Ids
      BY <1>2, <1>9 DEF FrameSet, Others
    <2>2. Asks(f, f.id)
      BY <1>9 DEF Asks
    <2>3. Room(s, j, h, f.id)
      <3>1. /\ h[f.id].answered \in Nat /\ h[f.id].sent \in Nat /\ Sending(s, f.id) \in 0 .. 1
            /\ Owed(s, f.id) \in 0 .. 1 /\ Cardinality(Asked(j, f.id)) \in Nat
            /\ Cardinality(Asked(i, f.id)) = Cardinality(Asked(j, f.id)) + 1
        BY <1>3, <1>6, <2>1, <2>2, Zenon
      <3>2. h[f.id].answered + Sending(s, f.id) + Owed(s, f.id) + Cardinality(Asked(i, f.id))
                <= h[f.id].sent
        BY <2>1, Zenon DEF LinkInv, Counted
      <3> QED
        BY <3>1, <3>2, OneLess, Zenon DEF Room
    <2>4. s.life.id <= f.id /\ f.id <= o.id
      BY <1>2, <1>9 DEF LinkInv, InOrder
    <2>5. f.id = o.id => f.op = o.op \/ f.op = <<"BAD_TARGET">>
      BY <1>2, <1>9, Zenon DEF LinkInv, Told, Asks
    <2>6. \A k \in DOMAIN j : j[k].type = "REQUEST" => f.id <= j[k].id
      BY <1>2, <1>9, Zenon DEF LinkInv, InOrder
    <2> QED
      BY <2>3, <2>4, <2>5, <2>6
  <1>10. LinkInv(s, b, l, j, o, h)
    BY <1>4, <1>5, <1>7, <1>8 DEF LinkInv
  <1> QED
    BY <1>2, <1>9, <1>10 DEF j, f

(* The ledger may admit and consume events *)
LEMMA LedgerKeeps ==
    ASSUME NEW s, NEW b, NEW l, NEW i, NEW o, NEW h, LinkInv(s, b, l, i, o, h),
           NEW m \in LedgerSet, l.consumed \subseteq m.consumed,
           m.active \cap m.consumed = {}
    PROVE  LinkInv(s, b, m, i, o, h)
  <1>1. Types(s, b, m, i, o, h)
    BY Zenon DEF LinkInv, Types
  <1>2. \A r : Current(r, l, o) => Current(r, m, o)
    BY DEF Current
  <1>3. Told(s, m, i, o)
    BY <1>2, Zenon DEF LinkInv, Told
  <1> QED
    BY <1>1, <1>3, Zenon DEF LinkInv

-----------------------------------------------------------------------------
(* A request that is new *)

EntrySet == [sent : Nat, executed : Nat, answered : Nat, result : SUBSET Results]

LEMMA RanFacts ==
    ASSUME NEW h \in HistorySet, NEW id \in Ids, NEW results \in SUBSET Results
    PROVE  /\ Ran(h, id, results) \in HistorySet
           /\ \A x \in Ids :
                  /\ Ran(h, id, results)[x].sent = h[x].sent
                  /\ Ran(h, id, results)[x].answered = h[x].answered
                  /\ x # id => Ran(h, id, results)[x] = h[x]
           /\ Ran(h, id, results)[id].executed = h[id].executed + 1
           /\ Ran(h, id, results)[id].result = h[id].result \cup results
  <1>1. h \in [Ids -> EntrySet] /\ h[id] \in EntrySet
    BY DEF HistorySet, EntrySet
  <1>2. PICK c \in SUBSET Results : c = h[id].result \cup results
    BY <1>1, Zenon DEF EntrySet
  <1>3. PICK n \in Nat : n = h[id].executed + 1
    BY <1>1 DEF EntrySet
  <1> DEFINE e == [h[id] EXCEPT !.executed = n, !.result = c]
  <1>4. /\ e \in EntrySet /\ e.sent = h[id].sent /\ e.answered = h[id].answered
        /\ e.executed = n /\ e.result = c
    BY <1>1, Zenon DEF EntrySet
  <1>5. Ran(h, id, results) = [h EXCEPT ![id] = e]
    BY <1>1, <1>2, <1>3, Zenon DEF Ran, EntrySet
  <1> HIDE DEF e
  <1>6. /\ Ran(h, id, results) \in [Ids -> EntrySet] /\ Ran(h, id, results)[id] = e
        /\ \A x \in Ids : x # id => Ran(h, id, results)[x] = h[x]
    BY <1>1, <1>4, <1>5
  <1> QED
    BY <1>2, <1>3, <1>4, <1>6 DEF HistorySet, EntrySet

RequestSet == [type : {"REQUEST"}, id : Ids, op : Operations]

(* The request q, later than the retained one, is served; r is its answer,  *)
(* or None when it is left to the radio                                     *)
Replacing(s, i, l, o, h, q, r) ==
    /\ s.tx = None /\ ~s.pending /\ s.life.state # "ACTIVE"
    /\ q \in RequestSet /\ s.life.id < q.id /\ q.id <= o.id
    /\ \A k \in DOMAIN i : i[k].type = "REQUEST" => q.id <= i[k].id
    /\ Room(s, i, h, q.id)
    /\ r \in ResponseSet \cup {None}
    /\ r # None => r.id = q.id /\ r.class # "REQUEST_REJECTED" /\ Current(r, l, o)

(* The entry of a completed request gives way to the one of a later         *)
(* request, which is active or, with the answer r, completed                *)
Replaced(s, t, q, r) ==
    /\ t \in StackSet /\ t.tx = None /\ ~t.pending /\ t.connected = s.connected
    /\ t.life.id = q.id /\ t.life.response = r
    /\ t.life.state = IF r = None THEN "ACTIVE" ELSE "COMPLETED"

LEMMA EntryReplaced ==
    ASSUME NEW s, NEW b, NEW l, NEW i, NEW o, NEW h, LinkInv(s, b, l, i, o, h),
           NEW q, NEW r, Replacing(s, i, l, o, h, q, r), NEW t, Replaced(s, t, q, r),
           NEW results, results = IF r = None THEN {} ELSE {r.result}
    PROVE  /\ LinkInv(t, r = None, l, i, o, Ran(h, q.id, results))
           /\ r # None => /\ Room(t, i, Ran(h, q.id, results), q.id)
                          /\ Genuine(r, Ran(h, q.id, results))
  <1>1. /\ s \in StackSet /\ h \in HistorySet /\ o \in HostSet /\ q.id \in Ids
        /\ q.op \in Operations /\ s.life.id \in 0 .. MaxRequests
    BY Zenon DEF LinkInv, Types, StackSet, LifeSet, Replacing, RequestSet
  <1>2. r # None => /\ r \in ResponseSet /\ r.type = "OPERATION_RESPONSE"
                    /\ r.result \in Results /\ r.id = q.id
                    /\ r.class # "REQUEST_REJECTED"
    BY Zenon DEF ResponseSet, Replacing
  <1>3. /\ t \in StackSet /\ t.tx = None /\ ~t.pending /\ t.connected = s.connected
        /\ t.life.id = q.id /\ t.life.response = r
        /\ t.life.state = IF r = None THEN "ACTIVE" ELSE "COMPLETED"
    BY DEF Replaced
  <1>4. /\ h[q.id].executed = 0 /\ h[q.id].result = {}
        /\ q.id \in Nat /\ s.life.id \in Nat /\ s.life.id < q.id
    <2>1. h[q.id].executed \in Nat /\ h[q.id].executed <= 1
          /\ (h[q.id].executed = 1 => q.id <= s.life.id)
          /\ (h[q.id].executed = 0 => h[q.id].result = {})
      BY <1>1, Zenon DEF LinkInv, Once, HistorySet
    <2>2. q.id \in Nat /\ s.life.id \in Nat /\ s.life.id < q.id
      BY <1>1, LinkAssumption DEF Ids, Replacing
    <2> QED
      BY <2>1, <2>2
  <1>5. PICK g \in HistorySet :
            /\ g = Ran(h, q.id, results)
            /\ \A x \in Ids : /\ g[x].sent = h[x].sent /\ g[x].answered = h[x].answered
                              /\ x # q.id => g[x] = h[x]
            /\ g[q.id].executed = 1
            /\ g[q.id].result = IF r = None THEN {} ELSE {r.result}
    <2>1. results \in SUBSET Results
      BY <1>2
    <2>2. PICK g : g = Ran(h, q.id, results)
      OBVIOUS
    <2>3. /\ g \in HistorySet
          /\ \A x \in Ids : /\ g[x].sent = h[x].sent /\ g[x].answered = h[x].answered
                            /\ x # q.id => g[x] = h[x]
          /\ g[q.id].executed = h[q.id].executed + 1
          /\ g[q.id].result = h[q.id].result \cup results
      BY <1>1, <2>1, <2>2, RanFacts
    <2>4. g[q.id].executed = 1 /\ g[q.id].result = results
      BY <1>4, <2>3
    <2> QED
      BY <2>2, <2>3, <2>4, Zenon
  <1>6. Types(t, r = None, l, i, o, g)
    BY <1>3, <1>5, Zenon DEF LinkInv, Types
  <1>7. Agree(t, r = None)
    BY <1>1, <1>2, <1>3, LinkAssumption DEF Agree, Ids
  <1>8. InOrder(t, i, o)
    BY <1>3, Zenon DEF LinkInv, InOrder, Replacing
  <1>9. Genuine(r, g)
    BY <1>2, <1>5 DEF Genuine, None
  <1>10. Once(t, g)
    <2>1. Genuine(t.tx, g)
      BY <1>3 DEF Genuine, None
    <2>2. ASSUME NEW id \in Ids
          PROVE  /\ g[id].executed <= 1 /\ (g[id].executed = 1 => id <= q.id)
                 /\ g[id].executed = 0 => g[id].result = {}
      <3>1. CASE id = q.id
        <4>1. g[id].executed = 1 /\ id \in Nat /\ id = q.id
          BY <1>4, <1>5, <3>1, Zenon
        <4> QED
          BY <4>1
      <3>2. CASE id # q.id
        <4>1. id \in Nat /\ q.id \in Nat /\ s.life.id \in Nat /\ s.life.id < q.id
          BY <1>4, LinkAssumption DEF Ids
        <4>2. /\ h[id].executed <= 1 /\ (h[id].executed = 1 => id <= s.life.id)
              /\ h[id].executed = 0 => h[id].result = {}
          BY Zenon DEF LinkInv, Once
        <4>3. g[id] = h[id]
          BY <1>5, <3>2, Zenon
        <4> QED
          BY <4>1, <4>2, <4>3
      <3> QED
        BY <3>1, <3>2, Zenon
    <2> QED
      BY <1>3, <1>5, <1>9, <2>1, <2>2, Zenon DEF Once
  <1>11. ASSUME NEW id \in Ids
         PROVE  /\ id > o.id => g[id].sent = 0
                /\ g[id].answered + Sending(t, id) + Owed(t, id)
                       + Cardinality(Asked(i, id)) <= g[id].sent
                /\ r # None /\ id = q.id => Room(t, i, g, id)
    <2>1. Sending(t, id) = 0 /\ Sending(s, id) = 0 /\ Owed(s, id) = 0
          /\ Owed(t, id) = (IF r = None /\ id = q.id THEN 1 ELSE 0)
      BY <1>3 DEF Sending, Owed, None, Replacing
    <2>2. /\ h[id].answered \in Nat /\ h[id].sent \in Nat
          /\ Cardinality(Asked(i, id)) \in Nat
      BY CountTypes, Zenon DEF LinkInv
    <2>3. /\ id > o.id => h[id].sent = 0
          /\ h[id].answered + Sending(s, id) + Owed(s, id) + Cardinality(Asked(i, id))
                 <= h[id].sent
      BY Zenon DEF LinkInv, Counted
    <2>4. id = q.id => h[id].answered + Sending(s, id) + Owed(s, id)
                           + Cardinality(Asked(i, id)) < h[id].sent
      BY Zenon DEF Room, Replacing
    <2>5. g[id].sent = h[id].sent /\ g[id].answered = h[id].answered
      BY <1>5, Zenon
    <2>6. CASE r = None /\ id = q.id
      <3>1. Owed(t, id) = 1 /\ Sending(s, id) \in Nat /\ Sending(t, id) = Sending(s, id)
        BY <2>1, <2>6
      <3>2. h[id].answered + Sending(s, id) + Owed(s, id) + Cardinality(Asked(i, id)) < h[id].sent
        BY <2>4, <2>6, Zenon
      <3>3. Owed(s, id) = 0
        BY <2>1, Zenon
      <3>4. h[id].answered + Sending(s, id) + Owed(t, id) + Cardinality(Asked(i, id)) <= h[id].sent
        BY <2>2, <3>1, <3>2, <3>3, OneDue, Zenon
      <3> QED
        BY <2>3, <2>5, <2>6, <3>1, <3>4, Zenon
    <2>7. CASE ~(r = None /\ id = q.id)
      <3>1. Owed(t, id) = Owed(s, id) /\ Sending(t, id) = Sending(s, id)
        BY <2>1, <2>7, Zenon
      <3> QED
        BY <2>3, <2>4, <2>5, <2>7, <3>1, Zenon DEF Room
    <2> QED
      BY <2>6, <2>7, Zenon
  <1>12. Counted(t, i, o, g)
    BY <1>11, Zenon DEF Counted
  <1>13. Told(t, l, i, o)
    <2>1. Current(t.tx, l, o)
      BY <1>3 DEF Current, None
    <2>2. r # None => Current(r, l, o)
      BY Zenon DEF Replacing
    <2> QED
      BY <1>3, <2>1, <2>2, Zenon DEF LinkInv, Told
  <1>14. LinkInv(t, r = None, l, i, o, g)
    BY <1>6, <1>7, <1>8, <1>10, <1>12, <1>13 DEF LinkInv
  <1> QED
    BY <1>1, <1>5, <1>9, <1>11, <1>14, Zenon

-----------------------------------------------------------------------------
(* serviceRx *)


LEMMA LocalFacts ==
    ASSUME NEW l \in LedgerSet, l.active \cap l.consumed = {}, NEW op \in Operations,
           op # <<"REMOTE">>, NEW out \in HandleLocal(l, op)
    PROVE  /\ out.class \in Classes /\ out.result \in Results
           /\ out.ledger \in LedgerSet /\ l.consumed \subseteq out.ledger.consumed
           /\ out.ledger.active \cap out.ledger.consumed = {}
           /\ op[1] = "BAD_TARGET" => out.class # "SUCCESS"
           /\ op[1] = "POLL" /\ out.class = "SUCCESS" =>
                  out.result \in Events \cup {0}
                  /\ (out.result \in out.ledger.consumed => out.result = 0)
           /\ op[1] = "CONSUME" /\ out.class = "SUCCESS" => op[2] \in out.ledger.consumed
  <1>1. PICK name, e : name = op[1] /\ e = op[2]
    OBVIOUS
  <1>2. name \in {"POLL", "BAD_TARGET", "CONSUME"}
        /\ (name = "CONSUME" => e \in Events \ {0})
    BY <1>1, OperationForms
  <1>3. /\ l.active \in SUBSET Events /\ l.consumed \in SUBSET Events
        /\ l.healthy \in BOOLEAN
    BY DEF LedgerSet
  <1>4. CASE name = "BAD_TARGET"
    <2>1. out = Outcome("REQUEST_REJECTED", "BAD_TARGET", l)
      BY <1>1, <1>4 DEF HandleLocal
    <2>2. out.class = "REQUEST_REJECTED" /\ out.result = "BAD_TARGET" /\ out.ledger = l
      BY <2>1 DEF Outcome
    <2>3. out.class \in Classes /\ out.result \in Results
      BY <2>2 DEF Classes, Results
    <2> QED
      BY <1>1, <1>4, <2>2, <2>3
  <1>5. CASE name # "BAD_TARGET" /\ ~l.healthy
    <2>1. out = Outcome("EVENT_RESULT", "STORAGE_FAILURE", l)
      BY <1>1, <1>5 DEF HandleLocal, StorageFailure
    <2>2. out.class = "EVENT_RESULT" /\ out.result = "STORAGE_FAILURE" /\ out.ledger = l
      BY <2>1 DEF Outcome
    <2>3. out.class \in Classes /\ out.result \in Results
      BY <2>2 DEF Classes, Results
    <2> QED
      BY <2>2, <2>3
  <1>6. CASE name = "POLL" /\ l.healthy
    <2>1. out \in Poll(l)
      BY <1>1, <1>6 DEF HandleLocal
    <2>2. \E x \in l.active \cup {0} : out = Outcome("SUCCESS", x, l)
      BY <2>1 DEF Poll
    <2>3. PICK x \in l.active \cup {0} : out = Outcome("SUCCESS", x, l)
      BY <2>2
    <2>4. out.class = "SUCCESS" /\ out.result = x /\ out.ledger = l
      BY <2>3 DEF Outcome
    <2>5. x \in Events \cup {0} /\ (x \in l.consumed => x = 0)
      BY <1>3
    <2>6. x \in Results /\ "SUCCESS" \in Classes
      BY <2>5 DEF Results, Classes
    <2> QED
      BY <1>1, <1>6, <2>4, <2>5, <2>6
  <1>7. CASE name = "CONSUME" /\ l.healthy
    <2>1. out \in ConsumeEvent(l, e)
      BY <1>1, <1>7 DEF HandleLocal
    <2>2. CASE e \in l.consumed
      <3>1. out = Outcome("SUCCESS", "OK", l)
        BY <2>1, <2>2 DEF ConsumeEvent
      <3> QED
        BY <1>1, <1>7, <2>2, <3>1 DEF Outcome, Classes, Results
    <2>3. CASE e \notin l.consumed /\ e \notin l.active
      <3>1. out = Outcome("EVENT_RESULT", "NOT_FOUND", l)
        BY <2>1, <2>3 DEF ConsumeEvent
      <3> QED
        BY <1>1, <1>7, <3>1 DEF Outcome, Classes, Results
    <2>4. CASE e \notin l.consumed /\ e \in l.active
      <3>1. PICK a \in SUBSET Events, c \in SUBSET Events :
                a = l.active \ {e} /\ c = l.consumed \cup {e}
        BY <1>2, <1>3, <1>7, Zenon
      <3>2. \/ out = Outcome("SUCCESS", "OK", [l EXCEPT !.active = a, !.consumed = c])
            \/ out = Outcome("EVENT_RESULT", "STORAGE_FAILURE", [l EXCEPT !.healthy = FALSE])
        BY <2>1, <2>4, <3>1, Zenon DEF ConsumeEvent, StorageFailure
      <3>3. CASE out = Outcome("SUCCESS", "OK", [l EXCEPT !.active = a, !.consumed = c])
        <4>1. /\ out.class = "SUCCESS" /\ out.result = "OK" /\ out.ledger \in LedgerSet
              /\ out.ledger.active = a /\ out.ledger.consumed = c
          BY <3>3, Zenon DEF Outcome, LedgerSet
        <4>2. a \cap c = {} /\ l.consumed \subseteq c /\ e \in c
          BY <3>1
        <4> QED
          BY <1>1, <1>7, <4>1, <4>2 DEF Classes, Results
      <3>4. CASE out = Outcome("EVENT_RESULT", "STORAGE_FAILURE", [l EXCEPT !.healthy = FALSE])
        <4>1. /\ out.class = "EVENT_RESULT" /\ out.result = "STORAGE_FAILURE"
              /\ out.ledger \in LedgerSet
              /\ out.ledger.active = l.active /\ out.ledger.consumed = l.consumed
          BY <3>4, Zenon DEF Outcome, LedgerSet
        <4> QED
          BY <4>1 DEF Classes, Results
      <3> QED
        BY <3>2, <3>3, <3>4
    <2> QED
      BY <2>2, <2>3, <2>4, Zenon
  <1> QED
    BY <1>2, <1>3, <1>4, <1>5, <1>6, <1>7, Zenon

LEMMA RejectionFacts ==
    ASSUME NEW id \in Ids, NEW result \in Results, NEW l, NEW h, NEW o, id <= o.id
    PROVE  /\ Response(id, "REQUEST_REJECTED", result) \in ResponseSet
           /\ Response(id, "REQUEST_REJECTED", result).id = id
           /\ Genuine(Response(id, "REQUEST_REJECTED", result), h)
           /\ Current(Response(id, "REQUEST_REJECTED", result), l, o)
  BY DEF Response, ResponseSet, Classes, Genuine, Current

(* What submit answers to a request that it knows *)
LEMMA KnownFacts ==
    ASSUME NEW s, NEW b, NEW l, NEW i, NEW o, NEW h, LinkInv(s, b, l, i, o, h),
           NEW q \in RequestSet, q.id <= o.id
    PROVE  /\ Known(s, q) = {} => ~Duplicate(s, q) /\ s.life.state # "ACTIVE"
           /\ \A r \in Known(s, q) :
                  r # None => /\ r \in ResponseSet /\ r.id = q.id
                              /\ Genuine(r, h) /\ Current(r, l, o)
  <1>1. q.id \in Ids
    BY DEF RequestSet
  <1>2. CASE Duplicate(s, q) /\ q.op # s.life.op
    <2>1. Known(s, q) = {Response(q.id, "REQUEST_REJECTED", "MISMATCH")}
      BY <1>2 DEF Known
    <2>2. "MISMATCH" \in Results
      BY DEF Results
    <2> QED
      BY <1>1, <2>1, <2>2, RejectionFacts, Zenon
  <1>3. CASE Duplicate(s, q) /\ q.op = s.life.op
    <2>1. Known(s, q) = {IF s.life.state = "ACTIVE" THEN None ELSE s.life.response}
      BY <1>3 DEF Known
    <2>2. s.life.state # "EMPTY" /\ q.id = s.life.id
      BY <1>3 DEF Duplicate
    <2>3. s.life.state # "ACTIVE" => s.life.state = "COMPLETED"
      BY <2>2 DEF LinkInv, Types, StackSet, LifeSet
    <2>4. s.life.state = "COMPLETED" =>
              /\ s.life.response \in ResponseSet /\ s.life.response.id = s.life.id
              /\ Genuine(s.life.response, h) /\ Current(s.life.response, l, o)
      BY Zenon DEF LinkInv, Agree, Once, Told
    <2> QED
      BY <2>1, <2>2, <2>3, <2>4, Zenon
  <1>4. CASE ~Duplicate(s, q) /\ s.life.state = "ACTIVE"
    <2>1. Known(s, q) = {Response(q.id, "REQUEST_REJECTED", "BUSY")}
      BY <1>4 DEF Known
    <2>2. "BUSY" \in Results
      BY Zenon DEF Results
    <2> QED
      BY <1>1, <2>1, <2>2, RejectionFacts, Zenon
  <1>5. CASE ~Duplicate(s, q) /\ s.life.state # "ACTIVE"
    <2>1. Known(s, q) = {}
      BY <1>5 DEF Known
    <2> QED
      BY <1>5, <2>1, Zenon
  <1> QED
    BY <1>2, <1>3, <1>4, <1>5, Zenon

(* The stack is free for the answer to q, the next of the requests *)
Ready(s, i, o, h, q) ==
    /\ s.tx = None /\ ~s.pending /\ q \in RequestSet
    /\ s.life.id <= q.id /\ q.id <= o.id
    /\ q.id = o.id => q.op = o.op \/ q.op = <<"BAD_TARGET">>
    /\ \A k \in DOMAIN i : i[k].type = "REQUEST" => q.id <= i[k].id
    /\ Room(s, i, h, q.id)

LEMMA CompleteFacts ==
    ASSUME NEW s \in StackSet, NEW r \in ResponseSet
    PROVE  /\ Complete(s, r) \in StackSet /\ Complete(s, r).tx = s.tx
           /\ Complete(s, r).pending = s.pending /\ Complete(s, r).connected = s.connected
           /\ Complete(s, r).life.id = s.life.id /\ Complete(s, r).life.response = r
           /\ Complete(s, r).life.state = "COMPLETED"
  BY Zenon DEF Complete, StackSet, LifeSet

-----------------------------------------------------------------------------
(* The host *)

(* The host sends f: what the invariant says of the serial buffer *)
LEMMA SentFrame ==
    ASSUME NEW i \in Seq(FrameSet), NEW f \in FrameSet
    PROVE  /\ Append(i, f) \in Seq(FrameSet)
           /\ DOMAIN Append(i, f) = DOMAIN i \cup {Len(i) + 1}
           /\ \A k \in DOMAIN i : Append(i, f)[k] = i[k] /\ k < Len(i) + 1 /\ k \in Nat
           /\ Append(i, f)[Len(i) + 1] = f /\ Len(i) \in Nat
  OBVIOUS

(* The host and the history from before sending f to after it *)
HostSent(f, o, p) ==
    /\ p \in HostSet /\ p.consumed = o.consumed /\ p.stale = o.stale
    /\ \/ p.id = o.id /\ p.op = o.op /\ (f.type = "REQUEST" => o.id > 0)
       \/ p.id = o.id + 1 /\ p.op \in Operations /\ f.type = "REQUEST"
    /\ f.type = "REQUEST" => f.id = p.id /\ (f.op = p.op \/ f.op = <<"BAD_TARGET">>)
HistorySent(f, h, g) ==
    /\ g \in HistorySet
    /\ \A id \in Ids :
           /\ g[id].executed = h[id].executed /\ g[id].answered = h[id].answered
           /\ g[id].result = h[id].result
           /\ g[id].sent = h[id].sent + (IF Asks(f, id) THEN 1 ELSE 0)

LEMMA FrameSent ==
    ASSUME NEW s, NEW b, NEW l, NEW i, NEW o, NEW h, LinkInv(s, b, l, i, o, h),
           NEW f \in FrameSet, NEW p, HostSent(f, o, p), NEW g, HistorySent(f, h, g)
    PROVE  LinkInv(s, b, l, Append(i, f), p, g)
  <1>1. s \in StackSet /\ i \in Seq(FrameSet) /\ o \in HostSet /\ h \in HistorySet
        /\ s.tx \in AnswerSet /\ s.life.id \in Nat /\ o.id \in Nat /\ p.id \in Nat
        /\ o.id <= p.id
    <2>1. s \in StackSet /\ i \in Seq(FrameSet) /\ o \in HostSet /\ h \in HistorySet
      BY Zenon DEF LinkInv, Types
    <2>2. s.tx \in AnswerSet /\ s.life.id \in Nat
      BY <2>1, LinkAssumption DEF StackSet, LifeSet
    <2>3. o.id \in Nat
      BY <2>1, LinkAssumption DEF HostSet
    <2>4. p.id \in Nat /\ o.id <= p.id
      BY <2>3, LinkAssumption DEF HostSet, HostSent
    <2> QED
      BY <2>1, <2>2, <2>3, <2>4, Zenon
  <1>2. PICK j, n : j = Append(i, f) /\ n = Len(i) + 1
    BY Zenon
  <1>3. /\ j \in Seq(FrameSet) /\ DOMAIN j = DOMAIN i \cup {n} /\ j[n] = f
        /\ \A k \in DOMAIN i : j[k] = i[k] /\ k < n /\ k \in Nat
        /\ n \in Nat
    BY <1>1, <1>2, SentFrame, Zenon
  <1>4. Types(s, b, l, j, p, g)
    BY <1>3, Zenon DEF LinkInv, Types, HostSent, HistorySent
  <1>5. /\ s.life.id <= o.id
        /\ \A k \in DOMAIN i : i[k].type = "REQUEST" => s.life.id <= i[k].id /\ i[k].id <= o.id
                                                        /\ i[k].id \in Nat
    <2>1. \A x \in FrameSet : x.type = "REQUEST" => x.id \in Nat
      BY LinkAssumption DEF FrameSet, Others, Ids
    <2>2. \A k \in DOMAIN i : i[k] \in FrameSet
      BY <1>1
    <2> QED
      BY <2>1, <2>2, Zenon DEF LinkInv, InOrder
  <1>6. InOrder(s, j, p)
    <2>1. s.life.id <= p.id
      BY <1>1, <1>5
    <2>2. \A k \in DOMAIN j : j[k].type = "REQUEST" => s.life.id <= j[k].id /\ j[k].id <= p.id
      BY <1>1, <1>3, <1>5, <2>1 DEF HostSent
    <2>3. \A x, k \in DOMAIN j :
              x < k /\ j[x].type = "REQUEST" /\ j[k].type = "REQUEST" => j[x].id <= j[k].id
      <3> SUFFICES ASSUME NEW x \in DOMAIN j, NEW k \in DOMAIN j, x < k,
                          j[x].type = "REQUEST", j[k].type = "REQUEST"
                   PROVE  j[x].id <= j[k].id
        BY Zenon
      <3>1. CASE x \in DOMAIN i /\ k \in DOMAIN i
        BY <1>3, <3>1, Zenon DEF LinkInv, InOrder
      <3>2. CASE x \in DOMAIN i /\ k = n
        BY <1>1, <1>3, <1>5, <3>2 DEF HostSent
      <3>3. CASE x = n
        BY <1>3, <3>3
      <3> QED
        BY <1>3, <3>1, <3>2, <3>3, Zenon
    <2> QED
      BY <2>1, <2>2, <2>3, Zenon DEF InOrder
  <1>7. Once(s, g)
    <2>1. s.life.state = "COMPLETED" => s.life.response.id \in Ids
      BY Zenon DEF LinkInv, Agree, ResponseSet
    <2>2. s.life.state = "ACTIVE" => s.life.id \in Ids
      BY LinkAssumption DEF LinkInv, Agree, Types, StackSet, LifeSet, Ids
    <2>3. s.tx.type = "OPERATION_RESPONSE" => s.tx.id \in Ids
      BY <1>1, Zenon DEF AnswerSet, ResponseSet
    <2> QED
      BY <2>1, <2>2, <2>3, Zenon DEF LinkInv, Once, Genuine, HistorySent
  <1>8. Counted(s, j, p, g)
    <2> SUFFICES ASSUME NEW id \in Ids
                 PROVE  /\ id > p.id => g[id].sent = 0
                        /\ g[id].answered + Sending(s, id) + Owed(s, id)
                               + Cardinality(Asked(j, id)) <= g[id].sent
      BY Zenon DEF Counted
    <2>1. PICK c \in 0 .. 1 : c = IF Asks(f, id) THEN 1 ELSE 0
      OBVIOUS
    <2>2. Cardinality(Asked(j, id)) = Cardinality(Asked(i, id)) + c
      BY <1>1, <1>2, <2>1, AppendCount, Zenon
    <2>3. g[id].sent = h[id].sent + c /\ g[id].answered = h[id].answered
      BY <2>1, Zenon DEF HistorySent
    <2>4. /\ h[id].answered \in Nat /\ h[id].sent \in Nat /\ Sending(s, id) \in 0 .. 1
          /\ Owed(s, id) \in 0 .. 1 /\ Cardinality(Asked(i, id)) \in Nat
      BY CountTypes, Zenon DEF LinkInv
    <2>5. /\ id > o.id => h[id].sent = 0
          /\ h[id].answered + Sending(s, id) + Owed(s, id) + Cardinality(Asked(i, id))
                 <= h[id].sent
      BY Zenon DEF LinkInv, Counted
    <2>6. id \in Nat /\ (id > p.id => id > o.id /\ c = 0)
      BY <1>1, <2>1, LinkAssumption DEF Ids, Asks, HostSent
    <2>7. id > p.id => g[id].sent = 0
      BY <2>3, <2>5, <2>6
    <2>8. g[id].answered + Sending(s, id) + Owed(s, id) + Cardinality(Asked(j, id))
              <= g[id].sent
      <3>1. h[id].answered + Sending(s, id) + Owed(s, id) + (Cardinality(Asked(i, id)) + c)
                <= h[id].sent + c
        BY <2>4, <2>5, OneMore, Zenon
      <3> QED
        BY <2>2, <2>3, <3>1, Zenon
    <2> QED
      BY <2>7, <2>8, Zenon
  <1>9. Told(s, l, j, p)
    <2>1. \A k \in DOMAIN j :
              Asks(j[k], p.id) => j[k].op = p.op \/ j[k].op = <<"BAD_TARGET">>
      <3> SUFFICES ASSUME NEW k \in DOMAIN j, Asks(j[k], p.id)
                   PROVE  j[k].op = p.op \/ j[k].op = <<"BAD_TARGET">>
        BY Zenon
      <3>1. CASE k = n
        BY <1>3, <3>1, Zenon DEF Asks, HostSent
      <3>2. CASE k \in DOMAIN i
        <4>1. i[k].id <= o.id /\ i[k].id \in Nat /\ i[k].id = p.id /\ Asks(i[k], p.id)
          BY <1>3, <1>5, <3>2, Zenon DEF Asks
        <4>2. p.id = o.id /\ p.op = o.op
          BY <1>1, <4>1 DEF HostSent
        <4> QED
          BY <1>3, <3>2, <4>1, <4>2, Zenon DEF LinkInv, Told
      <3> QED
        BY <1>3, <3>1, <3>2, Zenon
    <2>2. \A r : r.id \in Nat /\ Current(r, l, o) => Current(r, l, p)
      BY <1>1 DEF Current, HostSent
    <2>3. s.tx.type = "OPERATION_RESPONSE" => s.tx.id \in Nat
      BY <1>1, LinkAssumption DEF AnswerSet, ResponseSet, Ids
    <2>4. s.life.state = "COMPLETED" => s.life.response.id \in Nat
      BY LinkAssumption DEF LinkInv, Agree, ResponseSet, Ids
    <2>5. Current(s.tx, l, p)
      BY <2>2, <2>3, Zenon DEF LinkInv, Told, Current
    <2>6. s.life.state = "COMPLETED" => Current(s.life.response, l, p)
      BY <2>2, <2>4, Zenon DEF LinkInv, Told
    <2>7. p.id > 0 => p.op \in Operations
      BY <1>1, Zenon DEF LinkInv, Told, HostSent
    <2> QED
      BY <2>1, <2>5, <2>6, <2>7, Zenon DEF LinkInv, Told, HostSent
  <1> QED
    BY <1>2, <1>4, <1>6, <1>7, <1>8, <1>9 DEF LinkInv

-----------------------------------------------------------------------------
(* The end of a remote operation *)

(* g is h with the result of id in addition *)
Recorded(h, g, id, result) ==
    /\ \A x \in Ids : /\ g[x].sent = h[x].sent /\ g[x].answered = h[x].answered
                      /\ g[x].executed = h[x].executed
                      /\ x # id => g[x].result = h[x].result
    /\ g[id].result = h[id].result \cup {result}

Concluded(h, id, result) == [h EXCEPT ![id].result = @ \cup {result}]

LEMMA ResultAdded ==
    ASSUME NEW h \in HistorySet, NEW id \in Ids, NEW result \in Results,
           NEW g, g = Concluded(h, id, result)
    PROVE  g \in HistorySet /\ Recorded(h, g, id, result)
  <1>1. PICK c \in SUBSET Results : c = h[id].result \cup {result}
    BY Zenon DEF HistorySet
  <1>2. h \in [Ids -> EntrySet] /\ h[id] \in EntrySet
    BY DEF HistorySet, EntrySet
  <1> DEFINE e == [h[id] EXCEPT !.result = c]
  <1>3. /\ e \in EntrySet /\ e.sent = h[id].sent /\ e.answered = h[id].answered
        /\ e.executed = h[id].executed /\ e.result = c
    BY <1>2 DEF EntrySet
  <1>4. g = [h EXCEPT ![id] = e]
    BY <1>1, Zenon DEF Concluded
  <1> HIDE DEF e
  <1>5. /\ g \in [Ids -> EntrySet] /\ g[id] = e
        /\ \A x \in Ids : x # id => g[x] = h[x]
    BY <1>2, <1>3, <1>4
  <1> QED
    BY <1>1, <1>3, <1>5 DEF HistorySet, EntrySet, Recorded

(* The remote operation ends, its answer is not handed on yet *)
LEMMA RemoteDone ==
    ASSUME NEW s, NEW b, NEW l, NEW i, NEW o, NEW h, LinkInv(s, b, l, i, o, h),
           s.life.state = "ACTIVE", NEW r \in ResponseSet, r.id = s.life.id,
           r.class \notin {"REQUEST_REJECTED", "SUCCESS"}, NEW g \in HistorySet,
           Recorded(h, g, r.id, r.result)
    PROVE  /\ LinkInv(Complete(s, r), FALSE, l, i, o, g) /\ ~Complete(s, r).pending
           /\ Room(Complete(s, r), i, g, r.id) /\ Genuine(r, g) /\ Current(r, l, o)
  <1>1. s \in StackSet /\ h \in HistorySet /\ s.life.id \in Ids /\ ~s.pending
    BY LinkAssumption DEF LinkInv, Types, StackSet, LifeSet, Agree, Ids
  <1>2. /\ r \in ResponseSet /\ r.id = s.life.id
        /\ r.class # "REQUEST_REJECTED" /\ r.class # "SUCCESS"
    BY Zenon
  <1>3. /\ g \in HistorySet
        /\ \A x \in Ids : /\ g[x].sent = h[x].sent /\ g[x].answered = h[x].answered
                          /\ g[x].executed = h[x].executed
                          /\ x # r.id => g[x].result = h[x].result
        /\ g[r.id].result = h[r.id].result \cup {r.result}
    BY Zenon DEF Recorded
  <1>4. h[r.id].result = {} /\ g[r.id].result = {r.result}
    BY <1>2, <1>3, Zenon DEF LinkInv, Once
  <1>5. PICK t : t = Complete(s, r)
    BY Zenon
  <1>6. /\ t \in StackSet /\ t.tx = s.tx /\ ~t.pending /\ t.connected = s.connected
        /\ t.life.id = s.life.id /\ t.life.response = r /\ t.life.state = "COMPLETED"
    BY <1>1, <1>2, <1>5, CompleteFacts, Zenon
  <1>7. Genuine(r, g) /\ Current(r, l, o)
    <2>1. s.life.id <= o.id
      BY Zenon DEF LinkInv, InOrder
    <2> QED
      BY <1>2, <1>4, <2>1, Zenon DEF Genuine, Current
  <1>8. Types(t, FALSE, l, i, o, g)
    BY <1>3, <1>6, Zenon DEF LinkInv, Types
  <1>9. Agree(t, FALSE)
    BY <1>1, <1>2, <1>6, LinkAssumption DEF Agree, Ids
  <1>10. InOrder(t, i, o)
    BY <1>6, Zenon DEF LinkInv, InOrder
  <1>11. Once(t, g)
    <2>1. h[s.life.id].executed = 1
      BY Zenon DEF LinkInv, Once
    <2>2. \A id \in Ids :
              /\ g[id].executed <= 1 /\ (g[id].executed = 1 => id <= t.life.id)
              /\ g[id].executed = 0 => g[id].result = {}
      <3> SUFFICES ASSUME NEW id \in Ids
                   PROVE  /\ g[id].executed <= 1 /\ (g[id].executed = 1 => id <= t.life.id)
                          /\ g[id].executed = 0 => g[id].result = {}
        BY Zenon
      <3>1. /\ h[id].executed <= 1 /\ (h[id].executed = 1 => id <= s.life.id)
            /\ h[id].executed = 0 => h[id].result = {}
        BY Zenon DEF LinkInv, Once
      <3>2. g[id].executed = h[id].executed /\ (id # r.id => g[id].result = h[id].result)
        BY <1>3, Zenon
      <3>3. id = r.id => g[id].executed # 0
        BY <1>2, <2>1, <3>2
      <3> QED
        BY <1>6, <3>1, <3>2, <3>3, Zenon
    <2>3. Genuine(t.tx, g)
      <3>1. CASE s.tx \in ResponseSet
        <4>1. s.tx.id \in Ids
          BY <3>1, Zenon DEF ResponseSet
        <4>2. Genuine(s.tx, h)
          BY Zenon DEF LinkInv, Once
        <4> QED
          BY <1>2, <1>3, <1>4, <1>6, <4>1, <4>2, ZenonT(30) DEF Genuine
      <3>2. CASE s.tx \notin ResponseSet
        <4>1. s.tx.type # "OPERATION_RESPONSE"
          BY <1>1, <3>2, Zenon DEF StackSet, AnswerSet
        <4> QED
          BY <1>6, <4>1, Zenon DEF Genuine
      <3> QED
        BY <3>1, <3>2, Zenon
    <2> QED
      BY <1>6, <1>7, <2>2, <2>3, Zenon DEF Once
  <1>12. ASSUME NEW id \in Ids
         PROVE  /\ id > o.id => g[id].sent = 0
                /\ g[id].answered + Sending(t, id) + Owed(t, id)
                       + Cardinality(Asked(i, id)) <= g[id].sent
                /\ id = r.id => Room(t, i, g, id)
    <2>1. Sending(t, id) = Sending(s, id) /\ Owed(t, id) = 0
          /\ Owed(s, id) = (IF id = r.id THEN 1 ELSE 0)
      BY <1>2, <1>6, Zenon DEF Sending, Owed
    <2>2. /\ h[id].answered \in Nat /\ h[id].sent \in Nat /\ Sending(s, id) \in 0 .. 1
          /\ Cardinality(Asked(i, id)) \in Nat
      BY CountTypes, Zenon DEF LinkInv
    <2>3. /\ id > o.id => h[id].sent = 0
          /\ h[id].answered + Sending(s, id) + Owed(s, id) + Cardinality(Asked(i, id))
                 <= h[id].sent
      BY Zenon DEF LinkInv, Counted
    <2>4. g[id].sent = h[id].sent /\ g[id].answered = h[id].answered
      BY <1>3, Zenon
    <2>5. CASE id = r.id
      <3>1. h[id].answered + Sending(s, id) + 1 + Cardinality(Asked(i, id)) <= h[id].sent
        BY <2>1, <2>3, <2>5, Zenon
      <3>2. 0 \in 0 .. 1
        OBVIOUS
      <3>3. /\ h[id].answered + Sending(s, id) + 0 + Cardinality(Asked(i, id)) < h[id].sent
            /\ h[id].answered + Sending(s, id) + 0 + Cardinality(Asked(i, id)) <= h[id].sent
        BY <2>2, <3>1, <3>2, OneLess, Zenon
      <3> QED
        BY <2>1, <2>3, <2>4, <3>3, Zenon DEF Room
    <2>6. CASE id # r.id
      BY <2>1, <2>2, <2>3, <2>4, <2>6, Zenon
    <2> QED
      BY <2>5, <2>6, Zenon
  <1>13. Counted(t, i, o, g)
    BY <1>12, Zenon DEF Counted
  <1>14. Told(t, l, i, o)
    BY <1>6, <1>7, Zenon DEF LinkInv, Told
  <1>15. LinkInv(t, FALSE, l, i, o, g)
    BY <1>8, <1>9, <1>10, <1>11, <1>13, <1>14, Zenon DEF LinkInv
  <1>16. Room(t, i, g, r.id)
    BY <1>1, <1>2, <1>12, Zenon
  <1> QED
    BY <1>2, <1>5, <1>6, <1>7, <1>15, <1>16, Zenon

-----------------------------------------------------------------------------
(* The request that serviceProductionHost reads *)

(* HandOff changes nothing but the frame that goes out *)
LEMMA HandOffPending ==
    ASSUME NEW s \in StackSet, NEW r
    PROVE  HandOff(s, r).pending = s.pending
  BY DEF HandOff, StackSet

LEMMA RemoteServed ==
    ASSUME NEW s, NEW i, NEW o, NEW h, LinkInv(s, bridge, ledger, i, o, h), NEW q,
           Ready(s, i, o, h, q), s.life.state # "ACTIVE", s.life.id < q.id,
           NEW x \in ServeRemote(s, q, h)
    PROVE  LinkInv(x.stack, x.bridge, x.ledger, i, o, x.history) /\ ~x.stack.pending
  <1>1. s \in StackSet /\ q \in RequestSet /\ q.id \in Ids /\ q.op \in Operations
    BY Zenon DEF LinkInv, Types, Ready, RequestSet
  <1>2. CASE x = Left(Accept(s, q), TRUE, ledger, Ran(h, q.id, {}))
    <2>1. PICK t : t = Accept(s, q)
      BY Zenon
    <2>2. [state |-> "ACTIVE", id |-> q.id, op |-> q.op, response |-> None] \in LifeSet
      BY <1>1, LinkAssumption DEF LifeSet, Ids
    <2>3. Replaced(s, t, q, None)
      BY <1>1, <2>1, <2>2 DEF Replaced, Accept, StackSet, Ready
    <2>4. LinkInv(t, None = None, ledger, i, o, Ran(h, q.id, {}))
      <3>1. Replacing(s, i, ledger, o, h, q, None)
        BY Zenon DEF Ready, Replacing
      <3>2. {} = IF None = None THEN {} ELSE {None.result}
        BY Zenon
      <3> QED
        BY <2>3, <3>1, <3>2, EntryReplaced, Zenon
    <2>5. x.stack = t /\ x.bridge = TRUE /\ x.ledger = ledger /\ x.history = Ran(h, q.id, {})
      BY <1>2, <2>1, Zenon DEF Left
    <2>6. (None = None) = TRUE
      BY Zenon
    <2> QED
      BY <2>3, <2>4, <2>5, <2>6, Zenon DEF Replaced
  <1>3. CASE x = Left(HandOff(s, Response(q.id, "REQUEST_REJECTED", "UNSUPPORTED_OPERATION")),
                      bridge, ledger, h)
    <2>1. PICK r : r = Response(q.id, "REQUEST_REJECTED", "UNSUPPORTED_OPERATION")
      BY Zenon
    <2>2. "UNSUPPORTED_OPERATION" \in Results
      BY Zenon DEF Results
    <2>3. r \in ResponseSet /\ r.id = q.id /\ Genuine(r, h) /\ Current(r, ledger, o)
      BY <1>1, <2>1, <2>2, RejectionFacts, Zenon DEF Ready
    <2>4. LinkInv(HandOff(s, r), bridge, ledger, i, o, h)
      BY <2>3, ResponseHandedOff, Zenon DEF Ready
    <2>5. /\ x.stack = HandOff(s, r) /\ x.bridge = bridge /\ x.ledger = ledger
          /\ x.history = h
      BY <1>3, <2>1, Zenon DEF Left
    <2> QED
      BY <1>1, <2>4, <2>5, HandOffPending, Zenon DEF Ready
  <1> QED
    BY <1>2, <1>3, Zenon DEF ServeRemote

(* The answer of the event service tells the host no more than it may *)
LEMMA LocalCurrent ==
    ASSUME NEW s, NEW b, NEW l, NEW i, NEW o, NEW h, LinkInv(s, b, l, i, o, h), NEW q,
           Ready(s, i, o, h, q), q.op # <<"REMOTE">>, NEW out \in HandleLocal(l, q.op)
    PROVE  Current(Response(q.id, out.class, out.result), out.ledger, o)
  <1>1. q.op \in Operations /\ l \in LedgerSet /\ l.active \cap l.consumed = {}
        /\ o.consumed \subseteq l.consumed /\ 0 \notin o.consumed /\ q.id <= o.id
        /\ (q.id = o.id => q.op = o.op \/ q.op = <<"BAD_TARGET">>)
    BY Zenon DEF LinkInv, Types, Told, Ready, RequestSet
  <1>2. /\ l.consumed \subseteq out.ledger.consumed
        /\ q.op[1] = "BAD_TARGET" => out.class # "SUCCESS"
        /\ q.op[1] = "POLL" /\ out.class = "SUCCESS" =>
               out.result \in Events \cup {0}
               /\ (out.result \in out.ledger.consumed => out.result = 0)
        /\ q.op[1] = "CONSUME" /\ out.class = "SUCCESS" => q.op[2] \in out.ledger.consumed
    BY <1>1, LocalFacts, Zenon
  <1> SUFFICES ASSUME q.id = o.id, out.class = "SUCCESS"
               PROVE  /\ o.op = <<"POLL">> => out.result \in (Events \cup {0}) \ o.consumed
                      /\ o.op[1] = "CONSUME" => o.op[2] \in out.ledger.consumed
    BY <1>1, Zenon DEF Current, Response
  <1>3. q.op = o.op
    BY <1>1, <1>2, OperationForms, Zenon
  <1>4. ASSUME o.op = <<"POLL">>
        PROVE  out.result \in (Events \cup {0}) \ o.consumed
    <2>1. q.op[1] = "POLL"
      BY <1>1, <1>3, <1>4, OperationForms, Zenon
    <2> QED
      BY <1>1, <1>2, <2>1, Zenon
  <1>5. ASSUME o.op[1] = "CONSUME"
        PROVE  o.op[2] \in out.ledger.consumed
    BY <1>2, <1>3, <1>5, Zenon
  <1> QED
    BY <1>4, <1>5, Zenon

LEMMA LocalServed ==
    ASSUME NEW s, NEW i, NEW o, NEW h, LinkInv(s, bridge, ledger, i, o, h), NEW q,
           Ready(s, i, o, h, q), s.life.state # "ACTIVE", s.life.id < q.id,
           q.op # <<"REMOTE">>, NEW x \in ServeLocal(s, q, h)
    PROVE  LinkInv(x.stack, x.bridge, x.ledger, i, o, x.history) /\ ~x.stack.pending
  <1>1. /\ s \in StackSet /\ q \in RequestSet /\ q.id \in Ids /\ q.op \in Operations
        /\ bridge \in BOOLEAN /\ ledger \in LedgerSet /\ ledger.active \cap ledger.consumed = {}
    BY Zenon DEF LinkInv, Types, Ready, RequestSet, Told
  <1>2. PICK out \in HandleLocal(ledger, q.op) :
            x = LET r == Response(q.id, out.class, out.result)
                IN  IF out.class = "REQUEST_REJECTED" THEN Left(HandOff(s, r), bridge, out.ledger, h)
                    ELSE Left(HandOff(Complete(Accept(s, q), r), r), bridge, out.ledger,
                              Ran(h, q.id, {out.result}))
    BY Zenon DEF ServeLocal
  <1>3. PICK r : r = Response(q.id, out.class, out.result)
    BY Zenon
  <1>4. /\ out.class \in Classes /\ out.result \in Results /\ out.ledger \in LedgerSet
        /\ ledger.consumed \subseteq out.ledger.consumed
        /\ out.ledger.active \cap out.ledger.consumed = {}
    BY <1>1, LocalFacts, Zenon
  <1>5. LinkInv(s, bridge, out.ledger, i, o, h)
    BY <1>4, LedgerKeeps, Zenon
  <1>6. /\ r \in ResponseSet /\ r.id = q.id /\ r.class = out.class /\ r.result = out.result
        /\ r # None
    BY <1>1, <1>3, <1>4, Zenon DEF Response, ResponseSet, None
  <1>7. Current(r, out.ledger, o)
    BY <1>3, LocalCurrent, Zenon
  <1>8. CASE out.class = "REQUEST_REJECTED"
    <2>1. /\ x.stack = HandOff(s, r) /\ x.bridge = bridge /\ x.ledger = out.ledger
          /\ x.history = h
      BY <1>2, <1>3, <1>8, Zenon DEF Left
    <2>2. Genuine(r, h)
      BY <1>6, <1>8, Zenon DEF Genuine
    <2>3. LinkInv(HandOff(s, r), bridge, out.ledger, i, o, h)
      BY <1>5, <1>6, <1>7, <2>2, ResponseHandedOff, Zenon DEF Ready
    <2> QED
      BY <1>1, <2>1, <2>3, HandOffPending, Zenon DEF Ready
  <1>9. CASE out.class # "REQUEST_REJECTED"
    <2>1. PICK t : t = Complete(Accept(s, q), r)
      BY Zenon
    <2>2. [state |-> "ACTIVE", id |-> q.id, op |-> q.op, response |-> None] \in LifeSet
      BY <1>1, LinkAssumption DEF LifeSet, Ids
    <2>3. /\ Accept(s, q) \in StackSet /\ Accept(s, q).tx = s.tx
          /\ Accept(s, q).pending = s.pending /\ Accept(s, q).connected = s.connected
          /\ Accept(s, q).life.id = q.id
      BY <1>1, <2>2 DEF Accept, StackSet
    <2>4. Replaced(s, t, q, r)
      BY <1>6, <2>1, <2>3, CompleteFacts, Zenon DEF Replaced, Ready
    <2>5. PICK g, results : g = Ran(h, q.id, results) /\ results = {r.result}
      BY Zenon
    <2>6. /\ LinkInv(t, r = None, out.ledger, i, o, g)
          /\ Room(t, i, g, q.id) /\ Genuine(r, g)
      <3>1. results = IF r = None THEN {} ELSE {r.result}
        BY <1>6, <2>5, Zenon
      <3> QED
        <4>1. PICK m : m = out.ledger
          BY Zenon
        <4>2. LinkInv(s, bridge, m, i, o, h) /\ Current(r, m, o)
          BY <1>5, <1>7, <4>1, Zenon
        <4>3. Replacing(s, i, m, o, h, q, r)
          BY <1>6, <1>9, <4>2, Zenon DEF Ready, Replacing
        <4>4. /\ LinkInv(t, r = None, m, i, o, Ran(h, q.id, results))
              /\ r # None => /\ Room(t, i, Ran(h, q.id, results), q.id)
                             /\ Genuine(r, Ran(h, q.id, results))
          BY <2>4, <3>1, <4>2, <4>3, EntryReplaced, ZenonT(30)
        <4> QED
          BY <1>6, <2>5, <4>1, <4>4, Zenon
    <2>7. bridge = FALSE /\ (r = None) = FALSE
      BY <1>1, <1>6, Zenon DEF LinkInv, Agree
    <2>8. t.tx = None /\ ~t.pending /\ t \in StackSet
      BY <2>4, Zenon DEF Replaced
    <2>9. LinkInv(HandOff(t, r), FALSE, out.ledger, i, o, g)
      BY <1>6, <1>7, <2>6, <2>7, <2>8, ResponseHandedOff, Zenon
    <2>10. /\ x.stack = HandOff(t, r) /\ x.bridge = bridge /\ x.ledger = out.ledger
           /\ x.history = g
      BY <1>2, <1>3, <1>6, <1>9, <2>1, <2>5, Zenon DEF Left
    <2> QED
      BY <2>7, <2>8, <2>9, <2>10, HandOffPending, Zenon
  <1> QED
    BY <1>8, <1>9, Zenon

LEMMA RequestServed ==
    ASSUME NEW s, NEW i, NEW o, NEW h, LinkInv(s, bridge, ledger, i, o, h), NEW q,
           Ready(s, i, o, h, q), NEW x \in ServeRequest(s, q, h)
    PROVE  LinkInv(x.stack, x.bridge, x.ledger, i, o, x.history) /\ ~x.stack.pending
  <1>1. s \in StackSet /\ q \in RequestSet /\ q.id <= o.id /\ s.tx = None /\ ~s.pending
        /\ Room(s, i, h, q.id)
    BY Zenon DEF LinkInv, Types, Ready
  <1>2. /\ Known(s, q) = {} => ~Duplicate(s, q) /\ s.life.state # "ACTIVE"
        /\ \A r \in Known(s, q) :
               r # None => /\ r \in ResponseSet /\ r.id = q.id
                           /\ Genuine(r, h) /\ Current(r, ledger, o)
    BY <1>1, KnownFacts, Zenon
  <1>3. CASE Known(s, q) # {}
    <2>1. PICK r \in Known(s, q) :
              x = Left(IF r = None THEN s ELSE HandOff(s, r), bridge, ledger, h)
      BY <1>3 DEF ServeRequest
    <2>2. CASE r = None
      <3>1. x.stack = s /\ x.bridge = bridge /\ x.ledger = ledger /\ x.history = h
        BY <2>1, <2>2, Zenon DEF Left
      <3> QED
        BY <1>1, <3>1, Zenon
    <2>3. CASE r # None
      <3>1. /\ x.stack = HandOff(s, r) /\ x.bridge = bridge /\ x.ledger = ledger
            /\ x.history = h
        BY <2>1, <2>3, Zenon DEF Left
      <3>2. r \in ResponseSet /\ r.id = q.id /\ Genuine(r, h) /\ Current(r, ledger, o)
        BY <1>2, <2>3, Zenon
      <3>3. LinkInv(HandOff(s, r), bridge, ledger, i, o, h)
        BY <1>1, <3>2, ResponseHandedOff, Zenon
      <3> QED
        BY <1>1, <3>1, <3>3, HandOffPending
    <2> QED
      BY <2>2, <2>3
  <1>4. CASE Known(s, q) = {}
    <2>1. ~Duplicate(s, q) /\ s.life.state # "ACTIVE"
      BY <1>2, <1>4, Zenon
    <2>2. s.life.id < q.id
      <3>1. s.life.id \in Nat /\ q.id \in Nat /\ q.id # 0 /\ s.life.id <= q.id
        BY <1>1, LinkAssumption DEF StackSet, LifeSet, RequestSet, Ids, Ready
      <3>2. s.life.state = "EMPTY" \/ q.id # s.life.id
        BY <2>1, Zenon DEF Duplicate
      <3>3. s.life.state = "EMPTY" => s.life.id = 0
        BY Zenon DEF LinkInv, Agree
      <3> QED
        BY <3>1, <3>2, <3>3
    <2>3. CASE q.op = <<"REMOTE">>
      <3>1. x \in ServeRemote(s, q, h)
        BY <1>4, <2>3, Zenon DEF ServeRequest
      <3> QED
        BY <2>1, <2>2, <3>1, RemoteServed, Zenon
    <2>4. CASE q.op # <<"REMOTE">>
      <3>1. x \in ServeLocal(s, q, h)
        BY <1>4, <2>4, Zenon DEF ServeRequest
      <3> QED
        BY <2>1, <2>2, <2>4, <3>1, LocalServed, Zenon
    <2> QED
      BY <2>3, <2>4, Zenon
  <1> QED
    BY <1>3, <1>4, Zenon

LEMMA RxKeeps ==
    ASSUME NEW s, NEW i, NEW o, NEW h, LinkInv(s, bridge, ledger, i, o, h), i # << >>,
           s.tx = None, ~s.pending, NEW x \in ServiceRx(s, Head(i), h)
    PROVE  LinkInv(x.stack, x.bridge, x.ledger, Tail(i), o, x.history) /\ ~x.stack.pending
  <1>1. PICK f, j : f = Head(i) /\ j = Tail(i)
    BY Zenon
  <1>2. /\ f \in FrameSet /\ LinkInv(s, bridge, ledger, j, o, h)
        /\ f.type = "REQUEST" =>
               /\ Room(s, j, h, f.id) /\ s.life.id <= f.id /\ f.id <= o.id
               /\ f.id = o.id => f.op = o.op \/ f.op = <<"BAD_TARGET">>
               /\ \A k \in DOMAIN j : j[k].type = "REQUEST" => f.id <= j[k].id
    BY <1>1, HeadRead, Zenon
  <1>3. CASE f.type = "REQUEST"
    <2>1. f \in RequestSet
      BY <1>2, <1>3, Zenon DEF FrameSet, RequestSet, Others
    <2>2. Ready(s, j, o, h, f)
      BY <1>2, <1>3, <2>1, Zenon DEF Ready
    <2>3. x \in ServeRequest(s, f, h)
      BY <1>1, <1>3, Zenon DEF ServiceRx
    <2> QED
      BY <1>1, <1>2, <2>2, <2>3, RequestServed, Zenon
  <1>4. CASE f.type # "REQUEST"
    <2>1. PICK r : r = OtherAnswer(f.type)
      OBVIOUS
    <2>2. r = None \/ r \in [type : {"HELLO_RESPONSE", "PROTOCOL_ERROR"}]
      BY <2>1 DEF OtherAnswer
    <2>3. x = Left(IF r = None THEN s ELSE HandOff(s, r), bridge, ledger, h)
      BY <1>1, <1>4, <2>1, Zenon DEF ServiceRx
    <2>4. CASE r = None
      <3>1. x.stack = s /\ x.bridge = bridge /\ x.ledger = ledger /\ x.history = h
        BY <2>3, <2>4, Zenon DEF Left
      <3> QED
        BY <1>1, <1>2, <3>1, Zenon
    <2>5. CASE r # None
      <3>1. /\ x.stack = HandOff(s, r) /\ x.bridge = bridge /\ x.ledger = ledger
            /\ x.history = h
        BY <2>3, <2>5, Zenon DEF Left
      <3>2. LinkInv(HandOff(s, r), bridge, ledger, j, o, h)
        BY <1>2, <2>2, <2>5, OtherHandedOff, Zenon
      <3>3. s \in StackSet
        BY DEF LinkInv, Types
      <3> QED
        BY <1>1, <3>1, <3>2, <3>3, HandOffPending
    <2> QED
      BY <2>4, <2>5, Zenon
  <1> QED
    BY <1>3, <1>4, Zenon

-----------------------------------------------------------------------------
(* The steps *)

LinkInvariant ==
    /\ usb \in BOOLEAN /\ LinkInv(stack, bridge, ledger, input, host, history)
    /\ stack.pending => stack.tx # None

LEMMA InvServiceHost ==
    ASSUME LinkInvariant, ServiceHost
    PROVE  LinkInvariant'
  <1>1. PICK moved \in BOOLEAN, mayRead \in BOOLEAN, cut \in BOOLEAN :
            LET s1 == ObserveConnection(stack, usb)
                s2 == PendingDelivery(IF moved THEN [s1 EXCEPT !.tx = None] ELSE s1)
                h == IF moved THEN Answered(history, s1.tx) ELSE history
                reads == mayRead /\ s2.connected /\ s2.tx = None /\ input # << >>
            IN  /\ moved => s1.tx # None
                /\ cut => stack.connected /\ ~usb /\ input # << >>
                /\ host' = IF moved THEN Got(host, s1.tx) ELSE host
                /\ IF reads
                   THEN /\ \E left \in ServiceRx(s2, Head(input), h) :
                               /\ stack' = left.stack /\ bridge' = left.bridge
                               /\ ledger' = left.ledger /\ history' = left.history
                        /\ input' = Tail(input)
                   ELSE /\ stack' = s2 /\ history' = h /\ UNCHANGED <<bridge, ledger>>
                        /\ input' = IF cut THEN <<[type |-> "UNTRUSTED"]>> \o Tail(input)
                                    ELSE input
                /\ UNCHANGED usb
    BY Zenon DEF ServiceHost
  <1>2. PICK s1 : s1 = ObserveConnection(stack, usb)
    OBVIOUS
  <1>3. LinkInv(s1, bridge, ledger, input, host, history) /\ usb \in BOOLEAN
    BY <1>2, ObserveKeeps, Zenon DEF LinkInvariant
  <1>4. PICK h : h = IF moved THEN Answered(history, s1.tx) ELSE history
    OBVIOUS
  <1>5. PICK o : o = IF moved THEN Got(host, s1.tx) ELSE host
    OBVIOUS
  <1>6. PICK m : m = IF moved THEN [s1 EXCEPT !.tx = None] ELSE s1
    BY Zenon
  <1>7. LinkInv(m, bridge, ledger, input, o, h)
    <2>1. CASE moved
      BY <1>3, <1>4, <1>5, <1>6, <2>1, MovedKeeps
    <2>2. CASE ~moved
      BY <1>3, <1>4, <1>5, <1>6, <2>2
    <2> QED
      BY <2>1, <2>2
  <1>8. PICK s2 : s2 = PendingDelivery(m)
    OBVIOUS
  <1>9. LinkInv(s2, bridge, ledger, input, o, h) /\ (s2.tx = None => ~s2.pending)
    BY <1>7, <1>8, DeliveryKeeps
  <1>10. /\ host' = o /\ usb' = usb /\ (cut => input # << >>)
         /\ IF mayRead /\ s2.connected /\ s2.tx = None /\ input # << >>
            THEN /\ \E left \in ServiceRx(s2, Head(input), h) :
                        /\ stack' = left.stack /\ bridge' = left.bridge
                        /\ ledger' = left.ledger /\ history' = left.history
                 /\ input' = Tail(input)
            ELSE /\ stack' = s2 /\ history' = h /\ bridge' = bridge /\ ledger' = ledger
                 /\ input' = IF cut THEN <<[type |-> "UNTRUSTED"]>> \o Tail(input) ELSE input
    BY <1>1, <1>2, <1>4, <1>5, <1>6, <1>8, Zenon
  <1>11. CASE mayRead /\ s2.connected /\ s2.tx = None /\ input # << >>
    <2>1. PICK x \in ServiceRx(s2, Head(input), h) :
              /\ stack' = x.stack /\ bridge' = x.bridge
              /\ ledger' = x.ledger /\ history' = x.history
      BY <1>10, <1>11, Zenon
    <2>2. input' = Tail(input)
      BY <1>10, <1>11, Zenon
    <2>3. LinkInv(x.stack, x.bridge, x.ledger, Tail(input), o, x.history) /\ ~x.stack.pending
      BY <1>9, <1>11, RxKeeps, Zenon
    <2> QED
      BY <1>3, <1>10, <2>1, <2>2, <2>3, Zenon DEF LinkInvariant
  <1>12. CASE ~(mayRead /\ s2.connected /\ s2.tx = None /\ input # << >>)
    <2>1. /\ stack' = s2 /\ history' = h /\ bridge' = bridge /\ ledger' = ledger
          /\ input' = IF cut THEN <<[type |-> "UNTRUSTED"]>> \o Tail(input) ELSE input
      BY <1>10, <1>12, Zenon
    <2>2. LinkInv(s2, bridge, ledger, input', o, h)
      <3>1. CASE cut
        BY <1>9, <1>10, <2>1, <3>1, CutKeeps, Zenon
      <3>2. CASE ~cut
        BY <1>9, <2>1, <3>2
      <3> QED
        BY <3>1, <3>2
    <2> QED
      BY <1>3, <1>9, <1>10, <2>1, <2>2, Zenon DEF LinkInvariant
  <1> QED
    BY <1>11, <1>12

(* The answer waits until the frame that goes out is gone *)
LEMMA DeliveryWaits ==
    ASSUME NEW s, NEW b, NEW l, NEW i, NEW o, NEW h, LinkInv(s, b, l, i, o, h),
           s.connected, ~s.pending, s.life.state = "COMPLETED", Room(s, i, h, s.life.id)
    PROVE  LinkInv([s EXCEPT !.pending = TRUE], b, l, i, o, h)
  <1>1. PICK t : t = [s EXCEPT !.pending = TRUE]
    BY Zenon
  <1>2. t \in StackSet /\ t.life = s.life /\ t.tx = s.tx /\ t.pending /\ t.connected
    BY <1>1, Zenon DEF LinkInv, Types, StackSet
  <1>3. Types(t, b, l, i, o, h)
    BY <1>2, Zenon DEF LinkInv, Types
  <1>4. Agree(t, b)
    BY <1>2, Zenon DEF LinkInv, Agree
  <1>5. InOrder(t, i, o)
    BY <1>2, Zenon DEF LinkInv, InOrder
  <1>6. Once(t, h)
    BY <1>2, Zenon DEF LinkInv, Once
  <1>7. Counted(t, i, o, h)
    <2> SUFFICES ASSUME NEW id \in Ids
                 PROVE  /\ id > o.id => h[id].sent = 0
                        /\ h[id].answered + Sending(t, id) + Owed(t, id)
                               + Cardinality(Asked(i, id)) <= h[id].sent
      BY Zenon DEF Counted
    <2>1. Sending(t, id) = Sending(s, id) /\ Owed(s, id) = 0
          /\ Owed(t, id) = (IF id = s.life.id THEN 1 ELSE 0)
      BY <1>2, Zenon DEF Sending, Owed
    <2>2. /\ h[id].answered \in Nat /\ h[id].sent \in Nat /\ Sending(s, id) \in 0 .. 1
          /\ Cardinality(Asked(i, id)) \in Nat
      BY CountTypes, Zenon DEF LinkInv
    <2>3. /\ id > o.id => h[id].sent = 0
          /\ h[id].answered + Sending(s, id) + Owed(s, id) + Cardinality(Asked(i, id))
                 <= h[id].sent
      BY Zenon DEF LinkInv, Counted
    <2>4. CASE id = s.life.id
      <3>1. Owed(t, id) = 1 /\ Sending(s, id) \in Nat
        BY <2>1, <2>2, <2>4
      <3>2. h[id].answered + Sending(s, id) + Owed(s, id) + Cardinality(Asked(i, id)) < h[id].sent
        BY <2>4, Zenon DEF Room
      <3>3. Owed(s, id) = 0
        BY <2>1, Zenon
      <3>4. h[id].answered + Sending(s, id) + Owed(t, id) + Cardinality(Asked(i, id)) <= h[id].sent
        BY <2>2, <3>1, <3>2, <3>3, OneDue, Zenon
      <3> QED
        BY <2>1, <2>3, <3>4, Zenon
    <2>5. CASE id # s.life.id
      BY <2>1, <2>2, <2>3, <2>5, Zenon
    <2> QED
      BY <2>4, <2>5, Zenon
  <1>8. Told(t, l, i, o)
    BY <1>2, Zenon DEF LinkInv, Told
  <1> QED
    BY <1>1, <1>3, <1>4, <1>5, <1>6, <1>7, <1>8 DEF LinkInv

LEMMA InvRemoteEnds ==
    ASSUME LinkInvariant, RemoteEnds
    PROVE  LinkInvariant'
  <1>1. PICK class \in {"OPERATION_RESULT", "RADIO_RESULT"} :
            LET r == Response(stack.life.id, class, class)
            IN  /\ stack' = ConsumeRemote(stack, r)
                /\ history' = Concluded(history, r.id, r.result)
    BY Zenon DEF RemoteEnds, Concluded
  <1>2. PICK s, h, r, g, t :
            /\ s = stack /\ h = history /\ r = Response(s.life.id, class, class)
            /\ g = Concluded(h, r.id, r.result) /\ t = Complete(s, r)
    OBVIOUS
  <1>3. /\ stack' = ConsumeRemote(s, r) /\ history' = g /\ bridge' = FALSE /\ usb' = usb
        /\ input' = input /\ ledger' = ledger /\ host' = host /\ s.life.state = "ACTIVE"
    BY <1>1, <1>2, Zenon DEF RemoteEnds
  <1>4. LinkInv(s, bridge, ledger, input, host, h) /\ s \in StackSet
        /\ usb \in BOOLEAN
    BY <1>2, Zenon DEF LinkInvariant, LinkInv, Types
  <1>5. /\ r \in ResponseSet /\ r.id = s.life.id
        /\ LinkInv(t, FALSE, ledger, input, host, g) /\ ~t.pending
        /\ Room(t, input, g, r.id) /\ Genuine(r, g) /\ Current(r, ledger, host)
    <2>1. s.life.state = "ACTIVE" /\ h \in HistorySet /\ s.life.id \in Ids
      <3>1. h \in HistorySet /\ s.life \in LifeSet /\ (s.life.state = "ACTIVE" => s.life.id # 0)
        BY <1>4, Zenon DEF LinkInv, Types, StackSet, Agree
      <3>2. \A x \in LifeSet : x.id # 0 => x.id \in Ids
        BY LinkAssumption DEF LifeSet, Ids
      <3> QED
        BY <1>3, <3>1, <3>2, Zenon
    <2>2. /\ r \in ResponseSet /\ r.id = s.life.id /\ r.result \in Results /\ r.id \in Ids
          /\ r.class \notin {"REQUEST_REJECTED", "SUCCESS"}
      BY <1>2, <2>1, Zenon DEF Response, ResponseSet, Classes, Results
    <2>3. g \in HistorySet /\ Recorded(h, g, r.id, r.result)
      BY <1>2, <2>1, <2>2, ResultAdded, Zenon
    <2>4. /\ LinkInv(Complete(s, r), FALSE, ledger, input, host, g)
          /\ ~Complete(s, r).pending
          /\ Room(Complete(s, r), input, g, r.id) /\ Genuine(r, g)
          /\ Current(r, ledger, host)
      BY <1>4, <2>1, <2>2, <2>3, RemoteDone, Zenon
    <2> QED
      BY <1>2, <2>2, <2>4, Zenon
  <1>6. /\ t \in StackSet /\ t.tx = s.tx /\ t.connected = s.connected
        /\ t.life.id = s.life.id /\ t.life.state = "COMPLETED"
    BY <1>2, <1>4, <1>5, CompleteFacts, Zenon
  <1>7. CASE ~s.connected
    <2>1. stack' = t
      BY <1>2, <1>3, <1>7 DEF ConsumeRemote
    <2> QED
      BY <1>3, <1>4, <1>5, <2>1, Zenon DEF LinkInvariant
  <1>8. CASE s.connected /\ s.tx = None
    <2>1. stack' = HandOff(t, r)
      BY <1>2, <1>3, <1>8 DEF ConsumeRemote
    <2>2. LinkInv(HandOff(t, r), FALSE, ledger, input, host, g)
      BY <1>5, <1>6, <1>8, ResponseHandedOff, Zenon
    <2>3. ~HandOff(t, r).pending
      BY <1>5, <1>6, HandOffPending, Zenon
    <2> QED
      BY <1>3, <1>4, <2>1, <2>2, <2>3, Zenon DEF LinkInvariant
  <1>9. CASE s.connected /\ s.tx # None
    <2>1. stack' = [t EXCEPT !.pending = TRUE]
      BY <1>2, <1>3, <1>9 DEF ConsumeRemote
    <2>2. LinkInv([t EXCEPT !.pending = TRUE], FALSE, ledger, input, host, g)
      BY <1>5, <1>6, <1>9, DeliveryWaits, Zenon
    <2>3. [t EXCEPT !.pending = TRUE].tx = s.tx
      BY <1>6 DEF StackSet
    <2> QED
      BY <1>3, <1>4, <1>9, <2>1, <2>2, <2>3, Zenon DEF LinkInvariant
  <1> QED
    BY <1>7, <1>8, <1>9

LEMMA InvHostAsks ==
    ASSUME LinkInvariant, HostAsks
    PROVE  LinkInvariant'
  <1>1. PICK op \in HostOps(host) :
            /\ input' = Append(input, Request(host.id + 1, op))
            /\ host' = [host EXCEPT !.id = @ + 1, !.op = op, !.writes = @ + 1]
    BY Zenon DEF HostAsks, Sends
  <1>2. /\ history' = [history EXCEPT ![host.id + 1].sent = 1] /\ usb' = usb /\ stack' = stack
        /\ bridge' = bridge /\ ledger' = ledger /\ host.id < MaxRequests
    BY DEF HostAsks
  <1>3. PICK f : f = Request(host.id + 1, op)
    OBVIOUS
  <1>4. host \in HostSet /\ history \in HistorySet /\ host.id + 1 \in Ids /\ host.id \in Nat
    BY <1>2, LinkAssumption DEF LinkInvariant, LinkInv, Types, HostSet, Ids
  <1>5. op \in Operations
    BY <1>4 DEF HostOps, Operations, HostSet
  <1>6. /\ f \in FrameSet /\ f.type = "REQUEST" /\ f.id = host.id + 1 /\ f.op = op
    BY <1>3, <1>4, <1>5, Zenon DEF Request, FrameSet
  <1>7. HostSent(f, host, host')
    <2>1. PICK n \in 0 .. MaxRequests, m \in Nat : n = host.id + 1 /\ m = host.writes + 1
      BY <1>4 DEF HostSet, Ids
    <2>2. host' = [host EXCEPT !.id = n, !.op = op, !.writes = m]
      BY <1>1, <2>1, Zenon
    <2>3. /\ host' \in HostSet /\ host'.consumed = host.consumed /\ host'.stale = host.stale
          /\ host'.id = n /\ host'.op = op
      BY <1>4, <1>5, <2>2, Zenon DEF HostSet
    <2> QED
      BY <1>5, <1>6, <2>1, <2>3, Zenon DEF HostSent
  <1>8. HistorySent(f, history, history')
    <2>1. PICK n \in Ids : n = host.id + 1
      BY <1>4
    <2>2. history' = [history EXCEPT ![n].sent = 1]
      BY <1>2, <2>1, Zenon
    <2>3. history[n].sent = 0
      BY <1>4, <2>1 DEF LinkInvariant, LinkInv, Counted
    <2>4. \A id \in Ids : Asks(f, id) <=> id = n
      BY <1>6, <2>1 DEF Asks
    <2>5. /\ history' \in HistorySet
          /\ \A id \in Ids :
                 /\ history'[id].executed = history[id].executed
                 /\ history'[id].answered = history[id].answered
                 /\ history'[id].result = history[id].result
                 /\ history'[id].sent = IF id = n THEN 1 ELSE history[id].sent
      BY <1>4, <2>2 DEF HistorySet
    <2>6. \A id \in Ids : history[id].sent \in Nat
      BY <1>4 DEF HistorySet
    <2> QED
      BY <2>3, <2>4, <2>5, <2>6 DEF HistorySent
  <1>9. LinkInv(stack, bridge, ledger, Append(input, f), host', history')
    BY <1>6, <1>7, <1>8, FrameSent, Zenon DEF LinkInvariant
  <1> QED
    BY <1>1, <1>2, <1>3, <1>9 DEF LinkInvariant

LEMMA InvHostRepeats ==
    ASSUME LinkInvariant, HostRepeats
    PROVE  LinkInvariant'
  <1>1. PICK op \in {host.op, <<"BAD_TARGET">>} : input' = Append(input, Request(host.id, op))
    BY DEF HostRepeats, Sends
  <1>2. /\ history' = [history EXCEPT ![host.id].sent = @ + 1] /\ usb' = usb /\ stack' = stack
        /\ bridge' = bridge /\ ledger' = ledger /\ host.id > 0
        /\ host' = [host EXCEPT !.writes = @ + 1]
    BY DEF HostRepeats
  <1>3. PICK f : f = Request(host.id, op)
    BY Zenon
  <1>4. host \in HostSet /\ history \in HistorySet /\ host.id \in Ids
    BY <1>2, LinkAssumption DEF LinkInvariant, LinkInv, Types, HostSet, Ids
  <1>5. op \in Operations
    BY <1>2 DEF LinkInvariant, LinkInv, Told, Operations
  <1>6. /\ f \in FrameSet /\ f.type = "REQUEST" /\ f.id = host.id /\ f.op = op
    BY <1>3, <1>4, <1>5, Zenon DEF Request, FrameSet
  <1>7. HostSent(f, host, host')
    <2>1. PICK m \in Nat : m = host.writes + 1
      BY <1>4 DEF HostSet
    <2>2. host' = [host EXCEPT !.writes = m]
      BY <1>2, <2>1, Zenon
    <2>3. /\ host' \in HostSet /\ host'.consumed = host.consumed /\ host'.stale = host.stale
          /\ host'.id = host.id /\ host'.op = host.op
      BY <1>4, <2>2 DEF HostSet
    <2> QED
      BY <1>2, <1>6, <2>3 DEF HostSent
  <1>8. HistorySent(f, history, history')
    <2>1. PICK n \in Ids : n = host.id
      BY <1>4, Zenon
    <2>2. PICK m \in Nat : m = history[n].sent + 1
      BY <1>4 DEF HistorySet
    <2>3. history' = [history EXCEPT ![n].sent = m]
      BY <1>2, <2>1, <2>2, Zenon
    <2>4. \A id \in Ids : Asks(f, id) <=> id = n
      BY <1>6, <2>1 DEF Asks
    <2>5. /\ history' \in HistorySet
          /\ \A id \in Ids :
                 /\ history'[id].executed = history[id].executed
                 /\ history'[id].answered = history[id].answered
                 /\ history'[id].result = history[id].result
                 /\ history'[id].sent = IF id = n THEN m ELSE history[id].sent
      BY <1>4, <2>3 DEF HistorySet
    <2>6. \A id \in Ids : history[id].sent \in Nat
      BY <1>4 DEF HistorySet
    <2> QED
      BY <2>2, <2>4, <2>5, <2>6 DEF HistorySent
  <1>9. LinkInv(stack, bridge, ledger, Append(input, f), host', history')
    BY <1>6, <1>7, <1>8, FrameSent, Zenon DEF LinkInvariant
  <1> QED
    BY <1>1, <1>2, <1>3, <1>9 DEF LinkInvariant

LEMMA InvHostSendsOther ==
    ASSUME LinkInvariant, HostSendsOther
    PROVE  LinkInvariant'
  <1>1. PICK type \in Others : input' = Append(input, [type |-> type])
    BY DEF HostSendsOther, Sends
  <1>2. /\ history' = history /\ usb' = usb /\ stack' = stack
        /\ bridge' = bridge /\ ledger' = ledger
        /\ host' = [host EXCEPT !.writes = @ + 1, !.others = @ + 1]
    BY DEF HostSendsOther
  <1>3. PICK f : f = [type |-> type]
    BY Zenon
  <1>4. host \in HostSet /\ history \in HistorySet
    BY DEF LinkInvariant, LinkInv, Types
  <1>5. f \in FrameSet /\ f.type # "REQUEST"
    BY <1>3, Zenon DEF FrameSet, Others
  <1>6. HostSent(f, host, host')
    <2>1. PICK m \in Nat, n \in Nat : m = host.writes + 1 /\ n = host.others + 1
      BY <1>4 DEF HostSet
    <2>2. host' = [host EXCEPT !.writes = m, !.others = n]
      BY <1>2, <2>1, Zenon
    <2>3. /\ host' \in HostSet /\ host'.consumed = host.consumed /\ host'.stale = host.stale
          /\ host'.id = host.id /\ host'.op = host.op
      BY <1>4, <2>2, Zenon DEF HostSet
    <2> QED
      BY <1>5, <2>3, Zenon DEF HostSent
  <1>7. HistorySent(f, history, history')
    <2>1. \A id \in Ids : history[id].sent \in Nat /\ ~Asks(f, id)
      BY <1>4, <1>5 DEF HistorySet, Asks
    <2> QED
      BY <1>2, <1>4, <2>1 DEF HistorySent
  <1>8. LinkInv(stack, bridge, ledger, Append(input, f), host', history')
    BY <1>5, <1>6, <1>7, FrameSent DEF LinkInvariant
  <1> QED
    BY <1>1, <1>2, <1>3, <1>8 DEF LinkInvariant

LEMMA InvEventArrives ==
    ASSUME LinkInvariant, EventArrives
    PROVE  LinkInvariant'
  <1>1. PICK e \in Events : /\ e \notin ledger.active \cup ledger.consumed
                            /\ ledger' = [ledger EXCEPT !.active = @ \cup {e}]
    BY DEF EventArrives
  <1>2. ledger \in LedgerSet /\ ledger.active \cap ledger.consumed = {}
    BY Zenon DEF LinkInvariant, LinkInv, Types, Told
  <1>3. PICK a \in SUBSET Events : a = ledger.active \cup {e}
    BY <1>2, Zenon DEF LedgerSet
  <1>4. ledger' = [ledger EXCEPT !.active = a]
    BY <1>1, <1>3, Zenon
  <1>5. /\ ledger' \in LedgerSet /\ ledger'.active = a
        /\ ledger'.consumed = ledger.consumed
    BY <1>2, <1>4 DEF LedgerSet
  <1>6. ledger.consumed \subseteq ledger'.consumed
        /\ ledger'.active \cap ledger'.consumed = {}
    BY <1>1, <1>2, <1>3, <1>5
  <1>7. LinkInv(stack, bridge, ledger', input, host, history)
    BY <1>5, <1>6, LedgerKeeps, Zenon DEF LinkInvariant
  <1> QED
    BY <1>7 DEF LinkInvariant, EventArrives

LEMMA LinkInvInit ==
    ASSUME LinkInit
    PROVE  LinkInvariant
  <1> USE LinkAssumption
  <1>1. /\ usb = FALSE /\ input = << >> /\ bridge = FALSE
        /\ stack.connected = FALSE /\ stack.tx = None /\ stack.life = Empty
        /\ stack.pending = FALSE
        /\ ledger.active = {} /\ ledger.consumed = {}
        /\ host.id = 0 /\ host.op = << >> /\ host.consumed = {} /\ host.stale = FALSE
    BY Zenon DEF LinkInit
  <1>2. Empty.state = "EMPTY" /\ Empty.id = 0 /\ None.type = "NONE"
    BY Zenon DEF Empty, None
  <1>3. Types(stack, bridge, ledger, input, host, history)
    <2>1. Empty \in LifeSet
      BY DEF Empty, LifeSet
    <2>2. None \in AnswerSet
      BY DEF None, AnswerSet
    <2>3. stack \in StackSet
      BY <2>1, <2>2, Zenon DEF LinkInit, StackSet
    <2>4. ledger \in LedgerSet
      BY Zenon DEF LinkInit, LedgerSet
    <2>5. host \in HostSet
      <3>1. host = [id |-> 0, op |-> << >>, event |-> 0, consumed |-> {}, writes |-> 0,
                    others |-> 0, stale |-> FALSE]
        BY Zenon DEF LinkInit
      <3> QED
        BY <3>1, LinkAssumption DEF HostSet
    <2>6. history \in HistorySet
      BY Zenon DEF LinkInit, HistorySet
    <2>7. input \in Seq(FrameSet)
      BY <1>1
    <2> QED
      BY <1>1, <2>3, <2>4, <2>5, <2>6, <2>7, Zenon DEF Types
  <1>4. Agree(stack, bridge)
    BY <1>1, <1>2, Zenon DEF Agree
  <1>5. InOrder(stack, input, host)
    BY <1>1, <1>2 DEF InOrder
  <1>6. \A id \in Ids : /\ history[id].sent = 0 /\ history[id].executed = 0
                        /\ history[id].answered = 0 /\ history[id].result = {}
    BY Zenon DEF LinkInit
  <1>7. Once(stack, history)
    BY <1>1, <1>2, <1>6 DEF Once, Genuine
  <1>8. Counted(stack, input, host, history)
    <2>1. \A id \in Ids : Sending(stack, id) = 0 /\ Owed(stack, id) = 0
      BY <1>1, <1>2, Zenon DEF Sending, Owed
    <2>2. \A id \in Ids : Asked(input, id) = {}
      BY <1>1 DEF Asked
    <2>3. Cardinality({}) = 0
      BY FS_EmptySet
    <2> QED
      BY <1>6, <2>1, <2>2, <2>3 DEF Counted
  <1>9. Told(stack, ledger, input, host)
    BY <1>1, <1>2 DEF Told, Current
  <1> QED
    BY <1>1, <1>3, <1>4, <1>5, <1>7, <1>8, <1>9, Zenon DEF LinkInvariant, LinkInv

LEMMA LinkInvNext ==
    ASSUME LinkInvariant, [LinkNext]_linkVars
    PROVE  LinkInvariant'
  <1>1. CASE HostOpens
    BY <1>1 DEF HostOpens, LinkInvariant
  <1>2. CASE HostCloses
    BY <1>2, Zenon DEF HostCloses, LinkInvariant
  <1>3. CASE UNCHANGED linkVars
    BY <1>3, Zenon DEF linkVars, LinkInvariant
  <1> QED
    BY <1>1, <1>2, <1>3, InvServiceHost, InvRemoteEnds, InvHostAsks, InvHostRepeats,
       InvHostSendsOther, InvEventArrives DEF LinkNext

LEMMA LinkInvariantHolds == LinkSpec => []LinkInvariant
  BY LinkInvInit, LinkInvNext, PTL DEF LinkSpec

(* A request of the host runs at most once, for any number of requests and  *)
(* of repetitions, whatever happens to the port: submit answers from the    *)
(* retained entry, and a request older than that one cannot come any more.  *)
(* The entry and the bridge agree, and a delivery that waits is the one of  *)
(* the entry, on this connection.                                           *)
THEOREM RepeatedRequestsRunOnce == LinkSpec => []RequestRunsOnce
  <1>1. LinkInvariant => RequestRunsOnce
    <2> SUFFICES ASSUME LinkInvariant PROVE RequestRunsOnce
      OBVIOUS
    <2>1. stack \in StackSet /\ Agree(stack, bridge) /\ Once(stack, history)
      BY DEF LinkInvariant, LinkInv, Types
    <2>2. LinkTypeOK
      BY <2>1, Zenon DEF LinkTypeOK, Agree, StackSet, LifeSet
    <2>3. PendingIsRetained
      BY <2>1, Zenon DEF PendingIsRetained, Agree, LinkInvariant
    <2>4. \A id \in Ids : history[id].executed <= 1
      BY <2>1, Zenon DEF Once
    <2> QED
      BY <2>2, <2>3, <2>4 DEF RequestRunsOnce
  <1> QED
    BY <1>1, LinkInvariantHolds, PTL

(* What goes out for a request, unless it is a rejection, is the result of  *)
(* running it; no request is answered more often than it was sent; and an   *)
(* event that the host was told is consumed is not polled again             *)
(* (servicePendingDelivery, submit, poll and consume).                      *)
THEOREM EveryAnswerIsTheResult == LinkSpec => []AnswersAreResults
  <1>1. LinkInvariant => AnswersAreResults
    <2> SUFFICES ASSUME LinkInvariant PROVE AnswersAreResults
      OBVIOUS
    <2>1. /\ Types(stack, bridge, ledger, input, host, history) /\ ~host.stale
          /\ Genuine(stack.tx, history) /\ Counted(stack, input, host, history)
      BY Zenon DEF LinkInvariant, LinkInv, Once, Told
    <2>2. \A id \in Ids : history[id].answered <= history[id].sent
      <3> SUFFICES ASSUME NEW id \in Ids PROVE history[id].answered <= history[id].sent
        OBVIOUS
      <3>1. /\ history[id].answered \in Nat /\ history[id].sent \in Nat
            /\ Sending(stack, id) \in 0 .. 1 /\ Owed(stack, id) \in 0 .. 1
            /\ Cardinality(Asked(input, id)) \in Nat
        BY <2>1, CountTypes, Zenon
      <3> QED
        BY <2>1, <3>1 DEF Counted
    <2> QED
      BY <2>1, <2>2, Zenon DEF AnswersAreResults, Genuine
  <1> QED
    BY <1>1, LinkInvariantHolds, PTL
=============================================================================
