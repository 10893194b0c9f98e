---------------------------- MODULE TransportProofs ----------------------------
(***************************************************************************)
(* Proofs about the two radio loops, HubTransport and NodeTransport, for    *)
(* every set of packets that may arrive and any number of failing RadioLib  *)
(* calls.  The two specifications share the variables of DeviceRadio; each  *)
(* theorem is about one of them.                                            *)
(***************************************************************************)
EXTENDS HubTransport, NodeTransport, TLAPS

(* The types of what RadioLib and the interrupt leave *)
RadioTypes ==
    /\ radio \in Modes /\ irq \in BOOLEAN /\ faulty \in BOOLEAN
    /\ buffer \in Inbound \cup {Nothing} /\ faults \in 0 .. MaxFaults

LEMMA EndsTypes ==
    ASSUME RadioTypes, NEW n \in Nat, NEW mode \in Modes, NEW last \in BOOLEAN,
           Ends(n, mode, last), irq' \in BOOLEAN
    PROVE  RadioTypes'
  BY RadioAssumption DEF RadioTypes, Ends

-----------------------------------------------------------------------------
(* The Node *)

NodeFlags ==
    /\ phase \in NodePhases /\ owner \in NodeOwners
    /\ preAck \in {"OFF", "RUNNING", "DUE"} /\ event \in {"IDLE", "READY", "TX", "WAIT", "OVER"}
    /\ executeNext \in BOOLEAN /\ cachedNext \in BOOLEAN /\ saving \in BOOLEAN
    /\ armed \in BOOLEAN /\ asking \in BOOLEAN

(* What the command path retains is an operation, complete or not *)
RetainedShape ==
    /\ retained = [command |-> retained.command, complete |-> retained.complete,
                   response |-> retained.response]
    /\ retained.complete \in BOOLEAN

(* The inductive invariant of the Node *)
NodeInv ==
    RadioTypes /\ NodeFlags /\ RadioFollowsOwner /\ ResponseIsThere /\ RetainedShape

LEMMA NodeTypes == RadioTypes /\ NodeFlags <=> NodeTypeOK
  BY DEF RadioTypes, NodeFlags, NodeTypeOK

LEMMA Listens ==
    ASSUME RadioTypes, NEW n \in Nat, NEW own \in NodeOwners, StartListening(n, own)
    PROVE  /\ RadioTypes' /\ phase' \in NodePhases /\ owner' \in NodeOwners
           /\ phase' = "LISTENING" /\ irq' = FALSE
           /\ faulty' \/ (radio' = "RX" /\ owner' = "LISTENING")
  <1>1. /\ phase' = "LISTENING" /\ irq' = FALSE
        /\ \/ Ends(n, "RX", FALSE) /\ owner' = "LISTENING"
           \/ Ends(n + 1, "STANDBY", TRUE) /\ owner' = own
    BY Zenon DEF StartListening
  <1>2. "LISTENING" \in NodePhases /\ "LISTENING" \in NodeOwners
    BY DEF NodePhases, NodeOwners
  <1>3. "RX" \in Modes /\ "STANDBY" \in Modes /\ n + 1 \in Nat
    BY DEF Modes
  <1>4. CASE Ends(n, "RX", FALSE) /\ owner' = "LISTENING"
    <2>1. RadioTypes'
      BY <1>1, <1>3, <1>4, EndsTypes, Zenon
    <2>2. radio' = "RX"
      BY <1>4 DEF Ends
    <2> QED
      BY <1>1, <1>2, <1>4, <2>1, <2>2, Zenon
  <1>5. CASE Ends(n + 1, "STANDBY", TRUE) /\ owner' = own
    <2>1. RadioTypes'
      BY <1>1, <1>3, <1>5, EndsTypes, Zenon
    <2>2. faulty'
      BY <1>5 DEF Ends
    <2> QED
      BY <1>1, <1>2, <1>5, <2>1, <2>2, Zenon
  <1> QED
    BY <1>1, <1>4, <1>5, Zenon


(* What a service that ends by listening leaves, whatever else it did *)
NodeRest ==
    /\ preAck \in {"OFF", "RUNNING", "DUE"} /\ event \in {"IDLE", "READY", "TX", "WAIT", "OVER"}
    /\ executeNext \in BOOLEAN /\ cachedNext \in BOOLEAN /\ saving \in BOOLEAN
    /\ armed \in BOOLEAN /\ asking \in BOOLEAN

LEMMA InvListens ==
    ASSUME NodeInv, NEW n \in Nat, NEW own \in NodeOwners, StartListening(n, own),
           NodeRest', ResponseIsThere', RetainedShape'
    PROVE  NodeInv'
  <1>1. RadioTypes
    BY DEF NodeInv
  <1>2. /\ RadioTypes' /\ phase' \in NodePhases /\ owner' \in NodeOwners
        /\ faulty' \/ (radio' = "RX" /\ owner' = "LISTENING")
    BY <1>1, Listens, Zenon
  <1>3. NodeFlags'
    BY <1>2 DEF NodeFlags, NodeRest
  <1>4. RadioFollowsOwner'
    BY <1>2 DEF RadioFollowsOwner
  <1> QED
    BY <1>2, <1>3, <1>4 DEF NodeInv

LEMMA RestFacts ==
    ASSUME NodeInv
    PROVE  NodeRest /\ owner \in NodeOwners /\ phase \in NodePhases /\ 0 \in Nat /\ 1 \in Nat
           /\ "EVENT_TX" \in NodeOwners /\ "COMMAND_ACK_TX" \in NodeOwners
           /\ "COMMAND_RESPONSE_TX" \in NodeOwners
  BY DEF NodeInv, NodeFlags, NodeRest, NodeOwners

(* A step that leaves the command path and the radio's owner alone, and     *)
(* the radio too unless the interrupt is pending afterwards                 *)
LEMMA InvAside ==
    ASSUME NodeInv, UNCHANGED <<phase, owner, retained, executeNext, cachedNext>>,
           RadioTypes', NodeRest',
           \/ irq'
           \/ /\ UNCHANGED <<radio, irq, faulty>> /\ pc # "HANDLE"
              /\ preAck' = preAck \/ preAck' = "DUE"
           \/ pc' = "HANDLE"
    PROVE  NodeInv'
  <1>1. NodeFlags'
    BY DEF NodeInv, NodeFlags, NodeRest
  <1>2. RadioFollowsOwner'
    BY DEF NodeInv, RadioFollowsOwner
  <1>3. ResponseIsThere' /\ RetainedShape'
    BY DEF NodeInv, ResponseIsThere, RetainedShape
  <1> QED
    BY <1>1, <1>2, <1>3 DEF NodeInv

LEMMA NodeKeeps ==
    ASSUME NodeInv, UNCHANGED <<retained, executeNext, cachedNext>>
    PROVE  ResponseIsThere' /\ RetainedShape'
  BY DEF NodeInv, ResponseIsThere, RetainedShape

LEMMA InvPasses ==
    ASSUME NodeInv,
           PreAckPasses \/ DispatchPasses \/ HostChecks \/ MaintenanceChecks \/ EventsCheck
    PROVE  NodeInv'
  <1>1. /\ UNCHANGED <<phase, owner, retained, executeNext, cachedNext, preAck>>
        /\ UNCHANGED <<radio, irq, buffer, faults, faulty>>
        /\ UNCHANGED <<saving, armed, event, asking>> /\ pc # "HANDLE"
    BY DEF PreAckPasses, DispatchPasses, HostChecks, MaintenanceChecks, EventsCheck,
           radioVars, commandVars, saveVars
  <1>2. RadioTypes' /\ NodeRest'
    BY <1>1 DEF NodeInv, RadioTypes, NodeFlags, NodeRest
  <1> QED
    BY <1>1, <1>2, InvAside

LEMMA InvReceiveBegins == NodeInv /\ ReceiveBegins => NodeInv'
  <1> SUFFICES ASSUME NodeInv, ReceiveBegins PROVE NodeInv'
    OBVIOUS
  <1>1. /\ UNCHANGED <<phase, owner, retained, executeNext, cachedNext, preAck>>
        /\ UNCHANGED <<radio, buffer, faults, faulty>> /\ irq' = FALSE
        /\ UNCHANGED <<saving, armed, event, asking>> /\ pc' = "HANDLE"
    BY DEF ReceiveBegins, commandVars, saveVars
  <1>2. RadioTypes' /\ NodeRest'
    BY <1>1, ZenonT(30) DEF NodeInv, RadioTypes, NodeFlags, NodeRest
  <1> QED
    BY <1>1, <1>2, InvAside

(* A packet that has won the race keeps its interrupt *)
LEMMA InvYields ==
    ASSUME NodeInv, irq, YieldToPacket, NodeRest',
           UNCHANGED <<retained, executeNext, cachedNext>>
    PROVE  NodeInv' /\ irq'
  <1>1. UNCHANGED <<irq, buffer, phase, owner>>
    BY DEF YieldToPacket
  <1>2. irq'
    BY <1>1, Zenon
  <1>3. radio' \in Modes /\ faulty' \in BOOLEAN /\ faults' \in 0 .. MaxFaults
    <2>1. radio \in Modes /\ "STANDBY" \in Modes /\ faults \in 0 .. MaxFaults
      BY DEF NodeInv, RadioTypes, Modes
    <2>2. CASE radio' = "STANDBY" /\ faulty' = FALSE /\ UNCHANGED faults
      BY <2>1, <2>2, Zenon
    <2>3. CASE /\ faults < MaxFaults /\ faults' = faults + 1 /\ faulty' = TRUE
               /\ UNCHANGED radio
      BY <2>1, <2>3, RadioAssumption
    <2> QED
      BY <2>2, <2>3, Zenon DEF YieldToPacket
  <1>4. RadioTypes'
    BY <1>1, <1>3 DEF NodeInv, RadioTypes
  <1> QED
    BY <1>1, <1>2, <1>4, InvAside

LEMMA InvWorld ==
    ASSUME NodeInv, \/ NodePacketArrives \/ NodeTransmissionEnds \/ PreAckElapses
                    \/ EventMoves \/ SaveRequested \/ NodeHostSends
    PROVE  NodeInv'
  <1>1. UNCHANGED <<pc, phase, owner, retained, executeNext, cachedNext, faults, faulty>>
    BY DEF NodePacketArrives, NodeTransmissionEnds, PreAckElapses, EventMoves,
           SaveRequested, NodeHostSends, nodeOthers
  <1>2. \/ irq' = TRUE /\ radio' \in Modes /\ buffer' \in Inbound \cup {Nothing}
           /\ preAck' = preAck
        \/ UNCHANGED <<radio, irq, buffer>> /\ (preAck' = preAck \/ preAck' = "DUE")
    <2>1. ASSUME NodePacketArrives \/ NodeTransmissionEnds
          PROVE  irq' = TRUE /\ radio' \in Modes /\ buffer' \in Inbound \cup {Nothing}
                 /\ preAck' = preAck
      BY <2>1 DEF NodePacketArrives, NodeTransmissionEnds, NodeInv, RadioTypes, Modes
    <2>2. ASSUME PreAckElapses \/ EventMoves \/ SaveRequested \/ NodeHostSends
          PROVE  UNCHANGED <<radio, irq, buffer>> /\ (preAck' = preAck \/ preAck' = "DUE")
      BY <2>2 DEF PreAckElapses, EventMoves, SaveRequested, NodeHostSends
    <2> QED
      BY <2>1, <2>2, Zenon
  <1>3. RadioTypes'
    BY <1>1, <1>2, Zenon DEF NodeInv, RadioTypes
  <1>4. NodeRest'
    <2>1. /\ saving' \in BOOLEAN /\ armed' \in BOOLEAN /\ asking' \in BOOLEAN
          /\ event' \in {"IDLE", "READY", "TX", "WAIT", "OVER"}
      BY Zenon DEF NodeInv, NodeFlags, NodePacketArrives, NodeTransmissionEnds, PreAckElapses,
             EventMoves, SaveRequested, NodeHostSends, saveVars
    <2>2. preAck' \in {"OFF", "RUNNING", "DUE"}
      BY <1>2 DEF NodeInv, NodeFlags
    <2> QED
      BY <1>1, <2>1, <2>2 DEF NodeInv, NodeFlags, NodeRest
  <1> QED
    BY <1>1, <1>2, <1>3, <1>4, InvAside

-----------------------------------------------------------------------------
(* The services of the Node that use the radio *)

LEMMA InvPreAckTransmits == NodeInv /\ PreAckTransmits => NodeInv'
  <1> SUFFICES ASSUME NodeInv, PreAckTransmits PROVE NodeInv'
    OBVIOUS
  <1>1. /\ preAck' = "OFF" /\ pc' = "DISPATCH" /\ UNCHANGED <<retained, saving, armed, event, asking>>
    BY DEF PreAckTransmits, saveVars
  <1>2. CASE /\ Ends(0, "TX", FALSE) /\ irq' = FALSE /\ owner' = "COMMAND_ACK_TX"
             /\ UNCHANGED <<phase, executeNext, cachedNext>>
    <2>1. RadioTypes'
      BY <1>2, EndsTypes, Zenon DEF NodeInv, Modes
    <2>2. radio' = "TX"
      BY <1>2 DEF Ends
    <2>3. NodeFlags'
      BY <1>1, <1>2 DEF NodeInv, NodeFlags, NodeOwners
    <2>4. RadioFollowsOwner'
      BY <1>2, <2>2 DEF RadioFollowsOwner
    <2>5. ResponseIsThere' /\ RetainedShape'
      BY <1>1, <1>2, NodeKeeps
    <2> QED
      BY <2>1, <2>3, <2>4, <2>5 DEF NodeInv
  <1>3. CASE executeNext' = FALSE /\ cachedNext' = FALSE /\ StartListening(1, "COMMAND_ACK_TX")
    <2>1. NodeRest'
      BY <1>1, <1>3, RestFacts, Zenon DEF NodeRest
    <2>2. ResponseIsThere' /\ RetainedShape'
      BY <1>1, <1>3 DEF NodeInv, ResponseIsThere, RetainedShape
    <2> QED
      BY <1>3, <2>1, <2>2, RestFacts, InvListens
  <1> QED
    BY <1>2, <1>3, Zenon DEF PreAckTransmits

LEMMA InvEventTransmitted == NodeInv /\ EventTransmitted => NodeInv'
  <1> SUFFICES ASSUME NodeInv, EventTransmitted PROVE NodeInv'
    OBVIOUS
  <1>1. /\ StartListening(0, owner) /\ event' = (IF event = "TX" THEN "WAIT" ELSE event)
        /\ UNCHANGED <<retained, executeNext, cachedNext, preAck, saving, armed, asking>>
    BY DEF EventTransmitted, commandVars, saveVars
  <1>2. NodeRest'
    BY <1>1, RestFacts DEF NodeRest
  <1> QED
    BY <1>1, <1>2, RestFacts, NodeKeeps, InvListens

LEMMA InvFinishResponse == NodeInv /\ FinishResponse => NodeInv'
  <1> SUFFICES ASSUME NodeInv, FinishResponse PROVE NodeInv'
    OBVIOUS
  <1>1. /\ StartListening(0, owner)
        /\ UNCHANGED <<retained, executeNext, cachedNext, preAck, saving, armed, event, asking>>
    BY DEF FinishResponse, commandVars, saveVars
  <1>2. NodeRest'
    BY <1>1, RestFacts DEF NodeRest
  <1> QED
    BY <1>1, <1>2, RestFacts, NodeKeeps, InvListens

LEMMA InvHostServed == NodeInv /\ HostServed => NodeInv'
  <1> SUFFICES ASSUME NodeInv, HostServed PROVE NodeInv'
    OBVIOUS
  <1>1. /\ StartListening(0, owner) \/ StartListening(1, owner)
        /\ UNCHANGED <<retained, executeNext, cachedNext, preAck, saving, armed, event>>
        /\ asking' = asking \/ asking' \in BOOLEAN
    BY DEF HostServed, StandbyThenListen, commandVars, saveVars
  <1>2. NodeRest'
    BY <1>1, RestFacts DEF NodeRest
  <1> QED
    BY <1>1, <1>2, RestFacts, NodeKeeps, InvListens

LEMMA InvMaintenanceServed ==
    NodeInv /\ MaintenanceServed => NodeInv' /\ (irq => irq')
  <1> SUFFICES ASSUME NodeInv, MaintenanceServed PROVE NodeInv' /\ (irq => irq')
    OBVIOUS
  <1>1. UNCHANGED <<retained, executeNext, cachedNext, preAck, event, asking>>
    BY DEF MaintenanceServed, commandVars
  <1>2. CASE irq /\ YieldToPacket /\ UNCHANGED saveVars
    <2>1. NodeRest'
      BY <1>1, <1>2, RestFacts DEF NodeRest, saveVars
    <2> QED
      BY <1>1, <1>2, <2>1, InvYields
  <1>3. CASE /\ ~irq /\ (StartListening(0, owner) \/ StartListening(1, owner))
             /\ armed' = FALSE /\ (saving' = saving \/ saving' = FALSE)
    <2>1. NodeRest'
      BY <1>1, <1>3, RestFacts, Zenon DEF NodeRest
    <2> QED
      BY <1>1, <1>3, <2>1, RestFacts, NodeKeeps, InvListens
  <1> QED
    BY <1>2, <1>3, Zenon DEF MaintenanceServed

LEMMA InvEventReleases == NodeInv /\ EventReleases => NodeInv'
  <1> SUFFICES ASSUME NodeInv, EventReleases PROVE NodeInv'
    OBVIOUS
  <1>1. /\ StartListening(0, owner)
        /\ UNCHANGED <<retained, executeNext, cachedNext, preAck, saving, armed, event, asking>>
    BY DEF EventReleases, commandVars, saveVars
  <1>2. NodeRest'
    BY <1>1, RestFacts DEF NodeRest
  <1> QED
    BY <1>1, <1>2, RestFacts, NodeKeeps, InvListens

LEMMA InvEventYields == NodeInv /\ EventYields => NodeInv' /\ irq'
  <1> SUFFICES ASSUME NodeInv, EventYields PROVE NodeInv' /\ irq'
    OBVIOUS
  <1>1. /\ irq /\ YieldToPacket
        /\ UNCHANGED <<retained, executeNext, cachedNext, preAck, saving, armed, event, asking>>
    BY DEF EventYields, commandVars, saveVars
  <1>2. NodeRest'
    BY <1>1, RestFacts DEF NodeRest
  <1> QED
    BY <1>1, <1>2, InvYields

LEMMA InvEventReclaimed == NodeInv /\ EventReclaimed => NodeInv'
  <1> SUFFICES ASSUME NodeInv, EventReclaimed PROVE NodeInv'
    OBVIOUS
  <1>1. /\ StartListening(0, owner) \/ StartListening(1, owner)
        /\ UNCHANGED <<retained, executeNext, cachedNext, preAck, saving, armed, asking>>
        /\ event' \in {"IDLE", "OVER"}
    BY DEF EventReclaimed, commandVars, saveVars
  <1>2. NodeRest'
    BY <1>1, RestFacts DEF NodeRest
  <1> QED
    BY <1>1, <1>2, RestFacts, NodeKeeps, InvListens

LEMMA InvEventTransmits == NodeInv /\ EventTransmits => NodeInv'
  <1> SUFFICES ASSUME NodeInv, EventTransmits PROVE NodeInv'
    OBVIOUS
  <1>1. UNCHANGED <<retained, executeNext, cachedNext, preAck, saving, armed, asking>>
    BY DEF EventTransmits, commandVars, saveVars
  <1>2. ResponseIsThere' /\ RetainedShape'
    BY <1>1, NodeKeeps
  <1>3. CASE /\ Ends(0, "TX", FALSE) /\ irq' = FALSE /\ owner' = "EVENT_TX" /\ event' = "TX"
             /\ UNCHANGED phase
    <2>1. RadioTypes'
      BY <1>3, EndsTypes, Zenon DEF NodeInv, Modes
    <2>2. radio' = "TX"
      BY <1>3 DEF Ends
    <2>3. NodeFlags'
      BY <1>1, <1>3 DEF NodeInv, NodeFlags, NodeOwners
    <2>4. RadioFollowsOwner'
      BY <1>3, <2>2 DEF RadioFollowsOwner
    <2> QED
      BY <1>2, <2>1, <2>3, <2>4 DEF NodeInv
  <1>4. CASE /\ \/ StartListening(1, owner) \/ StartListening(0, "EVENT_TX")
                \/ StartListening(1, "EVENT_TX")
             /\ event' \in {event, "OVER", "IDLE"}
    <2>1. NodeRest'
      BY <1>1, <1>4, RestFacts DEF NodeRest
    <2> QED
      BY <1>2, <1>4, <2>1, RestFacts, InvListens
  <1> QED
    BY <1>3, <1>4, Zenon DEF EventTransmits

(* finishAcknowledgment: the operation that was admitted is executed, and   *)
(* nothing is left to follow                                                *)
LEMMA InvFinishAcknowledgment ==
    NodeInv /\ FinishAcknowledgment => NodeInv' /\ retained'.command = retained.command
  <1> SUFFICES ASSUME NodeInv, FinishAcknowledgment
               PROVE  NodeInv' /\ retained'.command = retained.command
    OBVIOUS
  <1>1. UNCHANGED <<preAck, event, asking>> /\ pc' = "HOST"
    BY DEF FinishAcknowledgment
  <1>2. CASE executeNext \/ cachedNext
    <2>1. /\ retained' = (IF executeNext THEN Executed(retained, "OK") ELSE retained)
          /\ executeNext' = FALSE /\ cachedNext' = FALSE /\ StartResponse
          /\ UNCHANGED <<saving, armed>>
      BY <1>2 DEF FinishAcknowledgment, saveVars
    <2>2. RetainedShape
      BY DEF NodeInv
    <2>3. RetainedShape' /\ retained'.command = retained.command
      BY <2>1, <2>2, Zenon DEF RetainedShape, Executed
    <2>4. ResponseIsThere'
      BY <2>1 DEF ResponseIsThere
    <2>5. CASE /\ Ends(0, "TX", FALSE) /\ irq' = FALSE
               /\ phase' = "TRANSMITTING_RESPONSE" /\ owner' = "COMMAND_RESPONSE_TX"
      <3>1. RadioTypes'
        BY <2>5, EndsTypes, Zenon DEF NodeInv, Modes
      <3>2. radio' = "TX"
        BY <2>5 DEF Ends
      <3>3. NodeFlags'
        BY <1>1, <2>1, <2>5, Zenon DEF NodeInv, NodeFlags, NodeOwners, NodePhases
      <3>4. RadioFollowsOwner'
        BY <2>5, <3>2 DEF RadioFollowsOwner
      <3> QED
        BY <2>3, <2>4, <3>1, <3>3, <3>4 DEF NodeInv
    <2>6. CASE StartListening(1, "COMMAND_RESPONSE_TX")
      <3>1. NodeRest'
        BY <1>1, <2>1, RestFacts, Zenon DEF NodeRest
      <3> QED
        BY <2>3, <2>4, <2>6, <3>1, RestFacts, InvListens
    <2> QED
      BY <2>1, <2>5, <2>6, Zenon DEF StartResponse
  <1>3. CASE ~(executeNext \/ cachedNext)
    <2>1. /\ StartListening(0, owner) \/ StartListening(1, owner)
          /\ armed' = FALSE /\ (saving' = FALSE \/ saving' = saving)
          /\ UNCHANGED <<retained, executeNext, cachedNext>>
      BY <1>3 DEF FinishAcknowledgment
    <2>2. NodeRest'
      BY <1>1, <2>1, RestFacts, Zenon DEF NodeRest
    <2> QED
      BY <2>1, <2>2, RestFacts, NodeKeeps, InvListens
  <1> QED
    BY <1>2, <1>3

(* startAcknowledgment: a delayed acknowledgment, or receive again *)
LEMMA InvStartAcknowledgment ==
    ASSUME NodeInv, StartAcknowledgment, ResponseIsThere', RetainedShape',
           executeNext' \in BOOLEAN, cachedNext' \in BOOLEAN,
           UNCHANGED <<saving, armed, event, asking>>
    PROVE  NodeInv'
  <1>1. CASE /\ Ends(0, "STANDBY", FALSE) /\ UNCHANGED irq /\ owner' = "COMMAND_PRE_ACK"
             /\ preAck' = "RUNNING" /\ phase' = "TRANSMITTING_ACK"
    <2>1. RadioTypes'
      BY <1>1, EndsTypes, Zenon DEF NodeInv, RadioTypes, Modes
    <2>2. NodeFlags'
      BY <1>1 DEF NodeInv, NodeFlags, NodeOwners, NodePhases
    <2>3. RadioFollowsOwner'
      BY <1>1 DEF RadioFollowsOwner
    <2> QED
      BY <2>1, <2>2, <2>3 DEF NodeInv
  <1>2. CASE StartListening(1, owner) /\ UNCHANGED preAck
    <2>1. NodeRest'
      BY <1>2, RestFacts DEF NodeRest
    <2> QED
      BY <1>2, <2>1, RestFacts, InvListens
  <1> QED
    BY <1>1, <1>2, Zenon DEF StartAcknowledgment

(* admit: what is to follow the acknowledgment is there, and an operation   *)
(* that is still active is not replaced                                     *)
LEMMA AdmitKeeps ==
    ASSUME NodeInv, NEW c, Structured(c),
           Admit(c, Admission(c, Me, Peer, retained))
    PROVE  /\ ResponseIsThere' /\ RetainedShape'
           /\ executeNext' \in BOOLEAN /\ cachedNext' \in BOOLEAN
           /\ Active(retained) => retained'.command = retained.command
  <1> DEFINE outcome == Admission(c, Me, Peer, retained)
  <1>1. /\ outcome = "ADMITTED" => ~Active(retained)
        /\ outcome = "DUPLICATE_COMPLETE" => retained.complete
    BY DEF Admission
  <1>2. c # Nothing
    BY DEF Structured, Nothing
  <1>3. /\ retained' = (IF outcome = "ADMITTED" THEN Reserved(c) ELSE retained)
        /\ executeNext' = (outcome = "ADMITTED" \/ (executeNext /\ outcome # "DUPLICATE_COMPLETE"))
        /\ cachedNext' = (outcome = "DUPLICATE_COMPLETE" \/ (cachedNext /\ outcome # "ADMITTED"))
    BY DEF Admit
  <1> HIDE DEF outcome
  <1>4. executeNext' \in BOOLEAN /\ cachedNext' \in BOOLEAN
    BY <1>3
  <1>5. ResponseIsThere /\ RetainedShape
    BY DEF NodeInv
  <1>6. CASE outcome = "ADMITTED"
    <2>1. retained' = Reserved(c) /\ ~cachedNext'
      BY <1>3, <1>6
    <2>2. RetainedShape' /\ Active(retained)'
      BY <1>2, <2>1 DEF RetainedShape, Reserved, Active
    <2> QED
      BY <1>1, <1>4, <1>6, <2>1, <2>2 DEF ResponseIsThere
  <1>7. CASE outcome # "ADMITTED"
    <2>1. /\ retained' = retained /\ (executeNext' => executeNext)
          /\ cachedNext' => outcome = "DUPLICATE_COMPLETE" \/ cachedNext
      BY <1>3, <1>7
    <2> QED
      BY <1>1, <1>4, <1>5, <2>1 DEF ResponseIsThere, RetainedShape
  <1> QED
    BY <1>6, <1>7

LEMMA InvHandleReceivedPacket ==
    NodeInv /\ HandleReceivedPacket =>
        NodeInv' /\ (Active(retained) => retained'.command = retained.command)
  <1> SUFFICES ASSUME NodeInv, HandleReceivedPacket
               PROVE  NodeInv' /\ (Active(retained) => retained'.command = retained.command)
    OBVIOUS
  <1> DEFINE unreadable == buffer.type \in {"BAD", "NOTHING"}
             outcome == IF unreadable THEN "IGNORE" ELSE OutcomeFor(buffer)
  <1>1. UNCHANGED <<saving, armed, event, asking>>
    BY DEF HandleReceivedPacket, saveVars
  <1>2. CASE outcome \in Unanswered
    <2>1. /\ StartListening(0, owner) \/ StartListening(1, owner)
          /\ UNCHANGED <<retained, executeNext, cachedNext, preAck>>
      BY <1>2 DEF HandleReceivedPacket, StandbyThenListen, commandVars
    <2>2. NodeRest'
      BY <1>1, <2>1, RestFacts DEF NodeRest
    <2> QED
      BY <2>1, <2>2, RestFacts, NodeKeeps, InvListens
  <1>3. CASE outcome \notin Unanswered
    <2>1. /\ StartAcknowledgment
          /\ IF Structured(buffer) THEN Admit(buffer, outcome)
             ELSE UNCHANGED <<retained, executeNext, cachedNext>>
      BY <1>3 DEF HandleReceivedPacket
    <2>2. ~unreadable
      BY <1>3 DEF Unanswered
    <2>3. CASE Structured(buffer)
      <3>1. outcome = Admission(buffer, Me, Peer, retained)
        BY <2>2, <2>3 DEF OutcomeFor
      <3>2. Admit(buffer, Admission(buffer, Me, Peer, retained))
        BY <2>1, <2>3, <3>1
      <3> QED
        BY <1>1, <2>1, <2>3, <3>2, AdmitKeeps, InvStartAcknowledgment
    <2>4. CASE ~Structured(buffer)
      <3>1. UNCHANGED <<retained, executeNext, cachedNext>>
        BY <2>1, <2>4
      <3>2. executeNext' \in BOOLEAN /\ cachedNext' \in BOOLEAN
        BY <3>1 DEF NodeInv, NodeFlags
      <3> QED
        BY <1>1, <2>1, <3>1, <3>2, NodeKeeps, InvStartAcknowledgment
    <2> QED
      BY <2>3, <2>4
  <1> QED
    BY <1>2, <1>3

(* No service of the Node's loop replaces an operation that is still        *)
(* active, and the two that start with standby keep a pending interrupt     *)
LEMMA NodeStep ==
    ASSUME NodeInv, NodeNext
    PROVE  /\ NodeInv'
           /\ irq /\ (pc = "MAINTENANCE_STANDBY" \/ pc = "EVENT_STANDBY") => irq'
           /\ Active(retained) => retained'.command = retained.command
  <1> DEFINE Standing == pc = "MAINTENANCE_STANDBY" \/ pc = "EVENT_STANDBY"
             Goal == /\ NodeInv' /\ (irq /\ Standing => irq')
                     /\ (Active(retained) => retained'.command = retained.command)
  <1> SUFFICES Goal
    OBVIOUS
  <1>1. ASSUME PreAckPasses \/ DispatchPasses \/ HostChecks \/ MaintenanceChecks \/ EventsCheck
        PROVE  Goal
    <2>1. ~Standing /\ retained' = retained
      BY <1>1 DEF PreAckPasses, DispatchPasses, HostChecks, MaintenanceChecks, EventsCheck,
                  commandVars
    <2> QED
      BY <1>1, <2>1, InvPasses
  <1>2. CASE ReceiveBegins
    BY <1>2, InvReceiveBegins DEF ReceiveBegins, commandVars
  <1>3. ASSUME \/ NodePacketArrives \/ NodeTransmissionEnds \/ PreAckElapses
               \/ EventMoves \/ SaveRequested \/ NodeHostSends
        PROVE  Goal
    <2>1. (irq' = TRUE \/ irq' = irq) /\ retained' = retained
      BY <1>3 DEF NodePacketArrives, NodeTransmissionEnds, PreAckElapses, EventMoves,
                  SaveRequested, NodeHostSends, nodeOthers
    <2>2. NodeInv'
      BY <1>3, InvWorld
    <2>3. irq => irq'
      BY <2>1, Zenon
    <2> QED
      BY <2>1, <2>2, <2>3
  <1>4. CASE PreAckTransmits
    BY <1>4, InvPreAckTransmits, Zenon DEF PreAckTransmits
  <1>5. CASE EventTransmitted
    BY <1>5, InvEventTransmitted DEF EventTransmitted, commandVars
  <1>6. CASE FinishAcknowledgment
    BY <1>6, InvFinishAcknowledgment DEF FinishAcknowledgment
  <1>7. CASE FinishResponse
    BY <1>7, InvFinishResponse DEF FinishResponse, commandVars
  <1>8. CASE HandleReceivedPacket
    BY <1>8, InvHandleReceivedPacket DEF HandleReceivedPacket
  <1>9. CASE HostServed
    BY <1>9, InvHostServed DEF HostServed, commandVars
  <1>10. CASE MaintenanceServed
    BY <1>10, InvMaintenanceServed DEF MaintenanceServed, commandVars
  <1>11. CASE EventReleases
    BY <1>11, InvEventReleases DEF EventReleases, commandVars
  <1>12. CASE EventYields
    BY <1>12, InvEventYields DEF EventYields, commandVars
  <1>13. CASE EventReclaimed
    BY <1>13, InvEventReclaimed DEF EventReclaimed, commandVars
  <1>14. CASE EventTransmits
    BY <1>14, InvEventTransmits, Zenon DEF EventTransmits, commandVars
  <1> HIDE DEF Goal
  <1> QED
    BY <1>1, <1>2, <1>3, <1>4, <1>5, <1>6, <1>7, <1>8, <1>9, <1>10, <1>11, <1>12, <1>13, <1>14
       DEF NodeNext, NodeLoop

LEMMA NodeInvInit == NodeInit => NodeInv
  <1> SUFFICES ASSUME NodeInit PROVE NodeInv
    OBVIOUS
  <1>1. RadioTypes
    <2>1. /\ radio = "RX" /\ irq = FALSE /\ buffer = Nothing /\ faults = 0 /\ faulty = FALSE
      BY DEF NodeInit
    <2>2. 0 \in 0 .. MaxFaults
      BY RadioAssumption
    <2> QED
      BY <2>1, <2>2, Zenon DEF RadioTypes, Modes
  <1>2. NodeFlags
    BY Zenon DEF NodeInit, NodeFlags, NodePhases, NodeOwners
  <1>3. RadioFollowsOwner
    BY DEF NodeInit, RadioFollowsOwner
  <1>4. ResponseIsThere /\ RetainedShape
    BY DEF NodeInit, ResponseIsThere, RetainedShape, NoOperation
  <1> QED
    BY <1>1, <1>2, <1>3, <1>4 DEF NodeInv

LEMMA NodeInvStutters == NodeInv /\ UNCHANGED nodeVars => NodeInv'
  BY DEF nodeVars, radioVars, commandVars, saveVars, NodeInv, RadioTypes, NodeFlags,
         RadioFollowsOwner, ResponseIsThere, RetainedShape

LEMMA NodeInvariant == NodeSpec => []NodeInv
  <1>1. NodeInv /\ [NodeNext]_nodeVars => NodeInv'
    BY NodeStep, NodeInvStutters
  <1> QED
    BY <1>1, NodeInvInit, PTL DEF NodeSpec

(* After every service of the Node's loop, in any order of commands, host   *)
(* requests, maintenance, events and failing RadioLib calls, the radio does *)
(* what its owner says and what is to follow an acknowledgment is there     *)
(* (startListening, startAcknowledgment, serviceNodeEvents).                *)
THEOREM NodeOwnersAgree == NodeSpec => []OwnersAgree
  <1>1. NodeInv => OwnersAgree
    BY NodeTypes DEF NodeInv, OwnersAgree
  <1> QED
    BY <1>1, NodeInvariant, PTL

(* A command never takes the place of an operation that is still active,    *)
(* and maintenance and events yield to a packet that arrives while they     *)
(* take the radio (admit, serviceQuietMaintenance, serviceNodeEvents).      *)
THEOREM NodeDisplacesNothing == NodeSpec => NothingIsDisplaced
  <1> DEFINE Keeps ==
          /\ irq /\ (pc = "MAINTENANCE_STANDBY" \/ pc = "EVENT_STANDBY") => irq'
          /\ Active(retained) => retained'.command = retained.command
  <1>1. NodeInv /\ [NodeNext]_nodeVars => [Keeps]_nodeVars
    BY NodeStep
  <1> QED
    BY <1>1, NodeInvariant, PTL DEF NodeSpec, NothingIsDisplaced

-----------------------------------------------------------------------------
(* The Hub: what a handler leaves of the radio *)

LEMMA WorksFacts ==
    ASSUME RadioTypes, NEW mode \in Modes, Works(mode)
    PROVE  /\ RadioTypes' /\ radio' = mode /\ irq' = FALSE /\ buffer' = Nothing
           /\ faulty' = FALSE /\ faults' = faults
  <1>1. Ends(0, mode, FALSE) /\ irq' = FALSE
    BY Zenon DEF Works
  <1>2. RadioTypes'
    BY <1>1, EndsTypes, Zenon
  <1>3. faults \in Nat /\ faults + 0 = faults
    BY RadioAssumption DEF RadioTypes
  <1> QED
    BY <1>1, <1>2, <1>3 DEF Ends

LEMMA FailFacts ==
    ASSUME RadioTypes, NEW n \in Nat \ {0}, NEW mode \in Modes, NEW last \in BOOLEAN,
           Fail(n, mode, last)
    PROVE  /\ RadioTypes' /\ radio' = mode /\ irq' = FALSE /\ buffer' = Nothing
           /\ faulty' = last /\ faults' > 0
  <1>1. Ends(n, mode, last) /\ irq' = FALSE
    BY DEF Fail
  <1>2. RadioTypes'
    BY <1>1, EndsTypes, Zenon
  <1>3. faults + n > 0
    BY RadioAssumption DEF RadioTypes
  <1> QED
    BY <1>1, <1>2, <1>3 DEF Ends

LEMMA FailsFacts ==
    ASSUME RadioTypes, NEW mode \in Modes, Fails(mode)
    PROVE  /\ RadioTypes' /\ radio' = mode /\ irq' = FALSE /\ buffer' = Nothing
           /\ faulty' = TRUE /\ faults' > 0
  <1>1. Fail(1, mode, TRUE)
    BY Zenon DEF Fails
  <1>2. 1 \in Nat \ {0}
    OBVIOUS
  <1> QED
    BY <1>1, <1>2, FailFacts, Zenon

LEMMA FailsOnceOrTwiceFacts ==
    ASSUME RadioTypes, FailsOnceOrTwice
    PROVE  /\ RadioTypes' /\ irq' = FALSE /\ buffer' = Nothing /\ faults' > 0
           /\ radio' = "RX" \/ (radio' = "STANDBY" /\ faulty' = TRUE)
  <1>1. "RX" \in Modes /\ "STANDBY" \in Modes /\ 1 \in Nat \ {0} /\ 2 \in Nat \ {0}
    BY DEF Modes
  <1>2. CASE Fail(1, "RX", FALSE)
    BY <1>1, <1>2, FailFacts, Zenon
  <1>3. CASE Fail(2, "STANDBY", TRUE)
    BY <1>1, <1>3, FailFacts, Zenon
  <1> QED
    BY <1>2, <1>3, Zenon DEF FailsOnceOrTwice

LEMMA InterruptedFacts ==
    ASSUME RadioTypes, NEW mode \in Modes, Interrupted(mode)
    PROVE  /\ RadioTypes' /\ radio = "RX" /\ radio' = mode /\ irq' = TRUE
           /\ faulty' = FALSE /\ faults' = faults
  BY Zenon DEF RadioTypes, Interrupted

-----------------------------------------------------------------------------
(* The invariant of the Hub *)

HubFlags ==
    /\ phase \in HubPhases /\ prior \in HubPhases /\ owner \in HubOwners /\ saved \in HubOwners
    /\ turn \in {"HOST", "TRANSPORT"} /\ structured \in BOOLEAN /\ eventAck \in BOOLEAN
    /\ due \in BOOLEAN /\ asking \in BOOLEAN

Transactions == [seq : Sequences8, retries : 0 .. MaxRetries,
                 awaiting : BOOLEAN, expired : BOOLEAN]

Bridges == [active : BOOLEAN, next : Sequences8,
            command : {Nothing} \cup {Packet("COMMAND", Hub, Node, s, "PING", "NONE", 0) :
                                          s \in Sequences8},
            acked : BOOLEAN, retries : 0 .. MaxRetries, expired : BOOLEAN,
            support : {"UNKNOWN", "SUPPORTED", "UNSUPPORTED"}, done : {Nothing}]

(* The wait of a TEST attempt has the Hub's phase for itself *)
AwaitsAlone == txn.awaiting => phase = "WAITING_FOR_ACK" /\ ~structured

(* The admission of an event owns the radio, and has interrupted no command *)
(* on the air                                                               *)
AdmissionOwns == eventAck => owner = "EVENT_ACK_TX" /\ prior = phase /\ phase # "TRANSMITTING"

(* The host's operation owns the radio unless its transmission could not be *)
(* started                                                                  *)
CommandOwns ==
    structured /\ owner = "IDLE_RECEIVE" /\ phase # "IDLE" =>
        faulty /\ radio = "STANDBY" /\ ~irq /\ phase = "TRANSMITTING"

(* What the admission gives the radio back to *)
SavedOwns == structured /\ eventAck /\ saved = "IDLE_RECEIVE" => phase = "IDLE"

(* A transmission is not over before its interrupt *)
StillOnAir == radio = "TX" => ~irq

(* Only a failed call leaves the host's operation without a phase, or lets  *)
(* a packet in while a command is to be transmitted                         *)
CleanUnlessFaults ==
    faults = 0 =>
        /\ structured => phase # "IDLE"
        /\ phase = "TRANSMITTING" => radio # "RX" /\ buffer = Nothing

RadioAgrees == RadioFollowsPhase /\ StillOnAir /\ CommandOwns /\ CleanUnlessFaults
OwnersHold == AdmissionOwns /\ SavedOwns
HubTypes == RadioTypes /\ HubFlags /\ txn \in Transactions /\ bridge \in Bridges

(* The inductive invariant of the Hub *)
HubInv == HubTypes /\ RadioAgrees /\ OwnersHold /\ BridgeServed /\ AwaitsAlone

LEMMA HubTypesOK == HubTypes => HubTypeOK
  <1> SUFFICES ASSUME HubTypes PROVE HubTypeOK
    OBVIOUS
  <1>1. /\ txn.seq \in Sequences8 /\ txn.retries \in 0 .. MaxRetries
        /\ bridge.next \in Sequences8 /\ bridge.retries \in 0 .. MaxRetries
    BY DEF HubTypes, Transactions, Bridges
  <1> QED
    BY <1>1 DEF HubTypes, RadioTypes, HubFlags, HubTypeOK

-----------------------------------------------------------------------------
(* The engines *)

LEMMA SequenceAfter ==
    ASSUME NEW n \in Sequences8
    PROVE  NextSequence(n) \in Sequences8
  <1>1. SequenceRange \in Nat /\ SequenceRange > 0 /\ n + 1 \in Nat
    BY WireAssumption DEF Sequences8
  <1>2. (n + 1) % SequenceRange \in 0 .. SequenceRange - 1
    BY <1>1
  <1> QED
    BY <1>2 DEF NextSequence, Sequences8

LEMMA CompleteFacts ==
    ASSUME NEW t \in Transactions
    PROVE  Complete(t) \in Transactions /\ Complete(t).awaiting = FALSE
  <1>1. NextSequence(t.seq) \in Sequences8 /\ 0 \in 0 .. MaxRetries
    BY SequenceAfter, WireAssumption DEF Transactions
  <1> QED
    BY <1>1, Zenon DEF Complete, Transactions

LEMMA AttemptFailedFacts ==
    ASSUME NEW t \in Transactions
    PROVE  AttemptFailed(t) \in Transactions /\ AttemptFailed(t).awaiting = FALSE
  <1>1. CASE t.retries < MaxRetries
    <2>1. AttemptFailed(t) = [seq |-> t.seq, retries |-> t.retries + 1, awaiting |-> FALSE,
                              expired |-> FALSE]
      BY <1>1, Zenon DEF AttemptFailed, Transactions
    <2>2. t.retries + 1 \in 0 .. MaxRetries /\ t.seq \in Sequences8
      BY <1>1, WireAssumption DEF Transactions
    <2> QED
      BY <2>1, <2>2 DEF Transactions
  <1>2. CASE ~(t.retries < MaxRetries)
    BY <1>2, CompleteFacts, Zenon DEF AttemptFailed
  <1> QED
    BY <1>1, <1>2, Zenon

LEMMA BeginWaitFacts ==
    ASSUME NEW t \in Transactions
    PROVE  BeginWait(t) \in Transactions
  BY Zenon DEF BeginWait, Transactions

LEMMA SubmittedBridge ==
    ASSUME bridge \in Bridges
    PROVE  /\ Submitted(bridge, HostCommand) \in Bridges
           /\ Submitted(bridge, HostCommand).active = TRUE
  <1>1. /\ HostCommand \in {Packet("COMMAND", Hub, Node, s, "PING", "NONE", 0) : s \in Sequences8}
        /\ 0 \in 0 .. MaxRetries
    BY WireAssumption DEF HostCommand, Bridges
  <1> HIDE DEF HostCommand
  <1> QED
    BY <1>1, Zenon DEF Submitted, Bridges

(* The bridge of an operation that is over *)
LEMMA OverBridge ==
    ASSUME NEW n \in Sequences8, NEW s \in {"UNKNOWN", "SUPPORTED", "UNSUPPORTED"},
           NEW b, b.active = FALSE, b.next = n, b.support = s
    PROVE  Settled(b) \in Bridges /\ Settled(b).active = FALSE
  <1>1. Settled(b) = [active |-> FALSE, next |-> n, command |-> Nothing, acked |-> FALSE,
                      retries |-> 0, expired |-> FALSE, support |-> s, done |-> Nothing]
    BY Zenon DEF Settled, IdleBridge
  <1>2. 0 \in 0 .. MaxRetries
    BY WireAssumption
  <1> QED
    BY <1>1, <1>2 DEF Bridges

LEMMA FinishedBridge ==
    ASSUME NEW b \in Bridges, NEW outcome
    PROVE  LET f == Finished(b, outcome)
           IN  /\ f.active = FALSE /\ f.next \in Sequences8
               /\ f.support \in {"UNKNOWN", "SUPPORTED", "UNSUPPORTED"}
  <1>1. NextSequence(b.next) \in Sequences8
    BY SequenceAfter DEF Bridges
  <1> QED
    BY <1>1, Zenon DEF Finished, Bridges

LEMMA ServicedBridge ==
    ASSUME NEW b \in Bridges, b.active = TRUE
    PROVE  LET d == Settled(Serviced(b))
           IN  d \in Bridges /\ (d.active => d.expired = b.expired)
  <1> DEFINE d == Settled(Serviced(b))
  <1>1. CASE b.retries < MaxRetries
    <2>1. b.retries + 1 \in 0 .. MaxRetries
      BY <1>1, WireAssumption DEF Bridges
    <2>2. Serviced(b) = [b EXCEPT !.retries = b.retries + 1]
      BY <1>1 DEF Serviced
    <2>3. Serviced(b) \in Bridges /\ Serviced(b).active = TRUE /\ Serviced(b).expired = b.expired
      BY <2>1, <2>2 DEF Bridges
    <2>4. d = Serviced(b)
      BY <2>3 DEF Settled
    <2> QED
      BY <2>3, <2>4
  <1>2. CASE ~(b.retries < MaxRetries)
    <2> DEFINE f == Finished(b, Outcome("TIMEOUT", b.command.origin))
    <2>1. Serviced(b) = f
      BY <1>2 DEF Serviced
    <2>2. /\ f.active = FALSE /\ f.next \in Sequences8
          /\ f.support \in {"UNKNOWN", "SUPPORTED", "UNSUPPORTED"}
      BY FinishedBridge, Zenon
    <2> HIDE DEF f
    <2>3. d \in Bridges /\ d.active = FALSE
      BY <2>1, <2>2, OverBridge, Zenon
    <2> QED
      BY <2>3
  <1> QED
    BY <1>1, <1>2

LEMMA SupportedBridge ==
    ASSUME NEW b \in Bridges, NEW outcome, NEW s \in {"UNKNOWN", "SUPPORTED", "UNSUPPORTED"}
    PROVE  LET f == [Finished(b, outcome) EXCEPT !.support = s]
           IN  /\ f.active = FALSE /\ f.next \in Sequences8
               /\ f.support \in {"UNKNOWN", "SUPPORTED", "UNSUPPORTED"}
  <1>1. NextSequence(b.next) \in Sequences8
    BY SequenceAfter DEF Bridges
  <1> QED
    BY <1>1, Zenon DEF Finished, Bridges

LEMMA ReceivedBridge ==
    ASSUME NEW b \in Bridges, b.active = TRUE, NEW p
    PROVE  LET d == Settled(Received(b, p))
           IN  /\ d \in Bridges /\ (d.active => d.expired = b.expired)
               /\ Answers(b, p) /\ p.type = "RESPONSE" /\ p.body \notin {"BAD", "UNDEFINED"}
                      => d.active = FALSE
  <1> DEFINE r == Received(b, p)
             d == Settled(r)
             Over == /\ r.active = FALSE /\ r.next \in Sequences8
                     /\ r.support \in {"UNKNOWN", "SUPPORTED", "UNSUPPORTED"}
  <1>1. ASSUME Over PROVE d \in Bridges /\ d.active = FALSE
    <2> HIDE DEF r
    <2> QED
      BY <1>1, OverBridge, Zenon
  <1>2. ASSUME r \in Bridges, r.active = TRUE, r.expired = b.expired
        PROVE  d \in Bridges /\ d.active = TRUE /\ d.expired = b.expired
    <2> HIDE DEF r
    <2> QED
      BY <1>2 DEF Settled
  <1>3. CASE ~Answers(b, p) \/ p.body \in {"BAD", "UNDEFINED"}
    <2>1. r = b
      BY <1>3 DEF Received
    <2> QED
      BY <1>2, <1>3, <2>1, Zenon
  <1>4. CASE /\ ~(~Answers(b, p) \/ p.body \in {"BAD", "UNDEFINED"})
             /\ p.type = "ACK" /\ p.body = "SUCCESS"
    <2>1. r = [b EXCEPT !.acked = TRUE]
      BY <1>4 DEF Received
    <2>2. r \in Bridges /\ r.active = TRUE /\ r.expired = b.expired
      BY <2>1, Zenon DEF Bridges
    <2>3. p.type # "RESPONSE"
      BY <1>4
    <2> QED
      BY <1>2, <2>2, <2>3, Zenon
  <1>5. CASE /\ ~(~Answers(b, p) \/ p.body \in {"BAD", "UNDEFINED"})
             /\ p.type = "ACK" /\ p.body # "SUCCESS"
    <2> DEFINE f == Finished(b, Outcome("REMOTE_REJECTED", p.origin))
               s == IF p.op = "PING" /\ p.body = "UNSUPPORTED_OPCODE"
                    THEN "UNSUPPORTED" ELSE f.support
    <2>1. r = [f EXCEPT !.support = s]
      BY <1>5 DEF Received
    <2>2. s \in {"UNKNOWN", "SUPPORTED", "UNSUPPORTED"}
      BY FinishedBridge, Zenon
    <2>3. Over
      <3> HIDE DEF s, r
      <3> QED
        BY <2>1, <2>2, SupportedBridge, Zenon
    <2> QED
      BY <1>1, <2>3, Zenon
  <1>6. CASE /\ ~(~Answers(b, p) \/ p.body \in {"BAD", "UNDEFINED"}) /\ p.type = "RESPONSE"
    <2> DEFINE s == "SUPPORTED"
    <2>1. r = [Finished(b, Outcome("OPERATION_RESULT", p.origin)) EXCEPT !.support = s]
      BY <1>6 DEF Received
    <2>2. s \in {"UNKNOWN", "SUPPORTED", "UNSUPPORTED"}
      OBVIOUS
    <2>3. Over
      <3> HIDE DEF s, r
      <3> QED
        BY <2>1, <2>2, SupportedBridge, Zenon
    <2> QED
      BY <1>1, <2>3, Zenon
  <1>7. CASE /\ ~(~Answers(b, p) \/ p.body \in {"BAD", "UNDEFINED"})
             /\ p.type # "ACK" /\ p.type # "RESPONSE"
    <2>1. r = b
      BY <1>7 DEF Received
    <2> QED
      BY <1>2, <1>7, <2>1, Zenon
  <1> QED
    BY <1>3, <1>4, <1>5, <1>6, <1>7, Zenon

-----------------------------------------------------------------------------
(* The radio at rest: nothing is on the air or to be transmitted, and the   *)
(* Hub receives unless a call failed or an interrupt waits                  *)

Rested ==
    /\ eventAck = FALSE /\ phase # "TRANSMITTING"
    /\ \/ irq = FALSE /\ (radio = "RX" \/ faulty = TRUE)
       \/ irq = TRUE /\ radio # "TX"

LEMMA RestoreHubReceiveRests ==
    ASSUME RadioTypes, NEW p \in HubPhases, NEW q \in HubPhases, RestoreHubReceive(p, q),
           p # "TRANSMITTING", q # "TRANSMITTING", eventAck' = FALSE
    PROVE  RadioTypes' /\ Rested' /\ phase' \in {p, q} /\ (faults > 0 => faults' > 0)
  <1>1. "RX" \in Modes /\ "STANDBY" \in Modes
    BY DEF Modes
  <1>2. CASE Works("RX") /\ phase' = p
    BY <1>1, <1>2, WorksFacts, Zenon DEF Rested
  <1>3. CASE Fails("STANDBY") /\ phase' = q
    BY <1>1, <1>3, FailsFacts, Zenon DEF Rested
  <1> QED
    BY <1>2, <1>3 DEF RestoreHubReceive

LEMMA RestoreReleasedRests ==
    ASSUME RadioTypes, NEW m \in Modes, RestoreReleased(m), eventAck' = FALSE
    PROVE  RadioTypes' /\ Rested' /\ phase' = "IDLE"
  <1>1. "RX" \in Modes /\ "STANDBY" \in Modes /\ phase' = "IDLE"
    BY DEF Modes, RestoreReleased
  <1>2. CASE Works("RX")
    BY <1>1, <1>2, WorksFacts, Zenon DEF Rested
  <1>3. CASE Fails(m) \/ Fails("STANDBY")
    BY <1>1, <1>3, FailsFacts, Zenon DEF Rested
  <1>4. CASE Interrupted("RX") \/ Interrupted("STANDBY")
    BY <1>1, <1>4, InterruptedFacts, Zenon DEF Rested
  <1> QED
    BY <1>2, <1>3, <1>4 DEF RestoreReleased

LEMMA FailAttemptRests ==
    ASSUME RadioTypes, NEW p \in HubPhases, FailAttempt(p), p # "TRANSMITTING",
           eventAck' = FALSE
    PROVE  /\ RadioTypes' /\ Rested' /\ phase' = p /\ faults' > 0 /\ due' = FALSE
           /\ txn' = AttemptFailed(txn)
  <1>1. /\ FailsOnceOrTwice /\ phase' = p /\ due' = FALSE /\ txn' = AttemptFailed(txn)
    BY DEF FailAttempt
  <1> QED
    BY <1>1, FailsOnceOrTwiceFacts, Zenon DEF Rested

LEMMA StartAckReceiveRests ==
    ASSUME RadioTypes, txn \in Transactions, due \in BOOLEAN, NEW reset \in BOOLEAN,
           NEW next \in {"WAITING_FOR_ACK", "WAITING_FOR_RESPONSE"},
           StartAckReceive(reset, next), eventAck' = FALSE
    PROVE  /\ RadioTypes' /\ Rested' /\ txn' \in Transactions /\ due' \in BOOLEAN
           /\ \/ /\ phase' = next /\ txn' = IF reset THEN BeginWait(txn) ELSE txn
              \/ /\ phase' \in {"WAITING_FOR_RESPONSE", "IDLE"} /\ faults' > 0
                 /\ txn' = AttemptFailed(txn) /\ txn'.awaiting = FALSE
  <1>1. "RX" \in Modes
    BY DEF Modes
  <1>2. CASE /\ Works("RX") /\ phase' = next
             /\ txn' = (IF reset THEN BeginWait(txn) ELSE txn) /\ UNCHANGED due
    <2>1. RadioTypes' /\ Rested'
      BY <1>1, <1>2, WorksFacts, Zenon DEF Rested
    <2>2. txn' \in Transactions
      BY <1>2, BeginWaitFacts
    <2> QED
      BY <1>2, <2>1, <2>2
  <1>3. CASE FailAttempt(IF next = "WAITING_FOR_RESPONSE" THEN next ELSE "IDLE")
    <2>1. PICK p \in {"WAITING_FOR_RESPONSE", "IDLE"} : FailAttempt(p)
      BY <1>3
    <2>2. p \in HubPhases /\ p # "TRANSMITTING"
      BY <2>1 DEF HubPhases
    <2>3. /\ RadioTypes' /\ Rested' /\ phase' = p /\ faults' > 0 /\ due' = FALSE
          /\ txn' = AttemptFailed(txn)
      BY <2>1, <2>2, FailAttemptRests, Zenon
    <2> QED
      BY <2>1, <2>3, AttemptFailedFacts, Zenon
  <1> QED
    BY <1>2, <1>3, Zenon DEF StartAckReceive

LEMMA InvRested ==
    ASSUME RadioTypes', HubFlags', txn' \in Transactions, bridge' \in Bridges, Rested',
           BridgeServed', AwaitsAlone', CommandOwns',
           faults' = 0 /\ structured' => phase' # "IDLE"
    PROVE  HubInv'
  <1>1. RadioFollowsPhase' /\ StillOnAir' /\ OwnersHold'
    BY DEF Rested, RadioFollowsPhase, StillOnAir, OwnersHold, AdmissionOwns, SavedOwns
  <1>2. CleanUnlessFaults'
    BY DEF CleanUnlessFaults, Rested
  <1>3. HubTypes' /\ RadioAgrees'
    BY <1>1, <1>2 DEF HubTypes, RadioAgrees
  <1> QED
    BY <1>1, <1>3 DEF HubInv

LEMMA HubFacts ==
    ASSUME HubInv
    PROVE  /\ RadioTypes /\ HubFlags /\ txn \in Transactions /\ bridge \in Bridges
           /\ RadioFollowsPhase /\ StillOnAir /\ CommandOwns /\ CleanUnlessFaults
           /\ AdmissionOwns /\ SavedOwns /\ BridgeServed /\ AwaitsAlone
  BY DEF HubInv, HubTypes, RadioAgrees, OwnersHold

(* The idle Hub, or the Hub that has released a TEST, whoever is served *)
LEMMA InvIdle ==
    ASSUME HubInv, RadioTypes', Rested', phase' = "IDLE", txn' \in Transactions,
           txn'.awaiting = FALSE, due' \in BOOLEAN, asking' \in BOOLEAN,
           turn' \in {"HOST", "TRANSPORT"}, owner' \in HubOwners,
           UNCHANGED <<bridge, structured, saved, eventAck, prior>>,
           structured => faults' > 0
    PROVE  HubInv'
  <1>1. HubFlags'
    BY HubFacts DEF HubFlags, HubPhases
  <1>2. BridgeServed' /\ bridge' \in Bridges
    BY HubFacts DEF BridgeServed
  <1>3. AwaitsAlone' /\ CommandOwns'
    BY DEF AwaitsAlone, CommandOwns
  <1>4. faults' = 0 /\ structured' => phase' # "IDLE"
    BY HubFacts DEF HubFlags
  <1> QED
    BY <1>1, <1>2, <1>3, <1>4, InvRested

LEMMA InvFinishStructured ==
    ASSUME HubInv, eventAck = FALSE, structured = TRUE, NEW m \in Modes, FinishStructured(m),
           bridge' \in Bridges, bridge'.active = FALSE, asking' \in BOOLEAN,
           turn' \in {"HOST", "TRANSPORT"}
    PROVE  HubInv'
  <1>1. /\ structured' = FALSE /\ owner' = "IDLE_RECEIVE" /\ due' = FALSE
        /\ RestoreReleased(m) /\ UNCHANGED <<txn, saved, eventAck, prior>>
    BY DEF FinishStructured, ScheduleNext
  <1>2. RadioTypes' /\ Rested' /\ phase' = "IDLE"
    BY <1>1, HubFacts, RestoreReleasedRests, Zenon
  <1>3. HubFlags'
    BY <1>1, <1>2, HubFacts, Zenon DEF HubFlags, HubPhases, HubOwners
  <1>4. BridgeServed' /\ CommandOwns'
    BY <1>1 DEF BridgeServed, CommandOwns
  <1>5. AwaitsAlone' /\ txn' \in Transactions
    BY <1>1, HubFacts DEF AwaitsAlone, Transactions
  <1> QED
    BY <1>1, <1>2, <1>3, <1>4, <1>5, InvRested

LEMMA InvStartStructured ==
    ASSUME HubInv, eventAck = FALSE, txn.awaiting = FALSE, StartStructured,
           bridge' \in Bridges, bridge'.active = TRUE, asking' \in BOOLEAN,
           turn' \in {"HOST", "TRANSPORT"}
    PROVE  HubInv'
  <1>1. /\ phase' = "TRANSMITTING" /\ structured' = TRUE
        /\ UNCHANGED <<txn, saved, eventAck, prior, due>>
    BY DEF StartStructured
  <1>2. "TX" \in Modes /\ "STANDBY" \in Modes
    BY DEF Modes
  <1>3. /\ RadioTypes' /\ buffer' = Nothing /\ irq' = FALSE /\ owner' \in HubOwners
        /\ \/ radio' = "TX" /\ faulty' = FALSE /\ owner' = "COMMAND_TX"
           \/ radio' = "STANDBY" /\ faulty' = TRUE
    <2>1. CASE Works("TX") /\ owner' = "COMMAND_TX"
      BY <1>2, <2>1, HubFacts, WorksFacts, Zenon DEF HubOwners
    <2>2. CASE Fails("STANDBY") /\ UNCHANGED owner
      BY <1>2, <2>2, HubFacts, FailsFacts, Zenon DEF HubFlags
    <2> QED
      BY <2>1, <2>2, Zenon DEF StartStructured
  <1>4. HubTypes'
    BY <1>1, <1>3, HubFacts DEF HubTypes, HubFlags, HubPhases
  <1>5. RadioFollowsPhase' /\ StillOnAir' /\ CommandOwns' /\ CleanUnlessFaults'
    BY <1>1, <1>3 DEF RadioFollowsPhase, StillOnAir, CommandOwns, CleanUnlessFaults
  <1>6. OwnersHold' /\ BridgeServed' /\ AwaitsAlone'
    BY <1>1 DEF OwnersHold, AdmissionOwns, SavedOwns, BridgeServed, AwaitsAlone
  <1> QED
    BY <1>4, <1>5, <1>6 DEF HubInv, RadioAgrees

-----------------------------------------------------------------------------
(* Events *)

(* An admission that starts, or receive again: an event shares the radio    *)
(* with whoever was waiting, or with no one                                 *)
LEMMA InvProcessEvent ==
    ASSUME HubInv, eventAck = FALSE, phase # "TRANSMITTING",
           irq = TRUE \/ structured = FALSE, NEW packet, ProcessEvent(packet, phase),
           asking' \in BOOLEAN, turn' \in {"HOST", "TRANSPORT"}
    PROVE  HubInv'
  <1>1. UNCHANGED <<txn, bridge, structured, due>>
    BY DEF ProcessEvent
  <1>2. /\ "RX" \in Modes /\ "TX" \in Modes /\ phase \in HubPhases /\ OwnerOf(phase) \in HubOwners
        /\ phase # "IDLE" => OwnerOf(phase) # "IDLE_RECEIVE"
        /\ phase = "IDLE" => OwnerOf(phase) = "IDLE_RECEIVE"
    BY HubFacts DEF Modes, HubFlags, HubPhases, OwnerOf, HubOwners
  <1>3. /\ bridge' \in Bridges /\ txn' \in Transactions /\ BridgeServed'
    BY <1>1, HubFacts DEF BridgeServed
  <1>4. structured = TRUE /\ phase # "IDLE" => owner # "IDLE_RECEIVE"
    BY HubFacts DEF CommandOwns
  <1>5. CASE /\ Works("TX") /\ eventAck' = TRUE /\ prior' = phase
             /\ owner' = "EVENT_ACK_TX" /\ saved' = OwnerOf(phase) /\ UNCHANGED phase
    <2>1. /\ RadioTypes' /\ radio' = "TX" /\ irq' = FALSE /\ faults' = faults
      BY <1>2, <1>5, HubFacts, WorksFacts, Zenon
    <2>2. HubTypes'
      BY <1>1, <1>2, <1>3, <1>5, <2>1, HubFacts DEF HubTypes, HubFlags, HubOwners
    <2>3. RadioFollowsPhase' /\ StillOnAir' /\ CommandOwns'
      BY <1>5, <2>1 DEF RadioFollowsPhase, StillOnAir, CommandOwns
    <2>4. CleanUnlessFaults'
      BY <1>1, <1>5, <2>1, HubFacts DEF CleanUnlessFaults
    <2>5. OwnersHold'
      BY <1>2, <1>5 DEF OwnersHold, AdmissionOwns, SavedOwns
    <2>6. AwaitsAlone'
      BY <1>1, <1>5, HubFacts DEF AwaitsAlone
    <2> QED
      BY <1>3, <2>2, <2>3, <2>4, <2>5, <2>6 DEF HubInv, RadioAgrees
  <1>6. ASSUME RadioTypes', Rested', phase' = phase, owner' \in {owner, OwnerOf(phase)},
               UNCHANGED <<saved, eventAck, prior>>, faults > 0 => faults' > 0
        PROVE  HubInv'
    <2>1. HubFlags'
      BY <1>1, <1>2, <1>6, HubFacts DEF HubFlags
    <2>2. AwaitsAlone'
      BY <1>1, <1>6, HubFacts DEF AwaitsAlone
    <2>3. CommandOwns'
      BY <1>1, <1>2, <1>4, <1>6, HubFacts DEF CommandOwns, HubFlags
    <2>4. faults' = 0 /\ structured' => phase' # "IDLE"
      <3>1. faults' = 0 => faults = 0
        BY <1>6, HubFacts, RadioAssumption DEF RadioTypes
      <3> QED
        BY <1>1, <1>6, <3>1, HubFacts DEF CleanUnlessFaults
    <2> QED
      BY <1>3, <1>6, <2>1, <2>2, <2>3, <2>4, InvRested
  <1>7. CASE /\ owner' = OwnerOf(phase) /\ UNCHANGED <<eventAck, saved, prior>>
             /\ FailsOnceOrTwice /\ phase' = (IF radio' = "RX" THEN phase ELSE phase)
    <2>1. RadioTypes' /\ Rested' /\ faults' > 0
      BY <1>7, HubFacts, FailsOnceOrTwiceFacts, Zenon DEF Rested
    <2> QED
      BY <1>6, <1>7, <2>1
  <1>8. CASE RestoreHubReceive(phase, phase) /\ UNCHANGED arbiterVars
    <2>1. UNCHANGED <<owner, saved, eventAck, prior>>
      BY <1>8 DEF arbiterVars
    <2>2. RadioTypes' /\ Rested' /\ phase' \in {phase, phase} /\ (faults > 0 => faults' > 0)
      BY <1>2, <1>8, <2>1, HubFacts, RestoreHubReceiveRests, Zenon
    <2> QED
      BY <1>6, <2>1, <2>2
  <1> QED
    BY <1>5, <1>7, <1>8, Zenon DEF ProcessEvent, StartEventAck

-----------------------------------------------------------------------------
(* One lemma per way a pass of the Hub's loop ends *)

(* Receive is started for an answer *)
LEMMA InvReceives ==
    ASSUME HubInv, eventAck = FALSE, NEW reset \in BOOLEAN,
           NEW next \in {"WAITING_FOR_ACK", "WAITING_FOR_RESPONSE"},
           StartAckReceive(reset, next), reset = TRUE => structured = FALSE,
           structured = FALSE => next = "WAITING_FOR_ACK",
           structured = TRUE => owner' # "IDLE_RECEIVE", owner' \in HubOwners,
           bridge' \in Bridges, bridge'.active = structured,
           UNCHANGED <<structured, saved, eventAck, prior>>,
           asking' \in BOOLEAN, turn' \in {"HOST", "TRANSPORT"}
    PROVE  HubInv'
  <1>1. structured \in BOOLEAN /\ due \in BOOLEAN /\ saved \in HubOwners /\ prior \in HubPhases
    BY HubFacts DEF HubFlags
  <1>2. /\ RadioTypes' /\ Rested' /\ txn' \in Transactions /\ due' \in BOOLEAN
        /\ \/ /\ phase' = next /\ txn' = IF reset THEN BeginWait(txn) ELSE txn
           \/ /\ phase' \in {"WAITING_FOR_RESPONSE", "IDLE"} /\ faults' > 0
              /\ txn' = AttemptFailed(txn) /\ txn'.awaiting = FALSE
    BY <1>1, HubFacts, StartAckReceiveRests, Zenon
  <1>3. HubFlags'
    BY <1>1, <1>2, Zenon DEF HubFlags, HubPhases
  <1>4. CommandOwns'
    BY <1>1 DEF CommandOwns
  <1>5. BridgeServed'
    BY DEF BridgeServed
  <1>6. AwaitsAlone'
    BY <1>1, <1>2, HubFacts DEF AwaitsAlone
  <1>7. faults' = 0 /\ structured' => phase' # "IDLE"
    BY <1>2
  <1> QED
    BY <1>2, <1>3, <1>4, <1>5, <1>6, <1>7, InvRested

LEMMA InvContinueWaiting ==
    ASSUME HubInv, eventAck = FALSE, irq = TRUE,
           phase \in {"WAITING_FOR_ACK", "WAITING_FOR_RESPONSE"}, ContinueWaiting,
           UNCHANGED <<bridge, structured, owner, saved, eventAck, prior, asking>>,
           turn' \in {"HOST", "TRANSPORT"}
    PROVE  HubInv'
  <1>1. /\ structured \in BOOLEAN /\ owner \in HubOwners /\ asking \in BOOLEAN
        /\ bridge \in Bridges /\ bridge.active = structured
    BY HubFacts DEF HubFlags, BridgeServed, Bridges
  <1>2. CASE WaitOver(txn)
    <2>1. txn' = AttemptFailed(txn) /\ due' = FALSE /\ RestoreReleased("STANDBY")
      BY <1>2 DEF ContinueWaiting, ScheduleRetryOrNext, ScheduleNext
    <2>2. "STANDBY" \in Modes
      BY DEF Modes
    <2>3. RadioTypes' /\ Rested' /\ phase' = "IDLE"
      BY <2>1, <2>2, HubFacts, RestoreReleasedRests, Zenon
    <2>4. structured = FALSE
      BY <1>1, <1>2, HubFacts DEF WaitOver, AwaitsAlone
    <2>5. txn' \in Transactions /\ txn'.awaiting = FALSE
      BY <2>1, HubFacts, AttemptFailedFacts, Zenon
    <2> QED
      BY <1>1, <2>1, <2>3, <2>4, <2>5, InvIdle, Zenon
  <1>3. CASE ~WaitOver(txn)
    <2>1. StartAckReceive(FALSE, "WAITING_FOR_ACK")
      BY <1>3 DEF ContinueWaiting
    <2>2. structured = TRUE => owner # "IDLE_RECEIVE"
      BY HubFacts DEF CommandOwns
    <2> QED
      BY <1>1, <2>1, <2>2, InvReceives, Zenon
  <1> QED
    BY <1>2, <1>3

(* Nothing that the radio or its owners depend on has changed *)
LEMMA InvSame ==
    ASSUME HubInv, UNCHANGED <<phase, radio, irq, buffer, faults, faulty, structured,
                               owner, saved, eventAck, prior>>,
           txn' \in Transactions, txn'.awaiting = txn.awaiting,
           bridge' \in Bridges, bridge'.active = bridge.active,
           due' \in BOOLEAN, asking' \in BOOLEAN, turn' \in {"HOST", "TRANSPORT"}
    PROVE  HubInv'
  <1>1. HubTypes'
    BY HubFacts DEF HubTypes, RadioTypes, HubFlags
  <1>2. RadioAgrees'
    BY HubFacts DEF RadioAgrees, RadioFollowsPhase, StillOnAir, CommandOwns, CleanUnlessFaults
  <1>3. OwnersHold' /\ BridgeServed' /\ AwaitsAlone'
    BY HubFacts DEF OwnersHold, AdmissionOwns, SavedOwns, BridgeServed, AwaitsAlone
  <1> QED
    BY <1>1, <1>2, <1>3 DEF HubInv

-----------------------------------------------------------------------------
(* serviceProductionHost *)

LEMMA MayAcquireFacts ==
    ASSUME HubInv, HostMayAcquire
    PROVE  /\ eventAck = FALSE /\ irq = FALSE /\ owner = "IDLE_RECEIVE"
           /\ phase = "IDLE" => txn.awaiting = FALSE /\ (structured => faults > 0)
           /\ phase # "IDLE" => /\ structured = TRUE /\ radio = "STANDBY" /\ faulty = TRUE
                                /\ phase = "TRANSMITTING"
  <1>1. owner = "IDLE_RECEIVE" /\ ~irq /\ (phase = "IDLE" \/ structured)
    BY DEF HostMayAcquire
  <1>2. eventAck = FALSE /\ irq = FALSE
    BY <1>1, HubFacts DEF AdmissionOwns, HubFlags, RadioTypes
  <1>3. phase = "IDLE" => txn.awaiting = FALSE
    BY HubFacts DEF AwaitsAlone, Transactions
  <1>4. phase = "IDLE" /\ structured => faults > 0
    <2>1. faults \in Nat
      BY HubFacts, RadioAssumption DEF RadioTypes
    <2> QED
      BY <2>1, HubFacts DEF CleanUnlessFaults
  <1>5. phase # "IDLE" => /\ structured = TRUE /\ radio = "STANDBY" /\ faulty = TRUE
                          /\ phase = "TRANSMITTING"
    BY <1>1, HubFacts DEF CommandOwns, HubFlags, RadioTypes
  <1> QED
    BY <1>1, <1>2, <1>3, <1>4, <1>5

LEMMA InvHostLosesRadio ==
    ASSUME HubInv, HostLosesRadio, turn' = "TRANSPORT"
    PROVE  HubInv'
  <1>1. /\ HostMayAcquire /\ (Fails(radio) \/ Interrupted("STANDBY"))
        /\ UNCHANGED <<phase, txn, bridge, structured, owner, saved, eventAck, prior, due, asking>>
    BY DEF HostLosesRadio, arbiterVars
  <1>2. radio \in Modes /\ "STANDBY" \in Modes
    BY HubFacts DEF RadioTypes, Modes
  <1>3. /\ RadioTypes' /\ (faults > 0 => faults' > 0)
        /\ \/ radio' = radio /\ irq' = FALSE /\ buffer' = Nothing /\ faulty' = TRUE /\ faults' > 0
           \/ radio = "RX" /\ radio' = "STANDBY" /\ irq' = TRUE
    BY <1>1, <1>2, HubFacts, FailsFacts, InterruptedFacts, Zenon
  <1>4. CASE phase = "IDLE"
    <2>1. Rested'
      BY <1>1, <1>3, <1>4, MayAcquireFacts DEF Rested
    <2>2. structured => faults' > 0
      BY <1>1, <1>3, <1>4, MayAcquireFacts
    <2>3. owner' \in HubOwners /\ due' \in BOOLEAN /\ asking' \in BOOLEAN
      BY <1>1, HubFacts DEF HubFlags
    <2>4. txn' \in Transactions /\ txn'.awaiting = FALSE
      BY <1>1, <1>4, HubFacts, MayAcquireFacts, Zenon
    <2> QED
      BY <1>1, <1>3, <1>4, <2>1, <2>2, <2>3, <2>4, InvIdle, Zenon
  <1>5. CASE phase # "IDLE"
    <2>1. /\ radio' = "STANDBY" /\ irq' = FALSE /\ buffer' = Nothing /\ faulty' = TRUE
          /\ faults' > 0 /\ phase = "TRANSMITTING" /\ eventAck = FALSE
      BY <1>1, <1>3, <1>5, MayAcquireFacts
    <2>2. HubTypes'
      BY <1>1, <1>3, HubFacts DEF HubTypes, HubFlags
    <2>3. RadioAgrees'
      BY <1>1, <2>1 DEF RadioAgrees, RadioFollowsPhase, StillOnAir, CommandOwns, CleanUnlessFaults
    <2>4. OwnersHold' /\ BridgeServed' /\ AwaitsAlone'
      BY <1>1, HubFacts DEF OwnersHold, AdmissionOwns, SavedOwns, BridgeServed, AwaitsAlone
    <2> QED
      BY <2>2, <2>3, <2>4 DEF HubInv
  <1> QED
    BY <1>4, <1>5

LEMMA InvHostStartsOperation ==
    ASSUME HubInv, HostStartsOperation, turn' = "TRANSPORT"
    PROVE  HubInv'
  <1>1. /\ HostMayAcquire /\ phase = "IDLE" /\ bridge' = Submitted(bridge, HostCommand)
        /\ StartStructured /\ asking' \in BOOLEAN
    BY DEF HostStartsOperation
  <1>2. eventAck = FALSE /\ txn.awaiting = FALSE
    BY <1>1, MayAcquireFacts, Zenon
  <1>3. bridge' \in Bridges /\ bridge'.active = TRUE
    BY <1>1, HubFacts, SubmittedBridge, Zenon
  <1> QED
    BY <1>1, <1>2, <1>3, InvStartStructured, Zenon

LEMMA InvHostAnswered ==
    ASSUME HubInv, HostAnswered, turn' = "TRANSPORT"
    PROVE  HubInv'
  <1>1. /\ HostMayAcquire /\ asking' \in BOOLEAN
        /\ UNCHANGED <<txn, bridge, structured, owner, saved, eventAck, prior, due>>
    BY DEF HostAnswered, arbiterVars
  <1>2. due \in BOOLEAN /\ owner \in HubOwners /\ txn \in Transactions /\ bridge \in Bridges
    BY HubFacts DEF HubFlags
  <1>3. CASE phase = "IDLE"
    <2>1. RestoreHubReceive("IDLE", "IDLE") /\ "IDLE" \in HubPhases
      BY <1>3 DEF HostAnswered, HubPhases
    <2>2. eventAck' = FALSE
      BY <1>1, MayAcquireFacts
    <2>3. RadioTypes' /\ Rested' /\ phase' = "IDLE" /\ (faults > 0 => faults' > 0)
      BY <2>1, <2>2, HubFacts, RestoreHubReceiveRests, Zenon
    <2>4. txn'.awaiting = FALSE /\ (structured => faults' > 0)
      BY <1>1, <1>3, <2>3, MayAcquireFacts, Zenon
    <2> QED
      BY <1>1, <1>2, <2>3, <2>4, InvIdle, Zenon
  <1>4. CASE phase # "IDLE"
    <2>1. radio' = radio /\ UNCHANGED <<phase, irq, buffer, faults, faulty>>
      BY <1>1, <1>4, MayAcquireFacts DEF HostAnswered
    <2> QED
      BY <1>1, <1>2, <2>1, InvSame
  <1> QED
    BY <1>3, <1>4

LEMMA InvServiceProductionHost ==
    ASSUME HubInv, ServiceProductionHost
    PROVE  HubInv'
  <1>1. turn' = "TRANSPORT"
    BY DEF ServiceProductionHost
  <1>2. CASE HostPasses
    <2>1. UNCHANGED <<phase, radio, irq, buffer, faults, faulty, txn, bridge, structured,
                      owner, saved, eventAck, prior, due, asking>>
      BY <1>2 DEF HostPasses, radioVars, arbiterVars
    <2>2. due \in BOOLEAN /\ asking \in BOOLEAN /\ txn \in Transactions /\ bridge \in Bridges
      BY HubFacts DEF HubFlags
    <2> QED
      BY <1>1, <2>1, <2>2, InvSame
  <1> QED
    BY <1>1, <1>2, InvHostLosesRadio, InvHostStartsOperation, InvHostAnswered
       DEF ServiceProductionHost

-----------------------------------------------------------------------------
(* serviceHubTransport *)

LEMMA InvEventAckDone ==
    ASSUME HubInv, EventAckDone, turn' = "HOST"
    PROVE  HubInv'
  <1>1. /\ eventAck /\ irq /\ eventAck' = FALSE /\ owner' = saved /\ saved' = "IDLE_RECEIVE"
        /\ prior' = "IDLE" /\ RestoreHubReceive(prior, phase)
        /\ UNCHANGED <<txn, bridge, structured, due, asking>>
    BY DEF EventAckDone, FinishEventAck
  <1>2. prior = phase /\ phase # "TRANSMITTING" /\ phase \in HubPhases
    BY <1>1, HubFacts DEF AdmissionOwns, HubFlags
  <1>3. RadioTypes' /\ Rested' /\ phase' = phase /\ (faults > 0 => faults' > 0)
    BY <1>1, <1>2, HubFacts, RestoreHubReceiveRests, Zenon
  <1>4. HubFlags'
    BY <1>1, <1>3, HubFacts, Zenon DEF HubFlags, HubPhases, HubOwners
  <1>5. CommandOwns'
    BY <1>1, <1>3, HubFacts DEF CommandOwns, SavedOwns
  <1>6. BridgeServed' /\ AwaitsAlone' /\ txn' \in Transactions /\ bridge' \in Bridges
    BY <1>1, <1>3, HubFacts DEF BridgeServed, AwaitsAlone
  <1>7. faults' = 0 /\ structured' => phase' # "IDLE"
    <2>1. faults' = 0 => faults = 0
      BY <1>3, HubFacts, RadioAssumption DEF RadioTypes
    <2> QED
      BY <1>1, <1>3, <2>1, HubFacts DEF CleanUnlessFaults
  <1> QED
    BY <1>3, <1>4, <1>5, <1>6, <1>7, InvRested

LEMMA RemoteDeadlineFacts ==
    ASSUME HubInv, RemoteDeadline
    PROVE  /\ eventAck = FALSE /\ irq = FALSE /\ structured = TRUE /\ bridge.active = TRUE
           /\ txn.awaiting = FALSE /\ bridge' \in Bridges /\ asking' \in BOOLEAN
           /\ bridge'.active = TRUE => bridge'.expired = bridge.expired /\ StartStructured
           /\ bridge'.active = FALSE => FinishStructured(radio)
  <1>1. /\ ~eventAck /\ structured /\ ~irq /\ asking' = asking
        /\ bridge' = Settled(Serviced(bridge))
        /\ IF bridge'.active THEN StartStructured ELSE FinishStructured(radio)
    BY DEF RemoteDeadline
  <1>2. /\ eventAck = FALSE /\ irq = FALSE /\ structured = TRUE /\ bridge.active = TRUE
        /\ txn.awaiting = FALSE /\ asking' \in BOOLEAN
    BY <1>1, HubFacts DEF HubFlags, RadioTypes, BridgeServed, AwaitsAlone, Transactions, Bridges
  <1>3. bridge' \in Bridges /\ (bridge'.active => bridge'.expired = bridge.expired)
    BY <1>1, <1>2, HubFacts, ServicedBridge, Zenon
  <1> QED
    BY <1>1, <1>2, <1>3, Zenon

LEMMA InvRemoteDeadline ==
    ASSUME HubInv, RemoteDeadline, turn' = "HOST"
    PROVE  HubInv'
  <1>1. radio \in Modes /\ bridge'.active \in BOOLEAN
    BY HubFacts, RemoteDeadlineFacts DEF RadioTypes, Bridges
  <1>2. CASE bridge'.active = TRUE
    BY <1>2, RemoteDeadlineFacts, InvStartStructured, Zenon
  <1>3. CASE bridge'.active = FALSE
    BY <1>1, <1>3, RemoteDeadlineFacts, InvFinishStructured, Zenon
  <1> QED
    BY <1>1, <1>2, <1>3, Zenon

LEMMA InvIdleInbound ==
    ASSUME HubInv, IdleInbound, turn' = "HOST"
    PROVE  HubInv'
  <1>1. ~eventAck /\ irq /\ ProcessEvent(buffer, phase) /\ phase # "TRANSMITTING" /\ asking' = asking
    BY DEF IdleInbound
  <1>2. eventAck = FALSE /\ irq = TRUE /\ asking' \in BOOLEAN
    BY <1>1, HubFacts DEF HubFlags, RadioTypes
  <1> QED
    BY <1>1, <1>2, InvProcessEvent, Zenon

LEMMA MayTransmitFacts ==
    ASSUME HubInv, MayTransmit
    PROVE  /\ eventAck = FALSE /\ phase = "IDLE" /\ structured = FALSE /\ irq = FALSE
           /\ txn.awaiting = FALSE
  BY HubFacts DEF MayTransmit, HubFlags, RadioTypes, AwaitsAlone, Transactions

LEMMA InvTransmitYields ==
    ASSUME HubInv, TransmitYields, turn' = "HOST"
    PROVE  HubInv'
  <1>1. MayTransmit /\ asking' = asking /\ asking \in BOOLEAN /\ due \in BOOLEAN /\ owner \in HubOwners
    BY HubFacts DEF TransmitYields, HubFlags
  <1>2. CASE /\ FailsOnceOrTwice /\ phase' = "IDLE"
             /\ UNCHANGED <<txn, bridge, structured, arbiterVars, due>>
    <2>1. UNCHANGED <<txn, bridge, structured, owner, saved, eventAck, prior, due>>
      BY <1>2 DEF arbiterVars
    <2>2. RadioTypes' /\ Rested'
      BY <1>1, <1>2, <2>1, HubFacts, MayTransmitFacts, FailsOnceOrTwiceFacts, Zenon DEF Rested
    <2> QED
      BY <1>1, <1>2, <2>1, <2>2, HubFacts, MayTransmitFacts, InvIdle
  <1>3. CASE \E packet \in Inbound : ProcessEvent(packet, "IDLE")
    <2>1. PICK packet \in Inbound : ProcessEvent(packet, "IDLE")
      BY <1>3
    <2>2. ProcessEvent(packet, phase) /\ phase # "TRANSMITTING"
      BY <1>1, <2>1, MayTransmitFacts
    <2> QED
      BY <1>1, <2>2, MayTransmitFacts, InvProcessEvent
  <1> QED
    BY <1>2, <1>3 DEF TransmitYields

LEMMA InvStartCommand ==
    ASSUME HubInv, StartCommand, turn' = "HOST"
    PROVE  HubInv'
  <1>1. /\ MayTransmit
        /\ UNCHANGED <<bridge, structured, owner, saved, eventAck, prior, asking>>
    BY DEF StartCommand, arbiterVars
  <1>2. owner \in HubOwners /\ asking \in BOOLEAN
    BY HubFacts DEF HubFlags
  <1>3. CASE Works("TX") /\ phase' = "TRANSMITTING" /\ UNCHANGED <<txn, due>>
    <2>1. "TX" \in Modes
      BY DEF Modes
    <2>2. RadioTypes' /\ radio' = "TX" /\ irq' = FALSE /\ buffer' = Nothing /\ faulty' = FALSE
      BY <1>3, <2>1, HubFacts, WorksFacts, Zenon
    <2>3. HubTypes'
      BY <1>1, <1>3, <2>2, HubFacts DEF HubTypes, HubFlags, HubPhases
    <2>4. RadioAgrees'
      BY <1>1, <1>3, <2>2, MayTransmitFacts
         DEF RadioAgrees, RadioFollowsPhase, StillOnAir, CommandOwns, CleanUnlessFaults
    <2>5. OwnersHold' /\ BridgeServed' /\ AwaitsAlone'
      BY <1>1, <1>3, HubFacts, MayTransmitFacts, Zenon
         DEF OwnersHold, AdmissionOwns, SavedOwns, BridgeServed, AwaitsAlone
    <2> QED
      BY <2>3, <2>4, <2>5 DEF HubInv
  <1>4. CASE FailAttempt("IDLE")
    <2>1. "IDLE" \in HubPhases /\ eventAck' = FALSE
      BY <1>1, MayTransmitFacts DEF HubPhases
    <2>2. /\ RadioTypes' /\ Rested' /\ phase' = "IDLE" /\ due' = FALSE
          /\ txn' = AttemptFailed(txn)
      BY <1>4, <2>1, HubFacts, FailAttemptRests, Zenon
    <2>3. txn' \in Transactions /\ txn'.awaiting = FALSE
      BY <2>2, HubFacts, AttemptFailedFacts, Zenon
    <2> QED
      BY <1>1, <1>2, <2>2, <2>3, MayTransmitFacts, InvIdle, Zenon
  <1> QED
    BY <1>3, <1>4 DEF StartCommand

LEMMA InvAckTimeout ==
    ASSUME HubInv, AckTimeout, turn' = "HOST"
    PROVE  HubInv'
  <1>1. /\ ~eventAck /\ ~structured /\ txn' = AttemptFailed(txn) /\ due' = FALSE
        /\ RestoreReleased(radio)
        /\ UNCHANGED <<bridge, structured, owner, saved, eventAck, prior, asking>>
    BY DEF AckTimeout, ScheduleRetryOrNext, ScheduleNext, arbiterVars
  <1>2. /\ radio \in Modes /\ eventAck' = FALSE /\ structured = FALSE /\ owner \in HubOwners
        /\ asking \in BOOLEAN
    BY <1>1, HubFacts DEF RadioTypes, HubFlags
  <1>3. RadioTypes' /\ Rested' /\ phase' = "IDLE"
    BY <1>1, <1>2, HubFacts, RestoreReleasedRests, Zenon
  <1>4. txn' \in Transactions /\ txn'.awaiting = FALSE
    BY <1>1, HubFacts, AttemptFailedFacts, Zenon
  <1> QED
    BY <1>1, <1>2, <1>3, <1>4, InvIdle, Zenon

LEMMA InvTransmitted ==
    ASSUME HubInv, Transmitted, turn' = "HOST"
    PROVE  HubInv'
  <1>1. /\ ~eventAck /\ owner' = (IF structured THEN "COMMAND_WAIT_ACK" ELSE owner)
        /\ StartAckReceive(~structured, "WAITING_FOR_ACK")
        /\ UNCHANGED <<bridge, structured, saved, eventAck, prior, asking>>
    BY DEF Transmitted
  <1>2. /\ eventAck = FALSE /\ structured \in BOOLEAN /\ bridge \in Bridges
        /\ bridge.active = structured /\ asking' \in BOOLEAN /\ owner \in HubOwners
    BY <1>1, HubFacts DEF HubFlags, BridgeServed, Bridges
  <1>3. owner' \in HubOwners /\ (structured = TRUE => owner' # "IDLE_RECEIVE")
    BY <1>1, <1>2 DEF HubOwners
  <1>4. CASE structured = TRUE
    <2>1. StartAckReceive(FALSE, "WAITING_FOR_ACK")
      <3>1. (~structured) = FALSE
        BY <1>4
      <3> QED
        BY <1>1, <3>1, Zenon
    <2> QED
      BY <1>1, <1>2, <1>3, <1>4, <2>1, InvReceives, Zenon
  <1>5. CASE structured = FALSE
    <2>1. StartAckReceive(TRUE, "WAITING_FOR_ACK")
      <3>1. (~structured) = TRUE
        BY <1>5
      <3> QED
        BY <1>1, <3>1, Zenon
    <2> QED
      BY <1>1, <1>2, <1>3, <1>5, <2>1, InvReceives, Zenon
  <1> QED
    BY <1>2, <1>4, <1>5, Zenon

LEMMA InvReceivedNoise ==
    ASSUME HubInv, ReceivedNoise, turn' = "HOST"
    PROVE  HubInv'
  <1>1. /\ ~eventAck /\ irq /\ phase \in {"WAITING_FOR_ACK", "WAITING_FOR_RESPONSE"}
        /\ ContinueWaiting
        /\ UNCHANGED <<bridge, structured, owner, saved, eventAck, prior, asking>>
    BY DEF ReceivedNoise, Waiting, arbiterVars
  <1>2. eventAck = FALSE /\ irq = TRUE
    BY <1>1, HubFacts DEF HubFlags, RadioTypes
  <1> QED
    BY <1>1, <1>2, InvContinueWaiting

LEMMA InvReceivedEvent ==
    ASSUME HubInv, ReceivedEvent, turn' = "HOST"
    PROVE  HubInv'
  <1>1. /\ ~eventAck /\ irq /\ phase # "TRANSMITTING" /\ ProcessEvent(buffer, phase)
        /\ asking' = asking
    BY DEF ReceivedEvent, Waiting
  <1>2. eventAck = FALSE /\ irq = TRUE /\ asking' \in BOOLEAN
    BY <1>1, HubFacts DEF HubFlags, RadioTypes
  <1> QED
    BY <1>1, <1>2, InvProcessEvent, Zenon

LEMMA ReceivedStructuredFacts ==
    ASSUME HubInv, ReceivedStructured
    PROVE  /\ eventAck = FALSE /\ irq = TRUE /\ structured = TRUE /\ asking' \in BOOLEAN
           /\ bridge.active = TRUE /\ bridge' \in Bridges
           /\ (bridge'.active => bridge'.expired = bridge.expired)
           /\ Answers(bridge, buffer) /\ buffer.type = "RESPONSE"
              /\ buffer.body \notin {"BAD", "UNDEFINED"} => bridge'.active = FALSE
  <1>1. /\ ~eventAck /\ irq /\ structured /\ asking' = asking
        /\ bridge' = Settled(Received(bridge, buffer))
    BY DEF ReceivedStructured, Waiting
  <1>2. /\ eventAck = FALSE /\ irq = TRUE /\ structured = TRUE /\ asking' \in BOOLEAN
        /\ bridge.active = TRUE /\ bridge \in Bridges
    BY <1>1, HubFacts DEF HubFlags, RadioTypes, BridgeServed, Bridges
  <1>3. /\ bridge' \in Bridges /\ (bridge'.active => bridge'.expired = bridge.expired)
        /\ Answers(bridge, buffer) /\ buffer.type = "RESPONSE"
           /\ buffer.body \notin {"BAD", "UNDEFINED"} => bridge'.active = FALSE
    BY <1>1, <1>2, ReceivedBridge, Zenon
  <1> QED
    BY <1>2, <1>3

LEMMA InvReceivedStructured ==
    ASSUME HubInv, ReceivedStructured, turn' = "HOST"
    PROVE  HubInv'
  <1>1. "RX" \in Modes /\ bridge'.active \in BOOLEAN
    BY ReceivedStructuredFacts DEF Modes, Bridges
  <1>2. CASE bridge'.active = FALSE
    <2>1. FinishStructured("RX")
      BY <1>2, Zenon DEF ReceivedStructured
    <2> QED
      BY <1>1, <1>2, <2>1, ReceivedStructuredFacts, InvFinishStructured, Zenon
  <1>3. CASE bridge'.active = TRUE
    <2>1. PICK next \in {"WAITING_FOR_ACK", "WAITING_FOR_RESPONSE"} :
               /\ StartAckReceive(FALSE, next)
               /\ owner' \in {owner, "COMMAND_WAIT_RESPONSE"}
               /\ UNCHANGED <<structured, saved, eventAck, prior>>
      BY <1>3, Zenon DEF ReceivedStructured
    <2>2. owner \in HubOwners /\ owner # "IDLE_RECEIVE"
      BY ReceivedStructuredFacts, HubFacts, Zenon DEF HubFlags, CommandOwns, ReceivedStructured, Waiting
    <2>3. owner' \in HubOwners /\ owner' # "IDLE_RECEIVE"
      BY <2>1, <2>2 DEF HubOwners
    <2> QED
      BY <1>3, <2>1, <2>3, ReceivedStructuredFacts, InvReceives, Zenon
  <1> QED
    BY <1>1, <1>2, <1>3, Zenon

LEMMA InvReceivedTest ==
    ASSUME HubInv, ReceivedTest, turn' = "HOST"
    PROVE  HubInv'
  <1>1. /\ ~eventAck /\ irq /\ phase \in {"WAITING_FOR_ACK", "WAITING_FOR_RESPONSE"}
        /\ ~structured /\ (CompleteAndSchedule("RX") \/ ContinueWaiting)
        /\ UNCHANGED <<bridge, structured, owner, saved, eventAck, prior, asking>>
    BY DEF ReceivedTest, Waiting, arbiterVars
  <1>2. /\ eventAck = FALSE /\ irq = TRUE /\ structured = FALSE /\ "RX" \in Modes
        /\ owner \in HubOwners /\ asking \in BOOLEAN
    BY <1>1, HubFacts DEF HubFlags, RadioTypes, Modes
  <1>3. CASE CompleteAndSchedule("RX")
    <2>1. txn' = Complete(txn) /\ due' = FALSE /\ RestoreReleased("RX")
      BY <1>3 DEF CompleteAndSchedule, ScheduleNext
    <2>2. RadioTypes' /\ Rested' /\ phase' = "IDLE"
      BY <1>1, <1>2, <2>1, HubFacts, RestoreReleasedRests, Zenon
    <2>3. txn' \in Transactions /\ txn'.awaiting = FALSE
      BY <2>1, HubFacts, CompleteFacts, Zenon
    <2> QED
      BY <1>1, <1>2, <2>1, <2>2, <2>3, InvIdle, Zenon
  <1>4. CASE ContinueWaiting
    BY <1>1, <1>2, <1>4, InvContinueWaiting, Zenon
  <1> QED
    BY <1>1, <1>3, <1>4

LEMMA InvTransportPasses ==
    ASSUME HubInv, TransportPasses, turn' = "HOST"
    PROVE  HubInv'
  <1>1. UNCHANGED <<phase, radio, irq, buffer, faults, faulty, txn, bridge, structured,
                    owner, saved, eventAck, prior, due, asking>>
    BY DEF TransportPasses, radioVars, arbiterVars
  <1>2. due \in BOOLEAN /\ asking \in BOOLEAN /\ txn \in Transactions /\ bridge \in Bridges
    BY HubFacts DEF HubFlags
  <1> QED
    BY <1>1, <1>2, InvSame

-----------------------------------------------------------------------------
(* The world *)

LEMMA OthersFacts ==
    ASSUME HubInv, UNCHANGED hubOthers
    PROVE  /\ UNCHANGED <<phase, structured, owner, saved, eventAck, prior, faults, faulty, turn>>
           /\ turn' \in {"HOST", "TRANSPORT"} /\ due \in BOOLEAN /\ asking \in BOOLEAN
  <1>1. UNCHANGED <<phase, structured, owner, saved, eventAck, prior, faults, faulty, turn>>
    BY DEF hubOthers, arbiterVars
  <1> QED
    BY <1>1, HubFacts DEF HubFlags

LEMMA InvHubPacketArrives ==
    ASSUME HubInv, HubPacketArrives
    PROVE  HubInv'
  <1>1. /\ radio = "RX" /\ buffer' \in Inbound /\ irq' = TRUE
        /\ UNCHANGED <<hubOthers, radio, txn, bridge, due, asking>>
    BY DEF HubPacketArrives
  <1>2. /\ UNCHANGED <<phase, structured, owner, saved, eventAck, prior, faults, faulty, turn>>
    BY <1>1, OthersFacts
  <1>3. HubTypes'
    BY <1>1, <1>2, HubFacts DEF HubTypes, RadioTypes, HubFlags
  <1>4. RadioAgrees'
    BY <1>1, <1>2, HubFacts, Zenon
       DEF RadioAgrees, RadioFollowsPhase, StillOnAir, CommandOwns, CleanUnlessFaults
  <1>5. OwnersHold' /\ BridgeServed' /\ AwaitsAlone'
    BY <1>1, <1>2, HubFacts, Zenon DEF OwnersHold, AdmissionOwns, SavedOwns, BridgeServed, AwaitsAlone
  <1> QED
    BY <1>3, <1>4, <1>5 DEF HubInv

LEMMA InvHubTransmissionEnds ==
    ASSUME HubInv, HubTransmissionEnds
    PROVE  HubInv'
  <1>1. /\ radio = "TX" /\ radio' = "STANDBY" /\ irq' = TRUE /\ buffer' \in Inbound \cup {Nothing}
        /\ phase = "TRANSMITTING" => buffer' = Nothing
        /\ UNCHANGED <<hubOthers, txn, bridge, due, asking>>
    BY DEF HubTransmissionEnds
  <1>2. /\ UNCHANGED <<phase, structured, owner, saved, eventAck, prior, faults, faulty, turn>>
    BY <1>1, OthersFacts, Zenon
  <1>3. HubTypes'
    BY <1>1, <1>2, HubFacts, Zenon DEF HubTypes, RadioTypes, HubFlags, Modes
  <1>4. RadioAgrees'
    BY <1>1, <1>2, HubFacts, Zenon
       DEF RadioAgrees, RadioFollowsPhase, StillOnAir, CommandOwns, CleanUnlessFaults
  <1>5. OwnersHold' /\ BridgeServed' /\ AwaitsAlone'
    BY <1>1, <1>2, HubFacts, Zenon DEF OwnersHold, AdmissionOwns, SavedOwns, BridgeServed, AwaitsAlone
  <1> QED
    BY <1>3, <1>4, <1>5 DEF HubInv

LEMMA AckDeadlineFacts ==
    ASSUME HubInv, AckDeadline
    PROVE  /\ txn' \in Transactions /\ txn'.awaiting = txn.awaiting /\ txn'.expired = TRUE
           /\ UNCHANGED <<hubOthers, radio, irq, buffer, bridge, due, asking>>
  <1>1. /\ txn' = [txn EXCEPT !.expired = TRUE]
        /\ UNCHANGED <<hubOthers, radio, irq, buffer, bridge, due, asking>>
    BY DEF AckDeadline
  <1> QED
    BY <1>1, HubFacts, Zenon DEF Transactions

LEMMA OperationDeadlineFacts ==
    ASSUME HubInv, OperationDeadline
    PROVE  /\ bridge' \in Bridges /\ bridge'.active = bridge.active /\ bridge'.expired = TRUE
           /\ UNCHANGED <<hubOthers, radio, irq, buffer, txn, due, asking>>
  <1>1. /\ bridge' = [bridge EXCEPT !.expired = TRUE]
        /\ UNCHANGED <<hubOthers, radio, irq, buffer, txn, due, asking>>
    BY DEF OperationDeadline
  <1> QED
    BY <1>1, HubFacts, Zenon DEF Bridges

LEMMA InvClockAndHost ==
    ASSUME HubInv, Clock \/ HubHostSends
    PROVE  HubInv'
  <1>1. txn \in Transactions /\ bridge \in Bridges
    BY HubFacts
  <1>2. CASE AckDeadline
    BY <1>1, <1>2, AckDeadlineFacts, OthersFacts, InvSame
  <1>3. CASE OperationDeadline
    BY <1>1, <1>3, OperationDeadlineFacts, OthersFacts, InvSame
  <1>4. CASE IntervalPasses
    BY <1>1, <1>4, OthersFacts, InvSame DEF IntervalPasses
  <1>5. CASE HubHostSends
    BY <1>1, <1>5, OthersFacts, InvSame DEF HubHostSends
  <1> QED
    BY <1>2, <1>3, <1>4, <1>5 DEF Clock

-----------------------------------------------------------------------------
(* The Hub *)

LEMMA HubInvInit == HubInit => HubInv
  <1> SUFFICES ASSUME HubInit PROVE HubInv
    OBVIOUS
  <1>1. /\ phase = "IDLE" /\ irq = FALSE /\ buffer = Nothing
        /\ (radio = "RX" /\ faults = 0 /\ faulty = FALSE)
           \/ (MaxFaults > 0 /\ radio = "STANDBY" /\ faults = 1 /\ faulty = TRUE)
        /\ txn = FirstTransaction /\ bridge = IdleBridge /\ structured = FALSE
        /\ owner = "IDLE_RECEIVE" /\ saved = "IDLE_RECEIVE"
        /\ eventAck = FALSE /\ prior = "IDLE" /\ due = FALSE /\ asking = FALSE /\ turn = "HOST"
    BY DEF HubInit
  <1>2. RadioTypes
    <2>1. faults \in 0 .. MaxFaults
      BY <1>1, RadioAssumption
    <2>2. radio \in Modes /\ irq \in BOOLEAN /\ faulty \in BOOLEAN /\ buffer \in Inbound \cup {Nothing}
      BY <1>1, Zenon DEF Modes
    <2> QED
      BY <2>1, <2>2, Zenon DEF RadioTypes
  <1>3. HubFlags
    BY <1>1, Zenon DEF HubFlags, HubPhases, HubOwners
  <1>4. 0 \in Sequences8 /\ 1 \in Sequences8 /\ 0 \in 0 .. MaxRetries
    BY WireAssumption DEF Sequences8
  <1>5. txn \in Transactions /\ txn.awaiting = FALSE
    BY <1>1, <1>4, Zenon DEF FirstTransaction, Transactions
  <1>6. bridge \in Bridges /\ bridge.active = FALSE
    BY <1>1, <1>4, Zenon DEF IdleBridge, Bridges
  <1>7. RadioAgrees
    BY <1>1 DEF RadioAgrees, RadioFollowsPhase, StillOnAir, CommandOwns, CleanUnlessFaults
  <1>8. OwnersHold /\ BridgeServed /\ AwaitsAlone
    BY <1>1, <1>5, <1>6 DEF OwnersHold, AdmissionOwns, SavedOwns, BridgeServed, AwaitsAlone
  <1> QED
    BY <1>2, <1>3, <1>5, <1>6, <1>7, <1>8 DEF HubInv, HubTypes

LEMMA HubStep == HubInv /\ [HubNext]_hubVars => HubInv'
  <1> SUFFICES ASSUME HubInv, [HubNext]_hubVars PROVE HubInv'
    OBVIOUS
  <1>1. CASE UNCHANGED hubVars
    <2>1. UNCHANGED <<phase, radio, irq, buffer, faults, faulty, txn, bridge, structured,
                      owner, saved, eventAck, prior, due, asking, turn>>
      BY <1>1 DEF hubVars, radioVars, arbiterVars
    <2>2. /\ due \in BOOLEAN /\ asking \in BOOLEAN /\ turn \in {"HOST", "TRANSPORT"}
          /\ txn \in Transactions /\ bridge \in Bridges
      BY HubFacts DEF HubFlags
    <2> QED
      BY <2>1, <2>2, InvSame
  <1>2. CASE ServiceHubTransport
    <2>1. turn' = "HOST"
      BY <1>2 DEF ServiceHubTransport
    <2> QED
      BY <1>2, <2>1, InvEventAckDone, InvRemoteDeadline, InvIdleInbound, InvTransmitYields,
         InvStartCommand, InvAckTimeout, InvTransmitted, InvReceivedNoise, InvReceivedEvent,
         InvReceivedStructured, InvReceivedTest, InvTransportPasses DEF ServiceHubTransport
  <1> QED
    BY <1>1, <1>2, InvServiceProductionHost, InvClockAndHost, InvHubPacketArrives,
       InvHubTransmissionEnds DEF HubNext, HubLoop

LEMMA HubInvariant == HubSpec => []HubInv
  BY HubInvInit, HubStep, PTL DEF HubSpec

(* In any order of TEST transactions, host operations, events, deadlines    *)
(* and failing RadioLib calls, the radio does what the phase says, the host *)
(* is served exactly while its operation is in flight, and no TEST attempt  *)
(* waits meanwhile (serviceHubTransport, serviceProductionHost).            *)
THEOREM HubOwnershipAgrees == HubSpec => []OwnershipAgrees
  <1>1. HubInv => OwnershipAgrees
    <2>1. HubInv => OneTransactionWaits
      BY HubFacts DEF OneTransactionWaits, AwaitsAlone
    <2> QED
      BY <2>1, HubTypesOK DEF OwnershipAgrees, HubInv, RadioAgrees
  <1> QED
    BY <1>1, HubInvariant, PTL

-----------------------------------------------------------------------------
(* Traffic on the shared radio *)

Harmless == DeadlinesStay /\ TransmissionsEndByThemselves /\ ResponseEndsOperation

(* Why a step is harmless: it leaves a wait alone or ends it, finds nothing *)
(* of its own on the air, and has no RESPONSE to look at                    *)
LEMMA HarmlessWhen ==
    ASSUME HubInv,
           \/ txn' = txn \/ txn.awaiting = FALSE \/ txn'.awaiting = FALSE
           \/ txn'.expired = TRUE,
           \/ bridge' = bridge \/ bridge.active = FALSE
           \/ (bridge'.active => bridge'.expired = bridge.expired)
           \/ bridge'.expired = TRUE,
           \/ irq = TRUE \/ irq' = TRUE \/ radio' = radio
           \/ (eventAck = FALSE /\ (structured = TRUE \/ phase # "TRANSMITTING")),
           \/ irq = FALSE \/ eventAck = TRUE \/ structured = FALSE \/ faults # 0
           \/ buffer.type # "RESPONSE" \/ turn # "TRANSPORT" \/ turn' # "HOST"
           \/ ((Answers(bridge, buffer) /\ buffer.body \notin {"BAD", "UNDEFINED"})
                  => bridge'.active = FALSE)
    PROVE  Harmless
  <1>1. DeadlinesStay
    BY Zenon DEF DeadlinesStay
  <1>2. TransmissionsEndByThemselves
    <2>1. radio = "TX" /\ (eventAck \/ ~structured) /\ ~faulty =>
              irq = FALSE /\ (eventAck \/ phase = "TRANSMITTING")
      BY HubFacts, Zenon DEF RadioFollowsPhase, StillOnAir, RadioTypes
    <2> QED
      BY <2>1, HubFacts, Zenon DEF TransmissionsEndByThemselves, HubFlags
  <1>3. ResponseEndsOperation
    <2>1. Answers(bridge, buffer) => structured
      BY HubFacts, Zenon DEF Answers, BridgeServed
    <2> QED
      BY <2>1, HubFacts, Zenon DEF ResponseEndsOperation
  <1> QED
    BY <1>1, <1>2, <1>3, Zenon DEF Harmless

LEMMA HostIsHarmless ==
    ASSUME HubInv, ServiceProductionHost
    PROVE  Harmless
  <1>1. turn # "TRANSPORT"
    BY DEF ServiceProductionHost
  <1>2. CASE HostPasses
    <2>1. txn' = txn /\ bridge' = bridge /\ radio' = radio
      BY <1>2 DEF HostPasses, radioVars
    <2> QED
      BY <1>1, <2>1, HarmlessWhen
  <1>3. CASE HostLosesRadio \/ HostStartsOperation \/ HostAnswered
    <2>1. eventAck = FALSE /\ (structured = TRUE \/ phase # "TRANSMITTING")
      <3>1. HostMayAcquire
        BY <1>3 DEF HostLosesRadio, HostStartsOperation, HostAnswered
      <3> QED
        BY <3>1, MayAcquireFacts, Zenon
    <2>2. txn' = txn /\ (bridge' = bridge \/ bridge.active = FALSE)
      BY <1>3, HubFacts, Zenon DEF HostLosesRadio, HostStartsOperation, HostAnswered, StartStructured, Bridges
    <2> QED
      BY <1>1, <2>1, <2>2, HarmlessWhen, Zenon
  <1> QED
    BY <1>2, <1>3 DEF ServiceProductionHost

LEMMA WaitGoesOn ==
    ASSUME HubInv, ContinueWaiting
    PROVE  txn' = txn \/ txn'.awaiting = FALSE
  <1>1. txn' = txn \/ txn' = AttemptFailed(txn)
    BY DEF ContinueWaiting, ScheduleRetryOrNext, StartAckReceive, FailAttempt
  <1> QED
    BY <1>1, HubFacts, AttemptFailedFacts, Zenon

LEMMA TransportIsHarmless ==
    ASSUME HubInv, ServiceHubTransport
    PROVE  Harmless
  <1>1. CASE EventAckDone
    <2>1. txn' = txn /\ bridge' = bridge /\ irq = TRUE /\ eventAck = TRUE
      BY <1>1, HubFacts DEF EventAckDone, FinishEventAck, HubFlags, RadioTypes
    <2> QED
      BY <2>1, HarmlessWhen
  <1>2. CASE RemoteDeadline
    BY <1>2, HubFacts, RemoteDeadlineFacts, HarmlessWhen, Zenon
  <1>3. CASE IdleInbound
    <2>1. txn' = txn /\ bridge' = bridge /\ irq = TRUE /\ phase = "IDLE"
      BY <1>3, HubFacts DEF IdleInbound, ProcessEvent, RadioTypes
    <2>2. structured = FALSE \/ faults # 0
      BY <2>1, HubFacts DEF CleanUnlessFaults, HubFlags
    <2> QED
      BY <2>1, <2>2, HarmlessWhen, Zenon
  <1>4. CASE TransmitYields
    <2>1. /\ MayTransmit /\ txn' = txn /\ bridge' = bridge
      BY <1>4 DEF TransmitYields, ProcessEvent
    <2> QED
      BY <2>1, MayTransmitFacts, HarmlessWhen
  <1>5. CASE StartCommand
    <2>1. MayTransmit /\ bridge' = bridge
      BY <1>5 DEF StartCommand
    <2> QED
      BY <2>1, MayTransmitFacts, HarmlessWhen
  <1>6. CASE AckTimeout
    <2>1. /\ bridge' = bridge /\ irq = FALSE /\ eventAck = FALSE /\ phase # "TRANSMITTING"
          /\ txn' = AttemptFailed(txn)
      BY <1>6, HubFacts DEF AckTimeout, ScheduleRetryOrNext, HubFlags, RadioTypes
    <2>2. txn'.awaiting = FALSE
      BY <2>1, HubFacts, AttemptFailedFacts, Zenon
    <2> QED
      BY <2>1, <2>2, HarmlessWhen, Zenon
  <1>7. CASE Transmitted
    <2>1. bridge' = bridge /\ irq = TRUE /\ phase = "TRANSMITTING"
      BY <1>7, HubFacts DEF Transmitted, RadioTypes
    <2>2. txn.awaiting = FALSE
      BY <2>1, HubFacts DEF AwaitsAlone, Transactions
    <2>3. faults # 0 \/ buffer.type # "RESPONSE"
      BY <2>1, HubFacts DEF CleanUnlessFaults, Nothing
    <2> QED
      BY <2>1, <2>2, <2>3, HarmlessWhen, Zenon
  <1>8. CASE ReceivedNoise
    <2>1. ContinueWaiting /\ bridge' = bridge /\ irq = TRUE /\ buffer.type # "RESPONSE"
      BY <1>8, HubFacts DEF ReceivedNoise, Waiting, Unreadable, RadioTypes
    <2> QED
      BY <2>1, WaitGoesOn, HarmlessWhen, Zenon
  <1>9. CASE ReceivedEvent
    <2>1. txn' = txn /\ bridge' = bridge /\ irq = TRUE /\ buffer.type # "RESPONSE"
      BY <1>9, HubFacts DEF ReceivedEvent, ProcessEvent, Waiting, RadioTypes
    <2> QED
      BY <2>1, HarmlessWhen
  <1>10. CASE ReceivedStructured
    <2>1. txn.awaiting = FALSE
      BY <1>10, HubFacts, ReceivedStructuredFacts DEF AwaitsAlone, Transactions
    <2>2. irq = TRUE /\ (bridge'.active => bridge'.expired = bridge.expired)
      BY <1>10, ReceivedStructuredFacts, Zenon
    <2>3. \/ buffer.type # "RESPONSE"
          \/ ((Answers(bridge, buffer) /\ buffer.body \notin {"BAD", "UNDEFINED"})
                => bridge'.active = FALSE)
      BY <1>10, ReceivedStructuredFacts, Zenon
    <2> QED
      BY <2>1, <2>2, <2>3, HarmlessWhen, Zenon
  <1>11. CASE ReceivedTest
    <2>1. /\ bridge' = bridge /\ irq = TRUE /\ structured = FALSE
      BY <1>11, HubFacts DEF ReceivedTest, Waiting, RadioTypes, HubFlags
    <2>2. ContinueWaiting \/ txn' = Complete(txn)
      BY <1>11 DEF ReceivedTest, CompleteAndSchedule
    <2>3. txn' = txn \/ txn'.awaiting = FALSE
      BY <2>2, HubFacts, WaitGoesOn, CompleteFacts, Zenon
    <2> QED
      BY <2>1, <2>3, HarmlessWhen, Zenon
  <1>12. CASE TransportPasses
    <2>1. txn' = txn /\ bridge' = bridge /\ radio' = radio /\ irq = FALSE
      BY <1>12, HubFacts DEF TransportPasses, radioVars, RadioTypes
    <2> QED
      BY <2>1, HarmlessWhen, Zenon
  <1> QED
    BY <1>1, <1>2, <1>3, <1>4, <1>5, <1>6, <1>7, <1>8, <1>9, <1>10, <1>11, <1>12
       DEF ServiceHubTransport

LEMMA WorldIsHarmless ==
    ASSUME HubInv, Clock \/ HubPacketArrives \/ HubTransmissionEnds \/ HubHostSends
    PROVE  Harmless
  <1>1. UNCHANGED turn
    BY DEF Clock, AckDeadline, OperationDeadline, IntervalPasses, HubPacketArrives,
           HubTransmissionEnds, HubHostSends, hubOthers
  <1>2. turn # "TRANSPORT" \/ turn' # "HOST"
    BY <1>1
  <1>3. radio' = radio \/ irq' = TRUE
    BY DEF Clock, AckDeadline, OperationDeadline, IntervalPasses, HubPacketArrives,
           HubTransmissionEnds, HubHostSends
  <1>4. txn' = txn \/ txn'.expired = TRUE
    BY AckDeadlineFacts, Zenon DEF Clock, OperationDeadline, IntervalPasses, HubPacketArrives,
                            HubTransmissionEnds, HubHostSends
  <1>5. bridge' = bridge \/ bridge'.expired = TRUE
    BY OperationDeadlineFacts, Zenon DEF Clock, AckDeadline, IntervalPasses, HubPacketArrives,
                                  HubTransmissionEnds, HubHostSends
  <1> QED
    BY <1>2, <1>3, <1>4, <1>5, HarmlessWhen, Zenon

(* A deadline that has passed stays passed until its wait ends, a TEST or   *)
(* an admission on the air ends with its interrupt, and a RESPONSE that     *)
(* decodes ends the operation it answers, whatever else shares the radio    *)
(* (processAcknowledgment, processEventBytes, serviceProductionHost).       *)
THEOREM HubTrafficIsHarmless == HubSpec => TrafficIsHarmless
  <1>1. HubInv /\ [HubNext]_hubVars => [Harmless]_hubVars
    BY HostIsHarmless, TransportIsHarmless, WorldIsHarmless DEF HubNext, HubLoop
  <1> QED
    BY <1>1, HubInvariant, PTL DEF HubSpec, TrafficIsHarmless, Harmless
=============================================================================
