---------------------------- MODULE KafkaDriver -----------------------------
(* KafkaDriver on several servers of one consumer group: start() up to      *)
(* consumer.run(), stop(), eachMessage, and the producer other handlers     *)
(* use. Each topic is one partition; the broker and kafkajs are external.   *)
EXTENDS Naturals, Sequences, FiniteSets

CONSTANTS
    Servers, Topics,
    RouterTopics,   \* per server: the topics its KafkaConsumerRouters handle
    ConfigTopics,   \* per server: KafkaDriverConfig.topics
    Serializer,     \* the servers whose config has a serializer
    Stopped,        \* bound: the servers stop() is called on
    MaxLog,         \* bound: messages of each topic
    MaxFaults       \* bound: crashes and rebalances out of the blue

Nobody == "nobody"
Idle == <<>>                 \* no handler runs

ASSUME KafkaAssumption ==
    /\ Nobody \notin Servers
    /\ RouterTopics \in [Servers -> SUBSET Topics]
    /\ ConfigTopics \in [Servers -> SUBSET Topics]
    /\ Serializer \subseteq Servers /\ Stopped \subseteq Servers
    /\ MaxLog \in [Topics -> Nat] /\ MaxFaults \in Nat

Kinds == {"good", "poison", "null"}
Offsets(t) == 1 .. MaxLog[t]

VARIABLES
    phase,       \* where start() stands on each server
    stopper,     \* where stop() stands
    early,       \* history: stop() was called before start() had settled
    producer,    \* the producer's connection
    consumer,    \* the consumer's connection
    registered,  \* kafkaProducer is in the container
    exist,       \* the topics the broker has
    log,         \* the messages of each topic
    committed,   \* the group's offset
    owner,       \* the member a topic is assigned to
    position,    \* the owner's own offset
    running,     \* the message each server's handler is at
    handled,     \* history: the offsets handled at least once
    faults       \* bounded by MaxFaults

lifecycle == <<phase, stopper, early, producer, consumer, registered, exist>>
broker == <<log, committed, owner, position>>
vars == <<lifecycle, broker, running, handled, faults>>

Starting == {"admin", "producer", "consumer", "run"}
AllTopics(s) == ConfigTopics[s] \cup RouterTopics[s]

LinksTypeOK ==
    /\ phase \in [Servers -> {"new", "up", "failed"} \cup Starting]
    /\ stopper \in [Servers -> {"none", "consumer", "producer", "done", "failed"}]
    /\ early \subseteq Servers /\ registered \subseteq Servers /\ exist \subseteq Topics
    /\ producer \in [Servers -> {"none", "connecting", "connected", "closed"}]
    /\ consumer \in [Servers -> {"none", "connecting", "connected", "running", "closed"}]
    /\ faults \in 0 .. MaxFaults
LogTypeOK ==
    /\ log \in [Topics -> Seq(Kinds)]
    /\ committed \in [Topics -> Nat] /\ position \in [Topics -> Nat]
    /\ owner \in [Topics -> Servers \cup {Nobody}]
    /\ running \in [Servers -> (Topics \X Nat) \cup {Idle}]
    /\ handled \in [Topics -> SUBSET Nat]
    /\ \A t \in Topics :
         /\ committed[t] <= position[t] /\ position[t] <= Len(log[t]) /\ Len(log[t]) <= MaxLog[t]
         /\ handled[t] \subseteq 1 .. Len(log[t])
TypeOK == LinksTypeOK /\ LogTypeOK

Init ==
    /\ phase = [s \in Servers |-> "new"] /\ stopper = [s \in Servers |-> "none"]
    /\ early = {} /\ registered = {} /\ exist = {}
    /\ producer = [s \in Servers |-> "none"] /\ consumer = [s \in Servers |-> "none"]
    /\ log = [t \in Topics |-> <<>>]
    /\ committed = [t \in Topics |-> 0] /\ position = [t \in Topics |-> 0]
    /\ owner = [t \in Topics |-> Nobody]
    /\ running = [s \in Servers |-> Idle]
    /\ handled = [t \in Topics |-> {}]
    /\ faults = 0

-----------------------------------------------------------------------------
(* start(): one step up to each await, and the rejection of each            *)

To(s, p) == phase' = [phase EXCEPT ![s] = p]
Rest(s) == UNCHANGED <<stopper, early, broker, running, handled, faults>>

(* A router's dispatchers resolve kafkaSerializer: without one they throw.  *)
Start(s) ==
    /\ phase[s] = "new" /\ stopper[s] = "none"
    /\ \/ /\ RouterTopics[s] # {} /\ s \notin Serializer
          /\ To(s, "failed")
          /\ UNCHANGED producer
       \/ /\ RouterTopics[s] = {} \/ s \in Serializer
          /\ To(s, IF AllTopics(s) = {} THEN "producer" ELSE "admin")
          /\ producer' = IF AllTopics(s) = {} THEN [producer EXCEPT ![s] = "connecting"] ELSE producer
    /\ UNCHANGED <<consumer, registered, exist>> /\ Rest(s)

(* createTopics leaves those alone that exist.                              *)
Provision(s) ==
    /\ phase[s] = "admin"
    /\ exist' = exist \cup AllTopics(s)
    /\ producer' = [producer EXCEPT ![s] = "connecting"]
    /\ To(s, "producer")
    /\ UNCHANGED <<consumer, registered>> /\ Rest(s)

(* Where stop() has disconnected it meanwhile, either may have the last word. *)
ProducerConnects(s) ==
    /\ phase[s] = "producer"
    /\ \E link \in {"connected"} \cup ({producer[s]} \ {"connecting"}) :
         producer' = [producer EXCEPT ![s] = link]
    /\ registered' = registered \cup {s}
    /\ To(s, IF RouterTopics[s] = {} THEN "up" ELSE "consumer")
    /\ consumer' = IF RouterTopics[s] = {} THEN consumer ELSE [consumer EXCEPT ![s] = "connecting"]
    /\ UNCHANGED exist /\ Rest(s)

(* connect(), then subscribe().                                            *)
ConsumerConnects(s) ==
    /\ phase[s] = "consumer"
    /\ \E link \in {"connected"} \cup ({consumer[s]} \ {"connecting"}) :
         consumer' = [consumer EXCEPT ![s] = link]
    /\ To(s, "run")
    /\ UNCHANGED <<producer, registered, exist>> /\ Rest(s)

ConsumerRuns(s) ==
    /\ phase[s] = "run"
    /\ consumer' = [consumer EXCEPT ![s] = "running"]
    /\ To(s, "up")
    /\ UNCHANGED <<producer, registered, exist>> /\ Rest(s)

(* Any of the calls rejects; admin.disconnect() may after createTopics().   *)
StartFails(s) ==
    /\ phase[s] \in Starting
    /\ To(s, "failed")
    /\ exist' \in {exist} \cup (IF phase[s] = "admin" THEN {exist \cup AllTopics(s)} ELSE {})
    /\ UNCHANGED <<producer, consumer, registered>> /\ Rest(s)

-----------------------------------------------------------------------------
(* stop(): the consumer, then the producer                                  *)

StopTo(s, p) == stopper' = [stopper EXCEPT ![s] = p]
Kept(s) == UNCHANGED <<phase, early, registered, exist, log, running, handled, faults>>

(* Mutant: both are disconnected at once.                                   *)
StopTogether(s) ==
    /\ s \in Stopped /\ phase[s] # "new" /\ stopper[s] = "none"
    /\ StopTo(s, IF consumer[s] = "none" THEN "producer" ELSE "consumer")
    /\ early' = IF phase[s] \in Starting THEN early \cup {s} ELSE early
    /\ producer' = [producer EXCEPT ![s] = IF @ = "none" THEN @ ELSE "closed"]
    /\ UNCHANGED <<phase, consumer, registered, exist, broker, running, handled, faults>>

Stop(s) ==
    /\ s \in Stopped /\ phase[s] # "new" /\ stopper[s] = "none"
    /\ StopTo(s, IF consumer[s] = "none" THEN "producer" ELSE "consumer")
    /\ early' = IF phase[s] \in Starting THEN early \cup {s} ELSE early
    /\ UNCHANGED <<phase, producer, consumer, registered, exist, broker, running, handled, faults>>

(* The member leaves the group once its handler is over, with or without    *)
(* a last commit.                                                           *)
Leave(s) ==
    /\ consumer' = [consumer EXCEPT ![s] = "closed"]
    /\ owner' = [t \in Topics |-> IF owner[t] = s THEN Nobody ELSE owner[t]]
    /\ \E kept \in BOOLEAN :
         /\ committed' = [t \in Topics |-> IF owner[t] = s /\ kept THEN position[t] ELSE committed[t]]
         /\ position' = [t \in Topics |-> IF owner[t] = s THEN committed'[t] ELSE position[t]]

(* Mutant: the producer is left open.                                       *)
LeavesProducerOpen(s) ==
    /\ stopper[s] = "consumer" /\ running[s] = Idle
    /\ Leave(s)
    /\ StopTo(s, "done")
    /\ UNCHANGED producer /\ Kept(s)

ConsumerDisconnects(s) ==
    /\ stopper[s] = "consumer" /\ running[s] = Idle
    /\ Leave(s)
    /\ StopTo(s, IF producer[s] = "none" THEN "done" ELSE "producer")
    /\ UNCHANGED producer /\ Kept(s)

ProducerDisconnects(s) ==
    /\ stopper[s] = "producer"
    /\ producer' = [producer EXCEPT ![s] = IF @ = "none" THEN @ ELSE "closed"]
    /\ StopTo(s, "done")
    /\ UNCHANGED <<consumer, committed, owner, position>> /\ Kept(s)

(* Rejected, a disconnect may have taken effect or not.                     *)
DisconnectFails(s) ==
    /\ stopper[s] \in {"consumer", "producer"}
    /\ StopTo(s, "failed")
    /\ \/ stopper[s] = "consumer" /\ running[s] = Idle /\ Leave(s) /\ UNCHANGED producer
       \/ /\ producer' \in {producer} \cup (IF stopper[s] = "producer"
                                             THEN {[producer EXCEPT ![s] = "closed"]} ELSE {})
          /\ UNCHANGED <<consumer, committed, owner, position>>
    /\ Kept(s)

-----------------------------------------------------------------------------
(* Messages                                                                 *)

Live == UNCHANGED <<lifecycle, faults>>
Free(s) == consumer[s] = "running" /\ stopper[s] # "consumer" /\ running[s] = Idle

Arrives(t, kind) ==
    /\ t \in exist /\ Len(log[t]) < MaxLog[t]
    /\ log' = [log EXCEPT ![t] = Append(@, kind)]
    /\ UNCHANGED <<committed, owner, position, running, handled>> /\ Live

(* A handler of any driver sends through the container's kafkaProducer; a   *)
(* value that is not encoded, with no serializer, throws before this.       *)
Send(s, t) ==
    /\ s \in registered /\ producer[s] = "connected"
    /\ Arrives(t, "good")

(* A member whose last handler is over takes a topic that has no owner.     *)
Assign(s, t) ==
    /\ Free(s) /\ t \in RouterTopics[s] /\ owner[t] = Nobody
    /\ owner' = [owner EXCEPT ![t] = s]
    /\ position' = [position EXCEPT ![t] = committed[t]]
    /\ UNCHANGED <<log, committed, running, handled>> /\ Live

(* The broker gives up on a member, whose handler goes on.                  *)
Rebalance(t) ==
    /\ owner[t] # Nobody /\ faults < MaxFaults
    /\ faults' = faults + 1
    /\ owner' = [owner EXCEPT ![t] = Nobody]
    /\ position' = [position EXCEPT ![t] = committed[t]]
    /\ UNCHANGED <<lifecycle, log, committed, running, handled>>

Incoming(s, t) == Free(s) /\ owner[t] = s /\ position[t] < Len(log[t])

(* Mutant: eachMessage does not await the handler.                          *)
DeliverUnawaited(s, t) ==
    /\ Incoming(s, t)
    /\ position' = [position EXCEPT ![t] = @ + 1]
    /\ running' = IF log[t][position[t] + 1] = "null" THEN running
                  ELSE [running EXCEPT ![s] = <<t, position[t] + 1>>]
    /\ UNCHANGED <<log, committed, owner, handled>> /\ Live

(* Mutant: a message without a value is handed to the decoder, which throws. *)
DeliverNullThrows(s, t) ==
    /\ Incoming(s, t) /\ log[t][position[t] + 1] # "null"
    /\ running' = [running EXCEPT ![s] = <<t, position[t] + 1>>]
    /\ UNCHANGED <<log, committed, owner, position, handled>> /\ Live

(* Mutant: with a message without a value the one behind it is skipped.     *)
DeliverSkipsNext(s, t) ==
    /\ Incoming(s, t)
    /\ IF log[t][position[t] + 1] = "null"
       THEN position' = [position EXCEPT ![t] = @ + 2] /\ UNCHANGED running
       ELSE running' = [running EXCEPT ![s] = <<t, position[t] + 1>>] /\ UNCHANGED position
    /\ UNCHANGED <<log, committed, owner, handled>> /\ Live

(* eachMessage: no value, nothing to handle.                                *)
Deliver(s, t) ==
    /\ Incoming(s, t)
    /\ IF log[t][position[t] + 1] = "null"
       THEN position' = [position EXCEPT ![t] = @ + 1] /\ UNCHANGED running
       ELSE running' = [running EXCEPT ![s] = <<t, position[t] + 1>>] /\ UNCHANGED position
    /\ UNCHANGED <<log, committed, owner, handled>> /\ Live

(* The message was decoded and its use case resolved.                       *)
HandlerResolves(s) ==
    /\ running[s] # Idle
    /\ LET t == running[s][1]  n == running[s][2] IN
         /\ log[t][n] = "good"
         /\ handled' = [handled EXCEPT ![t] = @ \cup {n}]
         /\ position' = IF owner[t] = s THEN [position EXCEPT ![t] = n] ELSE position
    /\ running' = [running EXCEPT ![s] = Idle]
    /\ UNCHANGED <<log, committed, owner>> /\ Live

(* Mutant: the error is logged and the next message taken.                  *)
HandlerErrorsAreSwallowed(s) ==
    /\ running[s] # Idle
    /\ LET t == running[s][1]  n == running[s][2] IN
         position' = IF owner[t] = s THEN [position EXCEPT ![t] = n] ELSE position
    /\ running' = [running EXCEPT ![s] = Idle]
    /\ UNCHANGED <<log, committed, owner, handled>> /\ Live

(* The decoder or the use case rejects and so does eachMessage: kafkajs     *)
(* commits what came before and fetches the message again.                  *)
HandlerRejects(s) ==
    /\ running[s] # Idle
    /\ LET t == running[s][1] IN
         committed' = IF owner[t] = s THEN [committed EXCEPT ![t] = position[t]] ELSE committed
    /\ running' = [running EXCEPT ![s] = Idle]
    /\ UNCHANGED <<log, owner, position, handled>> /\ Live

(* It rejects with what kafkajs does not retry: the consumer ends for good. *)
RejectionEndsConsumer(s) ==
    /\ running[s] # Idle
    /\ Leave(s)
    /\ running' = [running EXCEPT ![s] = Idle]
    /\ UNCHANGED <<phase, stopper, early, producer, registered, exist, log, handled, faults>>

(* kafkajs commits what was resolved, now or later.                         *)
Commit(t) ==
    /\ owner[t] # Nobody /\ committed[t] < position[t]
    /\ committed' = [committed EXCEPT ![t] = position[t]]
    /\ UNCHANGED <<log, owner, position, running, handled>> /\ Live

(* The process dies; its supervisor starts it again.                        *)
Crash(s) ==
    /\ phase[s] # "new" /\ faults < MaxFaults
    /\ faults' = faults + 1
    /\ To(s, "new") /\ StopTo(s, "none")
    /\ early' = early \ {s} /\ registered' = registered \ {s}
    /\ producer' = [producer EXCEPT ![s] = "none"] /\ consumer' = [consumer EXCEPT ![s] = "none"]
    /\ owner' = [t \in Topics |-> IF owner[t] = s THEN Nobody ELSE owner[t]]
    /\ position' = [t \in Topics |-> IF owner[t] = s THEN committed[t] ELSE position[t]]
    /\ running' = [running EXCEPT ![s] = Idle]
    /\ UNCHANGED <<exist, log, committed, handled>>

-----------------------------------------------------------------------------

StartStep(s) ==
    \/ Start(s) \/ Provision(s) \/ ProducerConnects(s)
    \/ ConsumerConnects(s) \/ ConsumerRuns(s)

StopStep(s) == ConsumerDisconnects(s) \/ ProducerDisconnects(s)

Next ==
    \/ \E s \in Servers :
         \/ StartStep(s) \/ StartFails(s)
         \/ Stop(s) \/ StopStep(s) \/ DisconnectFails(s)
         \/ HandlerResolves(s) \/ HandlerRejects(s) \/ RejectionEndsConsumer(s) \/ Crash(s)
    \/ \E t \in Topics :
         \/ \E kind \in Kinds : Arrives(t, kind)
         \/ \E s \in Servers : Send(s, t) \/ Assign(s, t) \/ Deliver(s, t)
         \/ Rebalance(t) \/ Commit(t)

Spec == Init /\ [][Next]_vars

(* Calls to the broker settle, offsets are committed in time, and a handler *)
(* that is given a message again and again resolves in the end.             *)
Fairness ==
    /\ \A s \in Servers :
         /\ WF_vars(StartStep(s) \/ StartFails(s)) /\ WF_vars(StopStep(s) \/ DisconnectFails(s))
         /\ WF_vars(HandlerResolves(s) \/ HandlerRejects(s) \/ RejectionEndsConsumer(s))
         /\ SF_vars(HandlerResolves(s))
         /\ \A t \in Topics : WF_vars(Deliver(s, t))
    /\ \A t \in Topics : WF_vars(\E s \in Servers : Assign(s, t)) /\ WF_vars(Commit(t))

FairSpec == Spec /\ Fairness

-----------------------------------------------------------------------------
(* Properties                                                               *)

(* A handler that runs finds kafkaProducer in the container and connected:  *)
(* start() registers it before the consumer runs and stop() disconnects it  *)
(* after the consumer (KafkaDriver.ts:146-155, 166-167), unless stop()      *)
(* overtook start() or was not through.                                     *)
HandlersCanSend ==
    \A s \in Servers : running[s] # Idle /\ s \notin early =>
        s \in registered /\ (producer[s] = "connected" \/ stopper[s] = "failed")

(* No committed offset covers a message no handler has handled, unless it   *)
(* has no value (KafkaDriver.ts:156-159), whatever crashes or is rebalanced. *)
CommittedIsHandled ==
    \A t \in Topics : \A n \in 1 .. committed[t] :
        n \in handled[t] \/ log[t][n] = "null"

(* A message is not handled before those ahead of it in its topic: one that *)
(* cannot be decoded blocks the topic (KafkaDriver.ts:158).                 *)
HandledInOrder ==
    \A t \in Topics : \A n \in handled[t] : \A k \in 1 .. n - 1 :
        k \in handled[t] \/ log[t][k] = "null"

(* stop() that resolves leaves nothing connected and no handler running,    *)
(* unless it overtook start() (KafkaDriver.ts:165-168).                     *)
StoppedMeansDisconnected ==
    \A s \in Servers : stopper[s] = "done" /\ s \notin early =>
        /\ producer[s] \in {"none", "closed"} /\ consumer[s] \in {"none", "closed"}
        /\ running[s] = Idle

(* A message behind nothing but good and empty ones is handled in the end,  *)
(* as long as a server that consumes its topic is neither failed nor        *)
(* stopped and kafkajs has not ended its consumer (KafkaDriver.ts:151-160). *)
Unblocked(t, n) ==
    /\ n <= Len(log[t]) /\ log[t][n] = "good"
    /\ \A k \in 1 .. n : log[t][k] # "poison"

Serves(s, t) ==
    /\ t \in RouterTopics[s] /\ phase[s] # "failed" /\ stopper[s] = "none"
    /\ consumer[s] # "closed"

GoodMessagesAreHandled ==
    \A t \in Topics : \A n \in Offsets(t) :
        Unblocked(t, n) ~> n \in handled[t] \/ \A s \in Servers : ~Serves(s, t)

=============================================================================
