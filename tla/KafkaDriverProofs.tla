-------------------------- MODULE KafkaDriverProofs --------------------------
(* Theorems about KafkaDriver, for any servers, topics, messages and faults. *)
EXTENDS KafkaDriver, TLAPS

USE KafkaAssumption DEF KafkaAssumption

-----------------------------------------------------------------------------
(* The inductive invariant *)

(* A server that is not started has no connection, a consumer is registered  *)
(* before it connects, and only a running consumer has handlers.             *)
LinksFollow == \A s \in Servers :
    /\ phase[s] = "new" => /\ stopper[s] = "none" /\ s \notin early
                           /\ producer[s] = "none" /\ consumer[s] = "none"
    /\ phase[s] \in {"admin", "producer"} => consumer[s] = "none"
    /\ consumer[s] # "none" \/ phase[s] \in {"consumer", "run"} => s \in registered
    /\ stopper[s] = "consumer" => consumer[s] # "none"
    /\ consumer[s] = "running" => phase[s] = "up"
    /\ running[s] # Idle => consumer[s] = "running"

(* Unless stop() has overtaken start(), the two take turns: the producer is  *)
(* connected before the consumer and disconnected after it.                  *)
InTurn == \A s \in Servers \ early :
    /\ phase[s] \in Starting => stopper[s] = "none"
    /\ phase[s] = "producer" => producer[s] = "connecting"
    /\ phase[s] \in {"consumer", "run", "up"} /\ stopper[s] \in {"none", "consumer"} =>
         producer[s] = "connected"
    /\ stopper[s] \in {"producer", "done"} => consumer[s] \in {"none", "closed"}
    /\ stopper[s] = "done" => producer[s] \in {"none", "closed"}

(* An offset that is handled or needs no handling. *)
Over(t, n) == n \in handled[t] \/ log[t][n] = "null"

(* What the owner has resolved is over, and so is what is before a message   *)
(* that was handled.                                                         *)
ResolvedIsOver == \A t \in Topics : \A n \in 1 .. position[t] : Over(t, n)

(* A message at a handler is in the log, all before it is over, and it is    *)
(* the next one for a server that still owns its topic.                      *)
HandlersAreNext == \A s \in Servers : running[s] # Idle =>
    LET t == running[s][1]  n == running[s][2] IN
      /\ n \in 1 .. Len(log[t])
      /\ \A k \in 1 .. n - 1 : Over(t, k)
      /\ owner[t] = s => n = position[t] + 1

IInv ==
    /\ LinksTypeOK /\ LogTypeOK /\ LinksFollow /\ InTurn
    /\ ResolvedIsOver /\ HandlersAreNext /\ HandledInOrder

-----------------------------------------------------------------------------
(* The steps *)

(* The declared topics are topics. *)
LEMMA TopicsAre == ASSUME NEW s \in Servers PROVE AllTopics(s) \subseteq Topics
  BY DEF AllTopics

(* A member that leaves takes its topics' positions back to what is committed. *)
LEMMA LeaveKeeps ==
    ASSUME IInv, NEW s \in Servers, Leave(s), UNCHANGED <<log, handled>>,
           running' = [running EXCEPT ![s] = Idle]
    PROVE  LogTypeOK' /\ ResolvedIsOver' /\ HandlersAreNext'
<1>1. PICK kept \in BOOLEAN :
        /\ committed' = [t \in Topics |-> IF owner[t] = s /\ kept THEN position[t] ELSE committed[t]]
        /\ position' = [t \in Topics |-> IF owner[t] = s THEN committed'[t] ELSE position[t]]
  BY DEF Leave
<1>2. owner' = [t \in Topics |-> IF owner[t] = s THEN Nobody ELSE owner[t]]
  BY DEF Leave
<1>3. \A t \in Topics : /\ committed'[t] \in Nat /\ position'[t] \in Nat
                        /\ committed'[t] <= position'[t] /\ position'[t] <= position[t]
  BY <1>1 DEF IInv, LogTypeOK
<1>4. LogTypeOK'
  <2>1. committed' \in [Topics -> Nat] /\ position' \in [Topics -> Nat]
    BY <1>1, <1>3
  <2>2. owner' \in [Topics -> Servers \cup {Nobody}]
    BY <1>2 DEF IInv, LogTypeOK
  <2>3. \A t \in Topics : Len(log[t]) \in Nat
    BY DEF IInv, LogTypeOK
  <2> QED
    BY <1>3, <2>1, <2>2, <2>3 DEF IInv, LogTypeOK
<1>5. ResolvedIsOver'
  BY <1>3 DEF IInv, LogTypeOK, ResolvedIsOver, Over
<1>6. HandlersAreNext'
  BY <1>1, <1>2 DEF IInv, LogTypeOK, HandlersAreNext, Over
<1> QED
  BY <1>4, <1>5, <1>6

(* So does one whose handler was over before. *)
LEMMA LeaveIdleKeeps ==
    ASSUME IInv, NEW s \in Servers, Leave(s), running[s] = Idle, UNCHANGED <<log, running, handled>>
    PROVE  LogTypeOK' /\ ResolvedIsOver' /\ HandlersAreNext'
<1>1. running' = [running EXCEPT ![s] = Idle]
  BY DEF IInv, LogTypeOK
<1> QED
  BY <1>1, LeaveKeeps

(* start() opens its first connection, if the routers have a serializer. *)
LEMMA StartKeeps == ASSUME IInv, NEW s \in Servers, Start(s) PROVE IInv'
<1>1. LinksTypeOK'
  BY DEF IInv, LinksTypeOK, Starting, lifecycle, broker, Start, To, Rest
<1>2. LinksFollow'
  BY DEF IInv, LinksTypeOK, LogTypeOK, LinksFollow, Starting, Idle, lifecycle, broker,
    Start, To, Rest
<1>3. InTurn'
  BY DEF IInv, LinksTypeOK, LinksFollow, InTurn, Starting, lifecycle, broker, Start, To,
    Rest
<1>4. LogTypeOK' /\ ResolvedIsOver' /\ HandlersAreNext' /\ HandledInOrder'
  BY DEF IInv, LogTypeOK, ResolvedIsOver, HandlersAreNext, HandledInOrder, Over, lifecycle,
    broker, Start, To, Rest
<1> QED
  BY <1>1, <1>2, <1>3, <1>4 DEF IInv

(* The topics exist before the producer connects. *)
LEMMA ProvisionKeeps == ASSUME IInv, NEW s \in Servers, Provision(s) PROVE IInv'
<1>1. LinksTypeOK'
  BY TopicsAre DEF IInv, LinksTypeOK, Starting, Provision, To, Rest
<1>2. LinksFollow'
  BY DEF IInv, LinksTypeOK, LogTypeOK, LinksFollow, Starting, Idle, lifecycle, broker,
    Provision, To, Rest
<1>3. InTurn'
  BY DEF IInv, LinksTypeOK, LinksFollow, InTurn, Starting, lifecycle, broker, Provision, To,
    Rest
<1>4. LogTypeOK' /\ ResolvedIsOver' /\ HandlersAreNext' /\ HandledInOrder'
  BY DEF IInv, LogTypeOK, ResolvedIsOver, HandlersAreNext, HandledInOrder, Over, lifecycle,
    broker, Provision, To, Rest
<1> QED
  BY <1>1, <1>2, <1>3, <1>4 DEF IInv

(* kafkaProducer is registered before the consumer connects. *)
LEMMA ProducerConnectsKeeps == ASSUME IInv, NEW s \in Servers, ProducerConnects(s) PROVE IInv'
<1>1. LinksTypeOK'
  BY DEF IInv, LinksTypeOK, Starting, lifecycle, broker, ProducerConnects, To, Rest
<1>2. LinksFollow'
  BY DEF IInv, LinksTypeOK, LogTypeOK, LinksFollow, Starting, Idle, lifecycle, broker,
    ProducerConnects, To, Rest
<1>3. InTurn'
  BY DEF IInv, LinksTypeOK, LinksFollow, InTurn, Starting, lifecycle, broker,
    ProducerConnects, To, Rest
<1>4. LogTypeOK' /\ ResolvedIsOver' /\ HandlersAreNext' /\ HandledInOrder'
  BY DEF IInv, LogTypeOK, ResolvedIsOver, HandlersAreNext, HandledInOrder, Over, lifecycle,
    broker, ProducerConnects, To, Rest
<1> QED
  BY <1>1, <1>2, <1>3, <1>4 DEF IInv

(* The consumer is subscribed before it runs. *)
LEMMA ConsumerConnectsKeeps == ASSUME IInv, NEW s \in Servers, ConsumerConnects(s) PROVE IInv'
<1>1. LinksTypeOK'
  BY DEF IInv, LinksTypeOK, Starting, lifecycle, broker, ConsumerConnects, To, Rest
<1>2. LinksFollow'
  BY DEF IInv, LinksTypeOK, LogTypeOK, LinksFollow, Starting, Idle, lifecycle, broker,
    ConsumerConnects, To, Rest
<1>3. InTurn'
  BY DEF IInv, LinksTypeOK, LinksFollow, InTurn, Starting, lifecycle, broker,
    ConsumerConnects, To, Rest
<1>4. LogTypeOK' /\ ResolvedIsOver' /\ HandlersAreNext' /\ HandledInOrder'
  BY DEF IInv, LogTypeOK, ResolvedIsOver, HandlersAreNext, HandledInOrder, Over, lifecycle,
    broker, ConsumerConnects, To, Rest
<1> QED
  BY <1>1, <1>2, <1>3, <1>4 DEF IInv

(* The consumer runs last. *)
LEMMA ConsumerRunsKeeps == ASSUME IInv, NEW s \in Servers, ConsumerRuns(s) PROVE IInv'
<1>1. LinksTypeOK'
  BY DEF IInv, LinksTypeOK, Starting, lifecycle, broker, ConsumerRuns, To, Rest
<1>2. LinksFollow'
  BY DEF IInv, LinksTypeOK, LogTypeOK, LinksFollow, Starting, Idle, lifecycle, broker,
    ConsumerRuns, To, Rest
<1>3. InTurn'
  BY DEF IInv, LinksTypeOK, LinksFollow, InTurn, Starting, lifecycle, broker, ConsumerRuns,
    To, Rest
<1>4. LogTypeOK' /\ ResolvedIsOver' /\ HandlersAreNext' /\ HandledInOrder'
  BY DEF IInv, LogTypeOK, ResolvedIsOver, HandlersAreNext, HandledInOrder, Over, lifecycle,
    broker, ConsumerRuns, To, Rest
<1> QED
  BY <1>1, <1>2, <1>3, <1>4 DEF IInv

(* A start() that fails leaves its connections as they are. *)
LEMMA StartFailsKeeps == ASSUME IInv, NEW s \in Servers, StartFails(s) PROVE IInv'
<1>1. LinksTypeOK'
  BY TopicsAre DEF IInv, LinksTypeOK, Starting, StartFails, To, Rest
<1>2. LinksFollow'
  BY DEF IInv, LinksTypeOK, LogTypeOK, LinksFollow, Starting, Idle, lifecycle, broker,
    StartFails, To, Rest
<1>3. InTurn'
  BY DEF IInv, LinksTypeOK, LinksFollow, InTurn, Starting, lifecycle, broker, StartFails,
    To, Rest
<1>4. LogTypeOK' /\ ResolvedIsOver' /\ HandlersAreNext' /\ HandledInOrder'
  BY DEF IInv, LogTypeOK, ResolvedIsOver, HandlersAreNext, HandledInOrder, Over, lifecycle,
    broker, StartFails, To, Rest
<1> QED
  BY <1>1, <1>2, <1>3, <1>4 DEF IInv

(* stop() begins with the consumer, if there is one. *)
LEMMA StopKeeps == ASSUME IInv, NEW s \in Servers, Stop(s) PROVE IInv'
<1>1. LinksTypeOK'
  BY DEF IInv, LinksTypeOK, Starting, lifecycle, broker, Stop, StopTo
<1>2. LinksFollow'
  BY DEF IInv, LinksTypeOK, LogTypeOK, LinksFollow, Starting, Idle, lifecycle, broker, Stop,
    StopTo
<1>3. InTurn'
  BY DEF IInv, LinksTypeOK, LinksFollow, InTurn, Starting, lifecycle, broker, Stop, StopTo
<1>4. LogTypeOK' /\ ResolvedIsOver' /\ HandlersAreNext' /\ HandledInOrder'
  BY DEF IInv, LogTypeOK, ResolvedIsOver, HandlersAreNext, HandledInOrder, Over, lifecycle,
    broker, Stop, StopTo
<1> QED
  BY <1>1, <1>2, <1>3, <1>4 DEF IInv

(* The consumer leaves its group with no handler running. *)
LEMMA ConsumerDisconnectsKeeps == ASSUME IInv, NEW s \in Servers, ConsumerDisconnects(s) PROVE IInv'
<1>1. LinksTypeOK'
  BY DEF IInv, LinksTypeOK, Starting, lifecycle, broker, ConsumerDisconnects, StopTo, Leave,
    Kept
<1>2. LogTypeOK'
  BY LeaveIdleKeeps DEF ConsumerDisconnects, Kept
<1>3. LinksFollow'
  BY DEF IInv, LinksTypeOK, LogTypeOK, LinksFollow, Starting, Idle, lifecycle, broker,
    ConsumerDisconnects, StopTo, Leave, Kept
<1>4. InTurn'
  BY DEF IInv, LinksTypeOK, LinksFollow, InTurn, Starting, lifecycle, broker,
    ConsumerDisconnects, StopTo, Leave, Kept
<1>5. ResolvedIsOver'
  BY LeaveIdleKeeps DEF ConsumerDisconnects, Kept
<1>6. HandlersAreNext'
  BY LeaveIdleKeeps DEF ConsumerDisconnects, Kept
<1>7. HandledInOrder'
  BY DEF IInv, HandledInOrder, Over, lifecycle, broker, ConsumerDisconnects, StopTo, Leave,
    Kept
<1> QED
  BY <1>1, <1>2, <1>3, <1>4, <1>5, <1>6, <1>7 DEF IInv

(* The producer goes last. *)
LEMMA ProducerDisconnectsKeeps == ASSUME IInv, NEW s \in Servers, ProducerDisconnects(s) PROVE IInv'
<1>1. LinksTypeOK'
  BY DEF IInv, LinksTypeOK, Starting, lifecycle, broker, ProducerDisconnects, StopTo, Kept
<1>2. LinksFollow'
  BY DEF IInv, LinksTypeOK, LogTypeOK, LinksFollow, Starting, Idle, lifecycle, broker,
    ProducerDisconnects, StopTo, Kept
<1>3. InTurn'
  BY DEF IInv, LinksTypeOK, LinksFollow, InTurn, Starting, lifecycle, broker,
    ProducerDisconnects, StopTo, Kept
<1>4. LogTypeOK' /\ ResolvedIsOver' /\ HandlersAreNext' /\ HandledInOrder'
  BY DEF IInv, LogTypeOK, ResolvedIsOver, HandlersAreNext, HandledInOrder, Over, lifecycle,
    broker, ProducerDisconnects, StopTo, Kept
<1> QED
  BY <1>1, <1>2, <1>3, <1>4 DEF IInv

(* A disconnect that rejects ends stop(). *)
LEMMA DisconnectFailsKeeps == ASSUME IInv, NEW s \in Servers, DisconnectFails(s) PROVE IInv'
<1>1. LinksTypeOK'
  BY DEF IInv, LinksTypeOK, Starting, lifecycle, broker, DisconnectFails, StopTo, Leave,
    Kept
<1>2. LogTypeOK'
  BY LeaveIdleKeeps DEF DisconnectFails, Kept, IInv, LogTypeOK
<1>3. LinksFollow'
  BY DEF IInv, LinksTypeOK, LogTypeOK, LinksFollow, Starting, Idle, lifecycle, broker,
    DisconnectFails, StopTo, Leave, Kept
<1>4. InTurn'
  BY DEF IInv, LinksTypeOK, LinksFollow, InTurn, Starting, lifecycle, broker,
    DisconnectFails, StopTo, Leave, Kept
<1>5. ResolvedIsOver'
  BY LeaveIdleKeeps DEF DisconnectFails, Kept, IInv, ResolvedIsOver, Over
<1>6. HandlersAreNext'
  BY LeaveIdleKeeps DEF DisconnectFails, Kept, IInv, HandlersAreNext, Over
<1>7. HandledInOrder'
  BY DEF IInv, HandledInOrder, Over, lifecycle, broker, DisconnectFails, StopTo, Leave, Kept
<1> QED
  BY <1>1, <1>2, <1>3, <1>4, <1>5, <1>6, <1>7 DEF IInv

(* A handled message is over, in its turn. *)
LEMMA HandlerResolvesKeeps == ASSUME IInv, NEW s \in Servers, HandlerResolves(s) PROVE IInv'
<1>1. LogTypeOK'
  BY DEF IInv, LogTypeOK, HandlersAreNext, lifecycle, broker, HandlerResolves, Live
<1>2. LinksFollow'
  BY DEF IInv, LinksTypeOK, LogTypeOK, LinksFollow, Starting, Idle, lifecycle, broker,
    HandlerResolves, Live
<1>3. ResolvedIsOver'
  BY DEF IInv, LogTypeOK, ResolvedIsOver, HandlersAreNext, Over, lifecycle, broker,
    HandlerResolves, Live
<1>4. HandlersAreNext'
  BY DEF IInv, LinksTypeOK, LogTypeOK, LinksFollow, ResolvedIsOver, HandlersAreNext, Over,
    Idle, lifecycle, broker, HandlerResolves, Live
<1>5. HandledInOrder'
  BY DEF IInv, LogTypeOK, HandlersAreNext, HandledInOrder, Over, lifecycle, broker,
    HandlerResolves, Live
<1>6. LinksTypeOK' /\ InTurn'
  BY DEF IInv, LinksTypeOK, InTurn, Over, lifecycle, broker, HandlerResolves, Live
<1> QED
  BY <1>1, <1>2, <1>3, <1>4, <1>5, <1>6 DEF IInv

(* A rejected message stays the next one. *)
LEMMA HandlerRejectsKeeps == ASSUME IInv, NEW s \in Servers, HandlerRejects(s) PROVE IInv'
<1>1. LogTypeOK'
  BY DEF IInv, LogTypeOK, HandlersAreNext, lifecycle, broker, HandlerRejects, Live
<1>2. LinksFollow'
  BY DEF IInv, LinksTypeOK, LogTypeOK, LinksFollow, Starting, Idle, lifecycle, broker,
    HandlerRejects, Live
<1>3. ResolvedIsOver'
  BY DEF IInv, LogTypeOK, ResolvedIsOver, HandlersAreNext, Over, lifecycle, broker,
    HandlerRejects, Live
<1>4. HandlersAreNext'
  BY DEF IInv, LinksTypeOK, LogTypeOK, LinksFollow, ResolvedIsOver, HandlersAreNext, Over,
    Idle, lifecycle, broker, HandlerRejects, Live
<1>5. LinksTypeOK' /\ InTurn' /\ HandledInOrder'
  BY DEF IInv, LinksTypeOK, InTurn, HandledInOrder, Over, lifecycle, broker, HandlerRejects,
    Live
<1> QED
  BY <1>1, <1>2, <1>3, <1>4, <1>5 DEF IInv

(* A consumer that ends leaves its topics as a member that is stopped does. *)
LEMMA RejectionEndsConsumerKeeps ==
    ASSUME IInv, NEW s \in Servers, RejectionEndsConsumer(s) PROVE IInv'
<1>1. LinksTypeOK' /\ InTurn' /\ HandledInOrder'
  BY DEF IInv, LinksTypeOK, InTurn, HandledInOrder, Over, RejectionEndsConsumer, Leave
<1>2. LinksFollow'
  BY DEF IInv, LinksTypeOK, LogTypeOK, LinksFollow, Starting, Idle, RejectionEndsConsumer,
    Leave
<1>3. LogTypeOK' /\ ResolvedIsOver' /\ HandlersAreNext'
  BY LeaveKeeps DEF RejectionEndsConsumer
<1> QED
  BY <1>1, <1>2, <1>3 DEF IInv

(* A crash takes a server back to its beginning. *)
LEMMA CrashKeeps == ASSUME IInv, NEW s \in Servers, Crash(s) PROVE IInv'
<1>1. LinksTypeOK'
  BY DEF IInv, LinksTypeOK, Starting, lifecycle, broker, Crash, To, StopTo
<1>2. LogTypeOK'
  BY DEF IInv, LogTypeOK, HandlersAreNext, lifecycle, broker, Crash, To, StopTo
<1>3. LinksFollow'
  BY DEF IInv, LinksTypeOK, LogTypeOK, LinksFollow, Starting, Idle, lifecycle, broker,
    Crash, To, StopTo
<1>4. InTurn'
  BY DEF IInv, LinksTypeOK, LinksFollow, InTurn, Starting, lifecycle, broker, Crash, To,
    StopTo
<1>5. ResolvedIsOver'
  BY DEF IInv, LogTypeOK, ResolvedIsOver, HandlersAreNext, Over, lifecycle, broker, Crash,
    To, StopTo
<1>6. HandlersAreNext'
  BY DEF IInv, LinksTypeOK, LogTypeOK, LinksFollow, ResolvedIsOver, HandlersAreNext, Over,
    Idle, lifecycle, broker, Crash, To, StopTo
<1>7. HandledInOrder'
  BY DEF IInv, HandledInOrder, Over, lifecycle, broker, Crash, To, StopTo
<1> QED
  BY <1>1, <1>2, <1>3, <1>4, <1>5, <1>6, <1>7 DEF IInv

(* A message at the end of the log leaves those before it alone. *)
LEMMA ArrivesKeeps == ASSUME IInv, NEW t \in Topics, NEW kind \in Kinds, Arrives(t, kind) PROVE IInv'
<1>1. LogTypeOK'
  BY DEF IInv, LogTypeOK, HandlersAreNext, lifecycle, broker, Arrives, Live
<1>2. ResolvedIsOver'
  BY DEF IInv, LogTypeOK, ResolvedIsOver, HandlersAreNext, Over, lifecycle, broker, Arrives,
    Live
<1>3. HandlersAreNext'
  BY DEF IInv, LinksTypeOK, LogTypeOK, LinksFollow, ResolvedIsOver, HandlersAreNext, Over,
    Idle, lifecycle, broker, Arrives, Live
<1>4. HandledInOrder'
  BY DEF IInv, LogTypeOK, HandlersAreNext, HandledInOrder, Over, lifecycle, broker, Arrives,
    Live
<1>5. LinksTypeOK' /\ LinksFollow' /\ InTurn'
  BY DEF IInv, LinksTypeOK, LinksFollow, InTurn, Over, lifecycle, broker, Arrives, Live
<1> QED
  BY <1>1, <1>2, <1>3, <1>4, <1>5 DEF IInv

(* A new owner begins where the group has committed. *)
LEMMA AssignKeeps == ASSUME IInv, NEW s \in Servers, NEW t \in Topics, Assign(s, t) PROVE IInv'
<1>1. LogTypeOK'
  BY DEF IInv, LogTypeOK, HandlersAreNext, lifecycle, broker, Assign, Live, Free
<1>2. ResolvedIsOver'
  BY DEF IInv, LogTypeOK, ResolvedIsOver, HandlersAreNext, Over, lifecycle, broker, Assign,
    Live, Free
<1>3. HandlersAreNext'
  BY DEF IInv, LinksTypeOK, LogTypeOK, LinksFollow, ResolvedIsOver, HandlersAreNext, Over,
    Idle, lifecycle, broker, Assign, Live, Free
<1>4. LinksTypeOK' /\ LinksFollow' /\ InTurn' /\ HandledInOrder'
  BY DEF IInv, LinksTypeOK, LinksFollow, InTurn, HandledInOrder, Over, lifecycle, broker,
    Assign, Live, Free
<1> QED
  BY <1>1, <1>2, <1>3, <1>4 DEF IInv

(* The message handed over is the first that is not over. *)
LEMMA DeliverKeeps == ASSUME IInv, NEW s \in Servers, NEW t \in Topics, Deliver(s, t) PROVE IInv'
<1>1. LogTypeOK'
  <2>1. position[t] \in Nat /\ Len(log[t]) \in Nat /\ position[t] + 1 <= Len(log[t])
    BY DEF IInv, LogTypeOK, Deliver, Incoming
  <2>2. position' \in [Topics -> Nat]
    <3>1. position' \in {position, [position EXCEPT ![t] = @ + 1]} /\ position[t] + 1 \in Nat
      BY <2>1 DEF Deliver
    <3> QED
      BY <3>1 DEF IInv, LogTypeOK
  <2>3. running' \in [Servers -> (Topics \X Nat) \cup {Idle}]
    <3>1. <<t, position[t] + 1>> \in Topics \X Nat
      BY <2>1
    <3> QED
      BY <3>1 DEF IInv, LogTypeOK, Deliver
  <2>4. \A u \in Topics : committed[u] <= position'[u] /\ position'[u] <= Len(log[u])
    <3> SUFFICES ASSUME NEW u \in Topics
                 PROVE  committed[u] <= position'[u] /\ position'[u] <= Len(log[u])
      OBVIOUS
    <3>1. committed[u] \in Nat /\ position[u] \in Nat /\ committed[u] <= position[u]
      BY DEF IInv, LogTypeOK
    <3>2. position[u] <= Len(log[u])
      BY DEF IInv, LogTypeOK
    <3>3. position'[u] = position[u] \/ (u = t /\ position'[u] = position[u] + 1)
      BY DEF IInv, LogTypeOK, Deliver
    <3> QED
      BY <2>1, <3>1, <3>2, <3>3
  <2> QED
    BY <2>2, <2>3, <2>4 DEF IInv, LogTypeOK, Deliver
<1>2. LinksFollow'
  BY DEF IInv, LinksTypeOK, LogTypeOK, LinksFollow, Starting, Idle, lifecycle, broker,
    Deliver, Live, Free, Incoming
<1>3. ResolvedIsOver'
  <2> SUFFICES ASSUME NEW u \in Topics, NEW n \in 1 .. position'[u] PROVE Over(u, n)'
    BY DEF ResolvedIsOver
  <2>1. n \in 1 .. position[u] \/ (u = t /\ n = position[t] + 1 /\ log[t][n] = "null")
    BY DEF IInv, LogTypeOK, Deliver
  <2> QED
    BY <2>1 DEF IInv, ResolvedIsOver, Over, Deliver
<1>4. HandlersAreNext'
  <2>1. CASE log[t][position[t] + 1] = "null"
    <3>1. owner[t] = s /\ running[s] = Idle
      BY DEF Deliver, Incoming, Free
    <3>2. \A r \in Servers : running[r] # Idle => r # s
      BY <3>1
    <3>3. /\ UNCHANGED <<log, owner, handled, running>>
          /\ \A u \in Topics : u # t => position'[u] = position[u]
      BY <2>1 DEF Deliver, IInv, LogTypeOK
    <3>4. \A r \in Servers : running[r] # Idle => running[r][1] \in Topics
      BY DEF IInv, LogTypeOK
    <3> QED
      BY <3>1, <3>2, <3>3, <3>4 DEF IInv, HandlersAreNext, Over
  <2>2. CASE log[t][position[t] + 1] # "null"
    <3> DEFINE m == <<t, position[t] + 1>>
    <3>1. running' = [running EXCEPT ![s] = m] /\ UNCHANGED <<log, owner, handled, position>>
      BY <2>2 DEF Deliver
    <3>2. \A r \in Servers : running'[r] = IF r = s THEN m ELSE running[r]
      BY <3>1 DEF IInv, LogTypeOK
    <3>3. position[t] + 1 \in 1 .. Len(log[t]) /\ position[t] \in Nat
      BY DEF IInv, LogTypeOK, Deliver, Incoming
    <3>4. \A k \in 1 .. position[t] : Over(t, k)
      BY DEF IInv, ResolvedIsOver
    <3>5. m[1] = t /\ m[2] = position[t] + 1
      OBVIOUS
    <3> QED
      BY <3>1, <3>2, <3>3, <3>4, <3>5 DEF IInv, HandlersAreNext, Over
  <2> QED
    BY <2>1, <2>2
<1>5. LinksTypeOK' /\ InTurn' /\ HandledInOrder'
  BY DEF IInv, LinksTypeOK, InTurn, HandledInOrder, Over, lifecycle, broker, Deliver, Live,
    Free, Incoming
<1> QED
  BY <1>1, <1>2, <1>3, <1>4, <1>5 DEF IInv

(* A lost topic goes back to what was committed. *)
LEMMA RebalanceKeeps == ASSUME IInv, NEW t \in Topics, Rebalance(t) PROVE IInv'
<1>1. LinksTypeOK'
  BY DEF IInv, LinksTypeOK, Starting, lifecycle, broker, Rebalance
<1>2. LogTypeOK'
  BY DEF IInv, LogTypeOK, HandlersAreNext, lifecycle, broker, Rebalance
<1>3. ResolvedIsOver'
  BY DEF IInv, LogTypeOK, ResolvedIsOver, HandlersAreNext, Over, lifecycle, broker,
    Rebalance
<1>4. HandlersAreNext'
  BY DEF IInv, LinksTypeOK, LogTypeOK, LinksFollow, ResolvedIsOver, HandlersAreNext, Over,
    Idle, lifecycle, broker, Rebalance
<1>5. LinksFollow' /\ InTurn' /\ HandledInOrder'
  BY DEF IInv, LinksFollow, InTurn, HandledInOrder, Over, lifecycle, broker, Rebalance
<1> QED
  BY <1>1, <1>2, <1>3, <1>4, <1>5 DEF IInv

(* What is committed was resolved. *)
LEMMA CommitKeeps == ASSUME IInv, NEW t \in Topics, Commit(t) PROVE IInv'
<1>1. LogTypeOK'
  BY DEF IInv, LogTypeOK, HandlersAreNext, lifecycle, broker, Commit, Live
<1>2. ResolvedIsOver'
  BY DEF IInv, LogTypeOK, ResolvedIsOver, HandlersAreNext, Over, lifecycle, broker, Commit,
    Live
<1>3. HandlersAreNext'
  BY DEF IInv, LinksTypeOK, LogTypeOK, LinksFollow, ResolvedIsOver, HandlersAreNext, Over,
    Idle, lifecycle, broker, Commit, Live
<1>4. LinksTypeOK' /\ LinksFollow' /\ InTurn' /\ HandledInOrder'
  BY DEF IInv, LinksTypeOK, LinksFollow, InTurn, HandledInOrder, Over, lifecycle, broker,
    Commit, Live
<1> QED
  BY <1>1, <1>2, <1>3, <1>4 DEF IInv

(* A producer sends what arrives as a good message. *)
LEMMA SendKeeps == ASSUME IInv, NEW s \in Servers, NEW t \in Topics, Send(s, t) PROVE IInv'
<1>1. Arrives(t, "good") /\ "good" \in Kinds
  BY DEF Send, Kinds
<1> QED
  BY <1>1, ArrivesKeeps

-----------------------------------------------------------------------------
(* The theorems *)

(* Nothing is connected, logged or handled at first. *)
LEMMA InitIInv == Init => IInv
<1> SUFFICES ASSUME Init PROVE IInv
  OBVIOUS
<1>1. LinksTypeOK
  BY DEF Init, LinksTypeOK
<1>2. LogTypeOK
  <2>1. <<>> \in Seq(Kinds) /\ Len(<<>>) = 0
    OBVIOUS
  <2>2. /\ log \in [Topics -> Seq(Kinds)] /\ handled \in [Topics -> SUBSET Nat]
        /\ \A t \in Topics : Len(log[t]) = 0 /\ handled[t] = {} /\ MaxLog[t] \in Nat
    BY <2>1 DEF Init
  <2> QED
    BY <2>2 DEF Init, LogTypeOK
<1>3. LinksFollow /\ InTurn
  BY DEF Init, LinksFollow, InTurn, Starting
<1>4. ResolvedIsOver /\ HandlersAreNext /\ HandledInOrder
  BY DEF Init, ResolvedIsOver, HandlersAreNext, HandledInOrder
<1> QED
  BY <1>1, <1>2, <1>3, <1>4 DEF IInv

(* Every step of the servers and of the broker keeps the invariant. *)
LEMMA NextKeeps == IInv /\ [Next]_vars => IInv'
<1> SUFFICES ASSUME IInv, [Next]_vars PROVE IInv'
  OBVIOUS
<1>1. ASSUME NEW s \in Servers, StartStep(s) \/ StartFails(s) PROVE IInv'
  BY <1>1, StartKeeps, ProvisionKeeps, ProducerConnectsKeeps, ConsumerConnectsKeeps,
    ConsumerRunsKeeps, StartFailsKeeps DEF StartStep
<1>2. ASSUME NEW s \in Servers, Stop(s) \/ StopStep(s) \/ DisconnectFails(s) PROVE IInv'
  BY <1>2, StopKeeps, ConsumerDisconnectsKeeps, ProducerDisconnectsKeeps, DisconnectFailsKeeps
    DEF StopStep
<1>3. ASSUME NEW s \in Servers,
             HandlerResolves(s) \/ HandlerRejects(s) \/ RejectionEndsConsumer(s) \/ Crash(s)
      PROVE  IInv'
  BY <1>3, HandlerResolvesKeeps, HandlerRejectsKeeps, RejectionEndsConsumerKeeps, CrashKeeps
<1>4. ASSUME NEW t \in Topics, NEW kind \in Kinds, Arrives(t, kind) PROVE IInv'
  BY <1>4, ArrivesKeeps
<1>5. ASSUME NEW t \in Topics, NEW s \in Servers, Send(s, t) \/ Assign(s, t) \/ Deliver(s, t) PROVE IInv'
  BY <1>5, SendKeeps, AssignKeeps, DeliverKeeps
<1>6. ASSUME NEW t \in Topics, Rebalance(t) \/ Commit(t) PROVE IInv'
  BY <1>6, RebalanceKeeps, CommitKeeps
<1>7. CASE UNCHANGED vars
  BY <1>7 DEF vars, lifecycle, broker, IInv, LinksTypeOK, LogTypeOK, LinksFollow, InTurn,
    ResolvedIsOver, HandlersAreNext, HandledInOrder, Over
<1> QED
  BY <1>1, <1>2, <1>3, <1>4, <1>5, <1>6, <1>7 DEF Next

(* The invariant holds for any servers, topics, messages and faults. *)
THEOREM Invariance == Spec => []IInv
  BY InitIInv, NextKeeps, PTL DEF Spec

(* Links, offsets, owners and handlers keep to their types. *)
THEOREM TypeCorrect == Spec => []TypeOK
<1>1. IInv => TypeOK
  BY DEF IInv, TypeOK
<1> QED
  BY Invariance, <1>1, PTL

(* A running handler finds a connected producer, on any number of servers. *)
THEOREM ProducerThere == Spec => []HandlersCanSend
<1>1. IInv => HandlersCanSend
  BY DEF IInv, LinksTypeOK, LinksFollow, InTurn, HandlersCanSend
<1> QED
  BY Invariance, <1>1, PTL

(* No offset is committed before its message is handled, whatever crashes or *)
(* is rebalanced, however often.                                             *)
THEOREM AtLeastOnce == Spec => []CommittedIsHandled
<1>1. IInv => CommittedIsHandled
  <2> SUFFICES ASSUME IInv, NEW t \in Topics, NEW n \in 1 .. committed[t] PROVE Over(t, n)
    BY DEF CommittedIsHandled, Over
  <2>1. n \in 1 .. position[t]
    BY DEF IInv, LogTypeOK
  <2> QED
    BY <2>1 DEF IInv, ResolvedIsOver
<1> QED
  BY Invariance, <1>1, PTL

(* No message is handled before those ahead of it in its topic. *)
THEOREM InOrder == Spec => []HandledInOrder
<1>1. IInv => HandledInOrder
  BY DEF IInv
<1> QED
  BY Invariance, <1>1, PTL

(* A stop() that resolves has left nothing connected. *)
THEOREM Disconnected == Spec => []StoppedMeansDisconnected
<1>1. IInv => StoppedMeansDisconnected
  BY DEF IInv, LinksFollow, InTurn, StoppedMeansDisconnected
<1> QED
  BY Invariance, <1>1, PTL
=============================================================================
