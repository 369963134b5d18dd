------------------------------ MODULE NatsClient ------------------------------
(***************************************************************************)
(* src/nats_bridge/nats_client.cpp: one connection attempt, one            *)
(* subscription, and publishing responses and tool calls.  A build without *)
(* NATS behaves like a client that never connected.  The server keeps the  *)
(* order of one connection; what is published may be lost before it gets   *)
(* there.                                                                  *)
(***************************************************************************)
EXTENDS Integers, Sequences

CONSTANTS RequestIds,
          MaxWire      \* bounds the messages the server has seen

VARIABLES conn,          \* "none" before the constructor, then "open" or "null"
          subscribed,    \* sub_; the callback kept with it is never called
          completing,    \* the response of which "completed" is still to be told
          wire,          \* what the server has seen: subjects and request ids
          lost           \* ids of which a done response was lost

natsVars == <<conn, subscribed, completing, wire, lost>>

Nobody == "nobody"

ASSUME NatsAssumption == MaxWire \in Nat /\ Nobody \notin RequestIds

NatsInit ==
  /\ conn = "none" /\ subscribed = FALSE
  /\ completing = Nobody /\ wire = <<>> /\ lost = {}

\* The constructor: there is no second attempt.
ConnectNats ==
  /\ conn = "none" /\ conn' \in {"open", "null"}
  /\ UNCHANGED <<subscribed, completing, wire, lost>>

\* InferenceEngine::start() subscribes when connected; the server may refuse.
SubscribeInference ==
  /\ conn = "open" /\ subscribed' \in {subscribed, TRUE}
  /\ UNCHANGED <<conn, completing, wire, lost>>

-----------------------------------------------------------------------------
(* Publishing *)

Publish(subject, id) ==
  /\ Len(wire) < MaxWire /\ wire' = Append(wire, [subject |-> subject, id |-> id])

\* publish_response(): nothing without a connection; a failure is reported on
\* the console only, and the completion is published all the same.
PublishResponse_CompletedFirst(id, done) ==
  /\ conn = "open" /\ completing = Nobody
  /\ IF done THEN Publish("inference.completed", id) ELSE Publish("inference.responses", id)
  /\ completing' = (IF done THEN id ELSE Nobody)
  /\ UNCHANGED <<conn, subscribed, lost>>

PublishResponse(id, done) ==
  /\ conn = "open" /\ completing = Nobody
  /\ \/ Publish("inference.responses", id) /\ UNCHANGED lost
     \/ UNCHANGED wire /\ lost' = IF done THEN lost \cup {id} ELSE lost
  /\ completing' = (IF done THEN id ELSE Nobody)
  /\ UNCHANGED <<conn, subscribed>>

PublishCompleted ==
  /\ completing # Nobody /\ completing' = Nobody
  /\ Publish("inference.completed", completing) \/ UNCHANGED wire
  /\ UNCHANGED <<conn, subscribed, lost>>

PublishToolCall(id) ==
  /\ conn = "open" /\ completing = Nobody
  /\ Publish("inference.tool_calls", id)
  /\ UNCHANGED <<conn, subscribed, completing, lost>>

NatsNext ==
  \/ ConnectNats \/ SubscribeInference
  \/ \E id \in RequestIds :
       \/ \E done \in BOOLEAN : PublishResponse(id, done)
       \/ PublishToolCall(id)
  \/ PublishCompleted

NatsSpec == NatsInit /\ [][NatsNext]_natsVars

-----------------------------------------------------------------------------
(* Properties *)

NatsTypeOK ==
  /\ conn \in {"none", "open", "null"} /\ subscribed \in BOOLEAN
  /\ Len(wire) \in 0..MaxWire /\ completing \in RequestIds \cup {Nobody}

\* Who hears that a request is completed has been able to hear its response
\* before, unless that very publication was lost.
CompletionFollowsResponse ==
  \A i \in 1..Len(wire) :
    wire[i].subject = "inference.completed" /\ wire[i].id \notin lost =>
      \E j \in 1..(i - 1) : wire[j] = [subject |-> "inference.responses", id |-> wire[i].id]

=============================================================================
