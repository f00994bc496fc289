-------------------------- MODULE MCAmqp091Broker --------------------------
(* Finite instances of Amqp091Broker.                                      *)
EXTENDS Amqp091Broker, TLC

CONSTANTS q1, q2

(* One direct and one fanout exchange over two queues, so that a message   *)
(* reaches one queue or both.                                              *)
MCTopology ==
  [exchanges |-> << [op |-> "exchange", name |-> "orders", kind |-> "direct"],
                    [op |-> "exchange", name |-> "events", kind |-> "fanout"] >>,
   queues    |-> << [op |-> "queue", queue |-> q1], [op |-> "queue", queue |-> q2] >>,
   bindings  |-> << [op |-> "bind", exchange |-> "orders", queue |-> q1, key |-> "placed"],
                    [op |-> "bind", exchange |-> "events", queue |-> q1, key |-> ""],
                    [op |-> "bind", exchange |-> "events", queue |-> q2, key |-> ""] >>]

MCTargets ==
  { [exchange |-> "orders", key |-> "placed"],
    [exchange |-> "events", key |-> ""],
    [exchange |-> "", key |-> q2] }

(* Publishers are interchangeable, and so are consumers.                   *)
Symmetry == Permutations(Publishers) \cup Permutations(Consumers)

(* Bound: with all four tags given out, deliveries are only acknowledged.  *)
FourthTag == tag <= 3 \/ \A t \in Tags : requeues[t] = 0 /\ discards[t] = 0

(* The smallest topology: one exchange bound to one queue.                 *)
MCSmallTopology ==
  [exchanges |-> << [op |-> "exchange", name |-> "orders", kind |-> "direct"] >>,
   queues    |-> << [op |-> "queue", queue |-> q1] >>,
   bindings  |-> << [op |-> "bind", exchange |-> "orders", queue |-> q1, key |-> "placed"] >>]

MCSmallTargets == { [exchange |-> "orders", key |-> "placed"] }
=============================================================================
