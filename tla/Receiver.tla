------------------------------ MODULE Receiver ------------------------------
(***************************************************************************)
(* What the clients rely on at the other end of the network (external; the *)
(* repository has the protocol, spec/v1.md, and no receiver): a payload is *)
(* applied as a whole, its absolute values replace what is shown, absent   *)
(* ones leave it alone, its events are recorded.                           *)
(*                                                                         *)
(* Events are numbered in staging order.  Everything else a payload        *)
(* carries (counters, statuses, data objects) is absolute state, of which  *)
(* only the age matters: `gauge` is the number of the newest staged value, *)
(* 0 when nothing is staged.                                               *)
(***************************************************************************)
EXTENDS Naturals, Sequences, FiniteSets, Functions

CONSTANTS MaxEvents,  \* bound: events staged
          MaxGauge    \* bound: absolute values staged

ASSUME ReceiverAssumption == MaxEvents \in Nat /\ MaxGauge \in Nat

VARIABLES
    arrived,    \* events the receiver has had
    shown       \* the absolute value NetCrunch shows

receiverVars == <<arrived, shown>>

Ids      == 1..MaxEvents
Gauges   == 0..MaxGauge
Payloads == [events : Seq(Ids), gauge : Gauges]
Unsent   == [events |-> <<>>, gauge |-> 0]

\* What an attempt comes back with: 2xx; a transport failure, 429 or 5xx; an
\* answer that is not (all of) HTTP; any other 4xx.
Replies  == {"none", "ok", "down", "cut", "rejected"}

ReceiverTypeOK == arrived \subseteq Ids /\ shown \in Gauges

ReceiverInit == arrived = {} /\ shown = 0

Apply(p) ==
    /\ arrived' = arrived \cup Range(p.events)
    /\ shown' = IF p.gauge = 0 THEN shown ELSE p.gauge
==============================================================================
