--------------------------- MODULE RemoteDelivery ---------------------------
(***************************************************************************)
(* Observations and proposals that arrive from a paired peer device        *)
(* (agent/aether-device-runtime/src/lib.rs, with the acceptance test of    *)
(* agent/aether-device-core/src/remote.rs).                                *)
(*                                                                         *)
(* One peer numbers its messages of both kinds with one counter, as        *)
(* RemoteSource asks, stamps them with its own clock, which may be ahead,  *)
(* and sends them over a network that delays, reorders, duplicates and     *)
(* loses them; it may restart, and then counts from 1 again.  The          *)
(* runtime's registry is fixed when it is built, so the peer's pairing and *)
(* grant do not change.                                                    *)
(***************************************************************************)
EXTENDS Integers, Sequences, FiniteSets

CONSTANTS MaxSeq,       \* bound on the messages between restarts
          MaxTime,      \* bound on the clock
          MaxAhead,     \* how far the peer's clock may be ahead
          MaxInFlight,  \* bound on the messages in the network
          skew_ms       \* the skew window of the runtime

ASSUME RemoteAssumption == skew_ms \in Nat

VARIABLES grant,        \* the kinds the peer's pairing lets through
          now,          \* the clock, in the unit of skew_ms
          next_seq,     \* number of the peer's last message
          restarted,    \* has the peer restarted?  (it does so once)
          network,      \* messages in flight
          last_seq,     \* kind -> number of the last message accepted
          accepted      \* history: the messages accepted, with their age then

remoteVars == <<grant, now, next_seq, restarted, network, last_seq, accepted>>

RemoteDeliveryKind == {"Observation", "Proposal"}

RemoteInit == /\ grant \in SUBSET RemoteDeliveryKind
              /\ now = 0
              /\ next_seq = 0
              /\ restarted = FALSE
              /\ network = {}
              /\ last_seq = [k \in RemoteDeliveryKind |-> 0]
              /\ accepted = <<>>

\* The peer and the network.
Send(k, ahead) ==
    /\ next_seq < MaxSeq
    /\ Cardinality(network) < MaxInFlight
    /\ next_seq' = next_seq + 1
    /\ network' = network \union {[kind |-> k, seq |-> next_seq', timestamp |-> now + ahead]}
    /\ UNCHANGED <<grant, now, restarted, last_seq, accepted>>

Lose(m) == /\ network' = network \ {m}
           /\ UNCHANGED <<grant, now, next_seq, restarted, last_seq, accepted>>

TimePasses == /\ now < MaxTime
              /\ now' = now + 1
              /\ UNCHANGED <<grant, next_seq, restarted, network, last_seq, accepted>>

PeerRestarts == /\ ~ restarted
                /\ restarted' = TRUE
                /\ next_seq' = 0
                /\ UNCHANGED <<grant, now, network, last_seq, accepted>>

\* The difference of two times, not below zero: a stamp of the future is fresh.
saturating_sub(t, u) == IF t < u THEN 0 ELSE t - u

(* Mutant: the last message may come again. *)
AcceptDuplicate(m) == /\ m.kind \in grant
                      /\ m.seq >= last_seq[m.kind]
                      /\ saturating_sub(now, m.timestamp) <= skew_ms

accept_remote_delivery(m) == /\ m.kind \in grant
                             /\ m.seq > last_seq[m.kind]
                             /\ saturating_sub(now, m.timestamp) <= skew_ms

\* accept_observation and accept_proposal: the message is taken or rejected;
\* a duplicate of it stays in the network when it is delivered again later.
accept(m, again) ==
    /\ network' = IF again THEN network ELSE network \ {m}
    /\ IF accept_remote_delivery(m)
       THEN /\ last_seq' = [last_seq EXCEPT ![m.kind] = m.seq]
            /\ accepted' = Append(accepted, [kind |-> m.kind, seq |-> m.seq,
                                             age |-> now - m.timestamp])
       ELSE UNCHANGED <<last_seq, accepted>>
    /\ UNCHANGED <<grant, now, next_seq, restarted>>

RemoteNext == \/ \E k \in RemoteDeliveryKind, ahead \in 0..MaxAhead : Send(k, ahead)
              \/ \E m \in network : Lose(m) \/ \E again \in BOOLEAN : accept(m, again)
              \/ TimePasses
              \/ PeerRestarts

RemoteSpec == RemoteInit /\ [][RemoteNext]_remoteVars

-----------------------------------------------------------------------------
(* Whatever the network does and whenever the peer restarts, the messages   *)
(* of a kind are taken in the order of their numbers, each number at most   *)
(* once, none that is older than the skew window when it is taken, and none *)
(* of a kind the pairing does not grant; the number that later messages are *)
(* compared with is the highest one taken of their kind.                    *)
DeliveredInOrder ==
    /\ \A i, j \in DOMAIN accepted :
          i < j /\ accepted[i].kind = accepted[j].kind => accepted[i].seq < accepted[j].seq
    /\ \A i \in DOMAIN accepted : /\ accepted[i].kind \in grant
                                  /\ accepted[i].age <= skew_ms
                                  /\ accepted[i].seq <= last_seq[accepted[i].kind]
    /\ \A k \in RemoteDeliveryKind : last_seq[k] > 0 =>
          \E i \in DOMAIN accepted : accepted[i].kind = k /\ accepted[i].seq = last_seq[k]

(* The counter is one per peer (remote.rs:53-56, 112-117: a source older    *)
(* than "the highest `seq` the local agent has seen from this peer" is out  *)
(* of order): no message is taken after one of the same peer with a higher  *)
(* number.  The runtime compares each kind with its own last number, and    *)
(* takes a proposal that an observation has overtaken.                      *)
InOrderPerPeer ==
    \A i, j \in DOMAIN accepted : i < j => accepted[i].seq < accepted[j].seq
=============================================================================
