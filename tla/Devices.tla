------------------------------- MODULE Devices -------------------------------
(***************************************************************************)
(* The registry of peer devices (agent/aether-device-core/src/registry.rs, *)
(* pairing.rs) and the device.* commands of the control daemon             *)
(* (system/aether-system-core/src/main.rs).                                *)
(*                                                                         *)
(* The daemon serves one request at a time and keeps no pairing request of *)
(* its own: device.pair.complete brings both the request and the peer's    *)
(* acceptance.  A client may send it late, or again after an answer it did *)
(* not see; offers holds the devices for which some client has such a pair *)
(* that agrees and is not yet 60 s old.  Nothing ties it to a begin: it    *)
(* outlives a revoke, an unregister and a new registration of its device.  *)
(***************************************************************************)
EXTENDS Integers, FiniteSets

CONSTANTS Devices,              \* device ids
          DEVICE_REGISTRY_LIMIT \* 256 in the code

ASSUME DevicesAssumption == IsFiniteSet(Devices) /\ DEVICE_REGISTRY_LIMIT \in Nat

VARIABLES registry,     \* device -> state of its pairing, or Unregistered
          offers,       \* devices a client can send a valid completion for
          begun         \* history: devices begun since registered or revoked

devVars == <<registry, offers, begun>>

Unregistered == "Unregistered"
PairingState == {"Available", "Pairing", "Paired", "Cancelled", "Revoked", "Expired"}

DevInit == /\ registry = [d \in Devices |-> Unregistered]
           /\ offers = {}
           /\ begun = {}

Registered == {d \in Devices : registry[d] # Unregistered}

\* Advances the pairing of a registered device; any state may follow any.
transition(d, next) == /\ d \in Registered
                       /\ registry' = [registry EXCEPT ![d] = next]

\* device.register: refused for a known id and when the registry is full.
register(d) == /\ d \notin Registered
               /\ Cardinality(Registered) < DEVICE_REGISTRY_LIMIT
               /\ registry' = [registry EXCEPT ![d] = "Available"]
               /\ begun' = begun \ {d}
               /\ UNCHANGED offers

pair_begin(d) == /\ registry[d] \in {"Available", "Cancelled"}
                 /\ transition(d, "Pairing")
                 /\ begun' = begun \union {d}
                 /\ UNCHANGED offers

\* The peer accepts a request: code, fingerprint and device agree.
PeerAccepts(d) == /\ offers' = offers \union {d}
                  /\ UNCHANGED <<registry, begun>>

\* The request grows older than the 60 s.
RequestExpires(d) == /\ offers' = offers \ {d}
                     /\ UNCHANGED <<registry, begun>>

\* What device.pair.complete asks of the request and the acceptance.
validate_acceptance(d) == d \in offers

(* Mutant: any registered device can be completed. *)
CompleteUnchecked(d) ==
    /\ validate_acceptance(d)
    /\ transition(d, "Paired")
    /\ UNCHANGED <<offers, begun>>

\* Refused unless the device is pairing now; the client may send it again.
pair_complete(d) == /\ validate_acceptance(d)
                    /\ registry[d] = "Pairing"
                    /\ transition(d, "Paired")
                    /\ UNCHANGED <<offers, begun>>

revoke(d) == /\ transition(d, "Revoked")
             /\ begun' = begun \ {d}
             /\ UNCHANGED offers

unregister(d) == /\ d \in Registered
                 /\ registry' = [registry EXCEPT ![d] = Unregistered]
                 /\ begun' = begun \ {d}
                 /\ UNCHANGED offers

paired == {d \in Registered : registry[d] = "Paired"}

DevNext == \E d \in Devices : \/ register(d) \/ pair_begin(d) \/ pair_complete(d)
                              \/ revoke(d) \/ unregister(d)
                              \/ PeerAccepts(d) \/ RequestExpires(d)

DevSpec == DevInit /\ [][DevNext]_devVars

-----------------------------------------------------------------------------
(* A device is paired only while a device.pair.begin of its present         *)
(* registration stands unrevoked: a completion that arrives late or a       *)
(* second time, after a revoke or an unregister, pairs nothing by itself.   *)
(* It does pair once the device is registered and begun again, for an       *)
(* acceptance is checked for its age only; pairing.rs:62-65 says that after *)
(* a revoke "future pairings require a fresh handshake".  The registry      *)
(* stays within its limit.                                                  *)
PairedMeansBegun == /\ paired \subseteq begun
                    /\ Cardinality(Registered) <= DEVICE_REGISTRY_LIMIT
=============================================================================
