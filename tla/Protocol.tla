------------------------------ MODULE Protocol ------------------------------
(***************************************************************************)
(* The packets of include/spraybus/networking/protocol.hpp as the rest of  *)
(* the system sees them: message type, topic key and payload of a Message. *)
(* Origin, version and the reserved word are written by every packet and   *)
(* read by nobody, so they are left out.  "short" is a packet that is      *)
(* shorter than the 16-byte header, "unknown" any type value without a     *)
(* case of its own.                                                        *)
(***************************************************************************)
EXTENDS Naturals

CONSTANTS
  Topics,             \* topic names
  Payloads,           \* user payloads
  Empty               \* the empty payload

(* The packets that are on the wire: what the payload is goes by the type. *)
Packets ==
  [type: {"topic_request", "topic_response"}, topic_key: Nat, payload: Topics]
    \cup [type: {"publish", "fanout"}, topic_key: Nat, payload: Payloads]
    \cup [type: {"subscribe", "unsubscribe", "short", "unknown"}, topic_key: Nat,
          payload: {Empty}]

(* Constructor::construct: a header followed by the payload.               *)
construct(type, topic_key, payload) ==
  [type |-> type, topic_key |-> topic_key, payload |-> payload]

topic_request(topic) == construct("topic_request", 0, topic)
topic_response(key, topic) == construct("topic_response", key, topic)
publish(key, payload) == construct("publish", key, payload)
subscribe(key) == construct("subscribe", key, Empty)
unsubscribe(key) == construct("unsubscribe", key, Empty)
fanout(key, payload) == construct("fanout", key, payload)
=============================================================================
