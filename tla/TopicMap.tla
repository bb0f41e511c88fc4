------------------------------ MODULE TopicMap ------------------------------
(***************************************************************************)
(* The server-owned table of topic names, class TopicMap of                *)
(* include/spraybus/server/topic_map.hpp.  A topic name is a member of     *)
(* Topics; a key is a uint64_t counted up from 1, which cannot wrap in any *)
(* execution of interest, so keys are naturals here.                       *)
(***************************************************************************)
EXTENDS Protocol

VARIABLES
  m_map,              \* topic name -> key, defined on the names seen so far
  m_next_key          \* the key generate_key() hands out next

topicMapVars == <<m_map, m_next_key>>

NoTopics == [t \in {} |-> 0]

(* Mutant: keys counted from 0.                                            *)
TopicMapInit_FromZero ==
  m_map = NoTopics /\ m_next_key = 0

TopicMapInit ==
  /\ m_map = NoTopics
  /\ m_next_key = 1

(* Mutant: the recorded key is not looked up.                              *)
KeyOf_Fresh(topic) == m_next_key

(* The key get_or_create returns: the one on record or the next one.       *)
KeyOf(topic) ==
  IF topic \in DOMAIN m_map THEN m_map[topic] ELSE m_next_key

(* Mutants: the counter is not advanced; a known name gets a new key.      *)
get_or_create_SameKey(topic) ==
  /\ m_map' = [t \in DOMAIN m_map \cup {topic} |-> KeyOf(t)]
  /\ UNCHANGED m_next_key
get_or_create_NewKey(topic) ==
  /\ m_next_key' = m_next_key + 1
  /\ m_map' = [t \in DOMAIN m_map \cup {topic} |->
                 IF t = topic THEN m_next_key ELSE m_map[t]]

get_or_create(topic) ==
  \/ /\ topic \in DOMAIN m_map
     /\ UNCHANGED topicMapVars
  \/ /\ topic \notin DOMAIN m_map
     /\ m_next_key' = m_next_key + 1
     /\ m_map' = [t \in DOMAIN m_map \cup {topic} |->
                    IF t = topic THEN m_next_key ELSE m_map[t]]

TopicMapTypeOK ==
  /\ DOMAIN m_map \subseteq Topics
  /\ m_map \in [DOMAIN m_map -> Nat]
  /\ m_next_key \in Nat \ {0}

(* One key per name and one name per key: a key never stands for two       *)
(* topics, none is the 0 of topic_request headers, and none lies ahead of  *)
(* the counter.                                                            *)
KeysUnique ==
  /\ \A t \in DOMAIN m_map : m_map[t] \in 1 .. m_next_key - 1
  /\ \A t, u \in DOMAIN m_map : m_map[t] = m_map[u] => t = u
=============================================================================
