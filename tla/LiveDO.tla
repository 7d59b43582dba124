------------------------------- MODULE LiveDO -------------------------------
(***************************************************************************)
(* The live feed: one Durable Object that fans benchmark events out to the *)
(* dashboards connected over server-sent events                            *)
(* (src/live/performance-do.ts).  Its fetch and alarm handlers touch the   *)
(* maps in stretches without an await, which the object's single thread    *)
(* runs one at a time: each stretch is a step.                             *)
(***************************************************************************)
EXTENDS Integers, FiniteSets

CONSTANTS
  Conns,              \* stream controllers that may ever be created
  Ips, IpOf,          \* client addresses, and the address of each controller
  MAX_TOTAL_CLIENTS, MAX_PER_IP,
  MaxFaults           \* bound: storage failures and evictions of the object

ASSUME LiveDOAssumption ==
  /\ IsFiniteSet(Conns)
  /\ IpOf \in [Conns -> Ips]
  /\ MAX_TOTAL_CLIENTS \in Nat
  /\ MAX_PER_IP \in Nat
  /\ MaxFaults \in Nat

VARIABLES
  stream,    \* stream[c]: what has become of a controller's stream
  sessions,  \* the keys of the sessions map, whose values are IpOf
  ipCounts,  \* ipCounts[i]: 0 stands for no entry
  alarm,     \* whether an alarm is set in storage
  faults

vars == <<stream, sessions, ipCounts, alarm, faults>>

(* A broken stream is one whose client is gone: enqueue throws.  A         *)
(* cancelled one is broken and the runtime has said so.                    *)
Streams == {"none", "open", "broken", "cancelled"}

TypeOK ==
  /\ stream \in [Conns -> Streams]
  /\ sessions \in SUBSET Conns
  /\ ipCounts \in [Ips -> Nat]
  /\ alarm \in BOOLEAN
  /\ faults \in Nat

Init ==
  /\ stream = [c \in Conns |-> "none"]
  /\ sessions = {}
  /\ ipCounts = [i \in Ips |-> 0]
  /\ alarm = FALSE
  /\ faults = 0

-----------------------------------------------------------------------------
OfIp(i, S) == {c \in S : IpOf[c] = i}

(* Bug variants of operators, used only to confirm that the properties can *)
(* fail, end in _bug (or say which bug): here one client too many.         *)
HasRoom_bug(c) ==
  /\ Cardinality(sessions) <= MAX_TOTAL_CLIENTS
  /\ ipCounts[IpOf[c]] < MAX_PER_IP

(* handleSSE refuses a client over either limit, and otherwise registers   *)
(* it and sets the alarm; setAlarm may fail, which start() ignores.        *)
HasRoom(c) ==
  /\ Cardinality(sessions) < MAX_TOTAL_CLIENTS
  /\ ipCounts[IpOf[c]] < MAX_PER_IP

Register(c) ==
  /\ stream[c] = "none"
  /\ HasRoom(c)
  /\ stream' = [stream EXCEPT ![c] = "open"]
  /\ sessions' = sessions \cup {c}
  /\ ipCounts' = [ipCounts EXCEPT ![IpOf[c]] = @ + 1]

Connect(c) == Register(c) /\ alarm' = TRUE /\ UNCHANGED faults

ConnectUnalarmed(c) ==
  /\ Register(c)
  /\ faults < MaxFaults /\ faults' = faults + 1
  /\ UNCHANGED alarm

(* Counts out controllers that had been dropped before; and with no floor. *)
Drop_twice(S) ==
  /\ sessions' = sessions \ S
  /\ ipCounts' = [i \in Ips |->
       IF Cardinality(OfIp(i, S)) >= ipCounts[i] THEN 0
       ELSE ipCounts[i] - Cardinality(OfIp(i, S))]
Drop_negative(S) ==
  /\ sessions' = sessions \ S
  /\ ipCounts' = [i \in Ips |-> ipCounts[i] - Cardinality(OfIp(i, S))]

(* drop() of several controllers one after the other: those that are no    *)
(* longer in the map are left alone, a count never goes below 0.           *)
Drop(S) ==
  LET gone == S \cap sessions
  IN /\ sessions' = sessions \ gone
     /\ ipCounts' = [i \in Ips |->
          IF Cardinality(OfIp(i, gone)) >= ipCounts[i] THEN 0
          ELSE ipCounts[i] - Cardinality(OfIp(i, gone))]

(* The client goes away: an enqueue notices, or the runtime's cancel does. *)
Break(c) ==
  /\ stream[c] = "open"
  /\ stream' = [stream EXCEPT ![c] = "broken"]
  /\ UNCHANGED <<sessions, ipCounts, alarm, faults>>

Cancel(c) ==
  /\ stream[c] \in {"open", "broken"}
  /\ stream' = [stream EXCEPT ![c] = "cancelled"]
  /\ Drop({c})
  /\ UNCHANGED <<alarm, faults>>

Dead == {c \in sessions : stream[c] # "open"}

(* POST /publish: an event for everyone; the dead are dropped.             *)
Broadcast == Drop(Dead) /\ UNCHANGED <<stream, alarm, faults>>

(* Does not set the next alarm; and swallows the failed enqueue.           *)
Alarm_once   == alarm /\ Drop(Dead) /\ alarm' = FALSE /\ UNCHANGED <<stream, faults>>
Alarm_lenient == /\ alarm
                 /\ alarm' = (sessions # {})
                 /\ UNCHANGED <<stream, sessions, ipCounts, faults>>

(* The alarm fires (which unsets it): pings everyone, drops the dead, sets *)
(* the next alarm if anyone is left.                                       *)
Alarm ==
  /\ alarm
  /\ Drop(Dead)
  /\ alarm' = (sessions' # {})
  /\ UNCHANGED <<stream, faults>>

(* That setAlarm failed: the handler throws and the platform fires the     *)
(* same alarm again.                                                       *)
AlarmFails ==
  /\ alarm
  /\ faults < MaxFaults /\ faults' = faults + 1
  /\ Drop(Dead)
  /\ sessions' # {}
  /\ UNCHANGED <<stream, alarm>>

(* The platform evicts or restarts the object: both maps are in memory     *)
(* only, the alarm is in storage, and every stream ends.                   *)
Evict ==
  /\ faults < MaxFaults /\ faults' = faults + 1
  /\ sessions' = {}
  /\ ipCounts' = [i \in Ips |-> 0]
  /\ stream' = [c \in Conns |-> IF stream[c] = "none" THEN "none" ELSE "cancelled"]
  /\ UNCHANGED alarm

Next ==
  \/ \E c \in Conns : Connect(c) \/ ConnectUnalarmed(c) \/ Break(c) \/ Cancel(c)
  \/ Broadcast \/ Alarm \/ AlarmFails \/ Evict

(* An alarm that is set fires: every connect moves it 30 s ahead, but      *)
(* clients do not connect less than 30 s apart for ever (here Conns is     *)
(* finite).  Nothing makes the runtime report a lost client, nor a         *)
(* benchmark finish.                                                       *)
Spec == Init /\ [][Next]_vars /\ WF_vars(Alarm)

-----------------------------------------------------------------------------
(* Every way a connection can end gives back exactly the place it took:    *)
(* a client that both failed an enqueue and was cancelled is counted out   *)
(* once.  A leak here would in time refuse an address for ever.            *)
SessionsCounted ==
  \A i \in Ips : ipCounts[i] = Cardinality(OfIp(i, sessions))

(* The two limits hold for the connections themselves, not only for the    *)
(* counters that guard them.                                               *)
WithinLimits ==
  /\ Cardinality(sessions) <= MAX_TOTAL_CLIENTS
  /\ \A i \in Ips : Cardinality(OfIp(i, sessions)) <= MAX_PER_IP

(* As long as storage works, the object never keeps a session without an   *)
(* alarm to ping it, although the last session to leave lets the alarm     *)
(* lapse and the next one must set it again.                               *)
AlarmArmed == faults = 0 /\ sessions # {} => alarm

(* A dead session with an alarm pending is found out and gives its place   *)
(* back, even if no benchmark finishes and the runtime never reports it.   *)
DeadSessionsReleased ==
  \A c \in Conns : (c \in Dead /\ alarm) ~> (c \notin sessions)
=============================================================================
