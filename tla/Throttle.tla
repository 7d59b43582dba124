------------------------------ MODULE Throttle ------------------------------
(***************************************************************************)
(* The two limiters an administrator's login passes, for one address: the  *)
(* sliding window that every isolate keeps in its memory                   *)
(* (src/utils/rate-limit.ts, used by src/api/routes.ts) and the row of     *)
(* login_attempts that the isolates share (src/db/login-throttle.ts, used  *)
(* by src/api/admin/index.ts).                                             *)
(*                                                                         *)
(* Every database statement of a login is a step of its own, between which *)
(* other logins run, and fails whenever it likes.  An isolate can lose its *)
(* memory at any time.  A unit of time is minutes: a login, which takes    *)
(* seconds, is over within its unit.                                       *)
(***************************************************************************)
EXTENDS Integers, FiniteSets, SequencesExt

CONSTANTS
  Isolates,
  Logins,        \* logins that can be under way at the same time
  MAX_ATTEMPTS,  \* 5, of both limiters
  WINDOW,        \* 15 minutes, of both limiters; a block lasts as long
  None,
  MaxTime,       \* bound: the clock
  MaxLogins      \* bound: logins that pass the window in memory

VARIABLES
  now,
  bucket,        \* bucket[i]: when isolate i let logins pass, oldest first
  row,           \* the row of the address, or None
  login,         \* login[l]: where it is, and the row it has read
  told,          \* the last answer that asked to wait, while nobody has tried since
  passed         \* logins that have passed the window in memory

vars == <<now, bucket, row, login, told, passed>>

Row  == [attempts : Nat, first : 0..MaxTime, until : 1..(MaxTime + WINDOW) \cup {None}]
Done == [stage |-> "done", prior |-> None]

TypeOK ==
  /\ now \in 0..MaxTime
  /\ bucket \in [Isolates -> BoundedSeq(0..MaxTime, MAX_ATTEMPTS)]
  /\ row \in Row \cup {None}
  /\ login \in [Logins -> [stage : {"done", "check", "compare", "record", "write"},
                           prior : Row \cup {None}]]
  /\ told \in [by : Isolates \cup {"row"}, until : Nat] \cup {None}

Init ==
  /\ now = 0
  /\ bucket = [i \in Isolates |-> <<>>]
  /\ row = None
  /\ login = [l \in Logins |-> Done]
  /\ told = None
  /\ passed = 0

Pass ==
  /\ now < MaxTime
  /\ \A l \in Logins : login[l] = Done
  /\ now' = now + 1
  /\ UNCHANGED <<bucket, row, login, told, passed>>

Evict(i) ==
  /\ bucket' = [bucket EXCEPT ![i] = <<>>]
  /\ UNCHANGED <<now, row, login, told, passed>>

(* The answer is worth keeping if no other login can change what it says.  *)
Refuse(l, by, wait) ==
  /\ login' = [login EXCEPT ![l] = Done]
  /\ told' = IF \A k \in Logins \ {l} : login[k] = Done
               THEN [by |-> by, until |-> now + wait] ELSE None

Goto(l, stage) == login' = [login EXCEPT ![l] = [Done EXCEPT !.stage = stage]]

-----------------------------------------------------------------------------
(* checkRateLimit.  Timestamps are appended as time goes on, so those that *)
(* its filter keeps are the last ones.                                     *)
Recent(times) ==
  LET kept == Cardinality({k \in DOMAIN times : now - times[k] < WINDOW})
  IN  SubSeq(times, Len(times) - kept + 1, Len(times))

Request_bug(l, i) ==
  LET recent == Recent(bucket[i])
  IN
  /\ login[l] = Done
  /\ IF Len(recent) > MAX_ATTEMPTS
       THEN /\ Refuse(l, i, recent[1] + WINDOW - now)
            /\ bucket' = [bucket EXCEPT ![i] = recent]
            /\ UNCHANGED passed
       ELSE /\ passed < MaxLogins
            /\ passed' = passed + 1
            /\ Goto(l, "check")
            /\ told' = None
            /\ bucket' = [bucket EXCEPT ![i] = Append(recent, now)]
  /\ UNCHANGED <<now, row>>

Request(l, i) ==
  LET recent == Recent(bucket[i])
  IN
  /\ login[l] = Done
  /\ IF Len(recent) >= MAX_ATTEMPTS
       THEN /\ Refuse(l, i, recent[1] + WINDOW - now)
            /\ bucket' = [bucket EXCEPT ![i] = recent]
            /\ UNCHANGED passed
       ELSE /\ passed < MaxLogins
            /\ passed' = passed + 1
            /\ Goto(l, "check")
            /\ told' = None
            /\ bucket' = [bucket EXCEPT ![i] = Append(recent, now)]
  /\ UNCHANGED <<now, row>>

(* decideThrottle: how long a row makes a login wait.                      *)
Wait_bug(r) ==
  IF r.attempts >= MAX_ATTEMPTS /\ r.first + WINDOW > now THEN r.first + WINDOW - now
  ELSE IF r.until # None /\ r.until > now THEN r.until - now
  ELSE 0

Wait(r) ==
  IF r.until # None /\ r.until > now THEN r.until - now
  ELSE IF r.attempts >= MAX_ATTEMPTS /\ r.first + WINDOW > now THEN r.first + WINDOW - now
  ELSE 0

(* A row that is missing, or cannot be read, does not block.               *)
Check(l) ==
  /\ login[l].stage = "check"
  /\ IF row # None /\ Wait(row) > 0
       THEN Refuse(l, "row", Wait(row))
       ELSE Goto(l, "compare") /\ UNCHANGED told
  /\ UNCHANGED <<now, bucket, row, passed>>

CheckBlind(l) ==
  /\ login[l].stage = "check"
  /\ Goto(l, "compare")
  /\ UNCHANGED <<now, bucket, row, told, passed>>

(* The right password clears the row, if the database lets it.             *)
Succeed(l) ==
  /\ login[l].stage = "compare"
  /\ Goto(l, "done")
  /\ row' \in {row, None}
  /\ UNCHANGED <<now, bucket, told, passed>>

(* A wrong one is recorded: a read, then a write.                          *)
Mistake(l) ==
  /\ login[l].stage = "compare"
  /\ Goto(l, "record")
  /\ UNCHANGED <<now, bucket, row, told, passed>>

RecordRead(l) ==
  /\ login[l].stage = "record"
  /\ \E prior \in {row, None} :
       login' = [login EXCEPT ![l].stage = "write", ![l].prior = prior]
  /\ UNCHANGED <<now, bucket, row, told, passed>>

Recorded(prior) ==
  LET fresh    == prior # None /\ now - prior.first < WINDOW
      attempts == IF fresh THEN prior.attempts + 1 ELSE 1
  IN  [attempts |-> attempts,
       first    |-> IF fresh THEN prior.first ELSE now,
       until    |-> IF attempts > MAX_ATTEMPTS THEN now + WINDOW ELSE None]

RecordWrite(l) ==
  /\ login[l].stage = "write"
  /\ row' \in {row, Recorded(login[l].prior)}
  /\ Goto(l, "done")
  /\ UNCHANGED <<now, bucket, told, passed>>

-----------------------------------------------------------------------------
Next ==
  \/ Pass
  \/ \E i \in Isolates : Evict(i)
  \/ \E l \in Logins : \/ \E i \in Isolates : Request(l, i)
                       \/ Check(l) \/ CheckBlind(l) \/ Succeed(l) \/ Mistake(l)
                       \/ RecordRead(l) \/ RecordWrite(l)

Spec == Init /\ [][Next]_vars

-----------------------------------------------------------------------------
(* Whoever waits as long as an answer asked for is not refused again by    *)
(* the limiter that asked: it said the whole wait, whatever earlier logins *)
(* on other isolates, some of them at the same time, had left in the row.  *)
WaitSuffices ==
  told # None /\ now >= told.until =>
    IF told.by = "row"
      THEN row = None \/ Wait(row) = 0
      ELSE Len(Recent(bucket[told.by])) < MAX_ATTEMPTS
=============================================================================
