----------------------------- MODULE Aggregates -----------------------------
(***************************************************************************)
(* The aggregate tables: buckets of runs by start time, computed by the    *)
(* cron that opens each bucket for the new bucket and for the one before,  *)
(* by the administrator for any bucket still kept, and the retention of    *)
(* runs and aggregates (src/index.ts scheduled, src/db/queries.ts          *)
(* aggregateWindow and cleanupRetention, src/api/admin/maintenance.ts).    *)
(*                                                                         *)
(* The hourly and the ten-minute table are the same code over different    *)
(* windows; this is one of them.  An aggregate row is abstracted to the    *)
(* set of runs it was computed from.  Time counts ticks, SLOT to a bucket. *)
(* POST /admin/fix-tps, which deletes hourly rows of impossible figures    *)
(* until their bucket is aggregated again by hand, is not modelled.        *)
(***************************************************************************)
EXTENDS Naturals, Sequences

CONSTANTS
  Runs,           \* runs that may ever be made
  SLOT,           \* ticks in a bucket
  RAW_KEEP,       \* buckets that runs are kept for
  AGG_KEEP,       \* buckets that aggregates are kept for
  DAY,            \* buckets in a day
  MaxAdmin,       \* bound: aggregations asked for by the administrator
  Horizon,        \* bound: the last tick
  RunSpan,        \* bound: ticks between the start of a run and its storage
  MaxFaults       \* bound: failing D1 calls, killed and missing invocations

VARIABLES
  now,
  run,      \* run[r]: when it started and was stored, and where it is
  agg,      \* agg[b]: the runs that bucket b's row counts, {} if there is no row
  job,      \* job[i]: what an aggregation is doing
  fired,    \* the last bucket whose cron has been started or missed
  closed,   \* history: buckets whose closing aggregation was completed
  byHand,   \* history: buckets that the administrator aggregated
  admins, faults

vars == <<now, run, agg, job, fired, closed, byHand, admins, faults>>

Bucket(t) == t \div SLOT
Buckets   == 0 .. Bucket(Horizon)
Jobs      == {"cron", "admin"}
NotYet    == [st |-> "none", start |-> 0, stored |-> 0]
Idle      == [pc |-> "idle", todo |-> <<>>, got |-> {}]

TypeOK ==
  /\ now \in 0 .. Horizon
  /\ run \in [Runs -> [st : {"none", "running", "stored", "deleted"},
                       start : 0 .. Horizon, stored : 0 .. Horizon]]
  /\ agg \in [Buckets -> SUBSET Runs]
  /\ job \in [Jobs -> [pc : {"idle", "read", "write", "clean"}, todo : Seq(Buckets),
                       got : SUBSET Runs]]
  /\ closed \subseteq Buckets /\ byHand \subseteq Buckets

Init ==
  /\ now = 0
  /\ run = [r \in Runs |-> NotYet]
  /\ agg = [b \in Buckets |-> {}]
  /\ job = [i \in Jobs |-> Idle]
  /\ fired = 0
  /\ closed = {} /\ byHand = {}
  /\ admins = 0 /\ faults = 0

-----------------------------------------------------------------------------
(* Runs and time.                                                          *)

StartRun(r) ==
  /\ run[r].st = "none"
  /\ run' = [run EXCEPT ![r] = [st |-> "running", start |-> now, stored |-> now]]
  /\ UNCHANGED <<now, agg, job, fired, closed, byHand, admins, faults>>

(* insertBenchmarkRun, after the probe: started_at is in the past.         *)
StoreRun(r) ==
  /\ run[r].st = "running"
  /\ run' = [run EXCEPT ![r].st = "stored", ![r].stored = now]
  /\ UNCHANGED <<now, agg, job, fired, closed, byHand, admins, faults>>

(* Time passes: no run lasts longer than RunSpan, and an invocation of the *)
(* cron ends, or is killed, before the next one is due.                    *)
Tick ==
  /\ now < Horizon
  /\ \A r \in Runs : run[r].st = "running" => now < run[r].start + RunSpan
  /\ Bucket(now + 1) > Bucket(now) => job["cron"].pc = "idle" /\ fired = Bucket(now)
  /\ now' = now + 1
  /\ UNCHANGED <<run, agg, job, fired, closed, byHand, admins, faults>>

-----------------------------------------------------------------------------
(* Aggregations.                                                           *)

(* The cron of a bucket: the bucket just begun, then the one before, both  *)
(* from the clock at its start.                                            *)
FireCron ==
  /\ job["cron"].pc = "idle"
  /\ fired < Bucket(now)
  /\ fired' = Bucket(now)
  /\ job' = [job EXCEPT !["cron"] = [pc |-> "read", todo |-> <<Bucket(now), Bucket(now) - 1>>,
                                     got |-> {}]]
  /\ UNCHANGED <<now, run, agg, closed, byHand, admins, faults>>

(* An invocation that never happens.                                       *)
MissCron ==
  /\ fired < Bucket(now)
  /\ faults < MaxFaults
  /\ faults' = faults + 1
  /\ fired' = Bucket(now)
  /\ UNCHANGED <<now, run, agg, job, closed, byHand, admins>>

(* POST /admin/reaggregate: an hour of the retention window.               *)
Reaggregate ==
  /\ job["admin"].pc = "idle"
  /\ admins < MaxAdmin
  /\ admins' = admins + 1
  /\ \E b \in Buckets :
       /\ b <= Bucket(now) /\ b + AGG_KEEP >= Bucket(now)
       /\ job' = [job EXCEPT !["admin"] = [pc |-> "read", todo |-> <<b>>, got |-> {}]]
       /\ byHand' = byHand \cup {b}
  /\ UNCHANGED <<now, run, agg, fired, closed, faults>>

(* The runs of the window, by when they started.                           *)
Window_bug(b) == {r \in Runs : /\ run[r].st = "stored"
                               /\ run[r].start \in b * SLOT .. (b + 1) * SLOT - 2}

Window(b) == {r \in Runs : /\ run[r].st = "stored"
                           /\ run[r].start \in b * SLOT .. (b + 1) * SLOT - 1}

(* One window is done: the cron goes on to the other one, then to the      *)
(* retention.                                                              *)
Turn(i) ==
  [pc |-> IF Len(job[i].todo) > 1 THEN "read" ELSE IF i = "cron" THEN "clean" ELSE "idle",
   todo |-> Tail(job[i].todo), got |-> {}]

Closes(i) == IF i = "cron" /\ Len(job[i].todo) = 1 THEN {Head(job[i].todo)} ELSE {}

(* aggregateWindow reads the window; without runs it writes nothing.       *)
ReadWindow(i) ==
  /\ job[i].pc = "read"
  /\ LET got == Window(Head(job[i].todo))
     IN  IF got = {}
           THEN job' = [job EXCEPT ![i] = Turn(i)] /\ closed' = closed \cup Closes(i)
           ELSE job' = [job EXCEPT ![i].pc = "write", ![i].got = got] /\ UNCHANGED closed
  /\ UNCHANGED <<now, run, agg, fired, byHand, admins, faults>>

(* INSERT OR REPLACE.                                                      *)
WriteRow(i) ==
  /\ job[i].pc = "write"
  /\ agg' = [agg EXCEPT ![Head(job[i].todo)] = job[i].got]
  /\ job' = [job EXCEPT ![i] = Turn(i)]
  /\ closed' = closed \cup Closes(i)
  /\ UNCHANGED <<now, run, fired, byHand, admins, faults>>

(* A failed statement ends the cron's aggregations but not its retention;  *)
(* a kill ends it all.                                                     *)
Abort(i) ==
  /\ job[i].pc # "idle"
  /\ faults < MaxFaults
  /\ faults' = faults + 1
  /\ \E pc \in IF i = "cron" /\ job[i].pc # "clean" THEN {"clean", "idle"} ELSE {"idle"} :
       job' = [job EXCEPT ![i] = [Idle EXCEPT !.pc = pc]]
  /\ UNCHANGED <<now, run, agg, fired, closed, byHand, admins>>

(* cleanupRetention, once a day.                                           *)
Clean ==
  /\ job["cron"].pc = "clean"
  /\ IF Bucket(now) % DAY = 0
       THEN /\ run' = [r \in Runs |->
                         IF run[r].st = "stored" /\ run[r].start + RAW_KEEP * SLOT < now
                           THEN [run[r] EXCEPT !.st = "deleted"] ELSE run[r]]
            /\ agg' = [b \in Buckets |-> IF b * SLOT + AGG_KEEP * SLOT < now THEN {} ELSE agg[b]]
       ELSE UNCHANGED <<run, agg>>
  /\ job' = [job EXCEPT !["cron"] = Idle]
  /\ UNCHANGED <<now, fired, closed, byHand, admins, faults>>

-----------------------------------------------------------------------------
Next ==
  \/ Tick \/ FireCron \/ MissCron \/ Reaggregate \/ Clean
  \/ \E r \in Runs : StartRun(r) \/ StoreRun(r)
  \/ \E i \in Jobs : ReadWindow(i) \/ WriteRow(i) \/ Abort(i)

Spec == Init /\ [][Next]_vars

-----------------------------------------------------------------------------
Kept(b) == b * SLOT + AGG_KEEP * SLOT >= now

(* A run that was stored before its bucket ended is counted in that        *)
(* bucket's row from the closing aggregation until the row's own retention *)
(* ends: no later aggregation and no deletion of runs takes it out again.  *)
(* Buckets that the administrator aggregates by hand are excepted: a late  *)
(* write of an early read, or a window whose runs are partly deleted,      *)
(* replaces the row by a smaller one.                                      *)
TimelyRunsCounted ==
  \A r \in Runs :
    LET its == Bucket(run[r].start)
    IN  /\ run[r].st \in {"stored", "deleted"}
        /\ run[r].stored < (its + 1) * SLOT
        /\ its \in closed \ byHand /\ Kept(its)
        => r \in agg[its]

(* "tolerant to late arrivals" (index.ts): a run that is stored while the  *)
(* next bucket is open is in its bucket's row once that bucket's cron, and *)
(* with it the second of the two aggregations of the row, is through.      *)
LateRunsCounted ==
  \A r \in Runs :
    LET its == Bucket(run[r].start)
    IN  /\ run[r].st = "stored" /\ run[r].stored < (its + 2) * SLOT
        /\ its + 1 \in closed
        => r \in agg[its]
=============================================================================
