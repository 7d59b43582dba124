-------------------------- MODULE OperationsProofs --------------------------
(***************************************************************************)
(* What the administrator's playground and page, the login throttle, the   *)
(* registry's filters and the aggregates claim to show is so, for any      *)
(* values of the constants.                                                *)
(***************************************************************************)
EXTENDS Operations, WatchProofs, FiniteSetTheorems, SequenceTheorems

-----------------------------------------------------------------------------
(* Playground.                                                             *)

(* Thinking mode means the full budget, in the form and in the badges of   *)
(* the test under way or shown.                                            *)
Describes(r) ==
  /\ used.key = r.key
  /\ used.url = (r.url # None)
  /\ used.thinking => r.max = G!THINKING

BadgeInvariant ==
  /\ G!TypeOK
  /\ form.thinking => form.max = G!THINKING
  /\ request # None => Describes(request)
  /\ outcome # None => Describes(outcome.of)

LEMMA InitBadges == G!Init => BadgeInvariant
<1> SUFFICES ASSUME G!Init PROVE BadgeInvariant
  OBVIOUS
<1>1. /\ form \in [provider : {None}, model : {None}, url : {None}, key : BOOLEAN,
                   max : {1024}, thinking : {FALSE}, prev : {None}]
      /\ endpoints = {} /\ options = {} /\ autoPicked = FALSE /\ request = None
      /\ outcome = None /\ used = G!NoBadge
  BY DEF G!Init
<1>2. form \in G!Form /\ ~form.thinking
  <2>1. 1024 \in Budgets
    BY PlaygroundAssumption
  <2>2. /\ form = [provider |-> form.provider, model |-> form.model, url |-> form.url,
                   key |-> form.key, max |-> form.max, thinking |-> form.thinking,
                   prev |-> form.prev]
        /\ form.provider = None /\ form.model = None /\ form.url = None /\ form.key \in BOOLEAN
        /\ form.max = 1024 /\ form.thinking = FALSE /\ form.prev = None
    BY <1>1
  <2> QED
    BY <2>1, <2>2 DEF G!Form
<1>3. G!TypeOK
  BY <1>1, <1>2 DEF G!TypeOK, G!NoBadge
<1> QED
  BY <1>1, <1>2, <1>3 DEF BadgeInvariant

(* Steps that only edit the form, with or without the effect that picks a  *)
(* model.                                                                  *)
LEMMA FormEdited ==
  ASSUME BadgeInvariant, UNCHANGED <<request, outcome, used>>,
         form' \in G!Form, form'.thinking => form'.max = G!THINKING,
         endpoints' \subseteq Registry, options' \subseteq Testable, autoPicked' \in BOOLEAN
  PROVE  BadgeInvariant'
BY DEF BadgeInvariant, Describes, G!TypeOK

LEMMA SettleKeeps ==
  ASSUME BadgeInvariant, NEW f \in G!Form, f.thinking => f.max = G!THINKING,
         NEW opts \in SUBSET Testable, NEW ends, G!Settle(f, opts, ends)
  PROVE  /\ form' \in G!Form /\ (form'.thinking => form'.max = G!THINKING)
         /\ autoPicked' \in BOOLEAN
<1>1. CASE form' = f /\ UNCHANGED autoPicked
  BY <1>1 DEF BadgeInvariant, G!TypeOK
<1>2. CASE autoPicked' = TRUE /\ \E m \in G!Picks(opts) :
             form' = [f EXCEPT !.model = m,
                               !.provider = IF ends = {} \/ ProviderOf[m] \in ends
                                              THEN ProviderOf[m] ELSE @]
  <2>1. PICK m \in Testable :
          form' = [f EXCEPT !.model = m,
                            !.provider = IF ends = {} \/ ProviderOf[m] \in ends
                                           THEN ProviderOf[m] ELSE @]
    BY <1>2 DEF G!Picks
  <2>2. ProviderOf[m] \in Registry
    BY PlaygroundAssumption
  <2>3. form' \in G!Form /\ form'.thinking = f.thinking /\ form'.max = f.max
    BY <2>1, <2>2 DEF G!Form
  <2> QED
    BY <1>2, <2>3
<1> QED
  BY <1>1, <1>2 DEF G!Settle

LEMMA BadgeStep ==
  ASSUME BadgeInvariant, [G!Next]_(G!vars)
  PROVE  BadgeInvariant'
<1> USE DEF BadgeInvariant
<1>0. /\ form \in G!Form /\ options \subseteq Testable /\ endpoints \subseteq Registry
      /\ autoPicked \in BOOLEAN
  BY DEF G!TypeOK
<1>1. CASE G!LoadProviders
  <2>1. PICK q \in Registry :
          G!Settle([form EXCEPT !.provider = IF @ = None THEN q ELSE @], options, Registry)
    BY <1>1 DEF G!LoadProviders
  <2> DEFINE f == [form EXCEPT !.provider = IF @ = None THEN q ELSE @]
  <2>2. f \in G!Form /\ (f.thinking => f.max = G!THINKING)
    BY <1>0 DEF G!Form
  <2> HIDE DEF f
  <2> QED
    BY <1>0, <1>1, <2>1, <2>2, SettleKeeps, FormEdited DEF G!LoadProviders, f
<1>2. CASE G!LoadModels
  <2>1. options' \in SUBSET Testable /\ G!Settle(form, options', endpoints)
    BY <1>2 DEF G!LoadModels
  <2> QED
    BY <1>0, <1>2, <2>1, SettleKeeps, FormEdited DEF G!LoadModels
<1>3. ASSUME NEW q \in Registry, G!ChangeProvider(q)
      PROVE  BadgeInvariant'
  <2>1. PICK m \in Testable \cup {None} :
          G!Settle([form EXCEPT !.provider = q, !.url = None, !.model = m], options, endpoints)
    BY <1>0, <1>3 DEF G!ChangeProvider, G!Picks
  <2> DEFINE f == [form EXCEPT !.provider = q, !.url = None, !.model = m]
  <2>2. f \in G!Form /\ (f.thinking => f.max = G!THINKING)
    BY <1>0 DEF G!Form
  <2> HIDE DEF f
  <2> QED
    BY <1>0, <1>3, <2>1, <2>2, SettleKeeps, FormEdited DEF G!ChangeProvider, G!page, f
<1>4. ASSUME NEW m \in Testable \cup {None}, G!EditModel(m)
      PROVE  BadgeInvariant'
  <2> DEFINE f == [form EXCEPT !.model = m]
  <2>1. f \in G!Form /\ (f.thinking => f.max = G!THINKING)
    BY <1>0 DEF G!Form
  <2>2. G!Settle(f, options, endpoints)
    BY <1>4 DEF G!EditModel
  <2> HIDE DEF f
  <2> QED
    BY <1>0, <1>4, <2>1, <2>2, SettleKeeps, FormEdited DEF G!EditModel, G!page
<1>5. ASSUME NEW m \in Testable, G!ChooseModel(m)
      PROVE  BadgeInvariant'
  <2> DEFINE f == [form EXCEPT !.model = m, !.provider = ProviderOf[m]]
  <2>0. ProviderOf[m] \in Registry
    BY PlaygroundAssumption
  <2>1. f \in G!Form /\ (f.thinking => f.max = G!THINKING)
    BY <1>0, <2>0 DEF G!Form
  <2>2. G!Settle(f, options, endpoints)
    BY <1>5 DEF G!ChooseModel
  <2> HIDE DEF f
  <2> QED
    BY <1>0, <1>5, <2>1, <2>2, SettleKeeps, FormEdited DEF G!ChooseModel, G!page
<1>6. ASSUME NEW u \in G!Urls \cup {None}, G!EditUrl(u)
      PROVE  BadgeInvariant'
  <2>1. form' \in G!Form /\ (form'.thinking => form'.max = G!THINKING)
    BY <1>0, <1>6 DEF G!EditUrl, G!Form
  <2> QED
    BY <1>0, <1>6, <2>1, FormEdited DEF G!EditUrl, G!page
<1>7. ASSUME NEW k \in BOOLEAN, G!SetKey(k)
      PROVE  BadgeInvariant'
  <2>1. form' \in G!Form /\ (form'.thinking => form'.max = G!THINKING)
    BY <1>0, <1>7 DEF G!SetKey, G!Form
  <2> QED
    BY <1>0, <1>7, <2>1, FormEdited DEF G!SetKey, G!page
<1>8. ASSUME NEW n \in Budgets, G!SetBudget(n)
      PROVE  BadgeInvariant'
  <2>1. form' \in G!Form /\ ~form'.thinking
    BY <1>0, <1>8 DEF G!SetBudget, G!Form
  <2> QED
    BY <1>0, <1>8, <2>1, FormEdited DEF G!SetBudget, G!page
<1>9. CASE G!ToggleThinking
  <2>1. CASE form.thinking
    <3>1. form' \in G!Form /\ ~form'.thinking
      BY <1>0, <1>9, <2>1 DEF G!ToggleThinking, G!Form
    <3> QED
      BY <1>0, <1>9, <3>1, FormEdited DEF G!ToggleThinking, G!page
  <2>2. CASE ~form.thinking
    <3>1. form' \in G!Form /\ form'.max = G!THINKING
      BY <1>0, <1>9, <2>2 DEF G!ToggleThinking, G!Form
    <3> QED
      BY <1>0, <1>9, <3>1, FormEdited DEF G!ToggleThinking, G!page
  <2> QED
    BY <2>1, <2>2
<1>10. CASE G!Run
  <2>1. /\ request' = [stage |-> "sent", provider |-> form.provider, model |-> form.model,
                       url |-> form.url, key |-> form.key, max |-> form.max]
        /\ outcome' = None
        /\ used' = [key |-> form.key, url |-> form.url # None, thinking |-> form.thinking]
        /\ UNCHANGED <<endpoints, options, form, autoPicked>>
    BY <1>10 DEF G!Run
  <2>2. request' \in G!Request
    BY <1>0, <2>1 DEF G!Form, G!Request
  <2>3. used' \in [key : BOOLEAN, url : BOOLEAN, thinking : BOOLEAN]
    BY <1>0, <2>1 DEF G!Form
  <2>4. Describes(request)'
    BY <2>1 DEF Describes
  <2> QED
    BY <2>1, <2>2, <2>3, <2>4 DEF G!TypeOK
<1>11. CASE G!Measure
  <2>1. /\ request' = [request EXCEPT !.stage = "measuring"] /\ request # None
        /\ UNCHANGED <<endpoints, options, form, autoPicked, outcome, used>>
    BY <1>11 DEF G!Measure
  <2>2. request \in G!Request
    BY <2>1 DEF G!TypeOK
  <2>3. /\ request' \in G!Request /\ request'.key = request.key
        /\ request'.url = request.url /\ request'.max = request.max
    BY <2>1, <2>2 DEF G!Request
  <2> QED
    BY <2>1, <2>3 DEF G!TypeOK, Describes
<1>12. ASSUME NEW kind \in {"result", "invalid", "cooling", "failed"},
              request # None, G!Ended(kind)
       PROVE  BadgeInvariant'
  <2>1. /\ outcome' = [kind |-> kind, of |-> request] /\ request' = None
        /\ UNCHANGED <<endpoints, options, form, autoPicked, used>>
    BY <1>12 DEF G!Ended
  <2>2. request \in G!Request
    BY <1>12 DEF G!TypeOK
  <2> QED
    BY <1>12, <2>1, <2>2 DEF G!TypeOK, Describes
<1>13. CASE G!Refuse \/ G!Answer \/ G!Fail
  BY <1>12, <1>13 DEF G!Refuse, G!Answer, G!Fail
<1>14. CASE UNCHANGED G!vars
  BY <1>14 DEF G!vars, G!TypeOK, Describes
<1> QED
  BY <1>1, <1>2, <1>3, <1>4, <1>5, <1>6, <1>7, <1>8, <1>9, <1>10, <1>11, <1>13, <1>14
  DEF G!Next, G!Serve

LEMMA BadgesFollow == BadgeInvariant => G!BadgesDescribeResult
BY DEF BadgeInvariant, Describes, G!BadgesDescribeResult, G!TypeOK

-----------------------------------------------------------------------------
(* The login throttle.                                                     *)

(* What the limiters keep lies in the past, and a block reaches beyond the *)
(* window that began with it.                                              *)
Begun(r) ==
  /\ r.first <= now
  /\ r.until # None => r.first + WINDOW <= r.until

(* An answer that is kept was the last word: every login is over, and what *)
(* the limiter has stored ends when the answer said.                       *)
LastWord ==
  /\ \A l \in Logins : login[l] = T!Done
  /\ told.by \in Isolates /\ bucket[told.by] # <<>> => bucket[told.by][1] + WINDOW = told.until
  /\ told.by = "row" /\ throttled # None =>
       /\ throttled.first + WINDOW <= told.until
       /\ throttled.until # None => throttled.until <= told.until

ThrottleInvariant ==
  /\ T!TypeOK
  /\ \A i \in Isolates : \A k \in DOMAIN bucket[i] : bucket[i][k] <= now
  /\ throttled # None => Begun(throttled)
  /\ \A l \in Logins : login[l].prior # None => Begun(login[l].prior)
  /\ told # None => LastWord

(* A bucket of the memory is a bounded sequence.                           *)
LEMMA BucketType ==
  ASSUME ThrottleInvariant, NEW i \in Isolates
  PROVE  /\ bucket[i] \in Seq(0..MaxTime)
         /\ Len(bucket[i]) \in 0..MAX_ATTEMPTS
BY ThrottleAssumption DEF ThrottleInvariant, T!TypeOK, T!BoundedSeq, T!SeqOf

LEMMA Timestamps ==
  ASSUME NEW s \in Seq(0..MaxTime)
  PROVE  /\ DOMAIN s = 1..Len(s) /\ Len(s) \in Nat
         /\ \A k \in 1..Len(s) : s[k] \in 0..MaxTime /\ s[k] \in Nat
BY ThrottleAssumption

LEMMA BucketMade ==
  ASSUME NEW s \in Seq(0..MaxTime), Len(s) <= MAX_ATTEMPTS
  PROVE  s \in T!BoundedSeq(0..MaxTime, MAX_ATTEMPTS)
<1>1. Len(s) \in 0..MAX_ATTEMPTS /\ s \in [1..Len(s) -> 0..MaxTime]
  BY ThrottleAssumption
<1> QED
  BY <1>1 DEF T!BoundedSeq, T!SeqOf

(* The recent timestamps are the last ones of a bucket, and fewer than all *)
(* as soon as one is not recent.                                           *)
LEMMA RecentIsShorter ==
  ASSUME NEW times \in Seq(0..MaxTime), now \in Nat
  PROVE  LET recent == T!Recent(times)
         IN  /\ recent \in Seq(0..MaxTime) /\ Len(recent) <= Len(times)
             /\ \A k \in DOMAIN recent : \E m \in DOMAIN times : recent[k] = times[m]
             /\ (\E k \in DOMAIN times : now - times[k] >= WINDOW) => Len(recent) < Len(times)
<1> DEFINE live == {k \in DOMAIN times : now - times[k] < WINDOW}
<1> DEFINE kept == T!Cardinality(live)
<1>1. /\ DOMAIN times = 1..Len(times) /\ Len(times) \in Nat
      /\ \A k \in 1..Len(times) : times[k] \in 0..MaxTime /\ times[k] \in Nat
  BY Timestamps
<1>2. IsFiniteSet(1..Len(times)) /\ Cardinality(1..Len(times)) = Len(times)
  BY <1>1, FS_Interval
<1>3. T!Cardinality(live) = Cardinality(live)
  BY DEF T!Cardinality, Cardinality
<1>4. kept \in Nat /\ kept <= Len(times)
  BY <1>1, <1>2, <1>3, FS_Subset, FS_CardinalityType
<1>5. (\E k \in DOMAIN times : now - times[k] >= WINDOW) => kept < Len(times)
  <2> SUFFICES ASSUME NEW k \in DOMAIN times, now - times[k] >= WINDOW
               PROVE  kept < Len(times)
    OBVIOUS
  <2>1. times[k] \in Nat
    BY <1>1
  <2>2. k \notin live
    BY <2>1, ThrottleAssumption
  <2>3. live \in SUBSET (1..Len(times)) /\ live # 1..Len(times)
    BY <1>1, <2>2
  <2>4. Cardinality(live) <= Len(times) /\ Cardinality(live) # Len(times)
    BY <1>2, <2>3, FS_Subset
  <2> QED
    BY <1>1, <1>3, <1>4, <2>4
<1>6. T!Recent(times) = SubSeq(times, Len(times) - kept + 1, Len(times))
  BY DEF T!Recent
<1> HIDE DEF live, kept
<1>7. /\ T!Recent(times) \in Seq(0..MaxTime)
      /\ Len(T!Recent(times)) = kept
      /\ \A k \in 1..kept : T!Recent(times)[k] = times[Len(times) - kept + k]
  <2>1. \A k \in Len(times) - kept + 1 .. Len(times) : times[k] \in 0..MaxTime
    BY <1>1, <1>4
  <2>2. Len(times) - kept + 1 \in Int /\ Len(times) \in Int
    BY <1>1, <1>4
  <2> DEFINE m == Len(times) - kept + 1
  <2>3. /\ SubSeq(times, m, Len(times)) \in Seq(0..MaxTime)
        /\ Len(SubSeq(times, m, Len(times)))
             = IF m <= Len(times) THEN Len(times) - m + 1 ELSE 0
        /\ \A k \in 1 .. Len(times) - m + 1 :
             SubSeq(times, m, Len(times))[k] = times[m + k - 1]
    BY <2>1, <2>2, SubSeqProperties
  <2>4. /\ Len(times) - m + 1 = kept /\ (m <= Len(times) <=> kept >= 1)
        /\ \A k \in 1..kept : m + k - 1 = Len(times) - kept + k
    BY <1>1, <1>4
  <2> QED
    BY <1>4, <1>6, <2>3, <2>4
<1>8. DOMAIN T!Recent(times) = 1..kept
  BY <1>7
<1>9. \A k \in 1..kept : Len(times) - kept + k \in 1..Len(times)
  BY <1>1, <1>4
<1> QED
  BY <1>1, <1>4, <1>5, <1>7, <1>8, <1>9

LEMMA InitThrottle == T!Init => ThrottleInvariant
<1> SUFFICES ASSUME T!Init PROVE ThrottleInvariant
  OBVIOUS
<1>1. << >> \in T!BoundedSeq(0..MaxTime, MAX_ATTEMPTS)
  <2>1. << >> \in Seq(0..MaxTime) /\ Len(<< >>) = 0 /\ 0 <= MAX_ATTEMPTS
    BY ThrottleAssumption
  <2> QED
    BY <2>1, BucketMade
<1>2. /\ now = 0 /\ throttled = None /\ told = None
      /\ bucket = [i \in Isolates |-> << >>] /\ login = [l \in Logins |-> T!Done]
  BY DEF T!Init
<1>3. T!TypeOK
  BY <1>1, <1>2, ThrottleAssumption DEF T!TypeOK, T!Done
<1> QED
  BY <1>2, <1>3 DEF ThrottleInvariant, T!Done

(* A refusal is kept only if every other login is over.                    *)
LEMMA Refused ==
  ASSUME ThrottleInvariant, NEW l \in Logins, NEW by \in Isolates \cup {"row"}, NEW wait \in Int,
         now + wait \in Nat, T!Refuse(l, by, wait)
  PROVE  /\ login' \in [Logins -> [stage : {"done", "check", "compare", "record", "write"},
                                   prior : T!Row \cup {None}]]
         /\ \A k \in Logins : login'[k].prior # None => login[k].prior # None /\ login'[k] = login[k]
         /\ told' \in [by : Isolates \cup {"row"}, until : Nat] \cup {None}
         /\ told' # None => /\ told' = [by |-> by, until |-> now + wait]
                            /\ \A k \in Logins : login'[k] = T!Done
<1>1. /\ login' = [login EXCEPT ![l] = T!Done]
      /\ told' = IF \A k \in Logins \ {l} : login[k] = T!Done
                   THEN [by |-> by, until |-> now + wait] ELSE None
  BY DEF T!Refuse
<1>2. login \in [Logins -> [stage : {"done", "check", "compare", "record", "write"},
                            prior : T!Row \cup {None}]]
  BY DEF ThrottleInvariant, T!TypeOK
<1>3. T!Done \in [stage : {"done", "check", "compare", "record", "write"},
                  prior : T!Row \cup {None}] /\ T!Done.prior = None
  BY DEF T!Done
<1> QED
  BY <1>1, <1>2, <1>3

(* A login goes on, not to the writing of a row.                           *)
LEMMA GoneOn ==
  ASSUME ThrottleInvariant, NEW l \in Logins,
         NEW stage \in {"done", "check", "compare", "record"}, T!Goto(l, stage)
  PROVE  /\ login' \in [Logins -> [stage : {"done", "check", "compare", "record", "write"},
                                   prior : T!Row \cup {None}]]
         /\ \A k \in Logins : login'[k].prior # None => login[k].prior # None /\ login'[k] = login[k]
<1>1. login' = [login EXCEPT ![l] = [T!Done EXCEPT !.stage = stage]]
  BY DEF T!Goto
<1>2. login \in [Logins -> [stage : {"done", "check", "compare", "record", "write"},
                            prior : T!Row \cup {None}]]
  BY DEF ThrottleInvariant, T!TypeOK
<1>3. [T!Done EXCEPT !.stage = stage] = [stage |-> stage, prior |-> None]
  BY DEF T!Done
<1> QED
  BY <1>1, <1>2, <1>3

(* While an answer is kept no login is under way.                          *)
LEMMA NobodyIsTrying ==
  ASSUME ThrottleInvariant, NEW l \in Logins, login[l].stage # "done"
  PROVE  told = None
BY DEF ThrottleInvariant, LastWord, T!Done

LEMMA RecordedIsBegun ==
  ASSUME now \in 0..MaxTime,
         NEW prior \in T!Row \cup {None}, prior # None => Begun(prior)
  PROVE  T!Recorded(prior) \in T!Row /\ Begun(T!Recorded(prior))
<1>1. CASE prior # None /\ now - prior.first < WINDOW
  <2>1. prior.attempts \in Nat /\ prior.first \in 0..MaxTime /\ prior.first <= now
    BY <1>1 DEF T!Row, Begun
  <2>2. T!Recorded(prior) = [attempts |-> prior.attempts + 1, first |-> prior.first,
          until |-> IF prior.attempts + 1 > MAX_ATTEMPTS THEN now + WINDOW ELSE None]
    BY <1>1 DEF T!Recorded
  <2>3. now + WINDOW \in 1..(MaxTime + WINDOW) /\ prior.first + WINDOW <= now + WINDOW
    BY <2>1, ThrottleAssumption
  <2> QED
    BY <2>1, <2>2, <2>3 DEF T!Row, Begun
<1>2. CASE ~(prior # None /\ now - prior.first < WINDOW)
  <2>1. T!Recorded(prior) = [attempts |-> 1, first |-> now,
          until |-> IF 1 > MAX_ATTEMPTS THEN now + WINDOW ELSE None]
    BY <1>2 DEF T!Recorded
  <2>2. ~(1 > MAX_ATTEMPTS)
    BY ThrottleAssumption
  <2> QED
    BY <2>1, <2>2 DEF T!Row, Begun
<1> QED
  BY <1>1, <1>2

(* A login passes, or is refused by, the window in an isolate's memory.    *)
LEMMA RequestKeeps ==
  ASSUME ThrottleInvariant, NEW l \in Logins, NEW i \in Isolates, T!Request(l, i)
  PROVE  ThrottleInvariant'
<1> DEFINE recent == T!Recent(bucket[i])
<1>1. /\ now \in 0..MaxTime /\ now \in Nat /\ now' = now /\ throttled' = throttled
      /\ bucket \in [Isolates -> T!BoundedSeq(0..MaxTime, MAX_ATTEMPTS)]
      /\ throttled \in T!Row \cup {None}
  BY ThrottleAssumption DEF T!Request, ThrottleInvariant, T!TypeOK
<1>2. bucket[i] \in Seq(0..MaxTime) /\ Len(bucket[i]) \in 0..MAX_ATTEMPTS
  BY BucketType
<1>3. /\ recent \in Seq(0..MaxTime) /\ Len(recent) <= Len(bucket[i])
      /\ \A k \in DOMAIN recent : \E m \in DOMAIN bucket[i] : recent[k] = bucket[i][m]
  BY <1>1, <1>2, RecentIsShorter
<1>4. Len(recent) \in Nat /\ \A k \in DOMAIN recent : recent[k] \in 0..MaxTime /\ recent[k] <= now
  <2>1. \A m \in DOMAIN bucket[i] : bucket[i][m] <= now
    BY DEF ThrottleInvariant
  <2> HIDE DEF recent
  <2>2. Len(recent) \in Nat /\ \A k \in DOMAIN recent : recent[k] \in 0..MaxTime
    BY <1>3, Timestamps
  <2>3. \A k \in DOMAIN recent : recent[k] <= now
    BY <1>3, <2>1
  <2> QED
    BY <2>2, <2>3
<1>5. \A k \in Logins : login[k].prior # None => Begun(login[k].prior)
  BY DEF ThrottleInvariant
<1>6. CASE Len(recent) >= MAX_ATTEMPTS
  <2>1. /\ T!Refuse(l, i, recent[1] + WINDOW - now)
        /\ bucket' = [bucket EXCEPT ![i] = recent]
    BY <1>6 DEF T!Request
  <2>2. recent # << >> /\ 1 \in DOMAIN recent
    BY <1>3, <1>4, <1>6, ThrottleAssumption
  <2>3. recent[1] \in Nat /\ recent[1] + WINDOW - now \in Int
    BY <1>1, <1>4, <2>2, ThrottleAssumption
  <2>4. now + (recent[1] + WINDOW - now) = recent[1] + WINDOW /\ recent[1] + WINDOW \in Nat
    BY <1>1, <2>3, ThrottleAssumption
  <2> HIDE DEF recent
  <2>5. recent \in T!BoundedSeq(0..MaxTime, MAX_ATTEMPTS)
    <3>1. Len(recent) <= MAX_ATTEMPTS
      BY <1>2, <1>3, <1>4, ThrottleAssumption
    <3> QED
      BY <1>3, <3>1, BucketMade
  <2>6. bucket' \in [Isolates -> T!BoundedSeq(0..MaxTime, MAX_ATTEMPTS)] /\ bucket'[i] = recent
    BY <1>1, <2>1, <2>5
  <2>7. /\ login' \in [Logins -> [stage : {"done", "check", "compare", "record", "write"},
                                  prior : T!Row \cup {None}]]
        /\ \A k \in Logins : login'[k].prior # None => login[k].prior # None /\ login'[k] = login[k]
        /\ told' \in [by : Isolates \cup {"row"}, until : Nat] \cup {None}
        /\ told' # None => /\ told' = [by |-> i, until |-> recent[1] + WINDOW]
                           /\ \A k \in Logins : login'[k] = T!Done
    BY <2>1, <2>3, <2>4, Refused
  <2>8. T!TypeOK'
    BY <1>1, <2>6, <2>7 DEF T!TypeOK
  <2>9. \A j \in Isolates : \A k \in DOMAIN bucket'[j] : bucket'[j][k] <= now'
    BY <1>1, <1>4, <2>1 DEF ThrottleInvariant
  <2>10. told' # None => LastWord'
    BY <2>6, <2>7, ThrottleAssumption DEF LastWord
  <2> QED
    BY <1>1, <1>5, <2>7, <2>8, <2>9, <2>10 DEF ThrottleInvariant, Begun
<1>7. CASE ~(Len(recent) >= MAX_ATTEMPTS)
  <2>1. /\ T!Goto(l, "check") /\ told' = None
        /\ bucket' = [bucket EXCEPT ![i] = Append(recent, now)]
    BY <1>7 DEF T!Request
  <2> HIDE DEF recent
  <2>2. /\ Append(recent, now) \in Seq(0..MaxTime) /\ Len(Append(recent, now)) <= MAX_ATTEMPTS
        /\ \A k \in DOMAIN Append(recent, now) : Append(recent, now)[k] <= now
    BY <1>1, <1>3, <1>4, <1>7, ThrottleAssumption
  <2>3. Append(recent, now) \in T!BoundedSeq(0..MaxTime, MAX_ATTEMPTS)
    BY <2>2, BucketMade
  <2>4. bucket' \in [Isolates -> T!BoundedSeq(0..MaxTime, MAX_ATTEMPTS)]
    BY <1>1, <2>1, <2>3
  <2>5. \A j \in Isolates : \A k \in DOMAIN bucket'[j] : bucket'[j][k] <= now'
    BY <1>1, <2>1, <2>2 DEF ThrottleInvariant
  <2>6. /\ login' \in [Logins -> [stage : {"done", "check", "compare", "record", "write"},
                                  prior : T!Row \cup {None}]]
        /\ \A k \in Logins : login'[k].prior # None => login[k].prior # None /\ login'[k] = login[k]
    BY <2>1, GoneOn
  <2> QED
    BY <1>1, <1>5, <2>1, <2>4, <2>5, <2>6 DEF ThrottleInvariant, T!TypeOK, Begun
<1> QED
  BY <1>6, <1>7

(* A row that blocks says how long, for the block as for the window.       *)
LEMMA WaitCovers ==
  ASSUME now \in Nat, NEW r \in T!Row, Begun(r), T!Wait(r) > 0
  PROVE  /\ T!Wait(r) \in Int /\ now + T!Wait(r) \in Nat
         /\ r.first + WINDOW <= now + T!Wait(r)
         /\ r.until # None => r.until <= now + T!Wait(r)
<1>1. /\ r.first \in Nat /\ r.first + WINDOW \in Nat
      /\ r.until # None => r.until \in Nat /\ r.first + WINDOW <= r.until
  BY ThrottleAssumption DEF T!Row, Begun
<1>2. CASE r.until # None /\ r.until > now
  <2>1. T!Wait(r) = r.until - now
    BY <1>2 DEF T!Wait
  <2> QED
    BY <1>1, <1>2, <2>1
<1>3. CASE ~(r.until # None /\ r.until > now)
  <2>1. T!Wait(r) = r.first + WINDOW - now
    <3>1. T!Wait(r) # 0
      OBVIOUS
    <3> QED
      BY <1>3, <3>1 DEF T!Wait
  <2> QED
    BY <1>1, <1>3, <2>1, ThrottleAssumption
<1> QED
  BY <1>2, <1>3

(* The row of the address makes a login wait, or not.                      *)
LEMMA CheckKeeps ==
  ASSUME ThrottleInvariant, NEW l \in Logins, T!Check(l)
  PROVE  ThrottleInvariant'
<1>1. /\ now \in 0..MaxTime /\ now \in Nat /\ UNCHANGED <<now, bucket, throttled>>
      /\ throttled \in T!Row \cup {None}
      /\ throttled # None => Begun(throttled)
  BY ThrottleAssumption DEF T!Check, ThrottleInvariant, T!TypeOK
<1>2. told = None
  BY NobodyIsTrying DEF T!Check
<1>3. CASE throttled # None /\ T!Wait(throttled) > 0
  <2> DEFINE wait == T!Wait(throttled)
  <2>1. T!Refuse(l, "row", wait)
    BY <1>3 DEF T!Check
  <2>2. throttled \in T!Row /\ Begun(throttled)
    BY <1>1, <1>3
  <2>3. wait \in Int /\ now + wait \in Nat
    BY <1>1, <1>3, <2>2, WaitCovers
  <2>4. /\ throttled.first + WINDOW <= now + wait
        /\ throttled.until # None => throttled.until <= now + wait
    BY <1>1, <1>3, <2>2, WaitCovers
  <2> HIDE DEF wait
  <2>5. /\ login' \in [Logins -> [stage : {"done", "check", "compare", "record", "write"},
                                  prior : T!Row \cup {None}]]
        /\ \A k \in Logins : login'[k].prior # None => login[k].prior # None /\ login'[k] = login[k]
        /\ told' \in [by : Isolates \cup {"row"}, until : Nat] \cup {None}
        /\ told' # None => /\ told' = [by |-> "row", until |-> now + wait]
                           /\ \A k \in Logins : login'[k] = T!Done
    BY <2>1, <2>3, Refused
  <2>6. told' # None => LastWord'
    BY <1>1, <2>4, <2>5, ThrottleAssumption DEF LastWord
  <2> QED
    BY <1>1, <2>5, <2>6 DEF ThrottleInvariant, T!TypeOK, Begun
<1>4. CASE ~(throttled # None /\ T!Wait(throttled) > 0)
  <2>1. T!Goto(l, "compare") /\ told' = None
    BY <1>2, <1>4 DEF T!Check
  <2> QED
    BY <1>1, <2>1, GoneOn DEF ThrottleInvariant, T!TypeOK, Begun
<1> QED
  BY <1>3, <1>4

LEMMA ThrottleStep ==
  ASSUME ThrottleInvariant, [T!Next]_(T!vars)
  PROVE  ThrottleInvariant'
<1>0. /\ now \in 0..MaxTime /\ now \in Nat
      /\ bucket \in [Isolates -> T!BoundedSeq(0..MaxTime, MAX_ATTEMPTS)]
      /\ throttled \in T!Row \cup {None}
      /\ login \in [Logins -> [stage : {"done", "check", "compare", "record", "write"},
                               prior : T!Row \cup {None}]]
      /\ throttled # None => Begun(throttled)
      /\ \A l \in Logins : login[l].prior # None => Begun(login[l].prior)
  BY ThrottleAssumption DEF ThrottleInvariant, T!TypeOK
<1>1. CASE T!Pass
  <2>1. /\ now' = now + 1 /\ now < MaxTime
        /\ UNCHANGED <<bucket, throttled, login, told, passed>>
    BY <1>1 DEF T!Pass
  <2>2. now' \in 0..MaxTime /\ \A n \in Nat : n <= now => n <= now'
    BY <1>0, <2>1, ThrottleAssumption
  <2>3. \A i \in Isolates : \A k \in DOMAIN bucket[i] : bucket[i][k] <= now'
    <3> SUFFICES ASSUME NEW i \in Isolates, NEW k \in DOMAIN bucket[i]
                 PROVE  bucket[i][k] <= now'
      OBVIOUS
    <3>1. bucket[i][k] \in Nat
      BY BucketType, Timestamps
    <3>2. bucket[i][k] <= now
      BY DEF ThrottleInvariant
    <3> QED
      BY <2>2, <3>1, <3>2
  <2>4. ASSUME NEW r \in T!Row, Begun(r)
        PROVE  r.first <= now'
    <3>1. r.first \in Nat /\ r.first <= now
      BY <2>4, ThrottleAssumption DEF Begun, T!Row
    <3> QED
      BY <2>2, <3>1
  <2>5. throttled' # None => Begun(throttled)'
    BY <1>0, <2>1, <2>4 DEF Begun
  <2>6. \A l \in Logins : login'[l].prior # None => Begun(login[l].prior)'
    <3> SUFFICES ASSUME NEW l \in Logins, login[l].prior # None
                 PROVE  Begun(login[l].prior)'
      BY <2>1
    <3>1. login[l].prior \in T!Row /\ Begun(login[l].prior)
      BY <1>0
    <3> QED
      BY <2>1, <2>4, <3>1 DEF Begun
  <2> QED
    BY <2>1, <2>2, <2>3, <2>5, <2>6 DEF ThrottleInvariant, T!TypeOK, LastWord, Begun
<1>2. ASSUME NEW i \in Isolates, T!Evict(i)
      PROVE  ThrottleInvariant'
  <2>1. /\ bucket' = [bucket EXCEPT ![i] = << >>]
        /\ UNCHANGED <<now, throttled, login, told, passed>>
    BY <1>2 DEF T!Evict
  <2>2. << >> \in T!BoundedSeq(0..MaxTime, MAX_ATTEMPTS)
    <3>1. << >> \in Seq(0..MaxTime) /\ Len(<< >>) = 0 /\ 0 <= MAX_ATTEMPTS
      BY ThrottleAssumption
    <3> QED
      BY <3>1, BucketMade
  <2>3. /\ bucket' \in [Isolates -> T!BoundedSeq(0..MaxTime, MAX_ATTEMPTS)]
        /\ \A j \in Isolates : bucket'[j] # << >> => bucket'[j] = bucket[j]
    BY <1>0, <2>1, <2>2
  <2>4. \A j \in Isolates : \A k \in DOMAIN bucket'[j] : bucket'[j][k] <= now
    BY <1>0, <2>1 DEF ThrottleInvariant
  <2> QED
    BY <2>1, <2>3, <2>4 DEF ThrottleInvariant, T!TypeOK, LastWord, Begun
<1>3. ASSUME NEW l \in Logins, NEW i \in Isolates, T!Request(l, i)
      PROVE  ThrottleInvariant'
  BY <1>3, RequestKeeps
<1>4. ASSUME NEW l \in Logins, T!Check(l)
      PROVE  ThrottleInvariant'
  BY <1>4, CheckKeeps
<1>5. ASSUME NEW l \in Logins, T!CheckBlind(l)
      PROVE  ThrottleInvariant'
  <2>1. told = None /\ T!Goto(l, "compare") /\ UNCHANGED <<now, bucket, throttled, told>>
    BY <1>5, NobodyIsTrying DEF T!CheckBlind
  <2> QED
    BY <1>0, <2>1, GoneOn DEF ThrottleInvariant, T!TypeOK, Begun
<1>6. ASSUME NEW l \in Logins, T!Succeed(l)
      PROVE  ThrottleInvariant'
  <2>1. /\ told = None /\ T!Goto(l, "done") /\ throttled' \in {throttled, None}
        /\ UNCHANGED <<now, bucket, told>>
    BY <1>6, NobodyIsTrying DEF T!Succeed
  <2> QED
    BY <1>0, <2>1, GoneOn DEF ThrottleInvariant, T!TypeOK, Begun
<1>7. ASSUME NEW l \in Logins, T!Mistake(l)
      PROVE  ThrottleInvariant'
  <2>1. told = None /\ T!Goto(l, "record") /\ UNCHANGED <<now, bucket, throttled, told>>
    BY <1>7, NobodyIsTrying DEF T!Mistake
  <2> QED
    BY <1>0, <2>1, GoneOn DEF ThrottleInvariant, T!TypeOK, Begun
<1>8. ASSUME NEW l \in Logins, T!RecordRead(l)
      PROVE  ThrottleInvariant'
  <2>1. told = None /\ UNCHANGED <<now, bucket, throttled, told>>
    BY <1>8, NobodyIsTrying DEF T!RecordRead
  <2>2. PICK prior \in {throttled, None} :
          login' = [login EXCEPT ![l].stage = "write", ![l].prior = prior]
    BY <1>8 DEF T!RecordRead
  <2>3. /\ login' \in [Logins -> [stage : {"done", "check", "compare", "record", "write"},
                                  prior : T!Row \cup {None}]]
        /\ login'[l].prior = prior
        /\ \A k \in Logins \ {l} : login'[k] = login[k]
    BY <1>0, <2>2
  <2> QED
    BY <1>0, <2>1, <2>3 DEF ThrottleInvariant, T!TypeOK, Begun
<1>9. ASSUME NEW l \in Logins, T!RecordWrite(l)
      PROVE  ThrottleInvariant'
  <2>1. /\ told = None /\ T!Goto(l, "done") /\ UNCHANGED <<now, bucket, told>>
        /\ throttled' \in {throttled, T!Recorded(login[l].prior)}
    BY <1>9, NobodyIsTrying DEF T!RecordWrite
  <2>2. T!Recorded(login[l].prior) \in T!Row /\ Begun(T!Recorded(login[l].prior))
    BY <1>0, RecordedIsBegun
  <2>3. throttled' \in T!Row \cup {None} /\ (throttled' # None => Begun(throttled)')
    BY <1>0, <2>1, <2>2 DEF Begun
  <2> QED
    BY <1>0, <2>1, <2>3, GoneOn DEF ThrottleInvariant, T!TypeOK, Begun
<1>10. CASE UNCHANGED T!vars
  BY <1>10 DEF T!vars, ThrottleInvariant, T!TypeOK, LastWord, Begun
<1> QED
  BY <1>1, <1>2, <1>3, <1>4, <1>5, <1>6, <1>7, <1>8, <1>9, <1>10 DEF T!Next

LEMMA WaitFollows == ThrottleInvariant => T!WaitSuffices
<1> SUFFICES ASSUME ThrottleInvariant, told # None, now >= told.until
             PROVE  IF told.by = "row"
                      THEN throttled = None \/ T!Wait(throttled) = 0
                      ELSE Len(T!Recent(bucket[told.by])) < MAX_ATTEMPTS
  BY DEF T!WaitSuffices
<1>1. /\ LastWord /\ now \in Nat /\ told.by \in Isolates \cup {"row"} /\ told.until \in Nat
      /\ throttled \in T!Row \cup {None}
  BY ThrottleAssumption DEF ThrottleInvariant, T!TypeOK
<1>2. CASE told.by = "row" /\ throttled # None
  <2>1. /\ throttled.first \in Nat
        /\ throttled.until # None => throttled.until \in Nat
    BY <1>1, <1>2, ThrottleAssumption DEF T!Row
  <2>2. /\ throttled.first + WINDOW <= told.until
        /\ throttled.until # None => throttled.until <= told.until
    BY <1>1, <1>2 DEF LastWord
  <2>3. /\ ~(throttled.first + WINDOW > now)
        /\ ~(throttled.until # None /\ throttled.until > now)
    BY <1>1, <2>1, <2>2, ThrottleAssumption
  <2> QED
    BY <1>2, <2>3 DEF T!Wait
<1>3. CASE told.by # "row"
  <2> DEFINE i == told.by
  <2>1. i \in Isolates /\ (bucket[i] # << >> => bucket[i][1] + WINDOW = told.until)
    BY <1>1, <1>3 DEF LastWord
  <2> HIDE DEF i
  <2>2. bucket[i] \in Seq(0..MaxTime) /\ Len(bucket[i]) \in 0..MAX_ATTEMPTS
    BY <2>1, BucketType
  <2>3. CASE bucket[i] = << >>
    <3>1. Len(bucket[i]) = 0 /\ Len(T!Recent(bucket[i])) <= Len(bucket[i])
          /\ T!Recent(bucket[i]) \in Seq(0..MaxTime)
      BY <1>1, <2>2, <2>3, RecentIsShorter
    <3>2. Len(T!Recent(bucket[i])) < MAX_ATTEMPTS
      BY <3>1, ThrottleAssumption
    <3> QED
      BY <1>3, <3>2 DEF i
  <2>4. CASE bucket[i] # << >>
    <3>1. 1 \in DOMAIN bucket[i] /\ bucket[i][1] \in Nat
      BY <2>2, <2>4, Timestamps
    <3>2. now - bucket[i][1] >= WINDOW
      BY <1>1, <2>1, <2>4, <3>1, ThrottleAssumption
    <3>3. Len(T!Recent(bucket[i])) < Len(bucket[i]) /\ T!Recent(bucket[i]) \in Seq(0..MaxTime)
      BY <1>1, <2>2, <3>1, <3>2, RecentIsShorter
    <3>4. Len(T!Recent(bucket[i])) < MAX_ATTEMPTS
      BY <2>2, <3>3, ThrottleAssumption
    <3> QED
      BY <1>3, <3>4 DEF i
  <2> QED
    BY <2>3, <2>4
<1> QED
  BY <1>2, <1>3

-----------------------------------------------------------------------------
(* The adapters and the registry's filters.                                *)

Curated(p) == P!Adapter[p].curated
Free(p)    == P!Adapter[p].free

(* What the lists of a provider promise one another: an id of the curated  *)
(* list is never answered as anything but free, and the filter passes what *)
(* is curated or free.                                                     *)
Agrees(p) ==
  /\ Curated(p) \cap P!Adapter[p].keeps \subseteq Free(p)
  /\ Curated(p) \subseteq P!HardFilter(p)
  /\ Free(p) \cap P!Adapter[p].keeps \cap P!Ids(p) \subseteq P!HardFilter(p)
  /\ P!Adapter[p].rest \in {"PAID", "UNKNOWN"}

(* Providers without a filter of their own.                                *)
LEMMA Unfiltered ==
  ASSUME NEW p, P!HardFilter(p) = P!Ids(p),
         Curated(p) \cap P!Adapter[p].keeps \subseteq Free(p),
         P!Adapter[p].rest \in {"PAID", "UNKNOWN"}
  PROVE  Agrees(p)
BY DEF Agrees, Curated, Free, P!Ids

LEMMA AdaptersAgree == \A p \in P!Providers : Agrees(p)
<1> USE DEF P!Adapter, P!AllFree, P!OnlyFree, P!ByAllowlist, Curated, Free
<1>1. Agrees("nvidia")
  BY Unfiltered DEF P!nvidia, P!HardFilter
<1>2. Agrees("mistral")
  BY Unfiltered DEF P!mistral, P!HardFilter
<1>3. Agrees("cerebras")
  BY Unfiltered DEF P!cerebras, P!HardFilter
<1>4. Agrees("orcarouter")
  BY Unfiltered DEF P!orcarouter, P!HardFilter
<1>5. Agrees("ninerouter")
  BY Unfiltered DEF P!ninerouter, P!HardFilter
<1>6. Agrees("speka")
  BY Unfiltered DEF P!speka, P!HardFilter
<1>7. Agrees("nexaapi")
  BY Unfiltered DEF P!nexaapi, P!HardFilter
<1>8. Agrees("openrouter")
  BY Unfiltered DEF P!openrouter, P!HardFilter
<1>9. Agrees("opencode_zen")
  BY Unfiltered DEF P!opencode_zen, P!HardFilter
<1>10. Agrees("kilocode")
  BY DEF P!kilocode, P!HardFilter, P!Suffixed, Agrees, P!ColonFree
<1>11. Agrees("tokenrouter")
  BY DEF P!tokenrouter, P!HardFilter, P!Suffixed, Agrees, P!ColonFree, P!DashFree
<1>12. Agrees("gemini")
  BY Unfiltered DEF P!gemini, P!HardFilter
<1>13. Agrees("ollama")
  BY DEF P!ollama, P!HardFilter, Agrees, P!RegistryOllama, P!OllamaFree
<1>14. Agrees("groq")
  BY DEF P!groq, P!HardFilter, Agrees, P!GroqFree
<1>15. Agrees("sambanova")
  BY Unfiltered DEF P!sambanova, P!HardFilter, P!SambanovaFree
<1>16. Agrees("agnes_ai")
  BY DEF P!agnes_ai, P!HardFilter, Agrees
<1>17. Agrees("aionlabs")
  BY DEF P!aionlabs, P!HardFilter, Agrees, P!AionFree
<1>18. Agrees("nscale")
  BY DEF P!nscale, P!HardFilter, Agrees, P!NscaleFree
<1>19. Agrees("glhf")
  BY DEF P!glhf, P!HardFilter, Agrees, P!GlhfFree, P!GlhfNamed
<1>20. Agrees("ollama_pro")
  BY Unfiltered DEF P!ollama_pro, P!HardFilter
<1>21. Agrees("opencode_go")
  BY Unfiltered DEF P!opencode_go, P!HardFilter
<1>22. P!Providers = {"nvidia", "mistral", "cerebras", "orcarouter", "ninerouter", "speka",
         "nexaapi", "openrouter", "opencode_zen", "kilocode", "tokenrouter", "gemini", "ollama",
         "groq", "sambanova", "agnes_ai", "aionlabs", "nscale", "glhf", "ollama_pro",
         "opencode_go"}
  BY DEF P!Providers
<1> QED
  BY <1>1, <1>2, <1>3, <1>4, <1>5, <1>6, <1>7, <1>8, <1>9, <1>10, <1>11, <1>12, <1>13, <1>14,
     <1>15, <1>16, <1>17, <1>18, <1>19, <1>20, <1>21, <1>22

(* An adapter lists ids it knows; those that are curated or free as FREE.  *)
LEMMA Listed ==
  ASSUME NEW p \in P!Providers, NEW up \in BOOLEAN, NEW ids \in SUBSET P!Ids(p),
         NEW listing \in P!Listings(p, up, ids), NEW id \in DOMAIN listing
  PROVE  /\ listing[id] \in {"FREE", "PAID", "UNKNOWN"}
         /\ id \in Curated(p) \cup Free(p) => listing[id] = "FREE"
         /\ listing[id] = "FREE" => id \in Curated(p) \cup Free(p) /\ id \in P!HardFilter(p)
<1> DEFINE kept == P!Kept(p, up, ids)
<1>0. Agrees(p)
  BY AdaptersAgree
<1>1. kept \subseteq ids \cap P!Adapter[p].keeps
  BY DEF P!Kept
<1>2. CASE kept = {}
  <2>1. listing = [x \in Curated(p) |-> "FREE"]
    BY <1>2 DEF P!Listings, Curated
  <2> QED
    BY <1>0, <2>1 DEF Agrees
<1>3. CASE kept # {}
  <2>1. PICK S \in P!Cut(p, kept) :
          listing = [x \in S \ P!Audio |-> IF x \in Free(p) THEN "FREE" ELSE P!Adapter[p].rest]
    BY <1>3 DEF P!Listings, Free
  <2>2. S \subseteq kept
    BY <2>1 DEF P!Cut, P!kSubset
  <2>3. id \in kept /\ listing[id] = IF id \in Free(p) THEN "FREE" ELSE P!Adapter[p].rest
    BY <2>1, <2>2
  <2> QED
    BY <1>0, <1>1, <2>3 DEF Agrees
<1> QED
  BY <1>2, <1>3

LEMMA Answered ==
  ASSUME NEW p, NEW a \in P!Answers(p)
  PROVE  a.up \in BOOLEAN /\ a.ids \in SUBSET P!Ids(p)
<1>1. CASE a = [up |-> FALSE, ids |-> {}]
  BY <1>1
<1>2. ASSUME NEW ids \in UNION {{S, S \cup P!Adapter[p].curated} : S \in SUBSET P!Adapter[p].others},
             a = [up |-> TRUE, ids |-> ids]
      PROVE  a.up \in BOOLEAN /\ a.ids \in SUBSET P!Ids(p)
  BY <1>2 DEF P!Ids
<1> QED
  BY <1>1, <1>2 DEF P!Answers

(* A row that is or was free is of an id the adapter always lists as free. *)
SureToBeFree(id) ==
  /\ row[id].status \in {"FREE", "PREVIOUSLY_FREE"} => id \in Curated(provider) \cup Free(provider)
  /\ row[id].status = "FREE" => row[id].active /\ id \in P!HardFilter(provider)

AdapterInvariant ==
  /\ P!TypeOK
  /\ switches \in Nat
  /\ \A id \in P!Ids(provider) : SureToBeFree(id)

LEMMA InitAdapters == P!Init => AdapterInvariant
<1> SUFFICES ASSUME P!Init PROVE AdapterInvariant
  OBVIOUS
<1>1. /\ provider \in P!Providers /\ switches = 0
      /\ row = [id \in P!Ids(provider) |-> [status |-> "NONE", active |-> FALSE, enabled |-> FALSE]]
  BY DEF P!Init, P!NoRow
<1> QED
  BY <1>1 DEF AdapterInvariant, P!TypeOK, SureToBeFree

RowType == [status : {"NONE", "FREE", "PAID", "UNKNOWN", "PREVIOUSLY_FREE"},
            active : BOOLEAN, enabled : BOOLEAN]

(* What a discovery makes of one row.                                      *)
LEMMA SweptRow ==
  ASSUME AdapterInvariant, P!Discover, NEW id \in P!Ids(provider)
  PROVE  /\ row'[id] \in RowType
         /\ SureToBeFree(id)'
         /\ row[id].enabled /\ row[id].status \in {"FREE", "PREVIOUSLY_FREE"} => row'[id].enabled
<1>1. /\ provider \in P!Providers /\ UNCHANGED <<provider, switches>>
      /\ row[id] \in RowType /\ SureToBeFree(id)
  BY DEF AdapterInvariant, P!TypeOK, P!Discover, RowType
<1>2. PICK listing \in P!Listings(provider, answer'.up, answer'.ids) :
        row' = P!Swept(provider, listing)
  BY DEF P!Discover
<1>3. answer'.up \in BOOLEAN /\ answer'.ids \in SUBSET P!Ids(provider)
  BY Answered DEF P!Discover
<1>4. row'[id] = IF DOMAIN listing = {} THEN row[id]
                 ELSE IF id \in DOMAIN listing THEN P!Upserted(provider, id, listing[id])
                 ELSE P!Dropped(id)
  BY <1>2 DEF P!Swept
<1>5. CASE row'[id] = row[id]
  BY <1>1, <1>5 DEF SureToBeFree
<1>6. CASE id \in DOMAIN listing
  <2>1. /\ listing[id] \in {"FREE", "PAID", "UNKNOWN"}
        /\ id \in Curated(provider) \cup Free(provider) => listing[id] = "FREE"
        /\ listing[id] = "FREE" => /\ id \in Curated(provider) \cup Free(provider)
                                   /\ id \in P!HardFilter(provider)
    BY <1>1, <1>2, <1>3, <1>6, Listed
  <2> DEFINE on == IF row[id].status = "NONE" THEN P!EnabledFirst(provider, id, listing[id])
                                              ELSE row[id].enabled /\ listing[id] = "FREE"
  <2>2. row'[id] = [status |-> listing[id], active |-> TRUE, enabled |-> on]
    BY <1>4, <1>6 DEF P!Upserted
  <2>3. on \in BOOLEAN
    <3>1. P!EnabledFirst(provider, id, listing[id]) \in BOOLEAN
      BY DEF P!EnabledFirst
    <3> QED
      BY <3>1
  <2>4. row[id].enabled /\ row[id].status \in {"FREE", "PREVIOUSLY_FREE"} => on
    BY <1>1, <2>1 DEF SureToBeFree
  <2> HIDE DEF on
  <2>5. /\ row'[id] \in RowType /\ row'[id].status = listing[id] /\ row'[id].active
        /\ row'[id].enabled = on
    BY <2>1, <2>2, <2>3 DEF RowType
  <2>6. SureToBeFree(id)'
    BY <1>1, <2>1, <2>5 DEF SureToBeFree
  <2> QED
    BY <2>4, <2>5, <2>6
<1>7. CASE row'[id] = P!Dropped(id) /\ row[id].active
  <2>1. row'[id] = [row[id] EXCEPT !.active = FALSE,
                                   !.status = IF @ = "FREE" THEN "PREVIOUSLY_FREE" ELSE @]
    BY <1>7 DEF P!Dropped
  <2>2. /\ row'[id] \in RowType /\ row'[id].enabled = row[id].enabled
        /\ row'[id].status = IF row[id].status = "FREE" THEN "PREVIOUSLY_FREE" ELSE row[id].status
    BY <1>1, <2>1 DEF RowType
  <2> QED
    BY <1>1, <2>2 DEF SureToBeFree
<1>8. CASE row'[id] = P!Dropped(id) /\ ~row[id].active
  BY <1>5, <1>8 DEF P!Dropped
<1> QED
  BY <1>4, <1>5, <1>6, <1>7, <1>8

LEMMA AdapterStep ==
  ASSUME AdapterInvariant, [P!Next]_(P!vars)
  PROVE  /\ AdapterInvariant'
         /\ row' # row /\ UNCHANGED switches =>
              \A id \in P!Ids(provider) :
                row[id].enabled /\ row[id].status \in {"FREE", "PREVIOUSLY_FREE"} => row'[id].enabled
<1>0. /\ provider \in P!Providers /\ switches \in Nat /\ row \in [P!Ids(provider) -> RowType]
  BY DEF AdapterInvariant, P!TypeOK, RowType
<1>1. CASE P!Discover
  <2>1. \A id \in P!Ids(provider) :
          /\ row'[id] \in RowType
          /\ SureToBeFree(id)'
          /\ row[id].enabled /\ row[id].status \in {"FREE", "PREVIOUSLY_FREE"} => row'[id].enabled
    BY <1>1, SweptRow
  <2>2. /\ UNCHANGED <<provider, switches>>
        /\ \E listing : row' = P!Swept(provider, listing)
    BY <1>1 DEF P!Discover
  <2>3. row' \in [P!Ids(provider) -> RowType]
    BY <2>1, <2>2 DEF P!Swept
  <2> QED
    BY <1>0, <2>1, <2>2, <2>3 DEF AdapterInvariant, P!TypeOK, RowType
<1>2. ASSUME NEW x \in P!Adapter[provider].others, NEW on \in BOOLEAN, P!Switch(x, on)
      PROVE  AdapterInvariant' /\ switches' # switches
  <2>1. /\ switches' = switches + 1 /\ row' = [row EXCEPT ![x].enabled = on]
        /\ UNCHANGED provider
    BY <1>2 DEF P!Switch
  <2>2. /\ row' \in [P!Ids(provider) -> RowType]
        /\ \A id \in P!Ids(provider) : row'[id].status = row[id].status
                                       /\ row'[id].active = row[id].active
    BY <1>0, <2>1 DEF RowType
  <2> QED
    BY <1>0, <2>1, <2>2 DEF AdapterInvariant, P!TypeOK, RowType, SureToBeFree
<1>3. CASE UNCHANGED P!vars
  BY <1>0, <1>3 DEF P!vars, AdapterInvariant, P!TypeOK, SureToBeFree
<1> QED
  BY <1>0, <1>1, <1>2, <1>3 DEF P!Next

LEMMA FreeFollows == AdapterInvariant => P!FreeIsVisible
BY DEF AdapterInvariant, SureToBeFree, P!FreeIsVisible, P!Visible

-----------------------------------------------------------------------------
(* Aggregates.                                                             *)

Its(r)    == A!Bucket(run[r].start)
Timely(r) == run[r].st \in {"stored", "deleted"} /\ run[r].stored < (Its(r) + 1) * SLOT

(* The cron under way is that of the bucket just begun.  The bucket that   *)
(* it is about to close has not been closed before, none of its runs has   *)
(* been deleted, and a window that has been read is complete.              *)
Closing ==
  /\ firedCron = A!Bucket(now) /\ firedCron >= 1
  /\ job["cron"].todo \in {<<firedCron, firedCron - 1>>, <<firedCron - 1>>}
  /\ \A b \in closed : b < firedCron - 1
  /\ \A r \in Runs : run[r].st = "deleted" => Its(r) < firedCron - 1
  /\ job["cron"].pc = "write" /\ job["cron"].todo = <<firedCron - 1>> =>
       \A r \in Runs : Timely(r) /\ Its(r) = firedCron - 1 => r \in job["cron"].got

RunsCounted ==
  \A r \in Runs : Timely(r) /\ Its(r) \in closed \ byHand /\ A!Kept(Its(r)) => r \in agg[Its(r)]

Past ==
  /\ firedCron \in Nat /\ firedCron <= A!Bucket(now)
  /\ \A b \in closed : b < firedCron
  /\ \A r \in Runs : run[r].st = "deleted" => Its(r) < firedCron

CronInTime ==
  /\ job["cron"].pc # "idle" => firedCron = A!Bucket(now)
  /\ job["cron"].pc \in {"read", "write"} => Closing

ByHand ==
  /\ job["admin"].pc # "clean"
  /\ job["admin"].pc \in {"read", "write"} => \E b \in byHand : job["admin"].todo = <<b>>

AggregateInvariant ==
  /\ A!TypeOK
  /\ Past
  /\ CronInTime
  /\ ByHand
  /\ RunsCounted

LEMMA Multiples ==
  ASSUME NEW x \in Int, NEW y \in Int, x <= y
  PROVE  x * SLOT \in Int /\ y * SLOT \in Int /\ x * SLOT <= y * SLOT
BY AggregatesAssumption

LEMMA BucketOf ==
  ASSUME NEW t \in Nat
  PROVE  /\ A!Bucket(t) \in Nat
         /\ A!Bucket(t) * SLOT <= t /\ t < (A!Bucket(t) + 1) * SLOT
BY AggregatesAssumption DEF A!Bucket

LEMMA BucketsInOrder ==
  ASSUME NEW t \in Nat, NEW u \in Nat, t <= u
  PROVE  A!Bucket(t) <= A!Bucket(u)
<1>1. /\ A!Bucket(t) \in Nat /\ A!Bucket(u) \in Nat
      /\ A!Bucket(t) * SLOT <= t /\ u < (A!Bucket(u) + 1) * SLOT
  BY BucketOf
<1> SUFFICES ASSUME A!Bucket(u) + 1 <= A!Bucket(t) PROVE FALSE
  BY <1>1
<1>2. (A!Bucket(u) + 1) * SLOT <= A!Bucket(t) * SLOT /\ (A!Bucket(u) + 1) * SLOT \in Int
  BY <1>1, Multiples
<1> HIDE DEF A!Bucket
<1>3. A!Bucket(t) * SLOT \in Int
  BY <1>1, AggregatesAssumption
<1> QED
  BY <1>1, <1>2, <1>3

LEMMA WithinBucket ==
  ASSUME NEW t \in Nat, NEW b \in Nat
  PROVE  /\ t \in b * SLOT .. (b + 1) * SLOT - 1 <=> A!Bucket(t) = b
         /\ t < (b + 1) * SLOT => A!Bucket(t) <= b
<1>1. /\ A!Bucket(t) \in Nat
      /\ A!Bucket(t) * SLOT <= t /\ t < (A!Bucket(t) + 1) * SLOT
  BY BucketOf
<1>2. /\ b * SLOT \in Int /\ (b + 1) * SLOT \in Int
      /\ A!Bucket(t) * SLOT \in Int /\ (A!Bucket(t) + 1) * SLOT \in Int
  BY <1>1, AggregatesAssumption
<1>3. A!Bucket(t) + 1 <= b => (A!Bucket(t) + 1) * SLOT <= b * SLOT
  BY <1>1, Multiples
<1>4. b + 1 <= A!Bucket(t) => (b + 1) * SLOT <= A!Bucket(t) * SLOT
  BY <1>1, Multiples
<1> DEFINE B == A!Bucket(t)
<1> DEFINE bS == b * SLOT
<1> DEFINE bS1 == (b + 1) * SLOT
<1> DEFINE BS == B * SLOT
<1> DEFINE BS1 == (B + 1) * SLOT
<1>5. B \in Nat /\ bS \in Int /\ bS1 \in Int /\ BS \in Int /\ BS1 \in Int
  BY <1>1, <1>2
<1>6. BS <= t /\ t < BS1 /\ (B + 1 <= b => BS1 <= bS) /\ (b + 1 <= B => bS1 <= BS)
  BY <1>1, <1>3, <1>4
<1>7. B = b => bS = BS /\ bS1 = BS1
  OBVIOUS
<1> HIDE DEF B, bS, bS1, BS, BS1
<1>8. /\ t \in bS .. bS1 - 1 <=> B = b
      /\ t < bS1 => B <= b
  BY <1>5, <1>6, <1>7
<1> QED
  BY <1>8 DEF B, bS, bS1

RunType == [st : {"none", "running", "stored", "deleted"}, start : 0..LastTick, stored : 0..LastTick]
JobType == [pc : {"idle", "read", "write", "clean"}, todo : Seq(A!Buckets), got : SUBSET Runs]

LEMMA AggregateTypes ==
  ASSUME AggregateInvariant
  PROVE  /\ now \in 0..LastTick /\ now \in Nat /\ A!Bucket(now) \in A!Buckets
         /\ run \in [Runs -> RunType] /\ agg \in [A!Buckets -> SUBSET Runs]
         /\ job \in [{"cron", "admin"} -> JobType]
         /\ closed \subseteq A!Buckets /\ byHand \subseteq A!Buckets
         /\ firedCron \in Nat /\ A!Buckets \subseteq Nat /\ A!Bucket(now) \in Nat
         /\ \A r \in Runs : /\ run[r].start \in Nat /\ run[r].stored \in Nat
                            /\ Its(r) \in A!Buckets
<1>1. /\ now \in 0..LastTick /\ run \in [Runs -> RunType] /\ agg \in [A!Buckets -> SUBSET Runs]
      /\ job \in [{"cron", "admin"} -> JobType]
      /\ closed \subseteq A!Buckets /\ byHand \subseteq A!Buckets /\ firedCron \in Nat
  BY DEF AggregateInvariant, Past, A!TypeOK, RunType, JobType, A!Jobs
<1>2. \A t \in 0..LastTick : t \in Nat /\ A!Bucket(t) \in A!Buckets
  <2> SUFFICES ASSUME NEW t \in 0..LastTick PROVE t \in Nat /\ A!Bucket(t) \in A!Buckets
    OBVIOUS
  <2>1. t \in Nat /\ LastTick \in Nat /\ t <= LastTick
    BY AggregatesAssumption
  <2>2. A!Bucket(t) \in Nat /\ A!Bucket(LastTick) \in Nat /\ A!Bucket(t) <= A!Bucket(LastTick)
    BY <2>1, BucketOf, BucketsInOrder
  <2> QED
    BY <2>1, <2>2 DEF A!Buckets
<1>3. A!Bucket(LastTick) \in Nat /\ A!Buckets \subseteq Nat
  BY BucketOf, AggregatesAssumption DEF A!Buckets
<1>4. \A r \in Runs : run[r].start \in 0..LastTick /\ run[r].stored \in 0..LastTick
  BY <1>1 DEF RunType
<1> QED
  BY <1>1, <1>2, <1>3, <1>4 DEF Its

LEMMA InitAggregates == A!Init => AggregateInvariant
<1> SUFFICES ASSUME A!Init PROVE AggregateInvariant
  OBVIOUS
<1>1. /\ now = 0 /\ firedCron = 0 /\ closed = {} /\ byHand = {}
      /\ run = [r \in Runs |-> [st |-> "none", start |-> 0, stored |-> 0]]
      /\ agg = [b \in A!Buckets |-> {}]
      /\ job = [i \in {"cron", "admin"} |-> [pc |-> "idle", todo |-> << >>, got |-> {}]]
  BY DEF A!Init, A!NotYet, A!Idle, A!Jobs
<1>2. LastTick \in Nat /\ 0 \in 0..LastTick
  BY AggregatesAssumption
<1>3. A!TypeOK
  BY <1>1, <1>2 DEF A!TypeOK, A!Jobs
<1>4. A!Bucket(0) \in Nat
  BY BucketOf
<1> QED
  BY <1>1, <1>3, <1>4 DEF AggregateInvariant, Past, CronInTime, ByHand, RunsCounted, Timely

(* A step that leaves the runs alone leaves alone where they belong.       *)
LEMMA SameRuns ==
  ASSUME UNCHANGED run, NEW r \in Runs
  PROVE  /\ Its(r)' = Its(r) /\ (Timely(r)' <=> Timely(r))
         /\ run'[r] = run[r]
BY DEF Its, Timely

(* A run is started or stored.                                             *)
LEMMA RunStep ==
  ASSUME AggregateInvariant, NEW r \in Runs, A!StartRun(r) \/ A!StoreRun(r)
  PROVE  AggregateInvariant'
<1>0. /\ UNCHANGED <<now, agg, job, firedCron, closed, byHand>>
      /\ run[r].st # "deleted" /\ run[r].st # "stored"
  BY DEF A!StartRun, A!StoreRun
<1>1. /\ run' \in [Runs -> RunType] /\ run'[r].st \in {"running", "stored"}
      /\ \A x \in Runs \ {r} : run'[x] = run[x]
      /\ run'[r].st = "stored" => run'[r].stored = now
  BY AggregateTypes DEF A!StartRun, A!StoreRun, RunType
<1>2. /\ \A x \in Runs \ {r} : Its(x)' = Its(x) /\ (Timely(x)' <=> Timely(x))
      /\ \A x \in Runs : run'[x].st = "deleted" => x # r
  BY <1>1 DEF Its, Timely
<1>3. Timely(r)' => firedCron <= Its(r)'
  <2> SUFFICES ASSUME Timely(r)' PROVE firedCron <= Its(r)'
    OBVIOUS
  <2>1. run'[r].start \in Nat
    <3>1. run'[r].start \in 0..LastTick
      BY <1>1 DEF RunType
    <3> QED
      BY <3>1, AggregatesAssumption
  <2>2. Its(r)' \in Nat /\ now < (Its(r)' + 1) * SLOT
    BY <1>1, <2>1, BucketOf DEF Timely, Its
  <2>3. A!Bucket(now) <= Its(r)'
    BY <2>2, AggregateTypes, WithinBucket
  <2> QED
    BY <2>2, <2>3, AggregateTypes DEF AggregateInvariant, Past
<1>4. \A b \in closed : b < firedCron /\ b \in Nat
  BY AggregateTypes DEF AggregateInvariant, Past
<1>5. RunsCounted'
  <2> SUFFICES ASSUME NEW x \in Runs, Timely(x)', Its(x)' \in closed \ byHand, A!Kept(Its(x))'
               PROVE  x \in agg[Its(x)']
    BY <1>0 DEF RunsCounted
  <2>1. x # r
    BY <1>3, <1>4, AggregateTypes
  <2> QED
    BY <1>0, <1>2, <2>1 DEF AggregateInvariant, RunsCounted, A!Kept
<1>6. job["cron"].pc \in {"read", "write"} => Closing'
  <2> SUFFICES ASSUME Closing PROVE Closing'
    BY DEF AggregateInvariant, CronInTime
  <2>1. Timely(r)' => Its(r)' # firedCron - 1
    BY <1>3, AggregateTypes
  <2> QED
    BY <1>0, <1>1, <1>2, <2>1 DEF Closing
<1>7. A!TypeOK'
  BY <1>0, <1>1, AggregateTypes DEF A!TypeOK, RunType, JobType, A!Jobs
<1>8. Past'
  BY <1>0, <1>1, <1>2 DEF AggregateInvariant, Past
<1>9. CronInTime' /\ ByHand'
  BY <1>0, <1>6 DEF AggregateInvariant, CronInTime, ByHand
<1> QED
  BY <1>5, <1>7, <1>8, <1>9 DEF AggregateInvariant

LEMMA ClockStep ==
  ASSUME AggregateInvariant, A!Tick
  PROVE  AggregateInvariant'
<1>0. /\ now' = now + 1 /\ now < LastTick
      /\ UNCHANGED <<run, agg, job, firedCron, closed, byHand>>
      /\ A!Bucket(now + 1) > A!Bucket(now) => job["cron"].pc = "idle" /\ firedCron = A!Bucket(now)
  BY DEF A!Tick
<1>1. /\ now' \in 0..LastTick /\ now' \in Nat /\ A!Bucket(now') \in Nat
      /\ A!Bucket(now) <= A!Bucket(now')
  BY <1>0, AggregateTypes, BucketOf, BucketsInOrder, AggregatesAssumption
<1>2. job["cron"].pc # "idle" => A!Bucket(now') = A!Bucket(now)
  BY <1>0, <1>1, AggregateTypes
<1>3. \A b \in A!Buckets : b * SLOT + AGG_KEEP * SLOT >= now' => A!Kept(b)
  <2> SUFFICES ASSUME NEW b \in A!Buckets, b * SLOT + AGG_KEEP * SLOT >= now'
               PROVE  A!Kept(b)
    OBVIOUS
  <2>1. b \in Nat /\ b * SLOT + AGG_KEEP * SLOT \in Int
    BY AggregateTypes, AggregatesAssumption
  <2>2. b * SLOT + AGG_KEEP * SLOT >= now + 1
    BY <1>0
  <2> DEFINE e == b * SLOT + AGG_KEEP * SLOT
  <2>3. e \in Int /\ e >= now + 1
    BY <2>1, <2>2
  <2> HIDE DEF e
  <2>4. e >= now
    BY <2>3, AggregateTypes
  <2> QED
    BY <2>4 DEF A!Kept, e
<1>4. RunsCounted'
  <2> SUFFICES ASSUME NEW r \in Runs, Timely(r), Its(r) \in closed \ byHand,
                      Its(r) * SLOT + AGG_KEEP * SLOT >= now'
               PROVE  r \in agg[Its(r)]
    BY <1>0, SameRuns DEF RunsCounted, A!Kept
  <2> QED
    BY <1>3, AggregateTypes DEF AggregateInvariant, RunsCounted
<1>5. A!TypeOK'
  BY <1>0, <1>1 DEF AggregateInvariant, A!TypeOK
<1>6. Closing /\ job["cron"].pc # "idle" => Closing'
  BY <1>0, <1>2, SameRuns DEF Closing
<1>7. firedCron \in Nat /\ firedCron <= A!Bucket(now) /\ A!Bucket(now) \in Nat
  BY AggregateTypes DEF AggregateInvariant, Past
<1>8. Past'
  <2>1. firedCron <= A!Bucket(now')
    BY <1>1, <1>7
  <2> QED
    BY <1>0, <1>7, <2>1, SameRuns DEF AggregateInvariant, Past
<1>9. CronInTime' /\ ByHand'
  <2>1. job["cron"].pc # "idle" => firedCron = A!Bucket(now')
    BY <1>2 DEF AggregateInvariant, CronInTime
  <2>2. job["cron"].pc \in {"read", "write"} => Closing'
    BY <1>6 DEF AggregateInvariant, CronInTime
  <2> QED
    BY <1>0, <2>1, <2>2 DEF AggregateInvariant, CronInTime, ByHand
<1> QED
  BY <1>4, <1>5, <1>8, <1>9 DEF AggregateInvariant

LEMMA LowerBucket ==
  ASSUME NEW b \in A!Buckets, NEW c \in Nat, c <= b
  PROVE  c \in A!Buckets
<1>1. A!Bucket(LastTick) \in Nat
  BY BucketOf, AggregatesAssumption
<1> QED
  BY <1>1 DEF A!Buckets

(* The cron of a bucket is due, or never comes.                            *)
LEMMA FireStep ==
  ASSUME AggregateInvariant, A!FireCron \/ A!MissCron
  PROVE  AggregateInvariant'
<1> DEFINE B == A!Bucket(now)
<1> DEFINE next == [pc |-> "read", todo |-> <<B, B - 1>>, got |-> {}]
<1>0. /\ UNCHANGED <<now, run, agg, closed, byHand>>
      /\ firedCron < B /\ firedCron' = B
      /\ \/ job' = job
         \/ job["cron"].pc = "idle" /\ job' = [job EXCEPT !["cron"] = next]
  BY DEF A!FireCron, A!MissCron
<1>1. B \in A!Buckets /\ B \in Nat /\ firedCron \in Nat
  BY AggregateTypes
<1> HIDE DEF B
<1>2. B - 1 \in A!Buckets /\ B >= 1 /\ firedCron <= B - 1
  BY <1>0, <1>1, LowerBucket
<1>3. next \in JobType
  BY <1>1, <1>2 DEF JobType
<1>4. job' \in [{"cron", "admin"} -> JobType] /\ job'["admin"] = job["admin"]
  BY <1>0, <1>3, AggregateTypes
<1>5. A!TypeOK'
  <2>1. A!TypeOK
    BY DEF AggregateInvariant
  <2> QED
    BY <1>0, <1>4, <2>1 DEF A!TypeOK, JobType, A!Jobs
<1>6. /\ \A b \in closed : b < B - 1
      /\ \A r \in Runs : run[r].st = "deleted" => Its(r) < B - 1
  <2>1. /\ \A b \in closed : b \in Nat /\ b < firedCron
        /\ \A r \in Runs : Its(r) \in Nat /\ (run[r].st = "deleted" => Its(r) < firedCron)
    BY AggregateTypes DEF AggregateInvariant, Past
  <2> QED
    BY <1>1, <1>2, <2>1
<1>7. Past'
  <2>1. /\ \A b \in closed : b \in Nat
        /\ \A r \in Runs : Its(r) \in Nat
    BY AggregateTypes
  <2>2. /\ \A b \in closed : b < B
        /\ \A r \in Runs : run[r].st = "deleted" => Its(r) < B
    BY <1>1, <1>6, <2>1
  <2>3. B <= A!Bucket(now')
    BY <1>0, <1>1 DEF B
  <2> QED
    BY <1>0, <1>1, <2>2, <2>3, SameRuns DEF Past
<1>8. CronInTime'
  <2>1. CASE job' = job
    <3>1. job["cron"].pc = "idle"
      BY <1>0, <1>1 DEF AggregateInvariant, CronInTime, B
    <3> QED
      BY <2>1, <3>1 DEF CronInTime
  <2>2. CASE job' = [job EXCEPT !["cron"] = next]
    <3>1. job'["cron"] = next
      BY <2>2, AggregateTypes
    <3>2. firedCron' = A!Bucket(now')
      BY <1>0 DEF B
    <3>3. Closing'
      BY <1>0, <1>2, <1>6, <3>1, <3>2, SameRuns DEF Closing
    <3> QED
      BY <3>2, <3>3 DEF CronInTime
  <2> QED
    BY <1>0, <2>1, <2>2
<1>9. RunsCounted' /\ ByHand'
  BY <1>0, <1>4, SameRuns DEF AggregateInvariant, RunsCounted, ByHand, A!Kept
<1> QED
  BY <1>5, <1>7, <1>8, <1>9 DEF AggregateInvariant

LEMMA ReaggregateStep ==
  ASSUME AggregateInvariant, A!Reaggregate
  PROVE  AggregateInvariant'
<1>1. PICK b \in A!Buckets :
        /\ job' = [job EXCEPT !["admin"] = [pc |-> "read", todo |-> <<b>>, got |-> {}]]
        /\ byHand' = byHand \cup {b}
  BY DEF A!Reaggregate
<1>2. UNCHANGED <<now, run, agg, firedCron, closed>>
  BY DEF A!Reaggregate
<1>3. [pc |-> "read", todo |-> <<b>>, got |-> {}] \in JobType
  BY DEF JobType
<1>4. /\ job' \in [{"cron", "admin"} -> JobType] /\ job'["cron"] = job["cron"]
      /\ job'["admin"] = [pc |-> "read", todo |-> <<b>>, got |-> {}]
  BY <1>1, <1>3, AggregateTypes
<1>5. A!TypeOK'
  <2>1. A!TypeOK
    BY DEF AggregateInvariant
  <2> QED
    BY <1>1, <1>2, <1>4, <2>1 DEF A!TypeOK, JobType, A!Jobs
<1>6. Past' /\ RunsCounted'
  BY <1>1, <1>2, SameRuns DEF AggregateInvariant, Past, RunsCounted, A!Kept
<1>7. CronInTime'
  BY <1>2, <1>4, SameRuns DEF AggregateInvariant, CronInTime, Closing
<1>8. ByHand'
  BY <1>1, <1>4 DEF ByHand
<1> QED
  BY <1>5, <1>6, <1>7, <1>8 DEF AggregateInvariant

(* What an aggregation is doing, and what comes after.                     *)
LEMMA TurnOf ==
  ASSUME AggregateInvariant, NEW i \in {"cron", "admin"}, job[i].pc \in {"read", "write"}
  PROVE  \/ /\ i = "cron" /\ job[i].todo = <<firedCron, firedCron - 1>>
            /\ Head(job[i].todo) = firedCron
            /\ A!Turn(i) = [pc |-> "read", todo |-> <<firedCron - 1>>, got |-> {}]
            /\ A!Closes(i) = {}
         \/ /\ i = "cron" /\ job[i].todo = <<firedCron - 1>>
            /\ Head(job[i].todo) = firedCron - 1
            /\ A!Turn(i) = [pc |-> "clean", todo |-> << >>, got |-> {}]
            /\ A!Closes(i) = {firedCron - 1}
         \/ /\ i = "admin" /\ Head(job[i].todo) \in byHand
            /\ A!Turn(i) = [pc |-> "idle", todo |-> << >>, got |-> {}]
            /\ A!Closes(i) = {}
<1>1. CASE i = "cron" /\ job[i].todo = <<firedCron, firedCron - 1>>
  <2>1. /\ Len(job[i].todo) = 2 /\ Head(job[i].todo) = firedCron
        /\ Tail(job[i].todo) = <<firedCron - 1>>
    BY <1>1
  <2> QED
    BY <1>1, <2>1 DEF A!Turn, A!Closes
<1>2. CASE i = "cron" /\ job[i].todo = <<firedCron - 1>>
  <2>1. /\ Len(job[i].todo) = 1 /\ Head(job[i].todo) = firedCron - 1
        /\ Tail(job[i].todo) = << >>
    BY <1>2
  <2> QED
    BY <1>2, <2>1 DEF A!Turn, A!Closes
<1>3. CASE i = "admin"
  <2>1. PICK b \in byHand : job[i].todo = <<b>>
    BY <1>3 DEF AggregateInvariant, ByHand
  <2>2. Len(job[i].todo) = 1 /\ Head(job[i].todo) = b /\ Tail(job[i].todo) = << >>
    BY <2>1
  <2>3. A!Turn(i) = [pc |-> "idle", todo |-> << >>, got |-> {}]
    <3>1. ~(Len(job[i].todo) > 1) /\ i # "cron"
      BY <1>3, <2>2
    <3>2. A!Turn(i) = [pc |-> "idle", todo |-> Tail(job[i].todo), got |-> {}]
      BY <3>1 DEF A!Turn
    <3> QED
      BY <2>2, <3>2
  <2>4. A!Closes(i) = {}
    BY <1>3 DEF A!Closes
  <2> QED
    BY <1>3, <2>1, <2>2, <2>3, <2>4
<1>4. i = "cron" => job[i].todo \in {<<firedCron, firedCron - 1>>, <<firedCron - 1>>}
  BY DEF AggregateInvariant, CronInTime, Closing
<1> QED
  BY <1>1, <1>2, <1>3, <1>4

(* The window of a bucket is of the stored runs that belong to it.         *)
LEMMA WindowOf ==
  ASSUME AggregateInvariant, NEW b \in Nat, NEW r \in Runs
  PROVE  r \in A!Window(b) <=> run[r].st = "stored" /\ Its(r) = b
<1>1. run[r].start \in Nat
  BY AggregateTypes
<1>2. run[r].start \in b * SLOT .. (b + 1) * SLOT - 1 <=> Its(r) = b
  BY <1>1, WithinBucket DEF Its
<1> QED
  BY <1>2 DEF A!Window

(* An aggregation is through with a bucket and turns to what comes next.   *)
LEMMA TurnStep ==
  ASSUME AggregateInvariant, NEW i \in {"cron", "admin"}, job[i].pc \in {"read", "write"},
         job' = [job EXCEPT ![i] = A!Turn(i)], closed' = closed \cup A!Closes(i),
         UNCHANGED <<now, run, firedCron, byHand>>
  PROVE  /\ job' \in [{"cron", "admin"} -> JobType] /\ closed' \subseteq A!Buckets
         /\ Past' /\ CronInTime' /\ ByHand'
<1>1. /\ firedCron \in Nat /\ closed \subseteq A!Buckets /\ A!Buckets \subseteq Nat
      /\ A!Bucket(now) \in A!Buckets /\ job \in [{"cron", "admin"} -> JobType]
      /\ \A r \in Runs : Its(r) \in Nat
  BY AggregateTypes
<1>2. i = "cron" => Closing /\ firedCron = A!Bucket(now)
  BY DEF AggregateInvariant, CronInTime
<1>3. i = "cron" => firedCron >= 1 /\ firedCron - 1 \in A!Buckets
  <2> SUFFICES ASSUME i = "cron" PROVE firedCron >= 1 /\ firedCron - 1 \in A!Buckets
    OBVIOUS
  <2>1. firedCron >= 1 /\ firedCron \in A!Buckets /\ firedCron - 1 \in Nat
    BY <1>1, <1>2 DEF Closing
  <2> QED
    BY <1>1, <2>1, LowerBucket
<1>4. A!Turn(i) \in JobType
  <2>1. /\ << >> \in Seq(A!Buckets)
        /\ i = "cron" => <<firedCron - 1>> \in Seq(A!Buckets)
    BY <1>3
  <2>2. \/ i = "cron" /\ A!Turn(i) = [pc |-> "read", todo |-> <<firedCron - 1>>, got |-> {}]
        \/ \E pc \in {"clean", "idle"} : A!Turn(i) = [pc |-> pc, todo |-> << >>, got |-> {}]
    BY TurnOf
  <2>3. \A pc \in {"read", "clean", "idle"} : \A todo \in Seq(A!Buckets) :
          [pc |-> pc, todo |-> todo, got |-> {}] \in JobType
    BY DEF JobType
  <2>4. CASE i = "cron" /\ A!Turn(i) = [pc |-> "read", todo |-> <<firedCron - 1>>, got |-> {}]
    BY <2>1, <2>3, <2>4
  <2>5. ASSUME NEW pc \in {"clean", "idle"}, A!Turn(i) = [pc |-> pc, todo |-> << >>, got |-> {}]
        PROVE  A!Turn(i) \in JobType
    BY <2>1, <2>3, <2>5
  <2> QED
    BY <2>2, <2>4, <2>5
<1>5. /\ job' \in [{"cron", "admin"} -> JobType] /\ job'[i] = A!Turn(i)
      /\ \A k \in {"cron", "admin"} : k # i => job'[k] = job[k]
  BY <1>1, <1>4
<1>6. closed' \subseteq A!Buckets /\ \A b \in closed' : b < firedCron
  <2>1. \A b \in closed : b < firedCron
    BY DEF AggregateInvariant, Past
  <2>2. A!Closes(i) = {} \/ (i = "cron" /\ A!Closes(i) = {firedCron - 1})
    BY TurnOf
  <2>3. CASE A!Closes(i) = {}
    <3>1. closed' = closed
      BY <2>3
    <3> QED
      BY <1>1, <2>1, <3>1
  <2>4. CASE i = "cron" /\ A!Closes(i) = {firedCron - 1}
    <3>1. closed' = closed \cup {firedCron - 1} /\ firedCron - 1 < firedCron
      BY <1>1, <2>4
    <3> QED
      BY <1>1, <1>3, <2>1, <2>4, <3>1
  <2> QED
    BY <2>2, <2>3, <2>4
<1>7. Past'
  BY <1>6, SameRuns DEF AggregateInvariant, Past
<1>8. CASE i = "admin"
  <2>1. /\ job'["cron"] = job["cron"] /\ closed' = closed
        /\ job'["admin"].pc = "idle"
    BY <1>5, <1>8, TurnOf
  <2>2. CronInTime'
    BY <2>1, SameRuns DEF AggregateInvariant, CronInTime, Closing
  <2>3. ByHand'
    BY <2>1 DEF ByHand
  <2> QED
    BY <1>5, <1>6, <1>7, <2>2, <2>3
<1>9. CASE i = "cron"
  <2>0. firedCron' = A!Bucket(now')
    BY <1>2, <1>9
  <2>1. job'["admin"] = job["admin"]
    BY <1>5, <1>9
  <2>2. ByHand'
    BY <2>1 DEF AggregateInvariant, ByHand
  <2>3. ASSUME job[i].todo = <<firedCron, firedCron - 1>>
        PROVE  CronInTime'
    <3>1. /\ job'["cron"] = [pc |-> "read", todo |-> <<firedCron - 1>>, got |-> {}]
          /\ closed' = closed
      <4>1. job[i].todo # <<firedCron - 1>>
        BY <2>3
      <4> QED
        BY <1>5, <1>9, <4>1, TurnOf
    <3>2. Closing'
      BY <1>2, <1>9, <3>1, SameRuns DEF Closing
    <3> QED
      BY <2>0, <3>2 DEF CronInTime
  <2>4. ASSUME job[i].todo = <<firedCron - 1>>
        PROVE  CronInTime'
    <3>1. job'["cron"].pc = "clean"
      <4>1. job[i].todo # <<firedCron, firedCron - 1>>
        BY <2>4
      <4> QED
        BY <1>5, <1>9, <4>1, TurnOf
    <3> QED
      BY <2>0, <3>1 DEF CronInTime
  <2>5. CronInTime'
    BY <1>9, <2>3, <2>4, TurnOf
  <2> QED
    BY <1>5, <1>6, <1>7, <2>2, <2>5
<1> QED
  BY <1>8, <1>9

LEMMA WindowIsRead ==
  ASSUME AggregateInvariant, NEW i \in {"cron", "admin"}, A!ReadWindow(i)
  PROVE  AggregateInvariant'
<1> DEFINE got == A!Window(Head(job[i].todo))
<1>0. /\ job[i].pc = "read" /\ UNCHANGED <<now, run, agg, firedCron, byHand>>
      /\ \/ got = {} /\ job' = [job EXCEPT ![i] = A!Turn(i)] /\ closed' = closed \cup A!Closes(i)
         \/ job' = [job EXCEPT ![i].pc = "write", ![i].got = got] /\ closed' = closed
  BY DEF A!ReadWindow
<1>1. job[i].pc \in {"read", "write"} /\ got \subseteq Runs
  BY <1>0 DEF A!Window
<1>2. /\ firedCron \in Nat /\ closed \subseteq A!Buckets /\ job \in [{"cron", "admin"} -> JobType]
      /\ A!TypeOK
  BY AggregateTypes DEF AggregateInvariant
<1>3. i = "cron" => Closing /\ firedCron = A!Bucket(now) /\ firedCron - 1 \in Nat
  BY <1>1, <1>2 DEF AggregateInvariant, CronInTime, Closing
<1>4. CASE got = {} /\ job' = [job EXCEPT ![i] = A!Turn(i)] /\ closed' = closed \cup A!Closes(i)
  <2>1. /\ job' \in [{"cron", "admin"} -> JobType] /\ closed' \subseteq A!Buckets
        /\ Past' /\ CronInTime' /\ ByHand'
    BY <1>0, <1>1, <1>4, TurnStep
  <2>2. A!TypeOK'
    BY <1>0, <1>2, <2>1 DEF A!TypeOK, JobType, A!Jobs
  <2>3. RunsCounted'
    <3> SUFFICES ASSUME NEW r \in Runs, Timely(r), Its(r) \in closed' \ byHand, A!Kept(Its(r))
                 PROVE  r \in agg[Its(r)]
      BY <1>0, SameRuns DEF RunsCounted, A!Kept
    <3>1. CASE Its(r) \in closed
      BY <3>1 DEF AggregateInvariant, RunsCounted
    <3>2. CASE Its(r) \notin closed
      <4>1. i = "cron" /\ Its(r) = firedCron - 1 /\ Head(job[i].todo) = firedCron - 1
        BY <1>1, <1>4, <3>2, TurnOf
      <4>2. run[r].st = "stored"
        BY <1>2, <1>3, <4>1 DEF Timely, Closing
      <4>3. r \in got
        BY <1>3, <4>1, <4>2, WindowOf
      <4> QED
        BY <1>4, <4>3
    <3> QED
      BY <3>1, <3>2
  <2> QED
    BY <2>1, <2>2, <2>3 DEF AggregateInvariant
<1>5. CASE job' = [job EXCEPT ![i].pc = "write", ![i].got = got] /\ closed' = closed
  <2> HIDE DEF got
  <2>1. /\ job' \in [{"cron", "admin"} -> JobType]
        /\ job'[i].pc = "write" /\ job'[i].got = got /\ job'[i].todo = job[i].todo
        /\ \A k \in {"cron", "admin"} : k # i => job'[k] = job[k]
    BY <1>1, <1>2, <1>5 DEF JobType
  <2>2. A!TypeOK'
    BY <1>0, <1>2, <1>5, <2>1 DEF A!TypeOK, JobType, A!Jobs
  <2>3. Past' /\ RunsCounted'
    BY <1>0, <1>5, SameRuns DEF AggregateInvariant, Past, RunsCounted, A!Kept
  <2>4. ByHand'
    <3>1. CASE i = "admin"
      <4>1. \E b \in byHand : job[i].todo = <<b>>
        BY <1>1, <3>1 DEF AggregateInvariant, ByHand
      <4> QED
        BY <1>0, <2>1, <3>1, <4>1 DEF ByHand
    <3>2. CASE i = "cron"
      BY <1>0, <2>1, <3>2 DEF AggregateInvariant, ByHand
    <3> QED
      BY <3>1, <3>2
  <2>5. CronInTime'
    <3>1. CASE i = "admin"
      <4>1. job'["cron"] = job["cron"]
        BY <2>1, <3>1
      <4> QED
        BY <1>0, <1>5, <4>1, SameRuns DEF AggregateInvariant, CronInTime, Closing
    <3>2. CASE i = "cron"
      <4>1. ASSUME job[i].todo = <<firedCron - 1>>, NEW r \in Runs,
                   Timely(r), Its(r) = firedCron - 1
            PROVE  r \in got
        <5>1. run[r].st = "stored"
          BY <1>2, <1>3, <3>2, <4>1 DEF Timely, Closing
        <5>2. Head(job[i].todo) = firedCron - 1
          BY <4>1
        <5> QED
          BY <1>3, <3>2, <4>1, <5>1, <5>2, WindowOf DEF got
      <4>2. Closing'
        <5>1. /\ job'["cron"].todo \in {<<firedCron, firedCron - 1>>, <<firedCron - 1>>}
              /\ job'["cron"].pc = "write" /\ job'["cron"].got = got
          BY <1>3, <2>1, <3>2 DEF Closing
        <5>2. job'["cron"].todo = <<firedCron - 1>> =>
                \A r \in Runs : Timely(r) /\ Its(r) = firedCron - 1 => r \in got
          BY <2>1, <3>2, <4>1
        <5> QED
          BY <1>0, <1>3, <1>5, <3>2, <5>1, <5>2, SameRuns DEF Closing
      <4>3. firedCron' = A!Bucket(now')
        BY <1>0, <1>3, <3>2
      <4> QED
        BY <4>2, <4>3 DEF CronInTime
    <3> QED
      BY <3>1, <3>2
  <2> QED
    BY <2>2, <2>3, <2>4, <2>5 DEF AggregateInvariant
<1> QED
  BY <1>0, <1>4, <1>5

LEMMA RowIsWritten ==
  ASSUME AggregateInvariant, NEW i \in {"cron", "admin"}, A!WriteRow(i)
  PROVE  AggregateInvariant'
<1> DEFINE head == Head(job[i].todo)
<1>0. /\ job[i].pc = "write" /\ UNCHANGED <<now, run, firedCron, byHand>>
      /\ agg' = [agg EXCEPT ![head] = job[i].got]
      /\ job' = [job EXCEPT ![i] = A!Turn(i)] /\ closed' = closed \cup A!Closes(i)
  BY DEF A!WriteRow
<1>1. job[i].pc \in {"read", "write"}
  BY <1>0
<1>2. /\ firedCron \in Nat /\ closed \subseteq A!Buckets /\ A!Buckets \subseteq Nat
      /\ job \in [{"cron", "admin"} -> JobType] /\ agg \in [A!Buckets -> SUBSET Runs] /\ A!TypeOK
  BY AggregateTypes DEF AggregateInvariant
<1>3. i = "cron" => Closing
  BY <1>1 DEF AggregateInvariant, CronInTime
<1>4. /\ job' \in [{"cron", "admin"} -> JobType] /\ closed' \subseteq A!Buckets
      /\ Past' /\ CronInTime' /\ ByHand'
  BY <1>0, <1>1, TurnStep
<1>5. A!TypeOK'
  <2>1. job[i].got \in SUBSET Runs
    BY <1>2 DEF JobType
  <2>2. agg' \in [A!Buckets -> SUBSET Runs]
    BY <1>0, <1>2, <2>1
  <2> QED
    BY <1>0, <1>2, <1>4, <2>2 DEF A!TypeOK, JobType, A!Jobs
<1>6. RunsCounted'
  <2> SUFFICES ASSUME NEW r \in Runs, Timely(r), Its(r) \in closed' \ byHand, A!Kept(Its(r))
               PROVE  r \in agg'[Its(r)]
    BY <1>0, SameRuns DEF RunsCounted, A!Kept
  <2>1. Its(r) \in A!Buckets
    BY AggregateTypes
  <2>2. CASE Its(r) # head
    <3>1. agg'[Its(r)] = agg[Its(r)]
      BY <1>0, <1>2, <2>1, <2>2
    <3>2. Its(r) \in closed
      BY <1>0, <1>1, <2>2, TurnOf
    <3> QED
      BY <3>1, <3>2 DEF AggregateInvariant, RunsCounted
  <2>3. CASE Its(r) = head
    <3>1. agg'[Its(r)] = job[i].got
      BY <1>0, <1>2, <2>1, <2>3
    <3>2. i = "cron" /\ job[i].todo = <<firedCron - 1>> /\ head = firedCron - 1
      <4>1. head \notin byHand
        BY <2>3
      <4>2. ~(i = "cron" /\ head = firedCron /\ A!Closes(i) = {})
        <5> SUFFICES ASSUME i = "cron", head = firedCron, A!Closes(i) = {} PROVE FALSE
          OBVIOUS
        <5>1. Its(r) \in closed /\ Its(r) = firedCron /\ Its(r) \in Nat
          BY <1>0, <1>2, <2>1, <2>3
        <5> QED
          BY <5>1 DEF AggregateInvariant, Past
      <4> QED
        BY <1>1, <4>1, <4>2, TurnOf
    <3>3. r \in job[i].got
      BY <1>0, <1>3, <2>3, <3>2 DEF Closing
    <3> QED
      BY <3>1, <3>3
  <2> QED
    BY <2>2, <2>3
<1> QED
  BY <1>4, <1>5, <1>6 DEF AggregateInvariant

LEMMA AbortStep ==
  ASSUME AggregateInvariant, NEW i \in {"cron", "admin"}, A!Abort(i)
  PROVE  AggregateInvariant'
<1>0. UNCHANGED <<now, run, agg, firedCron, closed, byHand>> /\ job[i].pc # "idle"
  BY DEF A!Abort
<1>1. PICK pc \in {"clean", "idle"} :
        /\ job' = [job EXCEPT ![i] = [pc |-> pc, todo |-> << >>, got |-> {}]]
        /\ i = "admin" => pc = "idle"
  <2>1. PICK pc \in IF i = "cron" /\ job[i].pc # "clean" THEN {"clean", "idle"} ELSE {"idle"} :
          job' = [job EXCEPT ![i] = [A!Idle EXCEPT !.pc = pc]]
    BY DEF A!Abort
  <2>2. [A!Idle EXCEPT !.pc = pc] = [pc |-> pc, todo |-> << >>, got |-> {}]
    BY DEF A!Idle
  <2>3. pc \in {"clean", "idle"} /\ (i = "admin" => pc = "idle")
    BY <2>1
  <2> QED
    BY <2>1, <2>2, <2>3
<1>2. job \in [{"cron", "admin"} -> JobType] /\ A!TypeOK
  BY AggregateTypes DEF AggregateInvariant
<1>3. /\ job' \in [{"cron", "admin"} -> JobType] /\ job'[i].pc = pc
      /\ \A k \in {"cron", "admin"} : k # i => job'[k] = job[k]
  <2>1. [pc |-> pc, todo |-> << >>, got |-> {}] \in JobType
    BY DEF JobType
  <2> QED
    BY <1>1, <1>2, <2>1
<1>4. A!TypeOK'
  BY <1>0, <1>2, <1>3 DEF A!TypeOK, JobType, A!Jobs
<1>5. Past' /\ RunsCounted'
  BY <1>0, SameRuns DEF AggregateInvariant, Past, RunsCounted, A!Kept
<1>6. CronInTime' /\ ByHand'
  <2>1. CASE i = "admin"
    <3>1. job'["cron"] = job["cron"] /\ job'["admin"].pc = "idle"
      BY <1>1, <1>3, <2>1
    <3> QED
      BY <1>0, <3>1, SameRuns DEF AggregateInvariant, CronInTime, Closing, ByHand
  <2>2. CASE i = "cron"
    <3>1. /\ job'["admin"] = job["admin"] /\ job'["cron"].pc \notin {"read", "write"}
          /\ firedCron' = A!Bucket(now')
      BY <1>0, <1>1, <1>3, <2>2 DEF AggregateInvariant, CronInTime
    <3> QED
      BY <1>0, <3>1 DEF AggregateInvariant, CronInTime, ByHand
  <2> QED
    BY <2>1, <2>2
<1> QED
  BY <1>4, <1>5, <1>6 DEF AggregateInvariant

(* What the retention deletes started at least a bucket ago.               *)
LEMMA CleanStep ==
  ASSUME AggregateInvariant, A!Clean
  PROVE  AggregateInvariant'
<1>0. /\ job["cron"].pc = "clean" /\ UNCHANGED <<now, firedCron, closed, byHand>>
      /\ job' = [job EXCEPT !["cron"] = [pc |-> "idle", todo |-> << >>, got |-> {}]]
  BY DEF A!Clean, A!Idle
<1>1. /\ now \in Nat /\ run \in [Runs -> RunType] /\ agg \in [A!Buckets -> SUBSET Runs]
      /\ job \in [{"cron", "admin"} -> JobType] /\ A!TypeOK
  BY AggregateTypes DEF AggregateInvariant
<1>2. /\ run' \in [Runs -> RunType]
      /\ \A r \in Runs :
           \/ run'[r] = run[r]
           \/ /\ run[r].st = "stored" /\ run[r].start + RAW_KEEP * SLOT < now
              /\ run'[r] = [run[r] EXCEPT !.st = "deleted"]
  BY <1>1 DEF A!Clean, RunType
<1>3. \A r \in Runs : /\ Its(r)' = Its(r) /\ (Timely(r)' => Timely(r))
                      /\ run'[r].start = run[r].start
  BY <1>1, <1>2 DEF Its, Timely, RunType
<1>4. /\ agg' \in [A!Buckets -> SUBSET Runs]
      /\ \A b \in A!Buckets : A!Kept(b) => agg'[b] = agg[b]
  <2>1. \A b \in A!Buckets : A!Kept(b) => ~(b * SLOT + AGG_KEEP * SLOT < now)
    <3> SUFFICES ASSUME NEW b \in A!Buckets, A!Kept(b), b * SLOT + AGG_KEEP * SLOT < now
                 PROVE  FALSE
      OBVIOUS
    <3>1. b * SLOT + AGG_KEEP * SLOT \in Int /\ b * SLOT + AGG_KEEP * SLOT >= now
      BY AggregateTypes, AggregatesAssumption DEF A!Kept
    <3> DEFINE e == b * SLOT + AGG_KEEP * SLOT
    <3>2. e \in Int /\ e >= now /\ e < now
      BY <3>1
    <3> HIDE DEF e
    <3> QED
      BY <1>1, <3>2
  <2> HIDE DEF A!Kept
  <2>2. CASE agg' = agg
    BY <1>1, <2>2
  <2>3. CASE agg' = [b \in A!Buckets |-> IF b * SLOT + AGG_KEEP * SLOT < now THEN {} ELSE agg[b]]
    BY <1>1, <2>1, <2>3
  <2> QED
    BY <2>2, <2>3 DEF A!Clean
<1>5. \A r \in Runs : run'[r].st = "deleted" => Its(r) < firedCron
  <2> SUFFICES ASSUME NEW r \in Runs, run[r].st = "stored",
                      run[r].start + RAW_KEEP * SLOT < now
               PROVE  Its(r) < firedCron
    BY <1>2 DEF AggregateInvariant, Past
  <2>1. run[r].start \in Nat /\ Its(r) \in Nat /\ firedCron = A!Bucket(now)
    BY <1>0, AggregateTypes DEF AggregateInvariant, CronInTime
  <2>2. SLOT <= RAW_KEEP * SLOT /\ RAW_KEEP * SLOT \in Int /\ SLOT \in Int
    <3>1. 1 * SLOT <= RAW_KEEP * SLOT
      BY Multiples, AggregatesAssumption
    <3> QED
      BY <3>1, AggregatesAssumption
  <2>3. run[r].start + SLOT < now
    <3> DEFINE k == RAW_KEEP * SLOT
    <3>1. k \in Int /\ SLOT <= k /\ run[r].start + k < now
      BY <2>2
    <3> HIDE DEF k
    <3> QED
      BY <1>1, <2>1, <2>2, <3>1
  <2>4. Its(r) * SLOT <= run[r].start /\ now < (firedCron + 1) * SLOT /\ firedCron \in Nat
    BY <1>1, <2>1, BucketOf DEF Its
  <2> SUFFICES ASSUME firedCron <= Its(r) PROVE FALSE
    BY <2>1, <2>4
  <2>5. (firedCron + 1) * SLOT <= (Its(r) + 1) * SLOT
    BY <2>1, <2>4, Multiples
  <2>6. /\ (Its(r) + 1) * SLOT = Its(r) * SLOT + SLOT
        /\ Its(r) * SLOT \in Int /\ (firedCron + 1) * SLOT \in Int
    BY <2>1, <2>4, AggregatesAssumption
  <2> DEFINE f == (firedCron + 1) * SLOT
  <2> DEFINE e == Its(r) * SLOT
  <2>7. /\ f \in Int /\ e \in Int /\ f <= e + SLOT
        /\ e <= run[r].start /\ now < f
    BY <2>4, <2>5, <2>6
  <2> HIDE DEF f, e
  <2> QED
    BY <1>1, <2>1, <2>2, <2>3, <2>7
<1>6. /\ job' \in [{"cron", "admin"} -> JobType] /\ job'["cron"].pc = "idle"
      /\ job'["admin"] = job["admin"]
  <2>1. [pc |-> "idle", todo |-> << >>, got |-> {}] \in JobType
    BY DEF JobType
  <2> QED
    BY <1>0, <1>1, <2>1
<1>7. A!TypeOK'
  BY <1>0, <1>1, <1>2, <1>4, <1>6 DEF A!TypeOK, JobType, RunType, A!Jobs
<1>8. Past'
  BY <1>0, <1>3, <1>5 DEF AggregateInvariant, Past
<1>9. CronInTime' /\ ByHand'
  BY <1>0, <1>6 DEF AggregateInvariant, CronInTime, ByHand
<1>10. RunsCounted'
  <2> SUFFICES ASSUME NEW r \in Runs, Timely(r), Its(r) \in closed \ byHand, A!Kept(Its(r))
               PROVE  r \in agg'[Its(r)]
    BY <1>0, <1>3 DEF RunsCounted, A!Kept
  <2> QED
    BY <1>4, AggregateTypes DEF AggregateInvariant, RunsCounted
<1> QED
  BY <1>7, <1>8, <1>9, <1>10 DEF AggregateInvariant

LEMMA AggregateStep ==
  ASSUME AggregateInvariant, [A!Next]_(A!vars)
  PROVE  AggregateInvariant'
<1>1. CASE UNCHANGED A!vars
  <2>1. UNCHANGED <<now, run, agg, job, firedCron, closed, byHand>>
    BY <1>1 DEF A!vars
  <2>2. A!TypeOK' /\ Past' /\ ByHand' /\ RunsCounted'
    BY <2>1, SameRuns DEF AggregateInvariant, A!TypeOK, Past, ByHand, RunsCounted, A!Kept
  <2>3. CronInTime'
    BY <2>1, SameRuns DEF AggregateInvariant, CronInTime, Closing
  <2> QED
    BY <2>2, <2>3 DEF AggregateInvariant
<1>2. CASE A!Next
  BY <1>2, ClockStep, FireStep, ReaggregateStep, CleanStep, RunStep, WindowIsRead, RowIsWritten,
     AbortStep DEF A!Next, A!Jobs
<1> QED
  BY <1>1, <1>2

LEMMA CountedFollows == AggregateInvariant => A!TimelyRunsCounted
BY DEF AggregateInvariant, RunsCounted, Timely, Its, A!TimelyRunsCounted

-----------------------------------------------------------------------------
(* The administrator's page.                                               *)

(* A call that is not let through, or not answered yet, has changed only   *)
(* what it is done with.  Of the switches over which it has met nobody, a  *)
(* listing has found what is stored in `db', and a write has left what it  *)
(* stored.  A write that the page has forgotten leaves no switch on        *)
(* display, or one that is in doubt.                                       *)
Truthful(c, db, shown, doubt) ==
  /\ c.todo \subseteq c.ids /\ (c.kind \notin M!Writes => c.ids = {})
  /\ c.kind \in M!Writes /\ c.answer = "ok" => c.todo = {}
  /\ c.answer \in {"denied", "refused"} => c.todo = c.ids
  /\ c.todo # c.ids => M!Gate(c) = "pass"
  /\ c.kind = "list" /\ c.answer = "ok" => \A m \in c.clear : c.rows[m] \in {None, db[m]}
  /\ \A m \in c.ids \ c.todo : m \in c.clear => db[m] = c.on
  /\ c.orphan => \A m \in c.ids : m \in doubt \/ shown[m] = None

(* Neither of two calls is clear of what they have met over.               *)
Distinct(c, d) == \A m \in M!Clash(c, d) : m \notin c.clear /\ m \notin d.clear

PageInvariant ==
  /\ M!TypeOK
  /\ \A s \in Slots : call[s] # None => Truthful(call[s], stored, tab.shown, doubtful)
  /\ \A s, t \in Slots : s # t /\ call[s] # None /\ call[t] # None => Distinct(call[s], call[t])
  /\ M!PageIsHonest

LEMMA PageTypes ==
  ASSUME PageInvariant
  PROVE  /\ stored \in [Models -> BOOLEAN] /\ cookies \in BOOLEAN /\ doubtful \subseteq Models
         /\ tab \in M!Tab /\ call \in [Slots -> M!Call \cup {None}]
         /\ tab.shown \in [Models -> BOOLEAN \cup {None}]
         /\ \A s \in Slots : call[s] # None =>
              call[s] \in M!Call /\ Truthful(call[s], stored, tab.shown, doubtful)
         /\ None \notin M!Call /\ None \notin {"ok", "denied", "refused", "failed"}
BY AdminAssumption DEF PageInvariant, M!TypeOK, M!Tab

LEMMA BlankShows == M!Blank \in [Models -> BOOLEAN \cup {None}] /\ \A m \in Models : M!Blank[m] = None
BY DEF M!Blank

LEMMA InitPage == M!Init => PageInvariant
<1> SUFFICES ASSUME M!Init PROVE PageInvariant
  OBVIOUS
<1>1. /\ stored = [m \in Models |-> TRUE] /\ cookies = FALSE /\ doubtful = {}
      /\ tab = [authed |-> FALSE, csrf |-> FALSE, shown |-> M!Blank, selected |-> {},
                filter |-> "all", due |-> FALSE, bulkBusy |-> FALSE]
      /\ call = [s \in Slots |-> None]
  BY DEF M!Init, M!Fresh
<1>2. M!TypeOK
  BY <1>1, BlankShows DEF M!TypeOK, M!Tab
<1> QED
  BY <1>1, <1>2, BlankShows DEF PageInvariant, M!PageIsHonest

(* Over what a call that writes meets another one.                         *)
LEMMA Meeting ==
  ASSUME PageInvariant, NEW s \in Slots, NEW t \in Slots, s # t, call[s] # None, call[t] # None,
         NEW m \in call[s].ids, m \in call[t].ids \/ call[t].kind = "list"
  PROVE  m \notin call[s].clear /\ m \notin call[t].clear
<1>1. m \in Models
  BY PageTypes DEF M!Call
<1>2. m \in M!Clash(call[s], call[t])
  BY <1>1 DEF M!Clash, M!Touches
<1> QED
  BY <1>2 DEF PageInvariant, Distinct

(* A call that goes on as it was, but may have met others.                 *)
Same(d, c) ==
  /\ d.kind = c.kind /\ d.ids = c.ids /\ d.todo = c.todo /\ d.on = c.on /\ d.rows = c.rows
  /\ d.answer = c.answer /\ d.cookies = c.cookies /\ d.csrf = c.csrf /\ d.orphan = c.orphan
  /\ d.clear \subseteq c.clear

LEMMA SameGate ==
  ASSUME NEW c, NEW d, d.kind = c.kind, d.cookies = c.cookies, d.csrf = c.csrf
  PROVE  M!Gate(d) = M!Gate(c)
BY DEF M!Gate

LEMMA SameTruth ==
  ASSUME NEW c, NEW d, NEW db, NEW shown, NEW doubt, Truthful(c, db, shown, doubt), Same(d, c)
  PROVE  Truthful(d, db, shown, doubt)
<1>1. M!Gate(d) = M!Gate(c)
  BY SameGate DEF Same
<1> QED
  BY <1>1 DEF Truthful, Same

LEMMA StillDistinct ==
  ASSUME NEW c, NEW d, NEW c1, NEW d1, Distinct(c, d),
         c1.kind = c.kind, c1.ids = c.ids, c1.clear \subseteq c.clear,
         d1.kind = d.kind, d1.ids = d.ids, d1.clear \subseteq d.clear
  PROVE  Distinct(c1, d1)
<1>1. M!Clash(c1, d1) = M!Clash(c, d)
  BY DEF M!Clash, M!Touches
<1> QED
  BY <1>1 DEF Distinct

(* Editing the page, short of what it shows.                               *)
LEMMA PageEdited ==
  ASSUME PageInvariant, UNCHANGED <<stored, call, doubtful>>, cookies' \in BOOLEAN,
         tab' \in M!Tab, tab'.shown = tab.shown
  PROVE  PageInvariant'
<1>1. M!TypeOK'
  BY PageTypes DEF M!TypeOK
<1>2. \A m \in Models : M!Pending(m)' <=> M!Pending(m)
  BY DEF M!Pending
<1>3. M!PageIsHonest'
  BY <1>2 DEF PageInvariant, M!PageIsHonest
<1> QED
  BY <1>1, <1>3 DEF PageInvariant

(* What was awaited from a call that is over.                              *)
LEMMA NoLongerPending ==
  ASSUME PageInvariant, NEW s \in Slots, M!Ended(s), call[s] # None, NEW m \in Models,
         M!Pending(m), ~M!Pending(m)'
  PROVE  m \in call[s].ids \ call[s].todo
           \/ (call[s].kind = "list" /\ call[s].on /\ ~call[s].orphan)
<1>1. \A t \in Slots \ {s} : call'[t] = call[t]
  BY PageTypes DEF M!Ended
<1> QED
  BY <1>1 DEF M!Pending

(* A call is over.                                                         *)
LEMMA EndedKeeps ==
  ASSUME PageInvariant, NEW s \in Slots, call[s] # None, M!Ended(s), UNCHANGED stored,
         cookies' \in BOOLEAN, doubtful' \subseteq Models, tab' \in M!Tab,
         \A t \in Slots \ {s} : call[t] # None /\ call[t].orphan =>
           \A m \in call[t].ids : m \in doubtful' \/ tab'.shown[m] = None,
         \A m \in Models \ doubtful' : ~M!Pending(m)' => tab'.shown[m] \in {None, stored[m]}
  PROVE  PageInvariant'
<1>1. /\ call' \in [Slots -> M!Call \cup {None}] /\ call'[s] = None
      /\ \A t \in Slots \ {s} : call'[t] = call[t]
  BY PageTypes DEF M!Ended
<1>2. M!TypeOK'
  BY <1>1, PageTypes DEF M!TypeOK
<1>3. ASSUME NEW t \in Slots, call'[t] # None
      PROVE  Truthful(call'[t], stored', tab'.shown, doubtful')
  <2>1. t # s /\ call'[t] = call[t] /\ Truthful(call[t], stored, tab.shown, doubtful)
    BY <1>1, <1>3 DEF PageInvariant
  <2> QED
    BY <1>3, <2>1 DEF Truthful
<1>4. \A t, u \in Slots : t # u /\ call'[t] # None /\ call'[u] # None => Distinct(call'[t], call'[u])
  BY <1>1 DEF PageInvariant
<1>5. M!PageIsHonest'
  BY DEF M!PageIsHonest
<1> QED
  BY <1>2, <1>3, <1>4, <1>5 DEF PageInvariant

(* A call is sent, or the second half of one that switched a provider.     *)
LEMMA SendingKeeps ==
  ASSUME PageInvariant, NEW s \in Slots, NEW c \in M!Call, M!Sending(s, c),
         c.answer = None, c.todo = c.ids, c.kind \notin M!Writes => c.ids = {}, ~c.orphan,
         call[s] = None \/ (c.kind = "list" /\ c.on),
         UNCHANGED <<stored, doubtful>>, cookies' \in BOOLEAN,
         tab' \in M!Tab, tab'.shown = tab.shown
  PROVE  PageInvariant'
<1> DEFINE others == {t \in Slots \ {s} : call[t] # None}
<1> DEFINE met == UNION {M!Clash(c, call[o]) : o \in others}
<1> DEFINE c1 == [c EXCEPT !.clear = @ \ met]
<1>1. call' = [t \in Slots |->
                 IF t = s THEN c1
                 ELSE IF t \in others THEN [call[t] EXCEPT !.clear = @ \ M!Clash(c, call[t])]
                 ELSE None]
  BY DEF M!Sending
<1>2. \A o \in others : M!Clash(c, call[o]) \subseteq met
  OBVIOUS
<1> HIDE DEF met
<1>3. c1 \in M!Call /\ Same(c1, c) /\ c1.clear = c.clear \ met
  BY DEF M!Call, Same
<1> HIDE DEF c1
<1>4. ASSUME NEW t \in others
      PROVE  /\ call'[t] \in M!Call /\ Same(call'[t], call[t])
             /\ call'[t].clear = call[t].clear \ M!Clash(c, call[t])
             /\ t \in Slots /\ t # s /\ call[t] # None
  <2>1. t \in Slots /\ t # s /\ call[t] # None /\ call[t] \in M!Call
    BY PageTypes
  <2>2. call'[t] = [call[t] EXCEPT !.clear = @ \ M!Clash(c, call[t])]
    BY <1>1, <2>1
  <2> QED
    BY <2>1, <2>2 DEF M!Call, Same
<1>5. call'[s] = c1 /\ c1 # None /\ \A t \in Slots \ {s} : t \notin others => call'[t] = None
  BY <1>1, <1>3, PageTypes
<1>6. M!TypeOK'
  <2>1. call' \in [Slots -> M!Call \cup {None}]
    BY <1>1, <1>3, <1>4, <1>5
  <2> QED
    BY <2>1, PageTypes DEF M!TypeOK
<1>7. Truthful(c, stored, tab.shown, doubtful)
  BY PageTypes DEF Truthful
<1>8. \A t \in Slots : call'[t] # None => Truthful(call'[t], stored', tab'.shown, doubtful')
  <2>1. Truthful(c1, stored, tab.shown, doubtful)
    BY <1>3, <1>7, SameTruth
  <2>2. \A t \in others : Truthful(call'[t], stored, tab.shown, doubtful)
    BY <1>4, SameTruth DEF PageInvariant
  <2> QED
    BY <1>5, <2>1, <2>2
<1>9. ASSUME NEW t \in others
      PROVE  Distinct(c1, call'[t]) /\ Distinct(call'[t], c1)
  <2>1. /\ M!Clash(c1, call'[t]) = M!Clash(c, call[t])
        /\ M!Clash(call'[t], c1) = M!Clash(c, call[t])
    BY <1>3, <1>4 DEF M!Clash, M!Touches, Same
  <2> QED
    BY <1>2, <1>3, <1>4, <2>1 DEF Distinct
<1>10. \A t, u \in Slots : t # u /\ call'[t] # None /\ call'[u] # None => Distinct(call'[t], call'[u])
  <2>1. ASSUME NEW t \in others, NEW u \in others, t # u PROVE Distinct(call'[t], call'[u])
    <3>1. Distinct(call[t], call[u])
      BY <1>4, <2>1 DEF PageInvariant
    <3> QED
      BY <1>4, <3>1, StillDistinct DEF Same
  <2> QED
    BY <1>5, <1>9, <2>1
<1>11. ASSUME NEW m \in Models, M!Pending(m) PROVE M!Pending(m)'
  <2>1. PICK t \in Slots :
          /\ call[t] # None
          /\ m \in call[t].ids \ call[t].todo \/ (call[t].kind = "list" /\ call[t].on /\ ~call[t].orphan)
    BY <1>11 DEF M!Pending
  <2>2. CASE t = s
    BY <1>3, <1>5, <2>1, <2>2 DEF M!Pending, Same
  <2>3. CASE t # s
    <3>1. t \in others /\ call'[t] # None /\ Same(call'[t], call[t])
      BY <1>4, <2>1, <2>3, PageTypes
    <3> QED
      BY <2>1, <3>1 DEF M!Pending, Same
  <2> QED
    BY <2>2, <2>3
<1>12. M!PageIsHonest'
  BY <1>11 DEF PageInvariant, M!PageIsHonest
<1> QED
  BY <1>6, <1>8, <1>10, <1>12 DEF PageInvariant

LEMMA PlainCall ==
  ASSUME PageInvariant
  PROVE  /\ M!Plain \in M!Call /\ M!Plain.answer = None /\ M!Plain.kind = "list"
         /\ M!Plain.ids = {} /\ M!Plain.todo = {} /\ M!Plain.orphan = FALSE
BY PageTypes, BlankShows DEF M!Plain, M!Call, M!Tab

(* The user's calls: the session's, a listing, a switch.                   *)
LEMMA UserSends ==
  ASSUME PageInvariant, NEW s \in Slots, NEW c \in M!Call, M!Send(s, c),
         c.answer = None, c.todo = c.ids, c.kind \notin M!Writes => c.ids = {}, ~c.orphan,
         tab' \in M!Tab, tab'.shown = tab.shown
  PROVE  PageInvariant'
<1>1. call[s] = None /\ M!Sending(s, c) /\ UNCHANGED <<stored, cookies, doubtful>>
  BY DEF M!Send
<1>2. cookies' \in BOOLEAN
  BY <1>1, PageTypes
<1> QED
  BY <1>1, <1>2, SendingKeeps

LEMMA WriteCall ==
  ASSUME PageInvariant, NEW kind \in M!Writes, NEW ids \in SUBSET Models, NEW on \in BOOLEAN
  PROVE  LET c == M!Write(kind, ids, on)
         IN  /\ c \in M!Call /\ c.answer = None /\ c.todo = c.ids /\ ~c.orphan /\ c.kind = kind
BY PlainCall DEF M!Write, M!Call

LEMMA SwitchSent ==
  ASSUME PageInvariant, NEW s \in Slots, NEW kind \in M!Writes, NEW ids \in SUBSET Models,
         NEW on \in BOOLEAN, M!Send(s, M!Write(kind, ids, on)),
         tab' \in M!Tab, tab'.shown = tab.shown
  PROVE  PageInvariant'
<1> DEFINE c == M!Write(kind, ids, on)
<1>1. c \in M!Call /\ c.answer = None /\ c.todo = c.ids /\ ~c.orphan /\ c.kind = kind
  BY WriteCall
<1>2. M!Send(s, c)
  OBVIOUS
<1> HIDE DEF c
<1> QED
  BY <1>1, <1>2, UserSends

LEMMA UserStep ==
  ASSUME PageInvariant, NEW s \in Slots,
         \/ M!Logout(s) \/ M!Refresh(s) \/ M!FetchDue(s)
         \/ \E m \in Models : M!ToggleOne(s, m)
         \/ \E on \in BOOLEAN : M!Login(s, on) \/ M!Bulk(s, on) \/ M!ToggleProvider(s, on)
  PROVE  PageInvariant'
<1>0. tab \in M!Tab
  BY PageTypes
<1>1. CASE M!Logout(s)
  <2> DEFINE c == [M!Plain EXCEPT !.kind = "logout"]
  <2>1. c \in M!Call /\ c.answer = None /\ c.todo = c.ids /\ ~c.orphan /\ c.ids = {}
    BY PlainCall DEF M!Call
  <2>2. M!Send(s, c) /\ tab' = tab
    BY <1>1 DEF M!Logout
  <2> HIDE DEF c
  <2> QED
    BY <1>0, <2>1, <2>2, UserSends
<1>2. CASE M!Refresh(s)
  <2>1. M!Send(s, M!Plain) /\ tab' = tab
    BY <1>2 DEF M!Refresh
  <2> QED
    BY <1>0, <2>1, PlainCall, UserSends
<1>3. CASE M!FetchDue(s)
  <2>1. M!Send(s, M!Plain) /\ tab' \in M!Tab /\ tab'.shown = tab.shown
    BY <1>0, <1>3 DEF M!FetchDue, M!Tab
  <2> QED
    BY <2>1, PlainCall, UserSends
<1>4. ASSUME NEW m \in Models, M!ToggleOne(s, m)
      PROVE  PageInvariant'
  <2>1. (~tab.shown[m]) \in BOOLEAN /\ {m} \in SUBSET Models /\ "toggle" \in M!Writes
    BY DEF M!Writes
  <2>2. M!Send(s, M!Write("toggle", {m}, ~tab.shown[m])) /\ tab' = tab
    BY <1>4 DEF M!ToggleOne
  <2> QED
    BY <1>0, <2>1, <2>2, SwitchSent
<1>5. ASSUME NEW on \in BOOLEAN, M!Login(s, on)
      PROVE  PageInvariant'
  <2> DEFINE c == [M!Plain EXCEPT !.kind = "login", !.csrf = FALSE, !.right = on]
  <2>1. c \in M!Call /\ c.answer = None /\ c.todo = c.ids /\ ~c.orphan /\ c.ids = {}
    BY PlainCall DEF M!Call
  <2>2. M!Send(s, c) /\ tab' = tab
    BY <1>5 DEF M!Login
  <2> HIDE DEF c
  <2> QED
    BY <1>0, <2>1, <2>2, UserSends
<1>6. ASSUME NEW on \in BOOLEAN, M!Bulk(s, on)
      PROVE  PageInvariant'
  <2>1. tab.selected \in SUBSET Models /\ "bulk" \in M!Writes
    BY <1>0 DEF M!Writes, M!Tab
  <2>2. /\ M!Send(s, M!Write("bulk", tab.selected, on))
        /\ tab' \in M!Tab /\ tab'.shown = tab.shown
    BY <1>0, <1>6 DEF M!Bulk, M!Tab
  <2> QED
    BY <2>1, <2>2, SwitchSent
<1>7. ASSUME NEW on \in BOOLEAN, M!ToggleProvider(s, on)
      PROVE  PageInvariant'
  <2>1. Models \in SUBSET Models /\ "provider" \in M!Writes
    BY DEF M!Writes
  <2>2. /\ M!Send(s, M!Write("provider", Models, on))
        /\ tab' \in M!Tab /\ tab'.shown = tab.shown
    BY <1>0, <1>7 DEF M!ToggleProvider, M!Tab
  <2> QED
    BY <2>1, <2>2, SwitchSent
<1> QED
  BY <1>1, <1>2, <1>3, <1>4, <1>5, <1>6, <1>7

(* The calls under way go on, each with what it is about.                  *)
LEMMA CallsGoOn ==
  ASSUME PageInvariant, NEW F, call' = [t \in Slots |-> F[t]],
         \A t \in Slots :
           IF call[t] = None THEN F[t] = None
           ELSE /\ F[t] \in M!Call /\ F[t].kind = call[t].kind /\ F[t].ids = call[t].ids
                /\ F[t].clear \subseteq call[t].clear
                /\ Truthful(F[t], stored', tab'.shown, doubtful'),
         stored' \in [Models -> BOOLEAN], cookies' \in BOOLEAN, tab' \in M!Tab,
         doubtful' \subseteq Models, M!PageIsHonest'
  PROVE  PageInvariant'
<1>1. \A t \in Slots : call'[t] = F[t]
  OBVIOUS
<1>2. call' \in [Slots -> M!Call \cup {None}]
  OBVIOUS
<1>3. M!TypeOK'
  BY <1>2 DEF M!TypeOK
<1>4. \A t \in Slots : call'[t] # None => Truthful(call'[t], stored', tab'.shown, doubtful')
  BY <1>1
<1>5. \A t, u \in Slots : t # u /\ call'[t] # None /\ call'[u] # None => Distinct(call'[t], call'[u])
  <2> SUFFICES ASSUME NEW t \in Slots, NEW u \in Slots, t # u, call'[t] # None, call'[u] # None
               PROVE  Distinct(call'[t], call'[u])
    OBVIOUS
  <2>1. Distinct(call[t], call[u])
    BY <1>1 DEF PageInvariant
  <2> QED
    BY <1>1, <2>1, StillDistinct
<1> QED
  BY <1>3, <1>4, <1>5 DEF PageInvariant

LEMMA ReloadStep ==
  ASSUME PageInvariant, M!Reload
  PROVE  PageInvariant'
<1> DEFINE F == [t \in Slots |-> IF call[t] = None THEN None ELSE [call[t] EXCEPT !.orphan = TRUE]]
<1>1. /\ UNCHANGED <<stored, cookies, doubtful>>
      /\ tab' = [authed |-> FALSE, csrf |-> FALSE, shown |-> M!Blank, selected |-> {},
                 filter |-> "all", due |-> FALSE, bulkBusy |-> FALSE]
      /\ call' = F
  BY DEF M!Reload, M!Fresh
<1>2. tab' \in M!Tab /\ \A m \in Models : tab'.shown[m] = None
  BY <1>1, BlankShows DEF M!Tab
<1>3. ASSUME NEW t \in Slots, call[t] # None
      PROVE  /\ F[t] \in M!Call /\ F[t].kind = call[t].kind /\ F[t].ids = call[t].ids
             /\ F[t].clear = call[t].clear /\ Truthful(F[t], stored, tab'.shown, doubtful)
  <2>1. call[t] \in M!Call /\ Truthful(call[t], stored, tab.shown, doubtful)
    BY <1>3, PageTypes
  <2>2. F[t] = [call[t] EXCEPT !.orphan = TRUE]
    BY <1>3
  <2> HIDE DEF F
  <2>3. /\ F[t] \in M!Call /\ F[t].kind = call[t].kind /\ F[t].ids = call[t].ids
        /\ F[t].clear = call[t].clear /\ F[t].todo = call[t].todo /\ F[t].on = call[t].on
        /\ F[t].rows = call[t].rows /\ F[t].answer = call[t].answer
        /\ F[t].cookies = call[t].cookies /\ F[t].csrf = call[t].csrf
    BY <2>1, <2>2 DEF M!Call
  <2>4. M!Gate(F[t]) = M!Gate(call[t])
    BY <2>3, SameGate
  <2>5. call[t].ids \subseteq Models
    BY <2>1 DEF M!Call
  <2> QED
    BY <1>2, <2>1, <2>3, <2>4, <2>5 DEF Truthful
<1>4. M!PageIsHonest'
  BY <1>2 DEF M!PageIsHonest
<1>5. \A t \in Slots : call[t] = None => F[t] = None
  OBVIOUS
<1>6. call' = [t \in Slots |-> F[t]]
  BY <1>1
<1> HIDE DEF F
<1> QED
  BY <1>1, <1>2, <1>3, <1>4, <1>5, <1>6, PageTypes, CallsGoOn

(* Another writer leaves the switch in doubt, and no call clear of it.     *)
LEMMA ElsewhereStep ==
  ASSUME PageInvariant, NEW m \in Models, M!Elsewhere(m)
  PROVE  PageInvariant'
<1> DEFINE F == [t \in Slots |-> IF call[t] = None THEN None
                                 ELSE [call[t] EXCEPT !.clear = @ \ {m}]]
<1>1. /\ UNCHANGED <<cookies, tab>> /\ doubtful' = doubtful \cup {m} /\ call' = F
      /\ stored' \in [Models -> BOOLEAN] /\ \A n \in Models \ {m} : stored'[n] = stored[n]
  BY PageTypes DEF M!Elsewhere
<1>2. ASSUME NEW t \in Slots, call[t] # None
      PROVE  /\ F[t] \in M!Call /\ Same(F[t], call[t])
             /\ Truthful(F[t], stored', tab.shown, doubtful')
  <2>1. call[t] \in M!Call /\ Truthful(call[t], stored, tab.shown, doubtful)
    BY <1>2, PageTypes
  <2>2. F[t] = [call[t] EXCEPT !.clear = @ \ {m}]
    BY <1>2
  <2> HIDE DEF F
  <2>3. F[t] \in M!Call /\ Same(F[t], call[t]) /\ F[t].clear = call[t].clear \ {m}
    BY <2>1, <2>2 DEF M!Call, Same
  <2>4. Truthful(F[t], stored, tab.shown, doubtful)
    BY <2>1, <2>3, SameTruth
  <2>5. \A n \in F[t].clear : n \in Models \ {m}
    BY <2>1, <2>3 DEF M!Call
  <2> QED
    BY <1>1, <2>3, <2>4, <2>5 DEF Truthful
<1>3. ASSUME NEW n \in Models PROVE M!Pending(n)' <=> M!Pending(n)
  <2>1. ASSUME NEW t \in Slots
        PROVE  /\ call'[t] = None <=> call[t] = None
               /\ call[t] # None =>
                    /\ call'[t].ids = call[t].ids /\ call'[t].todo = call[t].todo
                    /\ call'[t].kind = call[t].kind /\ call'[t].on = call[t].on
                    /\ call'[t].orphan = call[t].orphan
    BY <1>1, <1>2, PageTypes DEF Same
  <2> QED
    BY <2>1 DEF M!Pending
<1>4. M!PageIsHonest'
  BY <1>1, <1>3 DEF PageInvariant, M!PageIsHonest
<1>5. \A t \in Slots : call[t] = None => F[t] = None
  OBVIOUS
<1>6. call' = [t \in Slots |-> F[t]]
  BY <1>1
<1>7. doubtful' \subseteq Models /\ tab' \in M!Tab /\ cookies' \in BOOLEAN
  BY <1>1, PageTypes
<1> HIDE DEF F
<1> QED
  BY <1>1, <1>2, <1>4, <1>5, <1>6, <1>7, CallsGoOn DEF Same

(* The server serves one call.                                             *)
LEMMA ServedKeeps ==
  ASSUME PageInvariant, NEW s \in Slots, call[s] # None, NEW c \in M!Call,
         call' = [call EXCEPT ![s] = c], UNCHANGED <<cookies, tab, doubtful>>,
         stored' \in [Models -> BOOLEAN],
         c.kind = call[s].kind, c.ids = call[s].ids, c.clear = call[s].clear, c.on = call[s].on,
         c.orphan = call[s].orphan, c.todo \subseteq call[s].todo,
         Truthful(c, stored', tab.shown, doubtful),
         \A t \in Slots \ {s} : call[t] # None => Truthful(call[t], stored', tab.shown, doubtful),
         \A m \in Models : stored'[m] # stored[m] => m \in c.ids \ c.todo
  PROVE  PageInvariant'
<1> DEFINE F == [t \in Slots |-> IF t = s THEN c ELSE call[t]]
<1>1. call' = [t \in Slots |-> F[t]]
  BY PageTypes
<1>2. F[s] = c /\ \A t \in Slots \ {s} : F[t] = call[t]
  OBVIOUS
<1>3. call'[s] = c /\ c # None /\ \A t \in Slots \ {s} : call'[t] = call[t]
  BY <1>1, PageTypes
<1> HIDE DEF F
<1>4. ASSUME NEW m \in Models, M!Pending(m) PROVE M!Pending(m)'
  <2>1. PICK t \in Slots :
          /\ call[t] # None
          /\ m \in call[t].ids \ call[t].todo \/ (call[t].kind = "list" /\ call[t].on /\ ~call[t].orphan)
    BY <1>4 DEF M!Pending
  <2> QED
    BY <1>3, <2>1 DEF M!Pending
<1>5. ASSUME NEW m \in Models, stored'[m] # stored[m] PROVE M!Pending(m)'
  BY <1>3, <1>5 DEF M!Pending
<1>6. M!PageIsHonest'
  BY <1>4, <1>5 DEF PageInvariant, M!PageIsHonest
<1>7. \A t \in Slots :
        IF call[t] = None THEN F[t] = None
        ELSE /\ F[t] \in M!Call /\ F[t].kind = call[t].kind /\ F[t].ids = call[t].ids
             /\ F[t].clear \subseteq call[t].clear
             /\ Truthful(F[t], stored', tab'.shown, doubtful')
  BY <1>2, PageTypes
<1> QED
  BY <1>1, <1>6, <1>7, PageTypes, CallsGoOn

(* The server answers, having changed nothing.                             *)
LEMMA ReplyKeeps ==
  ASSUME PageInvariant, NEW s \in Slots, NEW a \in {"ok", "denied", "refused", "failed"},
         call[s] # None, M!Reply(s, a), UNCHANGED <<stored, cookies, tab, doubtful>>,
         a \in {"denied", "refused"} => call[s].todo = call[s].ids,
         a = "ok" => call[s].kind \in {"login", "logout"}
  PROVE  PageInvariant'
<1> DEFINE c == [call[s] EXCEPT !.answer = a]
<1>1. call[s] \in M!Call /\ Truthful(call[s], stored, tab.shown, doubtful)
  BY PageTypes
<1>2. call' = [call EXCEPT ![s] = c]
  BY DEF M!Reply
<1>3. /\ c \in M!Call /\ c.kind = call[s].kind /\ c.ids = call[s].ids /\ c.clear = call[s].clear
      /\ c.on = call[s].on /\ c.orphan = call[s].orphan /\ c.todo = call[s].todo
      /\ c.rows = call[s].rows /\ c.answer = a /\ c.cookies = call[s].cookies
      /\ c.csrf = call[s].csrf
  BY <1>1 DEF M!Call
<1> HIDE DEF c
<1>4. M!Gate(c) = M!Gate(call[s])
  BY <1>3, SameGate
<1>5. Truthful(c, stored, tab.shown, doubtful)
  BY <1>1, <1>3, <1>4 DEF Truthful, M!Writes
<1> QED
  BY <1>2, <1>3, <1>5, PageTypes, ServedKeeps

LEMMA ServeListKeeps ==
  ASSUME PageInvariant, NEW s \in Slots, M!ServeList(s)
  PROVE  PageInvariant'
<1> DEFINE found == [m \in Models |->
          IF call[s].filter = "all" \/ stored[m] = (call[s].filter = "enabled") THEN stored[m] ELSE None]
<1> DEFINE c == [call[s] EXCEPT !.answer = "ok", !.rows = found]
<1>0. /\ call[s] # None /\ call[s].kind = "list"
      /\ UNCHANGED <<stored, cookies, tab, doubtful>>
      /\ call' = [call EXCEPT ![s].answer = "ok", ![s].rows = found]
  BY DEF M!ServeList, M!Waiting
<1>1. call[s] \in M!Call /\ Truthful(call[s], stored, tab.shown, doubtful)
  BY <1>0, PageTypes
<1>2. found \in [Models -> BOOLEAN \cup {None}] /\ \A m \in Models : found[m] \in {None, stored[m]}
  BY PageTypes
<1> HIDE DEF found
<1>3. /\ c \in M!Call /\ c.kind = "list" /\ c.ids = call[s].ids /\ c.clear = call[s].clear
      /\ c.on = call[s].on /\ c.orphan = call[s].orphan /\ c.todo = call[s].todo
      /\ c.rows = found /\ c.answer = "ok"
  BY <1>0, <1>1, <1>2 DEF M!Call
<1>4. call' = [call EXCEPT ![s] = c]
  BY <1>0, <1>1, PageTypes
<1> HIDE DEF c
<1>5. c.ids = {} /\ c.todo = {} /\ \A m \in c.clear : m \in Models
  BY <1>0, <1>1, <1>3 DEF Truthful, M!Writes, M!Call
<1>6. Truthful(c, stored, tab.shown, doubtful)
  BY <1>2, <1>3, <1>5 DEF Truthful, M!Writes
<1>7. UNCHANGED <<stored, cookies, tab, doubtful>> /\ call[s] # None
  BY <1>0
<1>8. \A t \in Slots : call[t] # None => Truthful(call[t], stored, tab.shown, doubtful)
  BY PageTypes
<1>9. stored \in [Models -> BOOLEAN] /\ c.todo \subseteq call[s].todo /\ c.kind = call[s].kind
  BY <1>0, <1>3, PageTypes
<1> QED
  BY <1>3, <1>4, <1>6, <1>7, <1>8, <1>9, ServedKeeps

(* One switch of a call is written: it is the call's, and done with, and   *)
(* no other call under way is clear of it.                                 *)
LEMMA ServeWriteKeeps ==
  ASSUME PageInvariant, NEW s \in Slots, M!ServeWrite(s)
  PROVE  PageInvariant'
<1>0. /\ call[s] # None /\ call[s].answer = None /\ call[s].kind \in M!Writes
      /\ M!Gate(call[s]) = "pass" /\ UNCHANGED <<cookies, tab, doubtful>>
  BY DEF M!ServeWrite, M!Waiting
<1>1. PICK m \in call[s].todo :
        /\ stored' = [stored EXCEPT ![m] = call[s].on]
        /\ call' = [call EXCEPT ![s].todo = @ \ {m},
                                ![s].answer = IF call[s].todo = {m} THEN "ok" ELSE @]
  BY DEF M!ServeWrite
<1>2. call[s] \in M!Call /\ Truthful(call[s], stored, tab.shown, doubtful)
  BY <1>0, PageTypes
<1>3. m \in Models /\ m \in call[s].ids /\ call[s].ids \subseteq Models /\ call[s].on \in BOOLEAN
  BY <1>2 DEF M!Call, Truthful
<1> DEFINE last == IF call[s].todo = {m} THEN "ok" ELSE None
<1> DEFINE c == [call[s] EXCEPT !.todo = call[s].todo \ {m}, !.answer = last]
<1>4. last \in {None, "ok"} /\ (last = "ok" <=> call[s].todo = {m})
  BY PageTypes
<1>5. call' = [call EXCEPT ![s] = c]
  BY <1>0, <1>1, <1>2, PageTypes
<1> HIDE DEF last
<1>6. /\ c \in M!Call /\ c.kind = call[s].kind /\ c.cookies = call[s].cookies
      /\ c.csrf = call[s].csrf /\ c.ids = call[s].ids /\ c.on = call[s].on
      /\ c.todo = call[s].todo \ {m} /\ c.answer = last
      /\ c.clear = call[s].clear /\ c.orphan = call[s].orphan
  BY <1>2, <1>4 DEF M!Call
<1> HIDE DEF c
<1>7. /\ stored' \in [Models -> BOOLEAN] /\ stored'[m] = call[s].on
      /\ \A n \in Models \ {m} : stored'[n] = stored[n]
  BY <1>1, <1>3, PageTypes
<1>8. Truthful(c, stored', tab.shown, doubtful)
  <2>1. M!Gate(c) = "pass"
    BY <1>0, <1>6, SameGate
  <2>2. c.answer \notin {"denied", "refused"} /\ c.kind # "list"
    BY <1>0, <1>4, <1>6, PageTypes DEF M!Writes
  <2>3. c.todo \subseteq c.ids /\ (c.answer = "ok" => c.todo = {})
    BY <1>2, <1>4, <1>6 DEF Truthful
  <2>4. \A n \in c.ids \ c.todo : n \in c.clear => stored'[n] = c.on
    <3> SUFFICES ASSUME NEW n \in c.ids \ c.todo, n \in c.clear, n # m PROVE stored'[n] = c.on
      BY <1>6, <1>7
    <3>1. n \in call[s].ids \ call[s].todo /\ n \in Models
      BY <1>3, <1>6
    <3> QED
      BY <1>2, <1>6, <1>7, <3>1 DEF Truthful
  <2>5. c.orphan => \A n \in c.ids : n \in doubtful \/ tab.shown[n] = None
    BY <1>2, <1>6 DEF Truthful
  <2> QED
    BY <1>0, <1>6, <2>1, <2>2, <2>3, <2>4, <2>5 DEF Truthful
<1>9. ASSUME NEW t \in Slots \ {s}, call[t] # None
      PROVE  Truthful(call[t], stored', tab.shown, doubtful)
  <2>1. Truthful(call[t], stored, tab.shown, doubtful) /\ call[t] \in M!Call
    BY <1>9, PageTypes
  <2>2. m \in call[t].ids \/ call[t].kind = "list" => m \notin call[t].clear
    BY <1>0, <1>3, <1>9, Meeting
  <2>3. \A n \in call[t].clear : n \in Models
    BY <2>1 DEF M!Call
  <2>4. call[t].kind = "list" /\ call[t].answer = "ok" =>
          \A n \in call[t].clear : call[t].rows[n] \in {None, stored'[n]}
    BY <1>7, <2>1, <2>2, <2>3 DEF Truthful
  <2>5. \A n \in call[t].ids \ call[t].todo : n \in call[t].clear => stored'[n] = call[t].on
    BY <1>7, <2>1, <2>2, <2>3 DEF Truthful
  <2> QED
    BY <2>1, <2>4, <2>5 DEF Truthful
<1>10. \A n \in Models : stored'[n] # stored[n] => n \in c.ids \ c.todo
  BY <1>3, <1>6, <1>7
<1> QED
  BY <1>0, <1>5, <1>6, <1>7, <1>8, <1>9, <1>10, ServedKeeps

LEMMA ServerStep ==
  ASSUME PageInvariant, NEW s \in Slots,
         \/ M!Reject(s) \/ M!ServeSession(s) \/ M!ServeList(s) \/ M!ServeWrite(s) \/ M!Break(s)
  PROVE  PageInvariant'
<1>1. CASE M!Reject(s)
  <2>1. call[s] # None /\ UNCHANGED <<stored, cookies, tab, doubtful>>
    BY <1>1 DEF M!Reject, M!Waiting
  <2>2. Truthful(call[s], stored, tab.shown, doubtful)
    BY <2>1, PageTypes
  <2>3. CASE M!Gate(call[s]) # "pass" /\ M!Reply(s, M!Gate(call[s]))
    <3>1. M!Gate(call[s]) \in {"denied", "refused"}
      BY <2>3 DEF M!Gate
    <3>2. call[s].todo = call[s].ids
      BY <2>2, <2>3 DEF Truthful
    <3> QED
      BY <2>1, <2>3, <3>1, <3>2, ReplyKeeps
  <2>4. CASE call[s].kind = "login" /\ M!Reply(s, "denied")
    <3>1. call[s].todo = call[s].ids
      BY <2>2, <2>4 DEF Truthful, M!Writes
    <3> QED
      BY <2>1, <2>4, <3>1, ReplyKeeps
  <2> QED
    BY <1>1, <2>3, <2>4 DEF M!Reject
<1>2. CASE M!ServeSession(s)
  BY <1>2, ReplyKeeps DEF M!ServeSession, M!Waiting
<1>3. CASE M!Break(s)
  <2>1. /\ call[s] # None /\ M!Reply(s, "failed") /\ UNCHANGED <<stored, cookies, tab, doubtful>>
    BY <1>3 DEF M!Break
  <2> QED
    BY <2>1, ReplyKeeps
<1> QED
  BY <1>1, <1>2, <1>3, ServeListKeeps, ServeWriteKeeps

(* An answer that leaves the display as it is, and the doubts as they are: *)
(* the call has stored nothing, or the page has forgotten it.              *)
LEMMA NothingTold ==
  ASSUME PageInvariant, NEW s \in Slots, call[s] # None, M!Ended(s), UNCHANGED <<stored, doubtful>>,
         cookies' \in BOOLEAN, tab' \in M!Tab, tab'.shown = tab.shown,
         call[s].orphan \/ call[s].todo = call[s].ids,
         call[s].kind # "list" \/ ~call[s].on \/ call[s].orphan
  PROVE  PageInvariant'
<1>1. Truthful(call[s], stored, tab.shown, doubtful)
  BY PageTypes
<1>2. ASSUME NEW m \in Models \ doubtful, ~M!Pending(m)'
      PROVE  tab'.shown[m] \in {None, stored[m]}
  <2>1. CASE M!Pending(m)
    <3>1. m \in call[s].ids /\ call[s].orphan
      BY <1>2, <2>1, NoLongerPending
    <3> QED
      BY <1>1, <1>2, <3>1 DEF Truthful
  <2>2. CASE ~M!Pending(m)
    BY <2>2 DEF PageInvariant, M!PageIsHonest
  <2> QED
    BY <2>1, <2>2
<1>3. \A t \in Slots \ {s} : call[t] # None /\ call[t].orphan =>
        \A m \in call[t].ids : m \in doubtful' \/ tab'.shown[m] = None
  BY PageTypes DEF Truthful
<1> QED
  BY <1>2, <1>3, PageTypes, EndedKeeps

(* The page applies what a write has done, or keeps what it failed to do   *)
(* in doubt.                                                               *)
LEMMA WriteTold ==
  ASSUME PageInvariant, NEW s \in Slots, call[s] # None, call[s].kind \in M!Writes,
         call[s].answer \in {"ok", "denied", "refused", "failed"},
         M!Told(s), M!Ended(s), UNCHANGED <<stored, cookies>>, tab' \in M!Tab,
         tab'.shown = IF call[s].answer = "ok" THEN M!Switched(call[s].ids, call[s].on)
                      ELSE tab.shown
  PROVE  PageInvariant'
<1>1. /\ call[s] \in M!Call /\ Truthful(call[s], stored, tab.shown, doubtful)
      /\ call[s].ids \subseteq Models /\ doubtful \subseteq Models /\ cookies \in BOOLEAN
      /\ call[s].kind # "list"
  BY PageTypes DEF M!Call, M!Writes
<1>2. doubtful' = CASE call[s].answer = "ok" ->
                         (doubtful \ call[s].ids) \cup (call[s].ids \ call[s].clear)
                    [] call[s].answer = "failed" -> doubtful \cup call[s].ids
                    [] OTHER -> doubtful
  BY DEF M!Told
<1>3. CASE call[s].answer \in {"denied", "refused"}
  <2>1. doubtful' = doubtful /\ call[s].todo = call[s].ids
    BY <1>1, <1>2, <1>3 DEF Truthful
  <2> QED
    BY <1>1, <1>3, <2>1, NothingTold
<1>4. CASE call[s].answer = "failed"
  <2>1. doubtful' = doubtful \cup call[s].ids /\ tab'.shown = tab.shown
    BY <1>2, <1>4
  <2>2. ASSUME NEW m \in Models \ doubtful', ~M!Pending(m)'
        PROVE  tab'.shown[m] \in {None, stored[m]}
    <3>1. ~M!Pending(m)
      BY <1>1, <2>1, <2>2, NoLongerPending
    <3> QED
      BY <2>1, <2>2, <3>1 DEF PageInvariant, M!PageIsHonest
  <2>3. \A t \in Slots \ {s} : call[t] # None /\ call[t].orphan =>
          \A m \in call[t].ids : m \in doubtful' \/ tab'.shown[m] = None
    BY <2>1, PageTypes DEF Truthful
  <2> QED
    BY <1>1, <2>1, <2>2, <2>3, EndedKeeps
<1>5. CASE call[s].answer = "ok"
  <2>1. /\ doubtful' = (doubtful \ call[s].ids) \cup (call[s].ids \ call[s].clear)
        /\ tab'.shown = M!Switched(call[s].ids, call[s].on) /\ call[s].todo = {}
    BY <1>1, <1>2, <1>5 DEF Truthful
  <2>2. \A m \in Models : tab'.shown[m] = IF m \in call[s].ids /\ tab.shown[m] # None
                                            THEN call[s].on ELSE tab.shown[m]
    BY <2>1 DEF M!Switched
  <2>3. ASSUME NEW m \in Models \ doubtful', ~M!Pending(m)'
        PROVE  tab'.shown[m] \in {None, stored[m]}
    <3>1. CASE m \in call[s].ids
      <4>1. m \in call[s].clear /\ m \in call[s].ids \ call[s].todo
        BY <2>1, <2>3, <3>1
      <4>2. stored[m] = call[s].on
        BY <1>1, <4>1 DEF Truthful
      <4> QED
        BY <2>2, <2>3, <3>1, <4>2
    <3>2. CASE m \notin call[s].ids
      <4>1. ~M!Pending(m) /\ m \notin doubtful
        BY <1>1, <2>1, <2>3, <3>2, NoLongerPending
      <4> QED
        BY <2>2, <2>3, <3>2, <4>1 DEF PageInvariant, M!PageIsHonest
    <3> QED
      BY <3>1, <3>2
  <2>4. ASSUME NEW t \in Slots \ {s}, call[t] # None, call[t].orphan, NEW m \in call[t].ids
        PROVE  m \in doubtful' \/ tab'.shown[m] = None
    <3>1. m \in Models /\ (m \in doubtful \/ tab.shown[m] = None)
      BY <2>4, PageTypes DEF Truthful, M!Call
    <3>2. m \in call[s].ids => m \notin call[s].clear
      BY <2>4, Meeting
    <3> QED
      BY <2>1, <2>2, <3>1, <3>2
  <2>5. doubtful' \subseteq Models
    BY <1>1, <2>1
  <2> QED
    BY <1>1, <2>3, <2>4, <2>5, EndedKeeps
<1> QED
  BY <1>3, <1>4, <1>5

(* A listing replaces what is on display, or leaves it.                    *)
LEMMA ListTold ==
  ASSUME PageInvariant, NEW s \in Slots, call[s] # None, ~call[s].orphan, M!Listed(s),
         UNCHANGED stored
  PROVE  PageInvariant'
<1>1. /\ call[s] \in M!Call /\ Truthful(call[s], stored, tab.shown, doubtful)
      /\ call[s].clear \subseteq Models /\ call[s].on \in BOOLEAN
      /\ tab \in M!Tab /\ cookies \in BOOLEAN /\ doubtful \subseteq Models
  BY PageTypes DEF M!Call
<1>2. /\ call[s].kind = "list" /\ M!Ended(s) /\ UNCHANGED cookies
      /\ tab' = [tab EXCEPT
           !.authed = @ /\ call[s].answer # "denied",
           !.shown = IF call[s].answer = "ok" THEN call[s].rows ELSE @,
           !.bulkBusy = @ /\ ~call[s].on]
      /\ doubtful' = IF call[s].answer = "ok" THEN Models \ call[s].clear
                     ELSE IF call[s].on THEN Models ELSE doubtful
  BY DEF M!Listed
<1>3. /\ tab' \in M!Tab
      /\ tab'.shown = IF call[s].answer = "ok" THEN call[s].rows ELSE tab.shown
  BY <1>1, <1>2 DEF M!Tab, M!Call
<1>4. call[s].ids = {} /\ call[s].todo = {}
  BY <1>1, <1>2 DEF Truthful, M!Writes
<1>5. CASE call[s].answer = "ok"
  <2>1. \A m \in Models \ doubtful' : tab'.shown[m] \in {None, stored[m]}
    BY <1>1, <1>2, <1>3, <1>5 DEF Truthful
  <2>2. ASSUME NEW t \in Slots \ {s}, call[t] # None, NEW m \in call[t].ids
        PROVE  m \in doubtful'
    <3>1. m \in Models
      BY <2>2, PageTypes DEF M!Call
    <3>2. m \notin call[s].clear
      BY <1>2, <2>2, Meeting
    <3> QED
      BY <1>2, <1>5, <3>1, <3>2
  <2> QED
    BY <1>1, <1>2, <1>3, <1>5, <2>1, <2>2, EndedKeeps
<1>6. CASE call[s].answer # "ok" /\ call[s].on
  <2>1. doubtful' = Models /\ \A t \in Slots : call[t] # None => call[t].ids \subseteq Models
    BY <1>2, <1>6, PageTypes DEF M!Call
  <2> QED
    BY <1>1, <1>2, <1>3, <2>1, EndedKeeps
<1>7. CASE call[s].answer # "ok" /\ ~call[s].on
  BY <1>1, <1>2, <1>3, <1>4, <1>7, NothingTold
<1> QED
  BY <1>5, <1>6, <1>7

LEMMA AnsweredStep ==
  ASSUME PageInvariant, NEW s \in Slots, M!Answered(s)
  PROVE  PageInvariant'
<1>0. /\ call[s] # None /\ call[s] \in M!Call /\ tab \in M!Tab
      /\ Truthful(call[s], stored, tab.shown, doubtful)
      /\ call[s].answer \in {"ok", "denied", "refused", "failed"} /\ UNCHANGED stored
      /\ cookies \in BOOLEAN /\ doubtful \subseteq Models
  BY PageTypes DEF M!Answered, M!Call
<1>1. call[s].kind \notin M!Writes => call[s].todo = call[s].ids
  BY <1>0 DEF Truthful
<1> DEFINE switched == M!Switched(call[s].ids, call[s].on)
<1>2. switched \in [Models -> BOOLEAN \cup {None}]
  BY <1>0, PageTypes DEF M!Switched, M!Call
<1> HIDE DEF switched
<1>5. CASE call[s].orphan
  <2>1. M!Ended(s) /\ UNCHANGED <<cookies, tab, doubtful>>
    BY <1>5 DEF M!Answered
  <2> QED
    BY <1>0, <1>5, <2>1, NothingTold
<1>6. CASE M!LoginAnswered(s)
  <2>1. /\ call[s].kind = "login" /\ M!Ended(s) /\ UNCHANGED doubtful
        /\ tab' \in M!Tab /\ tab'.shown = tab.shown /\ cookies' \in BOOLEAN
    BY <1>0, <1>6 DEF M!LoginAnswered, M!Tab
  <2>2. call[s].todo = call[s].ids
    BY <1>1, <2>1 DEF M!Writes
  <2> QED
    BY <1>0, <2>1, <2>2, NothingTold
<1>7. CASE M!LogoutAnswered(s)
  <2>1. /\ M!Ended(s) /\ UNCHANGED doubtful /\ cookies' \in BOOLEAN
        /\ tab' = [tab EXCEPT !.authed = FALSE, !.csrf = FALSE, !.shown = M!Blank, !.selected = {}]
    BY <1>0, <1>7 DEF M!LogoutAnswered
  <2>2. tab' \in M!Tab /\ \A m \in Models : tab'.shown[m] = None
    BY <1>0, <2>1, BlankShows DEF M!Tab
  <2>3. \A t \in Slots : call[t] # None => call[t].ids \subseteq Models
    BY PageTypes DEF M!Call
  <2> QED
    BY <1>0, <2>1, <2>2, <2>3, EndedKeeps
<1>8. CASE M!Listed(s) /\ ~call[s].orphan
  BY <1>0, <1>8, ListTold
<1>9. CASE M!ToggleAnswered(s)
  <2>1. /\ call[s].kind \in M!Writes /\ M!Told(s) /\ M!Ended(s) /\ UNCHANGED cookies
        /\ tab' = IF call[s].answer = "ok" THEN [tab EXCEPT !.shown = switched] ELSE tab
    BY <1>9 DEF M!ToggleAnswered, M!Writes, switched
  <2>2. tab' \in M!Tab /\ tab'.shown = IF call[s].answer = "ok" THEN switched ELSE tab.shown
    BY <1>0, <1>2, <2>1 DEF M!Tab
  <2> QED
    BY <1>0, <2>1, <2>2, WriteTold DEF switched
<1>10. CASE M!BulkAnswered(s)
  <2>1. /\ call[s].kind \in M!Writes /\ M!Told(s) /\ M!Ended(s) /\ UNCHANGED cookies
        /\ tab' = IF call[s].answer = "ok"
                    THEN [tab EXCEPT !.shown = switched, !.selected = {}, !.bulkBusy = FALSE]
                    ELSE [tab EXCEPT !.bulkBusy = FALSE]
    BY <1>10 DEF M!BulkAnswered, M!Writes, switched
  <2>2. tab' \in M!Tab /\ tab'.shown = IF call[s].answer = "ok" THEN switched ELSE tab.shown
    BY <1>0, <1>2, <2>1 DEF M!Tab
  <2> QED
    BY <1>0, <2>1, <2>2, WriteTold DEF switched
<1>11. CASE M!ProviderAnswered(s)
  <2>1. CASE call[s].answer = "ok"
    <3> DEFINE c == [M!Plain EXCEPT !.on = TRUE, !.filter = call[s].filter]
    <3>1. M!Sending(s, c) /\ UNCHANGED <<tab, cookies, doubtful>>
      BY <1>11, <2>1 DEF M!ProviderAnswered
    <3>2. /\ c \in M!Call /\ c.answer = None /\ c.kind = "list" /\ c.on /\ c.ids = {}
          /\ c.todo = {} /\ ~c.orphan
      BY <1>0, PlainCall DEF M!Call
    <3> HIDE DEF c
    <3> QED
      BY <1>0, <3>1, <3>2, SendingKeeps
  <2>2. CASE call[s].answer # "ok"
    <3>1. /\ call[s].kind \in M!Writes /\ M!Told(s) /\ M!Ended(s) /\ UNCHANGED cookies
          /\ tab' = [tab EXCEPT !.bulkBusy = FALSE]
      BY <1>11, <2>2 DEF M!ProviderAnswered, M!Writes
    <3>2. tab' \in M!Tab /\ tab'.shown = tab.shown
      BY <1>0, <3>1 DEF M!Tab
    <3> QED
      BY <1>0, <2>2, <3>1, <3>2, WriteTold
  <2> QED
    BY <2>1, <2>2
<1> QED
  BY <1>5, <1>6, <1>7, <1>8, <1>9, <1>10, <1>11 DEF M!Answered

LEMMA PageStep ==
  ASSUME PageInvariant, [M!Next]_(M!vars)
  PROVE  PageInvariant'
<1>0. tab \in M!Tab /\ cookies \in BOOLEAN
  BY PageTypes
<1>1. CASE M!Expire
  <2>1. cookies' \in BOOLEAN /\ UNCHANGED <<stored, call, doubtful, tab>>
    BY <1>1 DEF M!Expire
  <2> QED
    BY <1>0, <2>1, PageEdited
<1>2. ASSUME NEW f \in {"all", "enabled", "disabled"}, M!SetFilter(f)
      PROVE  PageInvariant'
  <2>1. tab' \in M!Tab /\ tab'.shown = tab.shown /\ UNCHANGED <<stored, cookies, call, doubtful>>
    BY <1>0, <1>2 DEF M!SetFilter, M!Tab
  <2> QED
    BY <1>0, <2>1, PageEdited
<1>3. ASSUME NEW ms \in SUBSET Models, M!Select(ms)
      PROVE  PageInvariant'
  <2>1. tab' \in M!Tab /\ tab'.shown = tab.shown /\ UNCHANGED <<stored, cookies, call, doubtful>>
    BY <1>0, <1>3 DEF M!Select, M!Tab
  <2> QED
    BY <1>0, <2>1, PageEdited
<1>4. CASE UNCHANGED M!vars
  <2>1. UNCHANGED <<stored, cookies, tab, call, doubtful>>
    BY <1>4 DEF M!vars
  <2> QED
    BY <1>0, <2>1, PageEdited
<1> QED
  BY <1>1, <1>2, <1>3, <1>4, ReloadStep, ElsewhereStep, UserStep, ServerStep, AnsweredStep DEF M!Next

LEMMA PageFollows == PageInvariant => M!PageIsHonest
BY DEF PageInvariant

-----------------------------------------------------------------------------
(* The parts together: the one that a behaviour follows keeps its          *)
(* invariant, and the watchdog does nothing while another is followed.     *)

Idle ==
  /\ tick = [t \in Ticks |-> NoTick]
  /\ reports = [d \in Days |-> [posted |-> 0, delivered |-> 0]]
  /\ early = 0 /\ lapses = 0

OperationsInvariant ==
  /\ part = "watch" => Types /\ BudgetInvariant /\ AlertInvariant
  /\ part # "watch" => Idle
  /\ part = "aggregates" => AggregateInvariant
  /\ part = "adapters" => AdapterInvariant
  /\ part = "throttle" => ThrottleInvariant
  /\ part = "playground" => BadgeInvariant
  /\ part = "admin" => PageInvariant

LEMMA InitOperations == OperationsInit => OperationsInvariant
<1> SUFFICES ASSUME OperationsInit PROVE OperationsInvariant
  OBVIOUS
<1>1. Init /\ A!Init /\ P!Init /\ T!Init /\ G!Init /\ M!Init
  BY DEF OperationsInit
<1>2. Types /\ AlertInvariant
  BY <1>1, InitTypes, InitAlert
<1>3. BudgetInvariant /\ Idle
  BY <1>1 DEF Init, BudgetInvariant, Reported, Claimed, OneReport, At, NoTick, Idle
<1> QED
  BY <1>1, <1>2, <1>3, InitAggregates, InitAdapters, InitThrottle, InitBadges, InitPage
  DEF OperationsInvariant

(* A step is one of the part followed, and leaves the others.              *)
LEMMA StepOfAPart ==
  ASSUME [OperationsNext]_all
  PROVE  /\ part' = part
         /\ part = "watch" => [Next]_vars
         /\ part # "watch" => UNCHANGED ofWatch
         /\ part = "aggregates" => [A!Next]_(A!vars)
         /\ part = "adapters" => [P!Next]_(P!vars)
         /\ part # "adapters" => UNCHANGED P!vars
         /\ part = "throttle" => [T!Next]_(T!vars)
         /\ part = "playground" => [G!Next]_(G!vars)
         /\ part = "admin" => [M!Next]_(M!vars)
<1>1. CASE UNCHANGED all
  <2>1. /\ part' = part /\ UNCHANGED <<now, faults>> /\ UNCHANGED ofWatch /\ UNCHANGED ofAggregates
        /\ UNCHANGED ofAdapters /\ UNCHANGED ofThrottle /\ UNCHANGED ofPlayground
        /\ UNCHANGED ofAdmin
    BY <1>1 DEF all
  <2> QED
    BY <2>1 DEF ofWatch, ofAggregates, ofAdapters, ofThrottle, ofPlayground, ofAdmin,
                vars, A!vars, P!vars, T!vars, G!vars, M!vars
<1>2. CASE OperationsNext
  <2>1. part' = part
    BY <1>2 DEF OperationsNext
  <2>2. /\ part = "watch" => Next /\ UNCHANGED ofAdapters
        /\ part = "aggregates" => A!Next /\ UNCHANGED ofWatch /\ UNCHANGED ofAdapters
        /\ part = "adapters" => P!Next /\ UNCHANGED ofWatch
        /\ part = "throttle" => T!Next /\ UNCHANGED ofWatch /\ UNCHANGED ofAdapters
        /\ part = "playground" => G!Next /\ UNCHANGED ofWatch /\ UNCHANGED ofAdapters
        /\ part = "admin" => M!Next /\ UNCHANGED ofWatch /\ UNCHANGED ofAdapters
    BY <1>2 DEF OperationsNext
  <2>3. part \in Parts
    BY <1>2 DEF OperationsNext, Parts
  <2>4. UNCHANGED ofAdapters => UNCHANGED P!vars
    BY DEF ofAdapters, P!vars
  <2> QED
    BY <2>1, <2>2, <2>3, <2>4 DEF Parts
<1> QED
  BY <1>1, <1>2

LEMMA OperationsStep ==
  ASSUME OperationsInvariant, [OperationsNext]_all
  PROVE  OperationsInvariant'
<1>1. part' = part
  BY StepOfAPart
<1>2. ASSUME part = "watch" PROVE Types' /\ BudgetInvariant' /\ AlertInvariant'
  <2>1. Types /\ BudgetInvariant /\ AlertInvariant /\ [Next]_vars
    BY <1>2, StepOfAPart DEF OperationsInvariant
  <2>2. Types'
    BY <2>1, TypesPreserved
  <2> QED
    BY <2>1, <2>2, BudgetPreserved, AlertPreserved
<1>3. ASSUME part # "watch" PROVE Idle'
  BY <1>3, StepOfAPart DEF OperationsInvariant, Idle, ofWatch
<1>4. ASSUME part = "aggregates" PROVE AggregateInvariant'
  BY <1>4, StepOfAPart, AggregateStep DEF OperationsInvariant
<1>5. ASSUME part = "adapters" PROVE AdapterInvariant'
  BY <1>5, StepOfAPart, AdapterStep DEF OperationsInvariant
<1>6. ASSUME part = "throttle" PROVE ThrottleInvariant'
  BY <1>6, StepOfAPart, ThrottleStep DEF OperationsInvariant
<1>7. ASSUME part = "playground" PROVE BadgeInvariant'
  BY <1>7, StepOfAPart, BadgeStep DEF OperationsInvariant
<1>8. ASSUME part = "admin" PROVE PageInvariant'
  BY <1>8, StepOfAPart, PageStep DEF OperationsInvariant
<1> QED
  BY <1>1, <1>2, <1>3, <1>4, <1>5, <1>6, <1>7, <1>8 DEF OperationsInvariant

LEMMA OperationsInductive == OperationsSpec => []OperationsInvariant
<1>1. OperationsInvariant /\ [OperationsNext]_all => OperationsInvariant'
  BY OperationsStep
<1> QED
  BY <1>1, InitOperations, PTL DEF OperationsSpec

(* What the watchdog, the aggregation, the discovery, the login, the       *)
(* playground and the page of models keep has the types that the code      *)
(* declares (health.ts, maintenance.ts, login-throttle.ts, Playground.tsx, *)
(* Admin.tsx): a bucket of the login limiter never outgrows MAX_ATTEMPTS.  *)
THEOREM OperationsTypeCorrect == OperationsSpec => []OperationsTypeOK
<1>1. OperationsInvariant => OperationsTypeOK
  BY DEF OperationsInvariant, OperationsTypeOK, Types, AggregateInvariant, AdapterInvariant,
         ThrottleInvariant, BadgeInvariant, PageInvariant
<1> QED
  BY <1>1, OperationsInductive, PTL

(* However the crons, the administrator's re-aggregations, failing         *)
(* statements and the retention interleave, a run stored before its bucket *)
(* was over is counted in the bucket's row, as long as that is kept and    *)
(* nobody has aggregated the bucket by hand (maintenance.ts).              *)
THEOREM RunsAreCounted == OperationsSpec => []TimelyRunsCounted
<1>1. OperationsInvariant => TimelyRunsCounted
  BY CountedFollows DEF OperationsInvariant, TimelyRunsCounted
<1> QED
  BY <1>1, OperationsInductive, PTL

(* What a provider's adapter has reported as free passes the hard filter   *)
(* of that provider, for all adapters (registry.ts).                       *)
THEOREM FreeModelsAreVisible == OperationsSpec => []FreeIsVisible
<1>1. OperationsInvariant => FreeIsVisible
  BY FreeFollows DEF OperationsInvariant, FreeIsVisible
<1> QED
  BY <1>1, OperationsInductive, PTL

(* No sequence of outages, truncated and full answers of a provider makes  *)
(* a discovery switch off a model that is free (queries.ts upsertModels,   *)
(* the adapters' classifications).                                         *)
THEOREM SwitchesAreKept == OperationsSpec => DiscoveryKeepsSwitches
<1>1. OperationsInvariant /\ [OperationsNext]_all =>
        [row' # row /\ UNCHANGED switches =>
           \A id \in P!Ids(provider) :
             row[id].enabled /\ row[id].status \in {"FREE", "PREVIOUSLY_FREE"}
               => row'[id].enabled]_(P!vars)
  <2> SUFFICES ASSUME OperationsInvariant, [OperationsNext]_all, row' # row, UNCHANGED switches,
                      NEW id \in P!Ids(provider), row[id].enabled,
                      row[id].status \in {"FREE", "PREVIOUSLY_FREE"}
               PROVE  row'[id].enabled
    OBVIOUS
  <2>1. part = "adapters"
    BY StepOfAPart DEF P!vars
  <2> QED
    BY <2>1, StepOfAPart, AdapterStep DEF OperationsInvariant
<1> QED
  BY <1>1, OperationsInductive, PTL DEF OperationsSpec, DiscoveryKeepsSwitches,
     P!DiscoveryKeepsSwitches

(* Whoever waits as long as an answer asked for is not refused again by    *)
(* the limiter that asked, be it an isolate's memory (rate-limit.ts) or    *)
(* the row in D1 (login-throttle.ts), whatever logins ran at the same time *)
(* before the answer.                                                      *)
THEOREM WaitingSuffices == OperationsSpec => []WaitSuffices
<1>1. OperationsInvariant => WaitSuffices
  BY WaitFollows DEF OperationsInvariant, WaitSuffices
<1> QED
  BY <1>1, OperationsInductive, PTL

(* The badges of the playground describe the test whose result is shown,   *)
(* however the form was edited while it ran (Playground.tsx).              *)
THEOREM BadgesAreOfTheResult == OperationsSpec => []BadgesDescribeResult
<1>1. OperationsInvariant => BadgesDescribeResult
  BY BadgesFollow DEF OperationsInvariant, BadgesDescribeResult
<1> QED
  BY <1>1, OperationsInductive, PTL

(* For any models and any calls under way at once, a switch that the       *)
(* administrator sees is that of the database, unless its answer is still  *)
(* awaited or it is in doubt: written by another, met over by two calls or *)
(* part of a call that failed, and not listed or written undisturbed since *)
(* (Admin.tsx).                                                            *)
THEOREM TheAdminPageIsHonest == OperationsSpec => []PageIsHonest
<1>1. OperationsInvariant => PageIsHonest
  BY PageFollows DEF OperationsInvariant, PageIsHonest
<1> QED
  BY <1>1, OperationsInductive, PTL

(* The watchdog's promises hold in the composition as well (health.ts,     *)
(* query-cost.ts): an early alert has a lapse of its own, a stall that a   *)
(* watchdog could report is reported, and the budget at most once a day.   *)
THEOREM WatchIsUndisturbed ==
  OperationsSpec => []BudgetReportedOnce /\ []AlertsSpaced /\ StallIsReported
<1>1. OperationsInvariant => BudgetReportedOnce
  BY DEF OperationsInvariant, Idle, Types, TypeOK, BudgetInvariant, Reported, BudgetReportedOnce
<1>2. OperationsInvariant => AlertsSpaced
  BY DEF OperationsInvariant, Idle, AlertInvariant, Paid, AlertsSpaced
<1>3. OperationsInvariant /\ [OperationsNext]_all =>
        [\A t \in Ticks :
           /\ tick[t].pc \in Watchdog /\ tick'[t].pc = "start" /\ ~tick'[t].failed
           /\ Stale(tick[t].last)
           => lastSent' # Never /\ now - lastSent' < REPEAT]_vars
  <2> SUFFICES ASSUME OperationsInvariant, [OperationsNext]_all, NEW t \in Ticks,
                      tick[t].pc \in Watchdog, tick'[t].pc = "start", ~tick'[t].failed,
                      Stale(tick[t].last)
               PROVE  lastSent' # Never /\ now - lastSent' < REPEAT
    OBVIOUS
  <2>1. part = "watch"
    BY StepOfAPart DEF ofWatch, Watchdog
  <2> QED
    BY <2>1, StepOfAPart, StallStep DEF OperationsInvariant, InWatchdog
<1> QED
  BY <1>1, <1>2, <1>3, OperationsInductive, PTL DEF OperationsSpec, StallIsReported
=============================================================================
