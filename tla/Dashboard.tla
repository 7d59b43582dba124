----------------------------- MODULE Dashboard -----------------------------
(***************************************************************************)
(* The dashboard page: the leaderboard it fetches for the provider filter, *)
(* the models selected for comparison, and the link in the address bar     *)
(* that carries the selection (frontend/src/pages/Dashboard.tsx,           *)
(* hooks/useLeaderboard.ts, lib/router.ts, App.tsx and the components that *)
(* edit the selection).                                                    *)
(*                                                                         *)
(* A handler queues updates of the page's state; React commits them later  *)
(* and then runs the effects whose dependencies changed, which see the     *)
(* committed state and queue updates of their own.  Hash changes are       *)
(* announced by events of their own.  Of the filters only the provider is  *)
(* modelled, the one the selection depends on; the throughput view, which  *)
(* shares the link, is left out.                                           *)
(***************************************************************************)
EXTENDS Integers, FiniteSets, SequencesExt

CONSTANTS
  Providers,       \* values of the provider filter, All among them
  All,
  Models,
  Boards,          \* Boards[p]: the rankings the API may answer for p
  Links,           \* selections of the links a user opens, as they are spelled
  TOP,             \* how many models are selected by default (3)
  MAX_COMPARE,     \* how many models can be compared (6)
  None,
  MaxClicks        \* bound: what the user does

VARIABLES
  hash,            \* window.location.hash: [page, compare]
  events,          \* hashchange events on their way
  mounted,         \* App shows the dashboard
  page,            \* the committed state of the page
  queued,          \* its state with the queued updates
  requests,        \* the requests whose answers will be used
  auto,            \* hasAutoSelected
  clicks

vars == <<hash, events, mounted, page, queued, requests, auto, clicks>>

(* parseCompareIds: the first MAX_COMPARE different ids of a link.         *)
Parsed(link) ==
  LET firsts == {i \in DOMAIN link : \A j \in 1 .. i - 1 : link[j] # link[i]}
      Nth(n) == CHOOSE i \in firsts : Cardinality({j \in firsts : j <= i}) = n
  IN [n \in 1 .. Min({MAX_COMPARE, Cardinality(firsts)}) |-> link[Nth(n)]]

(* `set': the selection has been set since the last commit, if only to an  *)
(* equal one; `fresh': the rows have arrived since.                        *)
NoData == [of |-> None, rows |-> <<>>, fresh |-> FALSE]
Blank  == [selected |-> <<>>, set |-> FALSE, provider |-> All, data |-> NoData, loading |-> TRUE, error |-> FALSE]

At(name, link) == [page |-> name, compare |-> link]

(* Different models, no more than can be compared.                         *)
Selection == {s \in Seq(Models) : Len(s) <= MAX_COMPARE /\ IsInjective(s)}

Rows  == {<<>>} \cup UNION {Boards[p] : p \in Providers}
State == [selected : Selection, set : BOOLEAN, provider : Providers, loading : BOOLEAN,
          error : BOOLEAN,
          data : [of : Providers \cup {None}, rows : Rows, fresh : BOOLEAN]]

TypeOK ==
  /\ hash \in [page : {"dashboard", "other"}, compare : Seq(Models)]
  /\ events \in Nat
  /\ mounted \in BOOLEAN /\ auto \in BOOLEAN
  /\ page \in State /\ queued \in State
  /\ requests \subseteq [of : Providers, initial : BOOLEAN]

(* Writing the hash announces a change of it.                              *)
Write(h) ==
  /\ hash' = h
  /\ events' = IF h = hash THEN events ELSE events + 1

(* fetchNow aborts the request before it.                                  *)
Fetch_bug(p, initial) == requests' = requests \cup {[of |-> p, initial |-> initial]}
Fetch(p, initial)     == requests' = {[of |-> p, initial |-> initial]}

(* The page appears: the effects of its first commit hydrate the selection *)
(* from the link, write the link of the still empty selection, and fetch.  *)
Mount(link) ==
  /\ mounted' = TRUE
  /\ page' = Blank
  /\ queued' = [Blank EXCEPT !.selected = Parsed(link), !.set = link # <<>>]
  /\ hash' = At("dashboard", <<>>)
  /\ auto' = FALSE
  /\ Fetch(All, TRUE)

Init ==
  \E link \in Links \cup {<<>>} :
    /\ hash = At("dashboard", <<>>)
    /\ events = IF link = <<>> THEN 0 ELSE 1
    /\ mounted = TRUE
    /\ page = Blank
    /\ queued = [Blank EXCEPT !.selected = Parsed(link), !.set = link # <<>>]
    /\ requests = {[of |-> All, initial |-> TRUE]}
    /\ auto = FALSE
    /\ clicks = 0

-----------------------------------------------------------------------------
(* React commits what is queued.  In the order of the code: the link       *)
(* follows the selection, unless another page's link is already there; a   *)
(* new filter starts a new fetch; the first rows select the leaders; and a *)
(* new filter clears the selection.                                        *)
Own_bug(h) == TRUE
Own(h) == h.page = "dashboard"

Leaders(rows) == SubSeq(rows, 1, IF Len(rows) < TOP THEN Len(rows) ELSE TOP)

Commit ==
  LET filtered == queued.provider # page.provider
      rows     == queued.data.rows
      looks    == \/ queued.data = NoData \/ queued.data.fresh
                  \/ Len(queued.selected) # Len(page.selected)
      leads    == looks /\ rows # <<>> /\ queued.selected = <<>> /\ ~auto
      seen     == [queued EXCEPT !.data.fresh = FALSE, !.set = FALSE]
  IN
  /\ mounted /\ queued # page
  /\ IF queued.set /\ Own(hash)
       THEN Write(At("dashboard", queued.selected)) ELSE UNCHANGED <<hash, events>>
  /\ IF filtered THEN Fetch(queued.provider, TRUE) ELSE UNCHANGED requests
  /\ auto' = (~filtered /\ (leads \/ (auto /\ ~(looks /\ rows = <<>>))))
  /\ page' = seen
  /\ queued' = [seen EXCEPT !.selected = IF filtered THEN <<>>
                                         ELSE IF leads THEN Leaders(rows) ELSE @,
                            !.set = filtered \/ leads,
                            !.loading = @ \/ filtered,
                            !.error   = @ /\ ~filtered]
  /\ UNCHANGED <<mounted, clicks>>

(* Every minute, and after benchmarks, the rows are fetched again.         *)
Refetch ==
  /\ mounted
  /\ Fetch(page.provider, FALSE)
  /\ UNCHANGED <<hash, events, mounted, page, queued, auto, clicks>>

Answer_bug(r) ==
  /\ r \in requests
  /\ requests' = requests \ {r}
  /\ \E rows \in Boards[r.of] :
       queued' = [queued EXCEPT !.data = [of |-> r.of, rows |-> rows, fresh |-> TRUE],
                                !.loading = @ /\ ~r.initial, !.error = FALSE]
  /\ UNCHANGED <<hash, events, mounted, page, auto, clicks>>

Answer(r) ==
  /\ r \in requests
  /\ requests' = requests \ {r}
  /\ \E rows \in Boards[r.of] :
       queued' = [queued EXCEPT !.data = [of |-> r.of, rows |-> rows, fresh |-> TRUE],
                                !.loading = FALSE, !.error = FALSE]
  /\ UNCHANGED <<hash, events, mounted, page, auto, clicks>>

(* Only the first request of a filter reports that it failed.              *)
Fail(r) ==
  /\ r \in requests
  /\ requests' = requests \ {r}
  /\ queued' = IF r.initial THEN [queued EXCEPT !.loading = FALSE, !.error = TRUE] ELSE queued
  /\ UNCHANGED <<hash, events, mounted, page, auto, clicks>>

-----------------------------------------------------------------------------
(* A hashchange event reaches App, which follows the page of the link, and *)
(* the dashboard, which adopts its selection.                              *)
Leave ==
  /\ mounted' = FALSE
  /\ page' = Blank /\ queued' = Blank
  /\ requests' = {}
  /\ auto' = FALSE
  /\ UNCHANGED hash

Adopt_bug ==
  /\ auto' = (auto \/ Parsed(hash.compare) # <<>>)
  /\ UNCHANGED <<hash, mounted, page, queued, requests>>

Adopt ==
  /\ auto' = (auto \/ Parsed(hash.compare) # <<>>)
  /\ queued' = [queued EXCEPT !.selected = Parsed(hash.compare),
                            !.set = @ \/ queued.selected # Parsed(hash.compare)]
  /\ UNCHANGED <<hash, mounted, page, requests>>

HashChanged ==
  /\ events > 0
  /\ LET remains == events - 1
         mounts  == hash.page = "dashboard" /\ ~mounted
     IN  events' = IF mounts /\ hash.compare # <<>> THEN remains + 1 ELSE remains
  /\ \/ hash.page = "other" /\ Leave
     \/ hash.page = "dashboard" /\ ~mounted /\ Mount(hash.compare)
     \/ hash.page = "dashboard" /\ mounted /\ Adopt
  /\ UNCHANGED clicks

-----------------------------------------------------------------------------
(* The user.                                                               *)
Click == clicks < MaxClicks /\ clicks' = clicks + 1

(* Leaderboard.toggle and the slots of ChartModelSelector.                 *)
Edits(sel, ms) ==
  {<<>>}
    \cup {RemoveAt(sel, i) : i \in DOMAIN sel}
    \cup {[sel EXCEPT ![i] = m] : i \in DOMAIN sel \cap 1..3, m \in ms \ ToSet(sel)}
    \cup {Append(sel, m) : m \in IF Len(sel) < MAX_COMPARE THEN ms \ ToSet(sel) ELSE {}}

Shows == mounted /\ ~page.loading /\ ~page.error

Edit ==
  /\ Click /\ Shows
  /\ \E s \in Edits(page.selected, ToSet(page.data.rows)) :
       queued' = [queued EXCEPT !.selected = s, !.set = TRUE]
  /\ UNCHANGED <<hash, events, mounted, page, requests, auto>>

ChangeProvider(p) ==
  /\ Click /\ Shows
  /\ queued' = [queued EXCEPT !.provider = p]
  /\ UNCHANGED <<hash, events, mounted, page, requests, auto>>

OpenLink(link) ==
  /\ Click
  /\ Write(At("dashboard", link))
  /\ UNCHANGED <<mounted, page, queued, requests, auto>>

(* App.navigate keeps the selection on the dashboard only.                 *)
Navigate(name) ==
  /\ Click
  /\ Write(At(name, IF name = "dashboard" /\ Own(hash) THEN Parsed(hash.compare) ELSE <<>>))
  /\ UNCHANGED <<mounted, page, queued, requests, auto>>

Next ==
  \/ Commit \/ Refetch \/ HashChanged \/ Edit
  \/ \E r \in requests : Answer(r) \/ Fail(r)
  \/ \E p \in Providers : ChangeProvider(p)
  \/ \E link \in Links : OpenLink(link)
  \/ \E name \in {"dashboard", "other"} : Navigate(name)

Answered == \E r \in requests : Answer(r)

(* The browser runs what is due, the timer fires, and the API answers time *)
(* and again.                                                              *)
Fairness ==
  WF_vars(Commit) /\ WF_vars(HashChanged) /\ WF_vars(Refetch) /\ SF_vars(Answered)

Spec == Init /\ [][Next]_vars /\ Fairness

-----------------------------------------------------------------------------
(* The rows on display are those of the filter on display: an answer for   *)
(* an earlier filter, or of a page since left, never replaces them.        *)
RowsFollowFilter ==
  mounted /\ queued = page /\ Shows => page.data.of = page.provider

(* "a racing write reset #/models back to #/ before the route switch       *)
(* committed" (Dashboard.tsx): only the user leads back to the dashboard.  *)
NavigationSticks ==
  [][hash.page = "other" /\ hash'.page = "dashboard" => clicks' > clicks]_vars

(* "No loops": once the user is done, the link and the selection agree and *)
(* stay so, although each follows the other through effects and events.    *)
LinkSettles == <>[](mounted => hash.page = "dashboard" /\ Parsed(hash.compare) = page.selected)

(* The skeleton gives way to rows although a request that a later one      *)
(* aborts ends without a word, and the later one does not report failures. *)
BoardAppears == []<>(mounted => Shows)

(* "fresh rows arrive and the auto-apply below pins the new top 3"         *)
(* (Dashboard.tsx): while nobody opens a link or edits the selection, what *)
(* is selected is on display.                                              *)
PinsFollowProvider ==
  queued = page /\ Shows /\ page.data.rows # <<>> /\ clicks <= 1 =>
    ToSet(page.selected) \subseteq ToSet(page.data.rows)
=============================================================================
