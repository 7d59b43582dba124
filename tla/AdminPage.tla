----------------------------- MODULE AdminPage -----------------------------
(***************************************************************************)
(* The administrator's page in one browser tab: the session, kept half in  *)
(* cookies and half in the page's memory, the list of models and the       *)
(* switches that change it (src/frontend/src/pages/Admin.tsx and           *)
(* lib/adminSession.ts, src/src/api/routes.ts, api/shared.ts,              *)
(* api/admin/index.ts and api/admin/models.ts).                            *)
(*                                                                         *)
(* A call is sent, served and answered in steps of their own, between      *)
(* which the user clicks on and other calls run; no call aborts another.   *)
(* The two cookies are set, cleared and expire together, so a token in the *)
(* page's memory is that of the cookie if there is one.  Of the filters    *)
(* the switch filter is modelled; all models have one provider.            *)
(*                                                                         *)
(* The switches have other writers: the 24-hour guard of a benchmark, a    *)
(* discovery that finds a model is not free, another administrator.  The   *)
(* page hears nothing of them.  The set of models stays what it is: what a *)
(* discovery adds or drops is not modelled here.                           *)
(***************************************************************************)
EXTENDS Naturals

CONSTANTS
  Models,
  Slots,          \* bound: calls under way at the same time
  None,
  MaxClicks,      \* bound: what the user and the other writers do
  MaxFaults       \* bound: calls that fail

VARIABLES
  stored,   \* stored[m]: the switch in the database
  cookies,  \* the browser holds mpx_session and mpx_csrf
  tab,      \* the state of the page
  call,     \* call[s]: a call under way, or None
  doubtful, \* history: the models whose switch on display may be out of date
  clicks, faults

vars == <<stored, cookies, tab, call, doubtful, clicks, faults>>

Writes == {"toggle", "bulk", "provider"}
Tab  == [authed : BOOLEAN, csrf : BOOLEAN, shown : [Models -> BOOLEAN \cup {None}],
         selected : SUBSET Models, filter : {"all", "enabled", "disabled"},
         due : BOOLEAN, bulkBusy : BOOLEAN]
Call == [kind : {"login", "logout", "list"} \cup Writes, cookies : BOOLEAN, csrf : BOOLEAN,
         filter : {"all", "enabled", "disabled"}, ids : SUBSET Models, on : BOOLEAN,
         todo : SUBSET Models, rows : [Models -> BOOLEAN \cup {None}], right : BOOLEAN,
         answer : {None, "ok", "denied", "refused", "failed"}, orphan : BOOLEAN,
         clear : SUBSET Models]

TypeOK ==
  /\ stored \in [Models -> BOOLEAN]
  /\ cookies \in BOOLEAN /\ doubtful \subseteq Models
  /\ tab \in Tab
  /\ call \in [Slots -> Call \cup {None}]

Blank == [m \in Models |-> None]
Fresh == [authed |-> FALSE, csrf |-> FALSE, shown |-> Blank, selected |-> {},
          filter |-> "all", due |-> FALSE, bulkBusy |-> FALSE]

Init ==
  /\ stored = [m \in Models |-> TRUE]
  /\ cookies = FALSE
  /\ tab = Fresh
  /\ call = [s \in Slots |-> None]
  /\ doubtful = {}
  /\ clicks = 0 /\ faults = 0

-----------------------------------------------------------------------------
(* adminRequest: the cookies ride along, the token is a header of its own. *)
Plain == [kind |-> "list", cookies |-> cookies, csrf |-> tab.csrf, filter |-> tab.filter,
          ids |-> {}, on |-> FALSE, todo |-> {}, rows |-> Blank, right |-> FALSE,
          answer |-> None, orphan |-> FALSE, clear |-> Models]

(* History: two calls clash over a switch that one of them writes and the  *)
(* other one writes or reads.  A call is clear of a switch over which it   *)
(* has not met anybody while it was under way.                             *)
Touches(c)  == IF c.kind = "list" THEN Models ELSE c.ids
Clash(c, d) == (c.ids \cap Touches(d)) \cup (d.ids \cap Touches(c))

Sending(s, c) ==
  LET others == {t \in Slots \ {s} : call[t] # None}
  IN  call' = [t \in Slots |->
         IF t = s THEN [c EXCEPT !.clear = @ \ UNION {Clash(c, call[o]) : o \in others}]
         ELSE IF t \in others THEN [call[t] EXCEPT !.clear = @ \ Clash(c, call[t])]
         ELSE None]

Click == clicks < MaxClicks /\ clicks' = clicks + 1

Send(s, c) ==
  /\ call[s] = None
  /\ Sending(s, c)
  /\ UNCHANGED <<stored, cookies, doubtful, faults>>

(* The login form is shown while the page does not think it is logged in,  *)
(* and waits for its answer.  It sends no token.                           *)
Login(s, right) ==
  /\ Click /\ ~tab.authed
  /\ \A t \in Slots : call[t] # None => call[t].kind # "login" \/ call[t].orphan
  /\ Send(s, [Plain EXCEPT !.kind = "login", !.csrf = FALSE, !.right = right])
  /\ UNCHANGED tab

Logout(s) ==
  /\ Click /\ tab.authed
  /\ Send(s, [Plain EXCEPT !.kind = "logout"])
  /\ UNCHANGED tab

(* fetchModels, by the button or by the effects.                           *)
Refresh(s) ==
  /\ Click /\ tab.authed
  /\ Send(s, Plain)
  /\ UNCHANGED tab

FetchDue(s) ==
  /\ tab.due
  /\ Send(s, Plain)
  /\ tab' = [tab EXCEPT !.due = FALSE]
  /\ UNCHANGED clicks

Write(kind, ids, on) == [Plain EXCEPT !.kind = kind, !.ids = ids, !.todo = ids, !.on = on]

(* The client filters the rows it has by their switch.                     *)
Shown == {m \in Models : /\ tab.shown[m] # None
                         /\ tab.filter = "all" \/ tab.shown[m] = (tab.filter = "enabled")}

ToggleOne(s, m) ==
  /\ Click /\ tab.authed /\ m \in Shown
  /\ Send(s, Write("toggle", {m}, ~tab.shown[m]))
  /\ UNCHANGED tab

Bulk(s, on) ==
  /\ Click /\ tab.authed /\ ~tab.bulkBusy /\ tab.selected # {}
  /\ Send(s, Write("bulk", tab.selected, on))
  /\ tab' = [tab EXCEPT !.bulkBusy = TRUE]

ToggleProvider(s, on) ==
  /\ Click /\ tab.authed /\ ~tab.bulkBusy
  /\ Send(s, Write("provider", Models, on))
  /\ tab' = [tab EXCEPT !.bulkBusy = TRUE]

Select(ms) ==
  /\ Click /\ tab.authed
  /\ ms \in {{}, Shown} \cup {tab.selected \cup {m} : m \in Shown}
                        \cup {tab.selected \ {m} : m \in Shown}
  /\ tab' = [tab EXCEPT !.selected = ms]
  /\ UNCHANGED <<stored, cookies, call, doubtful, faults>>

(* A changed filter is followed by a listing once the user pauses.         *)
SetFilter(f) ==
  /\ Click /\ tab.authed /\ f # tab.filter
  /\ tab' = [tab EXCEPT !.filter = f, !.due = TRUE]
  /\ UNCHANGED <<stored, cookies, call, doubtful, faults>>

(* Reloading the page loses its memory; the server goes on with the calls  *)
(* it has got.                                                             *)
Reload ==
  /\ Click
  /\ \A s \in Slots : call[s] # None => call[s].kind \notin {"login", "logout"}
  /\ tab' = Fresh
  /\ call' = [s \in Slots |-> IF call[s] = None THEN None ELSE [call[s] EXCEPT !.orphan = TRUE]]
  /\ UNCHANGED <<stored, cookies, doubtful, faults>>

(* SESSION_MAX_AGE_S is over.                                              *)
Expire ==
  /\ cookies
  /\ cookies' = FALSE
  /\ UNCHANGED <<stored, tab, call, doubtful, clicks, faults>>

-----------------------------------------------------------------------------
(* The server.  The middleware refuses what comes with a session cookie    *)
(* and changes state, but does not echo the token; the routes but login    *)
(* and logout deny what comes without a session.                           *)
Gate(c) ==
  IF c.kind # "list" /\ c.cookies /\ ~c.csrf THEN "refused"
  ELSE IF c.kind \notin {"login", "logout"} /\ ~c.cookies THEN "denied"
  ELSE "pass"

Waiting(s, kinds) == call[s] # None /\ call[s].answer = None /\ call[s].kind \in kinds

Reply(s, answer) == call' = [call EXCEPT ![s].answer = answer]

Reject(s) ==
  /\ Waiting(s, {"login", "logout", "list"} \cup Writes)
  /\ \/ Gate(call[s]) # "pass" /\ Reply(s, Gate(call[s]))
     \/ Gate(call[s]) = "pass" /\ call[s].kind = "login" /\ ~call[s].right /\ Reply(s, "denied")
  /\ UNCHANGED <<stored, cookies, tab, doubtful, clicks, faults>>

ServeSession(s) ==
  /\ Waiting(s, {"login", "logout"})
  /\ Gate(call[s]) = "pass" /\ (call[s].kind = "login" => call[s].right)
  /\ Reply(s, "ok")
  /\ UNCHANGED <<stored, cookies, tab, doubtful, clicks, faults>>

ServeList(s) ==
  /\ Waiting(s, {"list"}) /\ Gate(call[s]) = "pass"
  /\ call' = [call EXCEPT
       ![s].answer = "ok",
       ![s].rows = [m \in Models |->
          IF call[s].filter = "all" \/ stored[m] = (call[s].filter = "enabled")
            THEN stored[m] ELSE None]]
  /\ UNCHANGED <<stored, cookies, tab, doubtful, clicks, faults>>

(* One UPDATE sets the switches of a chunk.                                *)
ServeWrite(s) ==
  /\ Waiting(s, Writes) /\ Gate(call[s]) = "pass"
  /\ \E m \in call[s].todo :
       /\ stored' = [stored EXCEPT ![m] = call[s].on]
       /\ call' = [call EXCEPT ![s].todo = @ \ {m},
                               ![s].answer = IF call[s].todo = {m} THEN "ok" ELSE @]
  /\ UNCHANGED <<cookies, tab, doubtful, clicks, faults>>

(* A failing statement, or a lost call or answer.                          *)
Break(s) ==
  /\ call[s] # None /\ call[s].answer \in {None, "ok"}
  /\ call[s].kind \notin {"login", "logout"}
  /\ faults < MaxFaults /\ faults' = faults + 1
  /\ Reply(s, "failed")
  /\ UNCHANGED <<stored, cookies, tab, doubtful, clicks>>

-----------------------------------------------------------------------------
(* Another writer of a switch.                                             *)
Elsewhere(m) ==
  /\ Click
  /\ stored' = [stored EXCEPT ![m] = ~@]
  /\ doubtful' = doubtful \cup {m}
  /\ call' = [s \in Slots |-> IF call[s] = None THEN None
                              ELSE [call[s] EXCEPT !.clear = @ \ {m}]]
  /\ UNCHANGED <<cookies, tab, faults>>

-----------------------------------------------------------------------------
(* The page gets its answer.                                               *)
Switched(ids, on) == [m \in Models |-> IF m \in ids /\ tab.shown[m] # None THEN on ELSE tab.shown[m]]

Ended(s) == call' = [call EXCEPT ![s] = None]

(* History: an answered write of which the page shows what it was told.    *)
Told(s) ==
  doubtful' = CASE call[s].answer = "ok" -> (doubtful \ call[s].ids) \cup (call[s].ids \ call[s].clear)
                [] call[s].answer = "failed" -> doubtful \cup call[s].ids
                [] OTHER -> doubtful

LoginAnswered(s) ==
  /\ call[s].kind = "login"
  /\ cookies' = (cookies \/ call[s].answer = "ok")
  /\ tab' = IF call[s].answer = "ok"
              THEN [tab EXCEPT !.authed = TRUE, !.csrf = TRUE, !.due = TRUE] ELSE tab
  /\ Ended(s) /\ UNCHANGED doubtful

LogoutAnswered(s) ==
  /\ call[s].kind = "logout"
  /\ cookies' = (cookies /\ call[s].answer # "ok")
  /\ tab' = [tab EXCEPT !.authed = FALSE, !.csrf = FALSE, !.shown = Blank, !.selected = {}]
  /\ Ended(s) /\ UNCHANGED doubtful

(* The rows of a listing replace those on display; a failed one leaves     *)
(* them, also after a switch of the provider.                              *)
Listed(s) ==
  /\ call[s].kind = "list"
  /\ tab' = [tab EXCEPT
       !.authed = @ /\ call[s].answer # "denied",
       !.shown = IF call[s].answer = "ok" THEN call[s].rows ELSE @,
       !.bulkBusy = @ /\ ~call[s].on]
  /\ doubtful' = IF call[s].answer = "ok" THEN Models \ call[s].clear
                 ELSE IF call[s].on THEN Models ELSE doubtful
  /\ Ended(s) /\ UNCHANGED cookies

ToggleAnswered(s) ==
  /\ call[s].kind = "toggle"
  /\ tab' = IF call[s].answer = "ok" THEN [tab EXCEPT !.shown = Switched(call[s].ids, call[s].on)] ELSE tab
  /\ Told(s) /\ Ended(s) /\ UNCHANGED cookies

BulkAnswered_bug(s) ==
  /\ call[s].kind = "bulk"
  /\ tab' = IF call[s].answer = "ok"
              THEN [tab EXCEPT !.shown = Switched(tab.selected, call[s].on),
                               !.selected = {}, !.bulkBusy = FALSE]
              ELSE [tab EXCEPT !.bulkBusy = FALSE]
  /\ Told(s) /\ Ended(s) /\ UNCHANGED cookies

(* The selection of the click is what is switched, not that of the answer. *)
BulkAnswered(s) ==
  /\ call[s].kind = "bulk"
  /\ tab' = IF call[s].answer = "ok"
              THEN [tab EXCEPT !.shown = Switched(call[s].ids, call[s].on),
                               !.selected = {}, !.bulkBusy = FALSE]
              ELSE [tab EXCEPT !.bulkBusy = FALSE]
  /\ Told(s) /\ Ended(s) /\ UNCHANGED cookies

(* The rows are fetched again, with the filter that the click saw; the     *)
(* page is busy until then.                                                *)
ProviderAnswered(s) ==
  /\ call[s].kind = "provider"
  /\ IF call[s].answer = "ok"
       THEN /\ Sending(s, [Plain EXCEPT !.on = TRUE, !.filter = call[s].filter])
            /\ UNCHANGED <<tab, doubtful>>
       ELSE Told(s) /\ Ended(s) /\ tab' = [tab EXCEPT !.bulkBusy = FALSE]
  /\ UNCHANGED cookies

Answered(s) ==
  /\ call[s] # None /\ call[s].answer # None
  /\ IF call[s].orphan
       THEN Ended(s) /\ UNCHANGED <<cookies, tab, doubtful>>
       ELSE \/ LoginAnswered(s) \/ LogoutAnswered(s) \/ Listed(s)
            \/ ToggleAnswered(s) \/ BulkAnswered(s) \/ ProviderAnswered(s)
  /\ UNCHANGED <<stored, clicks, faults>>

-----------------------------------------------------------------------------
Next ==
  \/ Expire \/ Reload
  \/ \E f \in {"all", "enabled", "disabled"} : SetFilter(f)
  \/ \E ms \in SUBSET Models : Select(ms)
  \/ \E m \in Models : Elsewhere(m)
  \/ \E s \in Slots :
       \/ Logout(s) \/ Refresh(s) \/ FetchDue(s)
       \/ \E m \in Models : ToggleOne(s, m)
       \/ \E on \in BOOLEAN : Login(s, on) \/ Bulk(s, on) \/ ToggleProvider(s, on)
       \/ Reject(s) \/ ServeSession(s) \/ ServeList(s) \/ ServeWrite(s) \/ Break(s)
       \/ Answered(s)

Spec == Init /\ [][Next]_vars

-----------------------------------------------------------------------------
(* A call under way has switched m, or the listing that tells the page of  *)
(* a switched provider is under way: the page is about to learn of m.      *)
Pending(m) ==
  \E s \in Slots :
    /\ call[s] # None
    /\ m \in call[s].ids \ call[s].todo \/ (call[s].kind = "list" /\ call[s].on /\ ~call[s].orphan)

(* The page is honest: a switch on display is the one in the database, but *)
(* while the answer that tells of it is awaited, and unless it is in doubt.*)
(* A switch is in doubt from the moment another writer changed it, two     *)
(* calls met over it or a call that wrote it failed, until a listing or a  *)
(* write that met nobody over it has succeeded.  So calls may overlap in   *)
(* any way, and the selection and the filter be edited under way: what one *)
(* call does never puts a switch in doubt that another one has not touched.*)
PageIsHonest ==
  \A m \in Models \ doubtful : ~Pending(m) => tab.shown[m] \in {None, stored[m]}

(* "This is the credential-exchange endpoint and is unauthenticated by     *)
(* definition" (openapi.ts): a login with the right password is not        *)
(* refused for want of anything else.                                      *)
LoginIsUnauthenticated ==
  \A s \in Slots :
    call[s] # None /\ call[s].kind = "login" /\ call[s].right => call[s].answer # "refused"
=============================================================================
