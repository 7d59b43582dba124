----------------------------- MODULE Playground -----------------------------
(***************************************************************************)
(* The administrator's playground: the form of the page, one test at a     *)
(* time, and the route that runs it                                        *)
(* (src/frontend/src/pages/admin/Playground.tsx,                           *)
(* src/src/api/admin/playground.ts, src/src/utils/playground.ts).          *)
(*                                                                         *)
(* The two lists the page loads, the user and the route are interleaved    *)
(* freely.  Of the form's fields the model keeps those that depend on one  *)
(* another: provider, model id, chat URL, session key and token budget.    *)
(***************************************************************************)
EXTENDS Integers

CONSTANTS
  Registry,        \* the providers of /api/providers
  Models,          \* model ids of /api/admin/models
  ProviderOf,      \* ProviderOf[m]
  Preferred,       \* models the page prefers: active, or else free
  Budgets,         \* token budgets a user types or a preset carries
  None

THINKING       == 2048    \* the budget of thinking mode
maxTokensMin   == 16
maxTokensMax   == 2048

VARIABLES
  endpoints, options,   \* the two lists, {} until they are loaded
  form,                 \* what the user sees and edits
  autoPicked,
  request,              \* the request under way: None, sent, measuring
  outcome,              \* what is shown: None, a result or an error, and of what
  used                  \* the badges: session key, custom URL, thinking

vars == <<endpoints, options, form, autoPicked, request, outcome, used>>

Urls == Registry \cup {"typed"}
Form == [provider : Registry \cup {None}, model : Models \cup {None},
         url : Urls \cup {None}, key : BOOLEAN, max : Budgets \cup {THINKING},
         thinking : BOOLEAN, prev : Budgets \cup {THINKING, None}]
NoBadge == [key |-> FALSE, url |-> FALSE, thinking |-> FALSE]
Request == [stage : {"sent", "measuring"}, provider : Registry \cup {None},
            model : Models \cup {None}, url : Urls \cup {None}, key : BOOLEAN,
            max : Budgets \cup {THINKING}]

TypeOK ==
  /\ endpoints \in SUBSET Registry /\ options \in SUBSET Models
  /\ form \in Form
  /\ autoPicked \in BOOLEAN
  /\ request \in Request \cup {None}
  /\ outcome \in [kind : {"result", "invalid", "cooling", "failed"}, of : Request] \cup {None}
  /\ used \in [key : BOOLEAN, url : BOOLEAN, thinking : BOOLEAN]

Init ==
  /\ endpoints = {} /\ options = {}
  /\ form \in [provider : {None}, model : {None}, url : {None}, key : BOOLEAN,
               max : {1024}, thinking : {FALSE}, prev : {None}]
  /\ autoPicked = FALSE
  /\ request = None /\ outcome = None
  /\ used = NoBadge

-----------------------------------------------------------------------------
(* The form.                                                               *)

Picks(ms) == IF ms \cap Preferred # {} THEN ms \cap Preferred ELSE ms

(* The effect that follows every change of the lists and of the model id:  *)
(* it picks a model once, and its provider with it.                        *)
Settle(f, opts, ends) ==
  IF autoPicked \/ f.model # None \/ opts = {}
    THEN form' = f /\ UNCHANGED autoPicked
    ELSE /\ autoPicked' = TRUE
         /\ \E m \in Picks(opts) :
              form' = [f EXCEPT !.model = m,
                                !.provider = IF ends = {} \/ ProviderOf[m] \in ends
                                               THEN ProviderOf[m] ELSE @]

LoadProviders ==
  /\ endpoints = {}
  /\ endpoints' = Registry
  /\ \E p \in Registry :
       Settle([form EXCEPT !.provider = IF @ = None THEN p ELSE @], options, Registry)
  /\ UNCHANGED <<options, request, outcome, used>>

LoadModels ==
  /\ options = {}
  /\ options' \in SUBSET Models \ {{}}
  /\ Settle(form, options', endpoints)
  /\ UNCHANGED <<endpoints, request, outcome, used>>

page == <<endpoints, options, request, outcome, used>>

(* changeProvider: the model and the custom URL belonged to the old one.   *)
ChangeProvider(p) ==
  /\ p \in endpoints
  /\ LET of == {m \in options : ProviderOf[m] = p}
     IN  \E m \in IF of = {} THEN {None} ELSE Picks(of) :
           Settle([form EXCEPT !.provider = p, !.url = None, !.model = m], options, endpoints)
  /\ UNCHANGED page

EditModel(m) ==
  /\ Settle([form EXCEPT !.model = m], options, endpoints)
  /\ UNCHANGED page

(* chooseModel: the box offers the models of the provider, if one is set.  *)
ChooseModel(m) ==
  /\ m \in options
  /\ form.provider \in {None, ProviderOf[m]}
  /\ Settle([form EXCEPT !.model = m, !.provider = ProviderOf[m]], options, endpoints)
  /\ UNCHANGED page

(* Customize starts from the registry's URL of the provider; Reset and an  *)
(* emptied field go back to it.                                            *)
EditUrl(u) ==
  /\ \/ form.url = None /\ form.provider \in endpoints /\ u = form.provider
     \/ form.url # None /\ u \in {None, "typed"}
  /\ form' = [form EXCEPT !.url = u]
  /\ UNCHANGED <<page, autoPicked>>

SetKey(k) ==
  /\ form' = [form EXCEPT !.key = k]
  /\ UNCHANGED <<page, autoPicked>>

(* Typing a budget, or applying a preset, ends thinking mode.              *)
SetBudget(n) ==
  /\ form' = [form EXCEPT !.max = n, !.thinking = FALSE, !.prev = None]
  /\ UNCHANGED <<page, autoPicked>>

ToggleThinking ==
  /\ form' = IF form.thinking
               THEN [form EXCEPT !.thinking = FALSE, !.prev = None,
                                 !.max = IF form.prev # None THEN form.prev ELSE @]
               ELSE [form EXCEPT !.thinking = TRUE, !.prev = form.max, !.max = THINKING]
  /\ UNCHANGED <<page, autoPicked>>

-----------------------------------------------------------------------------
(* A test.                                                                 *)

(* run, by the button or by Ctrl+Enter, which does not look at the fields. *)
Run_bug ==
  /\ request = None
  /\ request' = [stage |-> "sent", provider |-> form.provider, model |-> form.model,
                 url |-> form.url, key |-> form.key, max |-> form.max]
  /\ outcome' = None
  /\ used' = [key |-> form.key \/ used.key, url |-> form.url # None \/ used.url,
              thinking |-> form.thinking]
  /\ UNCHANGED <<endpoints, options, form, autoPicked>>

Run ==
  /\ request = None
  /\ request' = [stage |-> "sent", provider |-> form.provider, model |-> form.model,
                 url |-> form.url, key |-> form.key, max |-> form.max]
  /\ outcome' = None
  /\ used' = [key |-> form.key, url |-> form.url # None, thinking |-> form.thinking]
  /\ UNCHANGED <<endpoints, options, form, autoPicked>>

Ended(kind) ==
  /\ outcome' = [kind |-> kind, of |-> request]
  /\ request' = None
  /\ UNCHANGED <<endpoints, options, form, autoPicked, used>>

(* validatePlaygroundInput, then the lookups of the provider.              *)
Valid(r) ==
  /\ r.provider # None /\ r.model # None
  /\ r.max >= maxTokensMin /\ r.max <= maxTokensMax

(* The route answers 400 to what is not valid, and 429 if the provider is  *)
(* cooling, which the benchmarks decide at any moment.                     *)
Refuse ==
  /\ request # None /\ request.stage = "sent"
  /\ \/ ~Valid(request) /\ Ended("invalid")
     \/ Valid(request) /\ Ended("cooling")

Measure ==
  /\ request # None /\ request.stage = "sent"
  /\ Valid(request)
  /\ request' = [request EXCEPT !.stage = "measuring"]
  /\ UNCHANGED <<endpoints, options, form, autoPicked, outcome, used>>

(* measureBenchmark answers, after timeout_ms at the latest.               *)
Answer ==
  /\ request # None /\ request.stage = "measuring"
  /\ Ended("result")

(* The user cancels, the request is lost, or the route answers 401 or 500. *)
Fail ==
  /\ request # None
  /\ Ended("failed")

-----------------------------------------------------------------------------
Serve == Refuse \/ Measure \/ Answer

Next ==
  \/ LoadProviders \/ LoadModels \/ ToggleThinking \/ Run \/ Serve \/ Fail
  \/ \E p \in Registry : ChangeProvider(p)
  \/ \E m \in Models : ChooseModel(m)
  \/ \E m \in Models \cup {None} : EditModel(m)
  \/ \E u \in Urls \cup {None} : EditUrl(u)
  \/ \E k \in BOOLEAN : SetKey(k)
  \/ \E n \in Budgets : SetBudget(n)

Spec == Init /\ [][Next]_vars

-----------------------------------------------------------------------------
(* The badges beside a result are about the test that produced it, however *)
(* the form was edited while the test ran, and whatever the test before    *)
(* used: thinking means that the full budget was asked for.                *)
BadgesDescribeResult ==
  outcome # None /\ outcome.kind = "result" =>
    /\ used.key = outcome.of.key
    /\ used.url = (outcome.of.url # None)
    /\ used.thinking => outcome.of.max = THINKING

(* "A custom endpoint URL is also reset, it belonged to the old provider"  *)
(* (Playground.tsx): a chat URL taken over from the registry is that of    *)
(* the provider of the form.                                               *)
UrlFollowsProvider == form.url \in Registry => form.url = form.provider
=============================================================================
