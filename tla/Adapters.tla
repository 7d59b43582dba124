------------------------------ MODULE Adapters ------------------------------
(***************************************************************************)
(* The adapters of the providers: which models each of them lists, as free *)
(* or not, for every answer of its provider, and what the sweep of a       *)
(* discovery and the SQL filters of the registry make of the list          *)
(* (src/providers/*.ts).                                                   *)
(*                                                                         *)
(* A model id is a string that is only compared: what an adapter tests of  *)
(* an id's spelling (a suffix, a substring) is a set of ids.  Names,       *)
(* contexts, prices and capabilities of the listed models are left out.    *)
(***************************************************************************)
EXTENDS Integers, FiniteSetsExt

CONSTANTS
  SLICE,         \* how many ids a truncating adapter keeps (10 to 50)
  MaxSwitches    \* bound: switches an administrator moves

VARIABLES
  provider,      \* the provider under consideration
  row,           \* row[id]: its models row
  answer,        \* history: what the provider last answered
  switches

vars == <<provider, row, answer, switches>>

-----------------------------------------------------------------------------
(* Ids by spelling, and some ids beside the curated lists.                 *)

ColonFree == {"nvidia/nemotron-3-nano-omni-30b-a3b-reasoning:free", "inclusionai/ling-3.0-flash:free",
  "nvidia/nemotron-3-ultra-550b-a55b:free", "poolside/laguna-s-2.1:free", "new:free"}
DashFree  == {"muse-spark-1.2-contributor-free", "muse-spark-1.3-contributor-free",
  "mimo-v2.5-free", "nemotron-3-ultra-free", "nemotron-3.5-lightning-free",
  "ling-3.0-flash-fin-free", "deepseek-v4-flash-free", "qwen/qwen3.8-max-free", "new-free"}
SlashFree == {"new/free"}
GeminiOrGemma == {"gemini-2.5-flash", "gemini-2.5-flash-lite", "gemini-2.5-pro",
  "gemma-3-27b-it", "gemini-2.0-flash", "gemini-new"}

(* What distinguishes one adapter from another:                            *)
(*   curated  the list it answers with when it has nothing better          *)
(*   free     the ids it reports as FREE; the others it lists are `rest'   *)
(*   keeps    the ids it lists at all                                      *)
(*   cut      it truncates its list                                        *)
(*   others   ids, beside the curated ones, a provider may answer          *)
AllFree(curated, cut) ==
  [curated |-> curated, free |-> curated \cup {"new"}, keeps |-> curated \cup {"new"},
   rest |-> "PAID", cut |-> cut, others |-> {"new"}]

OnlyFree(curated, free, cut, others) ==
  [curated |-> curated, free |-> free, keeps |-> free,
   rest |-> "PAID", cut |-> cut, others |-> others]

ByAllowlist(curated, free, others) ==
  [curated |-> curated, free |-> free, keeps |-> curated \cup free \cup others,
   rest |-> "PAID", cut |-> FALSE, others |-> others]

-----------------------------------------------------------------------------
(* Adapters that report every id of the answer as free.                    *)

nvidia == AllFree({"meta/llama-3.3-70b-instruct", "meta/llama-3.1-8b-instruct",
  "nvidia/llama-3.1-nemotron-70b-instruct", "google/gemma-2-27b-it",
  "mistralai/mistral-7b-instruct-v0.3"}, TRUE)

mistral == AllFree({"mistral-small-latest", "codestral-latest", "ministral-8b-latest",
  "mistral-medium-latest", "magistral-small-latest"}, TRUE)

cerebras == AllFree({"gpt-oss-120b", "llama-3.3-70b", "qwen-3-32b"}, FALSE)

orcarouter == AllFree({"orca-llama-3.1-70b", "orca-gemma-2-27b", "orca-mistral-7b"}, TRUE)

ninerouter == AllFree({"9router-llama-3.1-8b", "9router-qwen-2.5-7b"}, TRUE)

speka == AllFree({"llama-3.1-8b-instruct", "qwen-2.5-7b-instruct"}, TRUE)

nexaapi == AllFree({"nexa-llama-3.1-8b", "nexa-qwen-2.5-7b"}, TRUE)

-----------------------------------------------------------------------------
(* Adapters that list only what they take for free.                        *)

(* openrouter lists what costs nothing: the curated ids, "new:free" and    *)
(* "audio".  It drops audio models only once it has found something free.  *)
Audio == {"audio"}

openrouter ==
  LET curated == {"dots-studio/dots-3-note-preview:free", "liquid/lfm-2.5-2.6b:free",
        "nvidia/nemotron-3.5-lightning:free", "thinkingmachines/inkling-small:free",
        "poolside/laguna-s-2.1:free", "thinkingmachines/inkling:free",
        "poolside/laguna-xs-2.1:free", "cohere/north-mini-code:free", "z-ai/glm-5.2:free",
        "nvidia/nemotron-3-ultra-550b-a55b:free", "google/gemma-4-26b-a4b-it:free",
        "google/gemma-4-31b-it:free", "nvidia/nemotron-3-super-120b-a12b:free",
        "openrouter/free", "nvidia/nemotron-3-nano-30b-a3b:free",
        "nvidia/nemotron-nano-12b-v2-vl:free", "nvidia/nemotron-nano-9b-v2:free",
        "nvidia/nemotron-3-nano-omni-30b-a3b-reasoning:free",
        "nvidia/nemotron-3.5-content-safety:free"}
  IN  OnlyFree(curated, curated \cup {"new:free"} \cup Audio, FALSE,
               {"new:free", "new"} \cup Audio)

opencode_zen ==
  LET retired == {"deepseek-v4-flash-free"}
  IN  OnlyFree({"big-pickle", "muse-spark-1.2-contributor-free",
                "muse-spark-1.3-contributor-free", "mimo-v2.5-free", "nemotron-3-ultra-free",
                "nemotron-3.5-lightning-free", "ling-3.0-flash-fin-free"},
               ({"big-pickle"} \cup DashFree) \ retired, FALSE,
               {"deepseek-v4-flash-free", "new-free", "new"})

kilocode == OnlyFree({"inclusionai/ling-3.0-flash:free",
  "nvidia/nemotron-3-ultra-550b-a55b:free", "poolside/laguna-s-2.1:free"},
  ColonFree \cup DashFree \cup SlashFree, FALSE, {"new:free", "new/free", "new"})

tokenrouter == OnlyFree({"nvidia/nemotron-3-nano-omni-30b-a3b-reasoning:free",
  "qwen/qwen3.8-max-free"}, ColonFree \cup DashFree \cup SlashFree, TRUE,
  {"new:free", "new/free", "new"})

gemini == OnlyFree(GeminiOrGemma \ {"gemini-new"}, GeminiOrGemma, TRUE, {"gemini-new", "new"})

OllamaFree == {"gemma4:31b", "minimax-m3", "gpt-oss:20b", "gpt-oss:120b",
  "nemotron-3-super", "nemotron-3-ultra", "nemotron-3-nano:30b"}

ollama == OnlyFree(OllamaFree, OllamaFree, TRUE, {"new"})

-----------------------------------------------------------------------------
(* Adapters that list everything and report an allowlist as free.          *)

GroqFree == {"qwen/qwen3.6-27b", "minimaxai/minimax-m2.7", "groq/compound",
  "groq/compound-mini", "moonshotai/kimi-k2-instruct", "openai/gpt-oss-120b",
  "openai/gpt-oss-20b", "openai/gpt-oss-safeguard-20b", "whisper-large-v3",
  "whisper-large-v3-turbo"}

groq == ByAllowlist({"openai/gpt-oss-120b", "openai/gpt-oss-20b", "qwen/qwen3.6-27b",
  "minimaxai/minimax-m2.7", "moonshotai/kimi-k2-instruct", "groq/compound",
  "groq/compound-mini"}, GroqFree, {"whisper-large-v3", "new"})

SambanovaFree_bug == {"Meta-Llama-3.3-70B-Instruct", "gpt-oss-120b", "DeepSeek-V3.1",
  "DeepSeek-V3.2", "gemma-4-31B-it"}

SambanovaFree == {"Meta-Llama-3.3-70B-Instruct", "gpt-oss-120b", "MiniMax-M2.7",
  "DeepSeek-V3.1", "DeepSeek-V3.2", "gemma-4-31B-it"}

sambanova == ByAllowlist({"Meta-Llama-3.3-70B-Instruct", "gpt-oss-120b", "MiniMax-M2.7",
  "DeepSeek-V3.1"}, SambanovaFree, {"DeepSeek-V3.2", "new"})

AgnesFree == {"agnes-2.0-flash", "agnes-1.5-flash", "agnes-image-2.0-flash",
  "agnes-image-2.1-flash", "agnes-video-v2.0"}

agnes_ai == ByAllowlist(AgnesFree, AgnesFree, {"new"})

AionFree == {"aion-3-0", "aion-3-0-mini", "aion-2-0", "aion-2-5", "aion-rp-1-0-8b",
  "aion-1-mini", "aion-1-large"}

aionlabs == ByAllowlist({"aion-3-0", "aion-3-0-mini", "aion-2-0", "aion-2-5",
  "aion-rp-1-0-8b"}, AionFree, {"aion-1-mini", "new"})

NscaleFree == {"meta-llama/Llama-3.3-70B-Instruct", "meta-llama/Llama-3.1-70B-Instruct",
  "Qwen/Qwen3-Coder-30B-A3B-Instruct", "mistralai/Mistral-7B-Instruct-v0.3",
  "deepseek-ai/DeepSeek-R1-Distill-Llama-70B"}

nscale == ByAllowlist({"meta-llama/Llama-3.3-70B-Instruct",
  "Qwen/Qwen3-Coder-30B-A3B-Instruct", "deepseek-ai/DeepSeek-R1-Distill-Llama-70B"},
  NscaleFree, {"mistralai/Mistral-7B-Instruct-v0.3", "new"})

(* glhf also takes an id for free that contains one of two names.          *)
GlhfFree  == {"hf:meta-llama/Meta-Llama-3.1-70B-Instruct",
  "meta-llama/Meta-Llama-3.1-70B-Instruct", "mistralai/Mixtral-8x7B-Instruct-v0.1"}
GlhfNamed == {"hf:meta-llama/Meta-Llama-3.1-70B-Instruct",
  "meta-llama/Meta-Llama-3.1-70B-Instruct", "mistralai/Mixtral-8x7B-Instruct-v0.1",
  "hf:mistralai/Mixtral-8x7B-Instruct-v0.1"}

glhf == ByAllowlist({"hf:meta-llama/Meta-Llama-3.1-70B-Instruct",
  "hf:mistralai/Mixtral-8x7B-Instruct-v0.1"}, GlhfFree \cup GlhfNamed,
  {"mistralai/Mixtral-8x7B-Instruct-v0.1", "new"})

(* The catalogues that are only subscribed to have no curated list.        *)
ollama_pro ==
  [curated |-> {}, free |-> OllamaFree, keeps |-> OllamaFree \cup {"new"},
   rest |-> "PAID", cut |-> TRUE, others |-> {"gemma4:31b", "minimax-m3", "new"}]

opencode_go ==
  [curated |-> {}, free |-> DashFree, keeps |-> {"new-free", "new"},
   rest |-> "UNKNOWN", cut |-> FALSE, others |-> {"new-free", "new"}]

Adapter ==
  [nvidia |-> nvidia, mistral |-> mistral, cerebras |-> cerebras, orcarouter |-> orcarouter,
   ninerouter |-> ninerouter, speka |-> speka, nexaapi |-> nexaapi, openrouter |-> openrouter,
   opencode_zen |-> opencode_zen, kilocode |-> kilocode, tokenrouter |-> tokenrouter,
   gemini |-> gemini, ollama |-> ollama, groq |-> groq, sambanova |-> sambanova,
   agnes_ai |-> agnes_ai, aionlabs |-> aionlabs, nscale |-> nscale, glhf |-> glhf,
   ollama_pro |-> ollama_pro, opencode_go |-> opencode_go]

Providers == DOMAIN Adapter
Ids(p)    == Adapter[p].curated \cup Adapter[p].others

-----------------------------------------------------------------------------
(* The registry's filters, which hide rows from every query that selects   *)
(* or shows models.  A provider without one hides nothing.                 *)
Suffixed == ColonFree \cup DashFree \cup SlashFree

RegistryOllama == {"gemma4:31b", "minimax-m3", "gpt-oss:20b", "gpt-oss:120b",
  "nemotron-3-super", "nemotron-3-ultra", "nemotron-3-nano:30b"}

HardFilter_bug(p) ==
  CASE p = "ollama"  -> OllamaFree \ {"nemotron-3-nano:30b"}
    [] p = "glhf"    -> GlhfFree
    [] OTHER         -> Ids(p)

HardFilter(p) ==
  CASE p = "groq"        -> GroqFree
    [] p = "agnes_ai"    -> AgnesFree
    [] p = "aionlabs"    -> AionFree
    [] p = "nscale"      -> NscaleFree
    [] p = "glhf"        -> GlhfFree \cup GlhfNamed
    [] p = "ollama"      -> RegistryOllama
    [] p = "kilocode"    -> Suffixed
    [] p = "tokenrouter" -> Suffixed
    [] OTHER             -> Ids(p)

(* publicModelVisibilityWhere.                                             *)
Visible(p, r, id) ==
  /\ r.active \/ r.status = "PREVIOUSLY_FREE"
  /\ r.enabled
  /\ id \in HardFilter(p)

-----------------------------------------------------------------------------
(* discoverModels: `up' is whether the provider could be asked at all (it  *)
(* answered with 2xx, and opencode_go has a key).  An adapter without      *)
(* anything to list falls back on its curated list, all of it FREE.        *)
Kept(p, up, ids) == IF up THEN ids \cap Adapter[p].keeps ELSE {}

Cut(p, S) == IF Adapter[p].cut /\ Cardinality(S) > SLICE THEN kSubset(SLICE, S) ELSE {S}

Listings(p, up, ids) ==
  LET kept == Kept(p, up, ids)
  IN  IF kept = {}
        THEN {[id \in Adapter[p].curated |-> "FREE"]}
        ELSE {[id \in S \ Audio |-> IF id \in Adapter[p].free THEN "FREE" ELSE Adapter[p].rest]
                : S \in Cut(p, kept)}

(* A new row of some providers, or of a whisper model, is stored disabled. *)
DisabledByDefault == {"speka", "nexaapi", "ninerouter", "opencode_go", "ollama_pro"}
EnabledFirst(p, id, status) ==
  /\ status = "FREE"
  /\ p \notin DisabledByDefault
  /\ ~(p = "groq" /\ id \in {"whisper-large-v3", "whisper-large-v3-turbo"})

Upserted(p, id, status) ==
  [status |-> status, active |-> TRUE,
   enabled |-> IF row[id].status = "NONE" THEN EnabledFirst(p, id, status)
                                          ELSE row[id].enabled /\ status = "FREE"]

Dropped(id) ==
  IF row[id].active
    THEN [row[id] EXCEPT !.active = FALSE,
                         !.status = IF @ = "FREE" THEN "PREVIOUSLY_FREE" ELSE @]
    ELSE row[id]

(* runDiscovery groups what was listed by provider, so a provider that     *)
(* listed nothing is left alone.                                           *)
Swept(p, listing) ==
  [id \in Ids(p) |->
     IF DOMAIN listing = {} THEN row[id]
     ELSE IF id \in DOMAIN listing THEN Upserted(p, id, listing[id]) ELSE Dropped(id)]

Answers(p) ==
  {[up |-> FALSE, ids |-> {}]}
    \cup {[up |-> TRUE, ids |-> ids] :
            ids \in UNION {{S, S \cup Adapter[p].curated} : S \in SUBSET Adapter[p].others}}

Discover ==
  /\ answer' \in Answers(provider)
  /\ \E listing \in Listings(provider, answer'.up, answer'.ids) :
       row' = Swept(provider, listing)
  /\ UNCHANGED <<provider, switches>>

(* An administrator, or the guard of a job, moves a model's switch.        *)
Switch(id, on) ==
  /\ row[id].status # "NONE"
  /\ switches < MaxSwitches
  /\ switches' = switches + 1
  /\ row' = [row EXCEPT ![id].enabled = on]
  /\ UNCHANGED <<provider, answer>>

NoRow == [status |-> "NONE", active |-> FALSE, enabled |-> FALSE]

Init ==
  /\ provider \in Providers
  /\ row = [id \in Ids(provider) |-> NoRow]
  /\ answer = [up |-> FALSE, ids |-> {}]
  /\ switches = 0

Next ==
  \/ Discover
  \/ \E id \in Adapter[provider].others, on \in BOOLEAN : Switch(id, on)

Spec == Init /\ [][Next]_vars

-----------------------------------------------------------------------------
TypeOK ==
  /\ provider \in Providers
  /\ row \in [Ids(provider) -> [status : {"NONE", "FREE", "PAID", "UNKNOWN", "PREVIOUSLY_FREE"},
                                 active : BOOLEAN, enabled : BOOLEAN]]

(* "A wrong filter is worse than a gap: it would HIDE legitimately free    *)
(* models" (registry.ts): the SQL filter of a provider passes every row    *)
(* its adapter has reported as free, be it from an answer or from the      *)
(* curated list.  The filters of ollama, kilocode, tokenrouter and (its    *)
(* substrings) glhf are written apart from their adapters; those of groq,  *)
(* agnes_ai, aionlabs and nscale are made from the adapter's own list.     *)
FreeIsVisible ==
  \A id \in Ids(provider) :
    row[id].status = "FREE" /\ row[id].enabled => Visible(provider, row[id], id)

(* Discoveries never take a free model's switch back, in whatever order    *)
(* outages (with their curated lists), truncated answers and full answers  *)
(* follow one another: no adapter classifies a model in one of them as     *)
(* free and in another as not.                                             *)
DiscoveryKeepsSwitches ==
  [][row' # row /\ UNCHANGED switches =>
       \A id \in Ids(provider) :
         row[id].enabled /\ row[id].status \in {"FREE", "PREVIOUSLY_FREE"}
           => row'[id].enabled]_vars

(* "never auto-queued, admin opts models in explicitly" (queries.ts): a    *)
(* model that an administrator has switched on stays on.                   *)
OptInLasts ==
  [][\A id \in Ids(provider) :
       row[id].enabled /\ UNCHANGED switches => row'[id].enabled]_vars
=============================================================================
