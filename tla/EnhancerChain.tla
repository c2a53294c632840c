--------------------------- MODULE EnhancerChain ----------------------------
(***************************************************************************)
(* Which AI services a transcription gets, in which order: the one the     *)
(* settings choose, then the ones that may stand in for it                 *)
(* (RuntimeTranscriptionFactory::build_enhancer_candidates).               *)
(*                                                                         *)
(* The list of candidates is a function on the places where one may stand: *)
(* 0 is the chosen one's, 1 is Apple's, and 1 + i is that of service i; an *)
(* earlier place is tried earlier.                                         *)
(*                                                                         *)
(* The settings are a record of the provider, the id of the active service *)
(* or NotGiven, whether Apple's model is enabled, the key of the Gemini    *)
(* section or NotGiven, and the services; a service has a kind, a model, a *)
(* key and a base URL, NotGiven where the user gave none.  Of a URL        *)
(* matters whether its host is this machine ("loopback").                  *)
(***************************************************************************)
EXTENDS Naturals, Sequences

NotGiven == "blank"

LocalKinds == {"lmstudio", "ollama", "custom"}

DefaultUrl(kind) ==
    IF kind = "custom" THEN NotGiven
    ELSE IF kind \in LocalKinds THEN "loopback" ELSE "remote"

DefaultModel(kind) ==
    IF kind \in {"lmstudio", "huggingface", "azure", "custom"} THEN NotGiven ELSE "default"

\* What the user gave, or else the default; may still be NotGiven.
Or(given, default) == IF given # NotGiven THEN given ELSE default
BaseUrl(s) == Or(s.url, DefaultUrl(s.kind))

\* A default model is not enough to stand in, it is to be chosen.
IsLocalFallback(s) ==
    s.enabled /\ s.kind \in LocalKinds /\ s.model # NotGiven /\ BaseUrl(s) = "loopback"

(***************************************************************************)
(* The candidates in order.                                                *)
(***************************************************************************)
AppleSpec(fallback) == [key |-> "apple", id |-> NotGiven, fallback |-> fallback]
GeminiSpec == [key |-> "gemini", id |-> NotGiven, fallback |-> FALSE]
ServiceSpec(id, fallback) == [key |-> "remote", id |-> id, fallback |-> fallback]

First(places) == CHOOSE i \in places : \A j \in places : i <= j

EnabledGoogle(ai) ==
    {i \in DOMAIN ai.services : ai.services[i].kind = "google" /\ ai.services[i].enabled}

\* An active service is taken whatever the provider says, unless that is Apple.
HasActive(ai) == ai.provider \in {"apple", "gemini"} \/ ai.active # NotGiven

ActiveSpec(ai) ==
    IF ai.provider = "apple" THEN AppleSpec(FALSE)
    ELSE IF ai.active # NotGiven THEN ServiceSpec(ai.active, FALSE)
    ELSE IF EnabledGoogle(ai) = {} THEN GeminiSpec
    ELSE ServiceSpec(ai.services[First(EnabledGoogle(ai))].id, FALSE)

OrderedSpecs(ai, apple) ==
    LET locals == {i \in DOMAIN ai.services : IsLocalFallback(ai.services[i])} IN
    [place \in {p \in {0} : HasActive(ai)} \cup {p \in {1} : apple /\ ai.apple}
                \cup {1 + i : i \in locals} |->
       CASE place = 0 -> ActiveSpec(ai)
         [] place = 1 -> AppleSpec(TRUE)
         [] OTHER -> ServiceSpec(ai.services[place - 1].id, TRUE)]

(***************************************************************************)
(* Building them: where its requests go, or NotGiven when it cannot be     *)
(* built (which costs only that candidate).                                *)
(***************************************************************************)
OpenAiCompatible(s) ==
    IF /\ BaseUrl(s) # NotGiven
       /\ Or(s.model, DefaultModel(s.kind)) # NotGiven
       /\ s.kind \in LocalKinds \/ s.key # NotGiven
    THEN BaseUrl(s) ELSE NotGiven

GeminiService(ai, s) == IF Or(s.key, ai.gemini) # NotGiven THEN "remote" ELSE NotGiven

RemoteService(ai, id) ==
    LET those == {i \in DOMAIN ai.services : ai.services[i].id = id /\ ai.services[i].enabled}
        service == ai.services[First(those)]
    IN  IF those = {} THEN NotGiven
        ELSE IF service.kind = "google" THEN GeminiService(ai, service)
        ELSE OpenAiCompatible(service)

FromSpec(ai, apple, spec) ==
    CASE spec.key = "apple"  -> IF apple /\ ai.apple THEN "on device" ELSE NotGiven
      [] spec.key = "gemini" -> IF ai.gemini # NotGiven THEN "remote" ELSE NotGiven
      [] spec.key = "remote" -> RemoteService(ai, spec.id)

\* Of the specs with one key the first counts, also when it cannot be built.
Counts(specs, place) ==
    \A p \in DOMAIN specs :
      p < place => specs[p].key # specs[place].key \/ specs[p].id # specs[place].id

EnhancerCandidates(ai, apple) ==
    LET specs == OrderedSpecs(ai, apple)
        goesTo(place) == FromSpec(ai, apple, specs[place])
    IN  [place \in {p \in DOMAIN specs : Counts(specs, p) /\ goesTo(p) # NotGiven} |->
           [spec |-> specs[place], goesTo |-> goesTo(place)]]

\* A factory on another host than Apple's takes its model out of the settings.
ForHost(ai, apple) ==
    IF apple THEN ai
    ELSE [ai EXCEPT !.apple = FALSE, !.provider = IF @ = "apple" THEN "none" ELSE @]
=============================================================================
