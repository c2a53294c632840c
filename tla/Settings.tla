------------------------------ MODULE Settings ------------------------------
(***************************************************************************)
(* The settings: the record of crates/domain/src/settings.rs with its old  *)
(* flat fields beside the sections that replaced them, the settings file   *)
(* and the secure storage of the API keys (FsSettingsRepository), and the  *)
(* callers of SettingsService, whose write lock covers load, change and    *)
(* save but not the loads of readers.  The runtime factory loads and saves *)
(* through the repository, without the service.                            *)
(***************************************************************************)
EXTENDS Naturals, FiniteSets

CONSTANTS
    Callers,      \* the commands and the factory, named in Purpose below
    Services,     \* ids of remote services a window may add or remove
    Google,       \* those of them that are Google's
    Stored,       \* the settings file and the keys at the start, per setting
    Texts,        \* what a field of the settings may say
    Absent

ASSUME KindsOfServices ==
    /\ Google \subseteq Services
    /\ Services \cap {"gemini", "transcription", "automation", "bound"} = {}
ASSUME TextsAssumption ==
    /\ {"default", "new", "whole", "fixed", "v3", "none", "apple", "gemini", "builtin",
        "custom"} \subseteq Texts
    /\ Absent \notin Texts
ASSUME KnownCallers ==
    /\ Callers \subseteq {"transcription", "automation", "ai", "provider", "prompts",
                          "whole", "snapshot", "factory"}
    /\ Absent \notin Callers

VARIABLES
    file,         \* settings.json, or Absent
    keys,         \* secure storage: account -> API key or Absent
    lock,         \* SettingsService::write_lock: the caller that holds it
    call,         \* what each caller is doing
    accepted,     \* what the last accepted change of each part set
    touched,      \* parts that some caller has meant to change
    known,        \* services that have been in the file
    slips,        \* what happened: "failed" calls, a "crashed" program, "unlocked"
                  \* writes of the file beside or after a change, "stale" copies saved
    origin        \* the keys at the start, wherever they were

settings == <<file, keys, lock, call, accepted, touched, known, slips, origin>>

Accounts == {"gemini"} \cup Services

(***************************************************************************)
(* The record.  "transcription" stands for every section mirrored by flat  *)
(* fields, "automation" for every section that is not; a key entry is the  *)
(* pair of api_key and has_api_key.                                        *)
(***************************************************************************)
Entries == [key : Texts \cup {Absent}, has : BOOLEAN]
ServiceLists == UNION {[d -> Entries] : d \in SUBSET Services}
FlatRecord == [transcription : Texts, key : Texts \cup {Absent}, present : BOOLEAN]
AiRecord ==
    [gem : Entries, services : ServiceLists, provider : Texts, active : Services \cup {Absent}]
SettingsRecord ==
    [flat : FlatRecord, transcription : Texts, automation : Texts, model : Texts,
     ai : AiRecord, prompts : [custom : BOOLEAN, bound : Texts], sections : BOOLEAN]

NoKey == [key |-> Absent, has |-> FALSE]
Refreshed(e) == [e EXCEPT !.has = @ \/ e.key # Absent]

Defaults ==
    [flat |-> [transcription |-> "default", key |-> Absent, present |-> FALSE],
     transcription |-> "default", automation |-> "default", model |-> "v3",
     ai |-> [gem |-> NoKey, services |-> <<>>, provider |-> "apple", active |-> Absent],
     prompts |-> [custom |-> FALSE, bound |-> "builtin"], sections |-> TRUE]

Refresh(s) ==
    LET gem == Refreshed(s.ai.gem) IN
    [s EXCEPT !.ai.gem = gem, !.flat.present = @ \/ gem.has,
              !.ai.services = [i \in DOMAIN @ |-> Refreshed(@[i])]]

Redacted(s) ==
    LET r == Refresh(s) IN
    [r EXCEPT !.flat.key = Absent, !.ai.gem.key = Absent,
              !.ai.services = [i \in DOMAIN @ |-> [@[i] EXCEPT !.key = Absent]]]

\* Built-in templates are always put back; a binding to a template that is
\* gone falls back to them.
PromptsIntact(p) == [p EXCEPT !.bound = IF p.custom THEN @ ELSE "builtin"]

\* active_remote_service_id: a Google service stands in for Gemini, and the id
\* of a service that is gone is dropped.
ActiveOf(ai) ==
    LET google == Google \cap DOMAIN ai.services
        chosen == IF ai.active = Absent /\ ai.provider = "gemini" /\ google # {}
                  THEN CHOOSE i \in google : TRUE ELSE ai.active
    IN  IF chosen \in DOMAIN ai.services THEN chosen ELSE Absent

SyncLegacyFromSections(s) ==
    LET t == [s EXCEPT
                !.flat = [transcription |-> s.transcription, key |-> s.ai.gem.key,
                          present |-> s.ai.gem.has \/ s.ai.gem.key # Absent],
                !.ai.active = ActiveOf(s.ai),
                !.prompts = PromptsIntact(s.prompts)]
    IN  Refresh(t)

SyncSectionsFromLegacy(s) ==
    LET provider == IF s.ai.provider = "none" /\ s.flat.key # Absent
                    THEN "gemini" ELSE s.ai.provider
        ai == [s.ai EXCEPT
                 !.gem = [key |-> s.flat.key,
                          has |-> s.flat.present \/ s.flat.key # Absent],
                 !.provider = provider]
        t == [s EXCEPT !.transcription = s.flat.transcription,
                       !.ai = [ai EXCEPT !.active = ActiveOf(ai)],
                       !.prompts = PromptsIntact(s.prompts)]
    IN  Refresh(t)

\* should_treat_legacy_fields_as_source
LegacyIsSource(s) ==
    /\ \/ s.flat.transcription # Defaults.transcription
       \/ s.flat.key # Absent
    /\ \A f \in {"transcription", "automation", "ai", "prompts"} : s[f] = Defaults[f]

\* What load_sync makes of the file before it looks at the secrets.
Parsed(f) ==
    IF f.sections THEN SyncLegacyFromSections(f)
    ELSE [SyncSectionsFromLegacy(f) EXCEPT !.sections = TRUE]

Entry(s, a) == IF a = "gemini" THEN s.ai.gem ELSE s.ai.services[a]
SetKey(s, a, k) ==
    IF a = "gemini"
    THEN [s EXCEPT !.ai.gem = [key |-> k, has |-> k # Absent],
                   !.flat.key = k, !.flat.present = k # Absent]
    ELSE [s EXCEPT !.ai.services[a] = [key |-> k, has |-> k # Absent]]
AccountsOf(s) == {"gemini"} \cup DOMAIN s.ai.services
Plaintext(s, a) ==
    IF a = "gemini" THEN IF s.ai.gem.key # Absent THEN s.ai.gem.key ELSE s.flat.key
    ELSE IF a \in DOMAIN s.ai.services THEN s.ai.services[a].key ELSE Absent

\* What versions of this program have written: in a file with sections the flat
\* fields mirror them, in an older one the sections, where there are any, mirror
\* the flat fields; no binding is to a template that is gone; and there is no key
\* before there is a file.
ASSUME StoredAssumption ==
    /\ Absent \notin SettingsRecord
    /\ \A start \in DOMAIN Stored :
         LET f == Stored[start].file  k == Stored[start].keys IN
         /\ k \in [Accounts -> Texts \cup {Absent}]
         /\ IF f = Absent THEN \A a \in Accounts : k[a] = Absent
            ELSE /\ f \in SettingsRecord
                 /\ IF f.sections THEN f.flat.key \in {Absent, f.ai.gem.key}
                    ELSE f.ai.gem.key \in {Absent, f.flat.key}
                 /\ f.prompts.bound = "custom" => f.prompts.custom

\* merge_stored_secrets_for_save: a redacted entry takes its key back.
Merged(s) ==
    LET Back(e, a) == IF e.key = Absent /\ e.has THEN [e EXCEPT !.key = keys[a]] ELSE e
        gem == Back(s.ai.gem, "gemini")
        flat == IF s.flat.key = Absent /\ s.flat.present
                THEN IF gem.key # Absent THEN gem.key ELSE keys["gemini"]
                ELSE s.flat.key
    IN  [s EXCEPT !.ai.gem = gem, !.flat.key = flat,
                  !.ai.services = [i \in DOMAIN @ |-> Back(@[i], i)]]

Normalized(s) ==
    LET m == Merged([s EXCEPT !.model = "v3"])
    IN  Refresh(SyncLegacyFromSections(
            IF LegacyIsSource(m) THEN SyncSectionsFromLegacy(m) ELSE m))

(***************************************************************************)
(* What each caller changes: the settings it hands to the save, with the   *)
(* values it means to set.                                                 *)
(***************************************************************************)
Change(s, meant) == [s |-> s, meant |-> meant]
Only(i, value) == [j \in {i} |-> value]
Joined(f, g) == [x \in DOMAIN f \cup DOMAIN g |-> IF x \in DOMAIN f THEN f[x] ELSE g[x]]

AiChanges(ai) ==
    {[ai |-> [ai EXCEPT !.gem = NoKey, !.provider = "none"],
      meant |-> [gemini |-> Absent]]}
    \cup {[ai |-> [ai EXCEPT !.services = [@ EXCEPT ![i] = NoKey]],
           meant |-> Only(i, Absent)] : i \in DOMAIN ai.services}
    \cup {[ai |-> [ai EXCEPT !.services = [j \in DOMAIN @ \ {i} |-> @[j]],
                             !.active = IF @ = i THEN Absent ELSE @],
           meant |-> Only(i, Absent)] : i \in DOMAIN ai.services}
    \cup {[ai |-> [ai EXCEPT !.services = Joined(Only(i, [key |-> "new", has |-> TRUE]), @)],
           meant |-> Only(i, "new")] : i \in Services}

\* s: the settings loaded under the lock; copy: the window's redacted copy.
Changes(c, s, copy) ==
    CASE c = "transcription" ->
           {Change([s EXCEPT !.transcription = "new"], [transcription |-> "new"])}
      [] c = "automation" ->
           {Change([s EXCEPT !.automation = "new"], [automation |-> "new"])}
      [] c = "ai" ->
           {Change([s EXCEPT !.ai = m.ai], m.meant) : m \in AiChanges(copy.ai)}
      [] c = "provider" ->
           {Change([s EXCEPT !.ai.gem.key = "new"], [gemini |-> "new"]),
            Change([s EXCEPT !.ai.provider = "gemini"], <<>>)}
      [] c = "prompts" ->
           {Change([s EXCEPT !.prompts = [custom |-> TRUE, bound |-> "custom"]],
                   [bound |-> "custom"]),
            Change([s EXCEPT !.prompts = Defaults.prompts], [bound |-> "builtin"])}
           \cup IF s.prompts.custom
                THEN {Change([s EXCEPT !.prompts.custom = FALSE], [bound |-> "builtin"])}
                ELSE {}
      [] c = "whole" ->
           {Change([copy EXCEPT !.transcription = "whole", !.flat.transcription = "whole"],
                   Joined([transcription |-> "whole", automation |-> copy.automation,
                         bound |-> copy.prompts.bound],
                        [i \in Services \ DOMAIN copy.ai.services |-> Absent]))}
      [] c = "factory" ->
           {Change([s EXCEPT !.transcription = "fixed", !.flat.transcription = "fixed"],
                   [transcription |-> "fixed"])}

\* Mutant: the flat fields are the source for every command.
SyncedFromFlat(c, s) == SyncLegacyFromSections(SyncSectionsFromLegacy(s))

\* persist_with_source: update treats the flat fields as the source, every
\* other command the sections; the factory syncs as update does.
Synced(c, s) ==
    IF c \in {"whole", "factory"}
    THEN SyncLegacyFromSections(SyncSectionsFromLegacy(s))
    ELSE SyncSectionsFromLegacy(SyncLegacyFromSections(s))

Windows == {"ai", "whole"}                 \* send back what they once read
Unlocked == {"snapshot", "factory"}

IdleCall == [pc |-> "idle", use |-> "result", todo |-> {}, s |-> Defaults,
             copy |-> Defaults, ids |-> {}, plain |-> FALSE, meant |-> <<>>]

SettingsTypeOK ==
    /\ DOMAIN keys = Accounts
    /\ lock \in Callers \cup {Absent}
    /\ \A c \in Callers :
           /\ call[c].pc \in {"idle", "waiting", "read", "keys", "ids", "secrets",
                              "removed", "write", "done", "failed", "lost"}
           /\ call[c].use \in {"copy", "base", "result"}
           /\ call[c].todo \subseteq Accounts
    /\ \A c \in Callers : lock = c => call[c].pc \notin {"idle", "waiting", "done", "failed", "lost"}
    /\ known \subseteq Services
    /\ slips \subseteq {"failed", "crashed", "unlocked", "stale"}

ServicesIn(f) == IF f = Absent THEN {} ELSE DOMAIN f.ai.services

\* The key the next load finds for an account.
Recoverable(a) ==
    IF keys[a] # Absent THEN keys[a]
    ELSE IF file = Absent THEN Absent ELSE Plaintext(file, a)

SettingsInit(start) ==
    /\ file = Stored[start].file
    /\ keys = Stored[start].keys
    /\ lock = Absent
    /\ call = [c \in Callers |-> IdleCall]
    /\ accepted = <<>>
    /\ touched = {}
    /\ known = ServicesIn(file)
    /\ slips = {}
    /\ origin = [a \in Accounts |-> Recoverable(a)]

LockAfter(c) == IF lock = c THEN Absent ELSE lock

Unaccepted == UNCHANGED <<accepted, touched, known, slips, origin>>

\* Whether c, which writes the file, holds the lock.
Slips(c) == slips' = IF lock = c THEN slips ELSE slips \cup {"unlocked"}

\* A load that writes before any change has begun passes none.
LoadSlips(c) ==
    IF lock = Absent /\ touched = {} THEN slips' = slips ELSE Slips(c)

Begin(c) ==
    /\ call[c].pc = "idle"
    /\ call' = [call EXCEPT ![c] =
                  [call[c] EXCEPT !.pc = IF c \in Windows \cup Unlocked THEN "read" ELSE "waiting",
                                  !.use = CASE c \in Windows -> "copy"
                                            [] c = "factory" -> "base"
                                            [] OTHER -> "result"]]
    /\ UNCHANGED <<file, keys, lock>> /\ Unaccepted

\* What is done with a change: it is synced, and on its way to be saved.
Save(c, s, copy) ==
    \E m \in Changes(c, s, copy) :
        /\ call' = [call EXCEPT ![c] = [call[c] EXCEPT !.pc = "ids", !.s = Synced(c, m.s),
                                                       !.meant = m.meant]]
        /\ touched' = touched \cup DOMAIN m.meant

TakeLock(c) ==
    /\ call[c].pc = "waiting"
    /\ lock = Absent
    /\ lock' = c
    /\ IF c = "whole"
       THEN Save(c, call[c].copy, call[c].copy)
       ELSE /\ call' = [call EXCEPT ![c] = [call[c] EXCEPT !.pc = "read", !.use = "base"]]
            /\ UNCHANGED touched
    /\ UNCHANGED <<file, keys, accepted, known, slips, origin>>

\* A load has ended with settings s.
Loaded(c, s) ==
    CASE call[c].use = "copy" ->
           /\ call' = [call EXCEPT ![c] = [call[c] EXCEPT !.pc = "waiting", !.copy = Redacted(s)]]
           /\ UNCHANGED <<lock, touched>>
      [] call[c].use = "result" ->
           /\ call' = [call EXCEPT ![c].pc = "done"]
           /\ lock' = LockAfter(c)
           /\ UNCHANGED touched
      [] call[c].use = "base" /\ (c # "factory" \/ s.transcription = "outdated") ->
           /\ Save(c, s, call[c].copy)
           /\ UNCHANGED lock
      [] OTHER ->
           /\ call' = [call EXCEPT ![c].pc = "done"]
           /\ UNCHANGED <<lock, touched>>

LoadWritesDefaults(c) ==
    /\ call[c].pc = "read"
    /\ file = Absent
    /\ file' = Redacted(Defaults)
    /\ LoadSlips(c)
    /\ Loaded(c, Defaults)
    /\ UNCHANGED <<keys, accepted, known, origin>>

ReadFile(c) ==
    /\ call[c].pc = "read"
    /\ file # Absent
    /\ call' = [call EXCEPT ![c] = [call[c] EXCEPT !.pc = "keys",
                                                   !.s = [Parsed(file) EXCEPT !.model = "v3"],
                                                   !.plain = file.model # "v3",
                                                   !.todo = AccountsOf(Parsed(file))]]
    /\ UNCHANGED <<file, keys, lock>> /\ Unaccepted

\* Mutant: the key of an old file is used but not stored.
LoadKeyOnly(c) ==
    /\ call[c].pc = "keys"
    /\ \E a \in call[c].todo :
        LET legacy == Plaintext(call[c].s, a)
            key == IF keys[a] # Absent THEN keys[a] ELSE legacy
        IN  /\ (a = "gemini" \/ "gemini" \notin call[c].todo)
            /\ call' = [call EXCEPT ![c] = [call[c] EXCEPT !.s = SetKey(@, a, key),
                                                           !.plain = @ \/ legacy # Absent,
                                                           !.todo = @ \ {a}]]
    /\ UNCHANGED <<file, keys, lock>> /\ Unaccepted

\* populate_secrets, one account: what is stored wins over what the file says,
\* which moves to the storage when nothing is stored.
LoadKey(c) ==
    /\ call[c].pc = "keys"
    /\ \E a \in call[c].todo :
        LET legacy == Plaintext(call[c].s, a)
            key == IF keys[a] # Absent THEN keys[a] ELSE legacy
        IN  /\ (a = "gemini" \/ "gemini" \notin call[c].todo)
            /\ keys' = [keys EXCEPT ![a] = key]
            /\ call' = [call EXCEPT ![c] = [call[c] EXCEPT !.s = SetKey(@, a, key),
                                                           !.plain = @ \/ legacy # Absent,
                                                           !.todo = @ \ {a}]]
    /\ UNCHANGED <<file, lock>> /\ Unaccepted

\* A file with keys in it, or with a retired model, is written back at once,
\* by readers too.
EndLoad(c) ==
    /\ call[c].pc = "keys"
    /\ call[c].todo = {}
    /\ file' = IF call[c].plain THEN Redacted(call[c].s) ELSE file
    /\ known' = known \cup ServicesIn(file')
    /\ IF call[c].plain THEN LoadSlips(c) ELSE slips' = slips
    /\ Loaded(c, call[c].s)
    /\ UNCHANGED <<keys, accepted, origin>>

\* A window sends back that there is no key, or no service, where one is stored
\* that it does not mean to change.
Stale(c) ==
    /\ c \in Windows
    /\ \E a \in Accounts \ DOMAIN call[c].meant :
         /\ keys[a] # Absent
         /\ a \notin AccountsOf(call[c].s) \/ ~Entry(call[c].s, a).has

ReadIds(c) ==
    /\ call[c].pc = "ids"
    /\ LET s == Normalized(call[c].s)
       IN  call' = [call EXCEPT ![c] = [call[c] EXCEPT !.pc = "secrets", !.s = s,
                                                       !.todo = AccountsOf(s),
                                                       !.ids = ServicesIn(file)]]
    /\ slips' = IF Stale(c) THEN slips \cup {"stale"} ELSE slips
    /\ UNCHANGED <<file, keys, lock, accepted, touched, known, origin>>

\* persist_secrets, one account.
PutKey(c) ==
    /\ call[c].pc = "secrets"
    /\ \E a \in call[c].todo :
        LET e == Entry(call[c].s, a)
        IN  /\ (a = "gemini" \/ "gemini" \notin call[c].todo)
            /\ keys' = [keys EXCEPT ![a] = IF e.key # Absent THEN e.key
                                           ELSE IF ~e.has THEN Absent ELSE @]
            /\ call' = [call EXCEPT ![c] =
                          [call[c] EXCEPT !.todo = @ \ {a},
                                          !.pc = IF call[c].todo = {a} THEN "removed" ELSE @]]
    /\ UNCHANGED <<file, lock>> /\ Unaccepted

DropRemoved(c) ==
    /\ call[c].pc = "removed"
    /\ LET gone == call[c].ids \ DOMAIN call[c].s.ai.services
       IN  keys' = [a \in Accounts |-> IF a \in gone THEN Absent ELSE keys[a]]
    /\ call' = [call EXCEPT ![c].pc = "write"]
    /\ UNCHANGED <<file, lock>> /\ Unaccepted

WriteFile(c) ==
    /\ call[c].pc = "write"
    /\ file' = Redacted(call[c].s)
    /\ known' = known \cup ServicesIn(file')
    /\ accepted' = Joined(call[c].meant, accepted)
    /\ call' = [call EXCEPT ![c] =
                  [call[c] EXCEPT !.pc = IF c = "factory" THEN "done" ELSE "read",
                                  !.use = "result"]]
    /\ Slips(c)
    /\ UNCHANGED <<keys, lock, touched, origin>>

CallFails(c) ==
    /\ call[c].pc \in {"read", "keys", "ids", "secrets", "removed", "write"}
    /\ call' = [call EXCEPT ![c].pc = "failed"]
    /\ lock' = LockAfter(c)
    /\ slips' = slips \cup {"failed"}
    /\ UNCHANGED <<file, keys, accepted, touched, known, origin>>

Running == {c \in Callers : call[c].pc \notin {"idle", "done", "failed", "lost"}}

SettingsCrash ==
    /\ "crashed" \notin slips                    \* bound: once
    /\ slips' = slips \cup {"crashed"}
    /\ call' = [c \in Callers |-> IF c \in Running THEN [IdleCall EXCEPT !.pc = "lost"]
                                  ELSE call[c]]
    /\ lock' = Absent
    /\ UNCHANGED <<file, keys, accepted, touched, known, origin>>

CallStep(c) ==
    \/ Begin(c) \/ TakeLock(c) \/ LoadWritesDefaults(c) \/ ReadFile(c) \/ LoadKey(c)
    \/ EndLoad(c) \/ ReadIds(c) \/ PutKey(c) \/ DropRemoved(c) \/ WriteFile(c)

SettingsNext == (\E c \in Callers : CallStep(c) \/ CallFails(c)) \/ SettingsCrash

SettingsSpec == (\E start \in DOMAIN Stored : SettingsInit(start)) /\ [][SettingsNext]_settings

(***************************************************************************)
(* Properties                                                              *)
(***************************************************************************)
Calm == Running = {}

\* What a part of the settings s is set to.
Part(s, p) == IF p = "bound" THEN s.prompts.bound ELSE s[p]

\* Once every command has ended, what the last accepted one set of a part is in
\* the file: commands that change other parts at the same time, a crash or a failed
\* save do not bring an older value back.  It needs every write of the file, once a
\* change has begun, to be made under the write lock, which covers the load "so two
\* callers cannot both load the same snapshot and then overwrite one another"
\* (settings_service.rs:17); the factory, and a load without the lock that finds keys
\* or no file beside a change, do not keep to it, and such runs are left out.
AcceptedPartsStay ==
    Calm /\ "unlocked" \notin slips =>
        \A p \in DOMAIN accepted \ Accounts : Part(file, p) = accepted[p]

\* The key that the last accepted command set for Gemini or for a service that has
\* been in the file is in the storage, when nothing has failed, no change was passed
\* by a write without the lock, and no window has sent back an AI section that says
\* there is no key, or no service, where one was stored since the window read it.
AcceptedKeysStay ==
    Calm /\ slips = {} =>
        \A a \in DOMAIN accepted \cap ({"gemini"} \cup known) : keys[a] = accepted[a]

\* A key nobody has meant to change can be loaded at every step, through the
\* migration of old files, redacted copies that windows send back, failures and
\* crashes: it is in the storage before it leaves the file.
UntouchedKeySurvives == \A a \in Accounts \ touched : Recoverable(a) = origin[a]

\* Once one caller has got settings, no key is readable in the file, whatever
\* the file was before and whatever runs at the same time.
ReturnedIsRedacted ==
    (\E c \in Callers : call[c].pc = "done") => \A a \in Accounts : Plaintext(file, a) = Absent

\* A service that was removed leaves no key in the storage, when no call has failed
\* and the program has not ended in the middle, also after a load that moved the keys
\* of an old file to the storage.  Runs are left out in which the file was written
\* without the lock once a change had begun: a load that found keys in the file before
\* can store the key of a service again that was removed meanwhile.
RemovedLeavesNoSecret ==
    Calm /\ slips = {} =>
        \A i \in known \ ServicesIn(file) : keys[i] = Absent

\* No task is bound to a template that is gone, whichever of the commands that
\* change templates and bindings ran last.
BindingsResolve ==
    file # Absent => (file.prompts.bound = "custom" => file.prompts.custom)

\* Accepted changes stay, whichever commands run between, and the prompts they
\* bind can be found.
AcceptedSettingsStay ==
    SettingsTypeOK /\ AcceptedPartsStay /\ AcceptedKeysStay /\ BindingsResolve

\* A key nobody touched can still be read through every failure and crash; the file
\* has no readable key once a caller was answered; and a removed service leaves none
\* in the storage, but for the runs that RemovedLeavesNoSecret leaves out.
SecretsAreKept == UntouchedKeySurvives /\ ReturnedIsRedacted /\ RemovedLeavesNoSecret
=============================================================================
