---------------------------- MODULE Configuration ----------------------------
(***************************************************************************)
(* Who writes the configuration, and when (src/config.ts): requests that   *)
(* store or delete a provider do it at once, each from a snapshot of what  *)
(* is in memory; the enrollment of new settings                            *)
(* (src/settings-enrollment.ts) prepares a runtime, retires the old one,   *)
(* stores the settings and publishes the new one.  config.json is replaced *)
(* with compare-and-swap on the file's identity, and memory follows.       *)
(*                                                                         *)
(* Abstracted: a profile is its name, the settings are one value, and an   *)
(* enrollment leaves the default profile alone; of the other requests that *)
(* replace the runtime there is one at a time, any number of times, and an *)
(* enrollment waits behind it.  Nothing but this program changes           *)
(* config.json, which begins with one profile.                             *)
(***************************************************************************)
EXTENDS Naturals

CONSTANTS
  Providers,       \* requests that store or delete a provider
  Profiles,
  Roots,           \* values of the settings
  MaxEnrollments   \* bound on the enrollments

ASSUME ConfigAssumption ==
  Profiles # {} /\ Roots # {} /\ "settings" \notin Providers /\ MaxEnrollments \in Nat

VARIABLES
  configFile,            \* config.json, and how often it was replaced
  memory,          \* config
  currentProfile,
  saving,          \* saveConfig, for each of its callers
  enrollment,      \* executeSettingsEnrollment
  switch,          \* a request that replaces the runtime
  runtime,         \* the settings in the persona and in the roots of the runtime
  kept,            \* history: profiles whose requests were told they are stored
  overlap          \* history: what has been done at the same time, or in part

configVars == <<configFile, memory, currentProfile, saving, enrollment, switch, runtime, kept, overlap>>

Savers == Providers \union {"settings"}

Configs == [profiles : (SUBSET Profiles) \ {{}}, default : Profiles, settings : Roots]

\* No runtime, and a runtime.
NoRuntime == <<>>
Runtimes == {NoRuntime} \union (Roots \X Roots)

\* No request that replaces the runtime.
NoSwitch == <<>>

ConfigTypeOK ==
  /\ configFile \in [config : Configs, version : Nat]
  /\ memory \in Configs
  /\ currentProfile \in Profiles
  /\ saving \in [Savers ->
       [stage : {"idle", "looking", "looked", "checked", "renamed", "done", "failed"},
        config : Configs, seen : Nat, name : Profiles]]
  /\ enrollment \in
       [stage : {"idle", "preparing", "retiring", "persisting", "restoring"},
        base : Configs, next : Configs, count : Nat]
  /\ switch \in {NoSwitch} \union (Roots \X {"waiting"}) \union (Roots \X Roots)
  /\ runtime \in Runtimes
  /\ kept \subseteq Profiles
  /\ overlap \subseteq {"providers", "enrollment", "switch", "torn"}

ConfigInit ==
  \E p \in Profiles, r \in Roots :
    LET start == [profiles |-> {p}, default |-> p, settings |-> r] IN
    /\ configFile = [config |-> start, version |-> 0]
    /\ memory = start
    /\ currentProfile = p
    /\ saving = [w \in Savers |-> [stage |-> "idle", config |-> start, seen |-> 0, name |-> p]]
    /\ enrollment = [stage |-> "idle", base |-> start, next |-> start, count |-> 0]
    /\ switch = NoSwitch
    /\ runtime = <<r, r>>
    /\ kept = {}
    /\ overlap = {}

-----------------------------------------------------------------------------
(* saveConfig *)

Saving(w) == saving[w].stage \in {"looking", "looked", "checked", "renamed"}

SaveStep(w, from, to) ==
  /\ saving[w].stage = from
  /\ saving' = [saving EXCEPT ![w].stage = to]

\* What a write that is over was to store is not read again.
SaveEnded(w, stage, cfg) ==
  saving' = [saving EXCEPT ![w] =
               [stage |-> stage, config |-> cfg, seen |-> 0, name |-> cfg.default]]

Save(w, cfg, name) ==
  saving' = [saving EXCEPT ![w] =
               [stage |-> "looking", config |-> cfg, seen |-> 0, name |-> name]]

\* atomicCreateOrReplaceFile looks at the file it will replace,
Look(w) ==
  /\ saving[w].stage = "looking"
  /\ saving' = [saving EXCEPT ![w].stage = "looked", ![w].seen = configFile.version]
  /\ UNCHANGED <<configFile, memory, currentProfile, enrollment, switch, runtime, kept, overlap>>

\* compares it with what is there when the new file is complete,
Compare(w) ==
  /\ SaveStep(w, "looked", IF configFile.version = saving[w].seen THEN "checked" ELSE "failed")
  /\ UNCHANGED <<configFile, memory, currentProfile, enrollment, switch, runtime, kept, overlap>>

\* renames the new file
RenameConfig(w) ==
  /\ saving[w].stage = "checked"
  /\ saving' = [saving EXCEPT ![w].stage = "renamed", ![w].seen = configFile.version + 1]
  /\ configFile' = [config |-> saving[w].config, version |-> configFile.version + 1]
  /\ UNCHANGED <<memory, currentProfile, enrollment, switch, runtime, kept, overlap>>

\* Memory follows the file; a current profile that is gone gives way to the
\* default one.
ConfigPublished(w) ==
  LET cfg == saving[w].config IN
  /\ saving[w].stage = "renamed"
  /\ SaveEnded(w, "done", cfg)
  /\ memory' = cfg
  /\ currentProfile' = IF currentProfile \in cfg.profiles THEN currentProfile ELSE cfg.default
  /\ kept' = IF w = "settings" THEN kept
             ELSE IF saving[w].name \in cfg.profiles THEN kept \union {saving[w].name}
             ELSE kept \ {saving[w].name}
  /\ UNCHANGED <<configFile, enrollment, switch, runtime, overlap>>

\* Fault: what is there after the rename is not looked at.
PublishConfigUnseen(w) == ConfigPublished(w)

\* and looks whether it is there.
PublishConfig(w) == configFile.version = saving[w].seen /\ ConfigPublished(w)

\* Another replacement came after the rename, or any of the calls fails.
SaveFails(w) ==
  /\ Saving(w)
  /\ SaveEnded(w, "failed", memory)
  /\ overlap' = IF saving[w].stage = "renamed" /\ configFile.version = saving[w].seen
                THEN overlap \union {"torn"} ELSE overlap
  /\ UNCHANGED <<configFile, memory, currentProfile, enrollment, switch, runtime, kept>>

-----------------------------------------------------------------------------
(* Providers *)

\* The enrollment has compared its base and not finished.
Committing == enrollment.stage \notin {"idle", "preparing"}

\* A change of the providers begins.
Begun(q, cfg, name) ==
  /\ saving[q].stage = "idle"
  /\ Save(q, cfg, name)
  /\ overlap' = overlap \union (IF \E p \in Providers : Saving(p) THEN {"providers"} ELSE {})
                        \union (IF Committing THEN {"enrollment"} ELSE {})
  /\ UNCHANGED <<configFile, memory, currentProfile, enrollment, switch, runtime, kept>>

UpsertProfile(q, p) == Begun(q, [memory EXCEPT !.profiles = @ \union {p}], p)

\* deleteProfile
DeleteProfile(q, p) ==
  /\ p \in memory.profiles \ {memory.default, currentProfile}
  /\ Begun(q, [memory EXCEPT !.profiles = @ \ {p}], p)

\* switchProfile
SwitchProfile(p) ==
  /\ p \in memory.profiles
  /\ currentProfile' = p
  /\ UNCHANGED <<configFile, memory, saving, enrollment, switch, runtime, kept, overlap>>

-----------------------------------------------------------------------------
(* The runtime, in turns of withRuntimeMutation *)

Waiting == switch # NoSwitch /\ switch[2] = "waiting"

\* The route gives the persona the settings, and waits for its turn.
RequestSwitch ==
  /\ switch = NoSwitch
  /\ switch' = <<memory.settings, "waiting">>
  /\ UNCHANGED <<configFile, memory, currentProfile, saving, enrollment, runtime, kept, overlap>>

\* replaceRuntimeAgentLocked reads them again for the roots.
SwitchTurn ==
  /\ Waiting /\ enrollment.stage = "idle"
  /\ switch' = <<switch[1], memory.settings>>
  /\ UNCHANGED <<configFile, memory, currentProfile, saving, enrollment, runtime, kept, overlap>>

\* The runtime is replaced, cannot be prepared, or the old one fails to retire.
SwitchEnds ==
  /\ switch # NoSwitch /\ ~Waiting
  /\ switch' = NoSwitch
  /\ runtime' \in {switch, runtime, NoRuntime}
  /\ UNCHANGED <<configFile, memory, currentProfile, saving, enrollment, kept, overlap>>

Enrollment(stage) == enrollment' = [enrollment EXCEPT !.stage = stage]

\* captureBase and prepareAppSettingsUpdate; settings that change nothing are left
\* out.
Enroll(r) ==
  /\ enrollment.stage = "idle" /\ switch = NoSwitch
  /\ enrollment.count < MaxEnrollments /\ r # memory.settings
  /\ enrollment' = [stage |-> "preparing", base |-> memory, count |-> enrollment.count + 1,
                    next |-> [memory EXCEPT !.settings = r]]
  /\ UNCHANGED <<configFile, memory, currentProfile, saving, switch, runtime, kept, overlap>>

\* Fault: the base is not compared with what has become of it.
EnrollmentUncompared ==
  /\ enrollment.stage = "preparing"
  /\ \E stage \in {"idle", "retiring"} : Enrollment(stage)
  /\ overlap' = IF \E q \in Providers : Saving(q) THEN overlap \union {"enrollment"} ELSE overlap
  /\ UNCHANGED <<configFile, memory, currentProfile, saving, switch, runtime, kept>>

\* prepareCandidate ends, and isBaseCurrent
EnrollmentPrepared ==
  /\ enrollment.stage = "preparing"
  /\ \E stage \in {"idle", "retiring"} :
       /\ stage = "retiring" => memory = enrollment.base
       /\ Enrollment(stage)
  /\ overlap' = IF \E q \in Providers : Saving(q) THEN overlap \union {"enrollment"} ELSE overlap
  /\ UNCHANGED <<configFile, memory, currentProfile, saving, switch, runtime, kept>>

\* retireBase, then persistCandidate, or stopFailClosed
BaseRetired ==
  /\ enrollment.stage = "retiring"
  /\ runtime' = NoRuntime
  /\ \/ Enrollment("persisting") /\ Save("settings", enrollment.next, currentProfile)
     \/ Enrollment("idle") /\ UNCHANGED saving
  /\ UNCHANGED <<configFile, memory, currentProfile, switch, kept, overlap>>

\* publishCandidate and commitCandidate, or the candidate is discarded and
\* recoverBase stores the old configuration.
Persisted ==
  /\ enrollment.stage = "persisting"
  /\ \/ /\ saving["settings"].stage = "done"
        /\ Enrollment("idle")
        /\ runtime' = <<enrollment.next.settings, enrollment.next.settings>>
        /\ overlap' = IF Waiting THEN overlap \union {"switch"} ELSE overlap
        /\ UNCHANGED saving
     \/ /\ saving["settings"].stage = "failed"
        /\ Enrollment("restoring")
        /\ Save("settings", enrollment.base, currentProfile)
        /\ UNCHANGED <<runtime, overlap>>
  /\ UNCHANGED <<configFile, memory, currentProfile, switch, kept>>

\* recoverPreviousSettingsRuntime ends
EnrollmentRecovered ==
  /\ enrollment.stage = "restoring"
  /\ saving["settings"].stage \in {"done", "failed"}
  /\ Enrollment("idle")
  /\ \/ UNCHANGED runtime
     \/ /\ saving["settings"].stage = "done"
        /\ runtime' = <<enrollment.base.settings, enrollment.base.settings>>
  /\ UNCHANGED <<configFile, memory, currentProfile, saving, switch, kept, overlap>>

ConfigNext ==
  \/ \E w \in Savers : Look(w) \/ Compare(w) \/ RenameConfig(w) \/ PublishConfig(w) \/ SaveFails(w)
  \/ \E p \in Profiles :
       \/ SwitchProfile(p)
       \/ \E q \in Providers : UpsertProfile(q, p) \/ DeleteProfile(q, p)
  \/ \E r \in Roots : Enroll(r)
  \/ RequestSwitch \/ SwitchTurn \/ SwitchEnds
  \/ EnrollmentPrepared \/ BaseRetired \/ Persisted \/ EnrollmentRecovered

ConfigSpec == ConfigInit /\ [][ConfigNext]_configVars
-----------------------------------------------------------------------------
AtRest ==
  /\ \A w \in Savers : ~Saving(w)
  /\ enrollment.stage = "idle" /\ switch = NoSwitch

\* When nobody changes the configuration, memory and disk are the same, however
\* the writes were interleaved, unless one failed after its rename (saveConfig,
\* atomicCreateOrReplaceFile); the current profile is one of them.  If moreover
\* no provider was changed between an enrollment's comparison and its end, and
\* no request waited for its turn behind one, the runtime is the one of these
\* settings or stopped; and if no two providers were changed at once either, a
\* profile whose request was told it is stored is there.
ConfigurationAgrees ==
  AtRest =>
    /\ "torn" \notin overlap => configFile.config = memory
    /\ currentProfile \in memory.profiles
    /\ overlap \intersect {"enrollment", "switch"} = {} =>
         runtime \in {NoRuntime, <<memory.settings, memory.settings>>}
    /\ overlap \intersect {"enrollment", "providers"} = {} => kept \subseteq memory.profiles
=============================================================================
