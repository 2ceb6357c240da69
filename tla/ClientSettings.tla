----------------------------- MODULE ClientSettings -----------------------------
(***************************************************************************)
(* The files of the Roblox client that Astro edits: the flags in the       *)
(* folder of every installed version (roblox/client_settings.py), and the  *)
(* global settings, an XML file the client also writes.  A method of the   *)
(* patcher holds one lock from its first read to its last write, and any   *)
(* of its writes may be refused (nothing reads the copies it keeps of the  *)
(* flags); apply_roblox_settings                                           *)
(* (services/application_service.py) makes several of these calls, and     *)
(* another thread, the client or an update of Roblox may come between.     *)
(***************************************************************************)
EXTENDS Integers, FiniteSets

CONSTANTS
    Folders,      \* folders of installed versions
    Appliers,     \* bridge threads that apply Roblox settings
    FrameCaps,    \* the frame caps asked of Astro
    ClientCaps,   \* those chosen in the client
    MaxFileFaults, \* bound: writes refused
    MaxOutside    \* bound: changes made by the client, by an update, or by the user

ASSUME ClientSettingsAssumption ==
    /\ IsFiniteSet(Folders) /\ FrameCaps \subseteq Nat \ {0} /\ ClientCaps \subseteq Nat \ FrameCaps

VARIABLES
    flags,        \* flags[d]: ClientAppSettings.json of folder d: the cap, which stands for the
                  \* flags Astro manages, and whether it has flags of the user
    globals,      \* GlobalBasicSettings_13.xml
    globalsKept,  \* its copy, made once
    active,       \* the folder Roblox starts from
    applying,     \* applying[u]: apply_roblox_settings, and its local variables
    fileFaults, outside

clientFileVars == <<flags, globals, globalsKept, active, applying, fileFaults, outside>>

Uncapped == -1
NoFlags == [there |-> FALSE, cap |-> Uncapped, own |-> FALSE]
NoGlobals == [there |-> FALSE, cap |-> Uncapped, volume |-> 0]
NotApplying == [at |-> "idle", cap |-> Uncapped, volume |-> 0, before |-> Uncapped, touched |-> FALSE, alone |-> TRUE]
\* What a screen asks for: no change, the default, or a cap.
Keeps == -2
Default == -1

(***************************************************************************)
(* The flags: _write_atomic.                                               *)
(***************************************************************************)

\* A mirror keeps its own flags; a folder without a file gets the whole file.
Mirrored(old, new) ==
    IF old.there THEN [old EXCEPT !.cap = new.cap] ELSE new

\* The active folder is written, and those of the others that do not refuse.
WritesFlags(new, mirrors) ==
    flags' = [d \in Folders |-> IF d = active THEN new
                                ELSE IF d \in mirrors THEN Mirrored(flags[d], new) ELSE flags[d]]
Mirrors == {d \in Folders : d # active}
LeavesFlags == UNCHANGED flags

WithCap(cap) == [flags[active] EXCEPT !.there = TRUE, !.cap = cap]

(***************************************************************************)
(* The global settings.                                                    *)
(***************************************************************************)

\* The copy is made before the first change, never again.
CopiedOnce == IF globalsKept.there THEN globalsKept ELSE globals

\* _write_global_fps_cap
CapsGlobals(cap) ==
    IF globals.there THEN /\ globalsKept' = CopiedOnce /\ globals' = [globals EXCEPT !.cap = cap]
    ELSE UNCHANGED <<globals, globalsKept>>

\* _restore_global_fps_cap: the whole copy if the cap is all that differs, else its cap.
OnlyCapDiffers == globals.volume = globalsKept.volume
RestoresGlobals ==
    /\ UNCHANGED globalsKept
    /\ globals' = IF ~ globalsKept.there THEN globals
                  ELSE IF OnlyCapDiffers THEN globalsKept ELSE [globals EXCEPT !.cap = globalsKept.cap]
LeavesGlobals == UNCHANGED <<globals, globalsKept>>
\* A change that is refused may have made the copy.
CopiesAtMost == globals' = globals /\ globalsKept' \in {globalsKept, CopiedOnce}

(***************************************************************************)
(* The methods: what they change when no write is refused, and what is left *)
(* when one is.                                                            *)
(***************************************************************************)

WriteRefused == fileFaults < MaxFileFaults /\ fileFaults' = fileFaults + 1
RefusedFirst == WriteRefused /\ LeavesFlags /\ LeavesGlobals
\* The flags are written, and the globals are not.
RefusedLast(new, cap) ==
    /\ WriteRefused /\ WritesFlags(new, Mirrors)
    /\ IF cap > 0 THEN globals.there /\ CopiesAtMost ELSE globalsKept.there /\ LeavesGlobals

\* A mirror that refuses its file is passed over.
Works(new, mirrors) ==
    /\ WritesFlags(new, mirrors)
    /\ fileFaults' = fileFaults + Cardinality(Mirrors \ mirrors) /\ fileFaults' <= MaxFileFaults

SetFpsCap(cap) ==
    \E mirrors \in SUBSET Mirrors :
        Works(WithCap(cap), mirrors) /\ (IF cap > 0 THEN CapsGlobals(cap) ELSE LeavesGlobals)
SetFpsCapFails(cap) == RefusedFirst \/ (cap > 0 /\ RefusedLast(WithCap(cap), cap))

\* Without a cap in the active folder no flags are written, and the mirrors keep theirs.
HasCap == flags[active].cap # Uncapped
RemoveFpsCap ==
    /\ RestoresGlobals
    /\ IF HasCap THEN \E mirrors \in SUBSET Mirrors : Works(WithCap(Uncapped), mirrors)
       ELSE LeavesFlags /\ UNCHANGED fileFaults
RemoveFpsCapFails == RefusedFirst \/ (HasCap /\ RefusedLast(WithCap(Uncapped), 0))

\* patch_launch_settings, of a launch or of a change of the settings: a cap, or none.
Patched(cap) == WithCap(IF cap = 0 THEN Uncapped ELSE cap)
PatchLaunchSettings(cap) ==
    \E mirrors \in SUBSET Mirrors :
        /\ Works(Patched(cap), mirrors)
        /\ IF cap = 0 THEN RestoresGlobals ELSE CapsGlobals(cap)
PatchLaunchSettingsFails(cap) == RefusedFirst \/ RefusedLast(Patched(cap), cap)

\* apply_global_settings
ApplyGlobalSettings(volume) ==
    /\ globals.there /\ LeavesFlags /\ UNCHANGED fileFaults
    /\ globalsKept' = CopiedOnce /\ globals' = [globals EXCEPT !.volume = volume]
ApplyGlobalSettingsFails ==
    /\ LeavesFlags
    /\ \/ ~ globals.there /\ LeavesGlobals /\ UNCHANGED fileFaults
       \/ globals.there /\ CopiesAtMost /\ fileFaults < MaxFileFaults /\ fileFaults' = fileFaults + 1

(***************************************************************************)
(* apply_roblox_settings, of a dialog or a saved profile: the cap, then the *)
(* volume, and the cap back when one of them is refused.                   *)
(***************************************************************************)

NotAlone(call) == IF call.at = "idle" THEN call ELSE [call EXCEPT !.alone = FALSE]
Steps(u, call) == applying' = [v \in Appliers |-> IF v = u THEN call ELSE NotAlone(applying[v])]
After(u, at) == Steps(u, [applying[u] EXCEPT !.at = at, !.touched = TRUE])
ApplyEnds(u) == Steps(u, NotApplying)

\* The cap there was is read before, outside the lock of the patcher.
BeginApply(u, cap, volume) ==
    /\ applying[u].at = "idle" /\ (cap # Keeps \/ volume # 0)
    /\ applying' = [applying EXCEPT ![u] =
          [NotApplying EXCEPT !.at = IF cap = Keeps THEN "globals" ELSE "cap", !.cap = cap,
                              !.volume = volume, !.before = flags[active].cap]]
    /\ UNCHANGED <<flags, globals, globalsKept, active, fileFaults, outside>>

ApplyCap(u) ==
    /\ applying[u].at = "cap" /\ UNCHANGED <<active, outside>>
    /\ IF applying[u].cap = Default THEN RemoveFpsCap ELSE SetFpsCap(applying[u].cap)
    /\ IF applying[u].volume = 0 THEN ApplyEnds(u) ELSE After(u, "globals")
ApplyCapFails(u) ==
    /\ applying[u].at = "cap" /\ UNCHANGED <<active, outside>> /\ After(u, "undo")
    /\ IF applying[u].cap = Default THEN RemoveFpsCapFails ELSE SetFpsCapFails(applying[u].cap)

ApplyGlobals(u) ==
    /\ applying[u].at = "globals" /\ ApplyGlobalSettings(applying[u].volume) /\ ApplyEnds(u)
    /\ UNCHANGED <<active, outside>>
ApplyGlobalsFails(u) ==
    /\ applying[u].at = "globals" /\ ApplyGlobalSettingsFails /\ UNCHANGED <<active, outside>>
    /\ IF applying[u].touched THEN After(u, "undo") ELSE ApplyEnds(u)

UndoCap(u) ==
    /\ applying[u].at = "undo" /\ ApplyEnds(u) /\ UNCHANGED <<active, outside>>
    /\ IF applying[u].before = Uncapped THEN RemoveFpsCap ELSE SetFpsCap(applying[u].before)
\* A refusal of the way back is only logged.
UndoCapFails(u) ==
    /\ applying[u].at = "undo" /\ ApplyEnds(u) /\ UNCHANGED <<active, outside>>
    /\ IF applying[u].before = Uncapped THEN RemoveFpsCapFails ELSE SetFpsCapFails(applying[u].before)

(***************************************************************************)
(* Launches, the client, updates of Roblox.                                *)
(***************************************************************************)

Outside == outside < MaxOutside /\ outside' = outside + 1
NobodyIsAlone == applying' = [u \in Appliers |-> NotAlone(applying[u])]

LaunchPatches(cap) ==
    /\ Outside /\ NobodyIsAlone /\ UNCHANGED active
    /\ PatchLaunchSettings(cap) \/ PatchLaunchSettingsFails(cap)

\* set_fps_cap and remove_fps_cap, called by a screen.
ScreenSetsCap(cap) ==
    /\ Outside /\ NobodyIsAlone /\ UNCHANGED active
    /\ IF cap = Default THEN RemoveFpsCap \/ RemoveFpsCapFails ELSE SetFpsCap(cap) \/ SetFpsCapFails(cap)

\* The user chooses a cap and a volume in the client, which writes its file.
ClientSaves(cap, volume) ==
    /\ Outside /\ globals' = [there |-> TRUE, cap |-> cap, volume |-> volume] /\ globals' # globals
    /\ UNCHANGED <<flags, globalsKept, active, applying, fileFaults>>

\* _refresh_mirror_dirs finds another version active.
RobloxUpdates(d) ==
    /\ Outside /\ active' = d /\ d # active /\ NobodyIsAlone
    /\ UNCHANGED <<flags, globals, globalsKept, fileFaults>>

Volumes == {1, 2}    \* those chosen in the client
Asked == 3           \* the one asked of Astro

ClientSettingsInit ==
    /\ active \in Folders
    /\ flags \in [Folders -> {NoFlags, [NoFlags EXCEPT !.there = TRUE, !.own = TRUE]}]
    /\ globalsKept = NoGlobals
    /\ globals \in {NoGlobals} \union [there : {TRUE}, cap : ClientCaps, volume : {1}]
    /\ applying = [u \in Appliers |-> NotApplying] /\ fileFaults = 0 /\ outside = 0

ClientSettingsNext ==
    \/ \E u \in Appliers :
          \/ \E cap \in FrameCaps \union {Keeps, Default}, volume \in {0, Asked} : BeginApply(u, cap, volume)
          \/ ApplyCap(u) \/ ApplyCapFails(u) \/ ApplyGlobals(u) \/ ApplyGlobalsFails(u)
          \/ UndoCap(u) \/ UndoCapFails(u)
    \/ \E cap \in FrameCaps \union {0} : LaunchPatches(cap)
    \/ \E cap \in FrameCaps \union {0, Default} : ScreenSetsCap(cap)
    \/ \E cap \in ClientCaps, volume \in Volumes : ClientSaves(cap, volume)
    \/ \E d \in Folders : RobloxUpdates(d)

(***************************************************************************)
(* Properties.                                                             *)
(***************************************************************************)

ClientFilesTypeOK ==
    /\ active \in Folders /\ DOMAIN flags = Folders
    /\ \A d \in Folders : flags[d].cap \in FrameCaps \union {Uncapped, 0}
    /\ globals.cap \in FrameCaps \union ClientCaps \union {Uncapped}
    /\ \A u \in Appliers : applying[u].at \in {"idle", "cap", "globals", "undo"}

\* The copy of the global settings holds a cap the user chose, never one of Astro, whatever
\* was refused: it is what a removal of the cap brings back.
CopyIsOfTheUser == globalsKept.there => globalsKept.cap \in ClientCaps

\* The user's own flags stay in the file of every version.
OwnFlagsStay ==
    \A d \in Folders : flags[d].there =>
        flags'[d].there /\ flags'[d].own = flags[d].own

\* Unless the client writes it, a volume changes only to one that was asked for, also when
\* the cap is removed and the copy is brought back.
VolumesStay ==
    globals'.volume # globals.volume =>
        \/ globals'.volume = Asked
        \/ outside' # outside /\ UNCHANGED <<flags, globalsKept>>

\* When a call ends without all that it was asked for, the active version has the cap it had
\* before, unless the way back was refused too or somebody else changed it meanwhile.
RefusalIsUndone ==
    \A u \in Appliers :
        LET call == applying[u]
            ended == call.at # "idle" /\ applying'[u].at = "idle"
            missed == call.at = "undo" \/ (call.volume = Asked /\ globals'.volume # Asked)
            stuck == call.at = "undo" /\ fileFaults' # fileFaults
        IN  ended /\ missed /\ call.alone /\ ~ stuck => flags'[active].cap = call.before

\* Whatever is refused half-way, what the user chose in the client's files survives.
ClientFilesSurvive == [][OwnFlagsStay /\ VolumesStay /\ RefusalIsUndone]_clientFileVars
=============================================================================
