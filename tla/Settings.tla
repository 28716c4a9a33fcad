------------------------------ MODULE Settings ------------------------------
(***************************************************************************)
(* The configuration file and what the running daemon makes of it: loads,  *)
(* normalisation and validation (internal/config), writes by the CLI as    *)
(* root, by an editor, and by the daemon for a client with the token, and  *)
(* the reload that adopts the keys a running daemon can adopt and names    *)
(* those that wait for a restart.  One key of each sort stands for its     *)
(* like: a window and the cap that bounds it, adopted live, and a key that *)
(* needs a restart.                                                        *)
(***************************************************************************)
EXTENDS Naturals

CONSTANTS
  Highest,           \* windows and caps are 0 .. Highest, 0 for off or unset
  DefaultCap,        \* what normalisation makes of an unset cap
  Batches,           \* what `config set` is asked to write: values for some keys
  Resets,            \* the sets of keys `config reset' is asked for
  Presets            \* what each shipped preset sets: windows, never a cap

Keys == {"window", "cap", "level"}

ASSUME SettingsAssumption ==
  /\ Highest \in Nat /\ DefaultCap \in 1 .. Highest
  /\ \A batch \in Batches :
       /\ DOMAIN batch \subseteq Keys
       /\ \A k \in DOMAIN batch : batch[k] \in IF k = "level" THEN 0 .. 1 ELSE 0 .. Highest
  /\ Resets \subseteq SUBSET Keys
  /\ Presets \subseteq [{"window"} -> 0 .. Highest]

VARIABLES
  configFile,        \* the file: a configuration, as written, or NoConfig
  settings,          \* what the run loop enforces, or NoConfig
  current,           \* the reload closure's idea of it
  editing,           \* by writer: what it is about to save, and the keys it was asked to
                     \* set; or NoEdit
  outdated,          \* history: the writers that read the file before another saved it
  reported           \* what this step answered: [asked, named, ok, applied, pending]

cfgVars == <<configFile, settings, current, editing, outdated, reported>>

\* Who writes by key: the daemon's loop for a client with the token, and a command as root.
Editors == {"daemon", "root"}

Configs == [window : 0 .. Highest, cap : 0 .. Highest, level : 0 .. 1]
NoConfig == [k \in {} |-> 0]     \* a malformed file, a stopped daemon
Edits == [saves : Configs, named : SUBSET Keys, saved : BOOLEAN]
NoEdit == [saves |-> NoConfig, named |-> {}, saved |-> FALSE]
Silent == [asked |-> "nothing", named |-> {}, ok |-> TRUE, applied |-> {}, pending |-> {}]

\* The keys a running daemon adopts: both sides of every rule between keys are here.
LiveKeys == {"window", "cap"}

\* Normalize fills what must not be unset.
Normalize(c) == [c EXCEPT !.cap = IF c.cap = 0 THEN DefaultCap ELSE c.cap]

\* Validate: a window no longer than its cap.
Valid(c) == c.window <= c.cap

\* Load: what the file says, normalised and validated, or an error.
Loads == configFile # NoConfig /\ Valid(Normalize(configFile))
Loaded == Normalize(configFile)

CfgTypeOK ==
  /\ configFile \in Configs \cup {NoConfig}
  /\ settings \in Configs \cup {NoConfig} /\ current \in Configs \cup {NoConfig}
  /\ editing \in [Editors -> Edits \cup {NoEdit}] /\ outdated \subseteq Editors
  /\ reported \in [asked : {"nothing", "reload", "write"}, named : SUBSET Keys,
                   ok : BOOLEAN, applied : SUBSET Keys, pending : SUBSET Keys]

CfgInit ==
  /\ configFile \in {c \in Configs : Valid(Normalize(c))}
  /\ settings = NoConfig /\ current = NoConfig
  /\ editing = [w \in Editors |-> NoEdit] /\ outdated = {} /\ reported = Silent

-----------------------------------------------------------------------------
\* A start reads the file; one that cannot be loaded keeps the daemon from starting.
StartWithConfig ==
  /\ settings = NoConfig /\ Loads
  /\ settings' = Loaded /\ current' = Loaded /\ reported' = Silent
  /\ UNCHANGED <<configFile, editing, outdated>>

\* A stop or a crash, also in the middle of a write.
StopWithConfig ==
  /\ settings # NoConfig
  /\ settings' = NoConfig /\ current' = NoConfig /\ reported' = Silent
  /\ editing' = [editing EXCEPT !["daemon"] = NoEdit] /\ outdated' = outdated \ {"daemon"}
  /\ UNCHANGED configFile

\* Who has read the file and not saved it yet.
Reading == {w \in Editors : editing[w] # NoEdit /\ ~editing[w].saved}

\* The file as an editor leaves it, an administrator's own or that of `config edit', which
\* refuses what does not validate; either replaces what was written meanwhile.
EditByHand ==
  /\ configFile' \in Configs \cup {NoConfig} /\ outdated' = Reading /\ reported' = Silent
  /\ UNCHANGED <<settings, current, editing>>

\* configFields: what a write can say, key by key.
Sets(c, batch) == [k \in Keys |-> IF k \in DOMAIN batch THEN batch[k] ELSE c[k]]

\* MergeLive: the live keys of the new configuration on top of the running one.
MergeLive(old, new) == [k \in Keys |-> IF k \in LiveKeys THEN new[k] ELSE old[k]]

\* What the reload closure remembers as running.
Remembered(old, new) == MergeLive(old, new)

Differing(a, b) == {k \in Keys : a[k] # b[k]}

\* The reload closure and applyLive, on a file that loads to c; else nothing changes.
Reload(asked, named, file) ==
  IF file # NoConfig /\ Valid(Normalize(file))
  THEN LET next == Normalize(file)
           differ == Differing(current, next)
       IN  /\ settings' = MergeLive(settings, next)
           /\ current' = Remembered(current, next)
           /\ reported' = [asked |-> asked, named |-> named, ok |-> TRUE,
                           applied |-> differ \cap LiveKeys, pending |-> differ \ LiveKeys]
  ELSE /\ UNCHANGED <<settings, current>>
       /\ reported' = [asked |-> asked, named |-> named, ok |-> FALSE, applied |-> {}, pending |-> {}]

\* What this step answers of a write that is not made.
Refuses(named) ==
  reported' = [asked |-> "write", named |-> named, ok |-> FALSE, applied |-> {}, pending |-> {}]

\* The loop takes a request when it is done with the last.
Free == settings # NoConfig /\ editing["daemon"] = NoEdit

AskReload ==
  /\ Free /\ Reload("reload", {}, configFile)
  /\ UNCHANGED <<configFile, editing, outdated>>

\* Slip: what runs is written, with the batch on top.
FromMemory(batch) == Normalize(Sets(IF current = NoConfig THEN Loaded ELSE current, batch))

\* writeConfigKeys: the file read afresh, the batch on top, normalised on the way out.
Written(batch) == Normalize(Sets(Loaded, batch))

\* A write reads the file and validates the whole of what it will save; there is no lock,
\* and others may write before it does.
Begins(w, batch) ==
  /\ editing[w] = NoEdit /\ Loads /\ Valid(Written(batch))
  /\ editing' = [editing EXCEPT ![w] = [saves |-> Written(batch), named |-> DOMAIN batch,
                                        saved |-> FALSE]]
  /\ reported' = Silent
  /\ UNCHANGED <<configFile, settings, current, outdated>>

\* A config-write over the socket: the whole batch or nothing.
WriteOverSocket(batch) ==
  /\ Free
  /\ \/ Begins("daemon", batch)
     \/ /\ ~(Loads /\ Valid(Written(batch))) /\ Refuses(DOMAIN batch)
        /\ UNCHANGED <<configFile, settings, current, editing, outdated>>

\* Default, normalised, for the keys a reset names.
Shipped(ks) == [k \in ks |-> IF k = "level" THEN 0 ELSE DefaultCap]

\* What keeps a preset from being applied: a window of it above the operator's own cap.
PresetConflicts(c, p) == {k \in DOMAIN p : p[k] > c.cap}
PresetDrift(c, p) == {k \in DOMAIN p : c[k] # p[k]}
MatchPreset(c) == {p \in Presets : PresetDrift(c, p) = {}}

\* The same writes as root.  Over the socket the client checks a preset against the file as
\* it finds it, which need not be the one the daemon reads: there it is a batch.
SetKeys(batch) == Begins("root", batch)
ResetKeys(ks) == Begins("root", Shipped(ks))
ApplyPreset(p) == Loads /\ PresetConflicts(Loaded, p) = {} /\ Begins("root", p)

\* Save, which replaces the file in one step or fails.
SaveEdit(w) ==
  /\ w \in Reading /\ reported' = Silent
  /\ configFile' = editing[w].saves
  /\ editing' = [editing EXCEPT ![w] =
                   IF w = "daemon" THEN [editing[w] EXCEPT !.saved = TRUE] ELSE NoEdit]
  /\ outdated' = Reading \ {w}
  /\ UNCHANGED <<settings, current>>

SaveFails(w) ==
  /\ w \in Reading
  /\ IF w = "daemon" THEN Refuses(editing[w].named) ELSE reported' = Silent
  /\ editing' = [editing EXCEPT ![w] = NoEdit] /\ outdated' = outdated \ {w}
  /\ UNCHANGED <<configFile, settings, current>>

\* The daemon adopts in the same turn of its loop what it saved, or what it then finds.
AdoptWritten ==
  /\ editing["daemon"].saved
  /\ Reload("write", editing["daemon"].named, configFile)
  /\ editing' = [editing EXCEPT !["daemon"] = NoEdit]
  /\ UNCHANGED <<configFile, outdated>>

CfgNext ==
  \/ StartWithConfig \/ StopWithConfig \/ EditByHand \/ AskReload \/ AdoptWritten
  \/ \E batch \in Batches : WriteOverSocket(batch) \/ SetKeys(batch)
  \/ \E ks \in Resets : WriteOverSocket(Shipped(ks)) \/ ResetKeys(ks)
  \/ \E p \in Presets : WriteOverSocket(p) \/ ApplyPreset(p)
  \/ \E w \in Editors : SaveEdit(w) \/ SaveFails(w)

CfgSpec == CfgInit /\ [][CfgNext]_cfgVars

-----------------------------------------------------------------------------
\* What the daemon enforces is always a valid configuration: adopting some keys of a
\* valid file and not others never leaves a window longer than its cap.
RunningIsValid == settings # NoConfig => Valid(settings)

\* A reply names exactly what is still enforced at another value than the file's, however
\* often the file was reloaded since, and never calls a key applied that is not.
ReportIsTrue ==
  [][reported'.asked # "nothing" /\ reported'.ok
       => /\ reported'.pending = Differing(settings', Normalize(configFile'))
          /\ \A k \in reported'.applied : settings'[k] = Normalize(configFile')[k]]_cfgVars

\* A write changes the keys it names and no other, and what an earlier edit left waiting for
\* a restart stays in the file, unless another wrote the file since it was read: there is no
\* lock, and then what that one wrote is lost.
WriteKeepsTheRest ==
  [][\A w \in Editors \ outdated : \A k \in Keys :
       editing'[w] # editing[w] /\ configFile' # configFile
       /\ Normalize(configFile')[k] # Loaded[k] => k \in editing[w].named]_cfgVars

\* A preset is refused for a cap it names, up front, or it applies whole: what passes the
\* check validates as well and then reads as that preset, and what fails it would not
\* have validated.
PresetsApplyWhole ==
  Loads => \A p \in Presets :
             LET c == Normalize(Sets(Loaded, p))
             IN  IF PresetConflicts(Loaded, p) = {} THEN Valid(c) /\ MatchPreset(c) = {p}
                 ELSE ~Valid(c)

\* What reading, adopting and writing the configuration promise.
SettingsPromise ==
  [](CfgTypeOK /\ RunningIsValid /\ PresetsApplyWhole) /\ ReportIsTrue /\ WriteKeepsTheRest
=============================================================================
