---------------------------- MODULE PluginRegistry ----------------------------
(***************************************************************************)
(* PluginRegistry (src/plugins/loader.py): discovery of the manifests      *)
(* under plugins/ and loading of plugin classes, while the directories are *)
(* edited.                                                                 *)
(*                                                                         *)
(* Directories are numbered in the order discover() sorts them.  A         *)
(* manifest may be valid, invalid (skipped with a warning), or a JSON      *)
(* scalar, on which the check of required fields raises a TypeError that   *)
(* discover() does not catch.                                              *)
(***************************************************************************)
EXTENDS Naturals, FiniteSets, FiniteSetsExt

CONSTANTS
  Oem,      \* values of the field `oem`
  Dirs,     \* number of directories under plugins/
  MaxEdits  \* bound: edits after the first installation

ASSUME RegistryConstantsOK == Oem # {} /\ Dirs \in Nat /\ MaxEdits \in Nat

VARIABLES
  disk,      \* manifest.json and plugin.py of each directory
  manifests, \* the directory whose manifest is registered for an OEM, or 0
  classes,   \* the directory the cached class of an OEM comes from, or 0
  installed, \* the directories have been filled
  edits,     \* edits since
  fresh      \* no edit since the last discover() (history)

registryVars == <<disk, manifests, classes, installed, edits, fresh>>

PluginDir == 1..Dirs
Plugins == [manifest : {"valid", "invalid", "scalar", "none"}, oem : Oem,
            code : {"class", "no class", "none"}]
NoPlugin == [manifest |-> "none", oem |-> CHOOSE o \in Oem : TRUE, code |-> "none"]

RegistryInit ==
  /\ disk = [d \in PluginDir |-> NoPlugin]
  /\ manifests = [o \in Oem |-> 0] /\ classes = [o \in Oem |-> 0]
  /\ installed = FALSE /\ edits = 0 /\ fresh = FALSE

-----------------------------------------------------------------------------
Install ==
  /\ ~installed /\ installed' = TRUE
  /\ disk' \in [PluginDir -> Plugins]
  /\ UNCHANGED <<manifests, classes, edits, fresh>>

Edit(d) ==
  /\ installed /\ edits < MaxEdits
  /\ edits' = edits + 1 /\ fresh' = FALSE
  /\ \E p \in Plugins : disk' = [disk EXCEPT ![d] = p]
  /\ UNCHANGED <<manifests, classes, installed>>

\* The directories discover() gets to: those before the first TypeError.
Scanned == {d \in PluginDir : \A e \in 1..d : disk[e].manifest # "scalar"}

Candidates(o) == {d \in Scanned : disk[d].manifest = "valid" /\ disk[d].oem = o}

\* self.manifests[manifest.oem] = manifest: the last one of an OEM stays.
Registered(o) == IF Candidates(o) = {} THEN 0 ELSE Max(Candidates(o))

\* Faulty variant of Discover: the registry is not cleared first.
DiscoverKeeping ==
  /\ installed /\ fresh' = TRUE
  /\ manifests' = [o \in Oem |-> IF Registered(o) = 0 THEN manifests[o] ELSE Registered(o)]
  /\ UNCHANGED <<disk, classes, installed, edits>>

Discover ==
  /\ installed /\ fresh' = TRUE
  /\ manifests' = [o \in Oem |-> Registered(o)]
  /\ UNCHANGED <<disk, classes, installed, edits>>

\* load(o) of a class that is not cached: discover() first unless the OEM is
\* registered, which may raise; only a plugin.py with a class Plugin is cached.
Load(o) ==
  /\ installed /\ classes[o] = 0
  /\ manifests' = IF manifests[o] = 0 THEN [p \in Oem |-> Registered(p)] ELSE manifests
  /\ fresh' = (fresh \/ manifests[o] = 0)
  /\ classes' = IF /\ manifests[o] # 0 \/ Scanned = PluginDir
                   /\ manifests'[o] # 0 /\ disk[manifests'[o]].code = "class"
                THEN [classes EXCEPT ![o] = manifests'[o]] ELSE classes
  /\ UNCHANGED <<disk, installed, edits>>

RegistryNext ==
  \/ Install \/ Discover
  \/ \E d \in PluginDir : Edit(d)
  \/ \E o \in Oem : Load(o)

RegistrySpec == RegistryInit /\ [][RegistryNext]_registryVars
-----------------------------------------------------------------------------
RegistryTypeOK ==
  /\ disk \in [PluginDir -> Plugins]
  /\ manifests \in [Oem -> 0..Dirs] /\ classes \in [Oem -> 0..Dirs]
  /\ installed \in BOOLEAN /\ edits \in 0..MaxEdits /\ fresh \in BOOLEAN

(* The directory d has the plugin of an OEM: the last valid manifest for it, *)
(* and no scalar manifest up to there.                                       *)
Provides(d, o) ==
  /\ disk[d].manifest = "valid" /\ disk[d].oem = o
  /\ \A e \in PluginDir : disk[e].manifest = "scalar" => d < e
  /\ \A e \in PluginDir : disk[e].manifest = "valid" /\ disk[e].oem = o =>
       e <= d \/ \E f \in 1..e : disk[f].manifest = "scalar"

(* From a discover(), its own or the one inside load(), to the next edit the *)
(* registry is what the directories say, whatever was edited or removed and  *)
(* loaded before: an OEM is registered with the directory that provides it,  *)
(* and one without registration has no valid manifest before the first       *)
(* scalar one.  The cached class is of the registered directory as long as   *)
(* nobody has edited anything; after an edit load() keeps the class it has.  *)
OnePluginPerOem ==
  \A o \in Oem :
    /\ fresh /\ manifests[o] # 0 => Provides(manifests[o], o)
    /\ fresh /\ manifests[o] = 0 =>
         \A d \in PluginDir : disk[d].manifest = "valid" /\ disk[d].oem = o =>
           \E f \in 1..d : disk[f].manifest = "scalar"
    /\ edits = 0 /\ classes[o] # 0 => classes[o] = manifests[o]
===============================================================================
