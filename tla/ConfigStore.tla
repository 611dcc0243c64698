----------------------------- MODULE ConfigStore -----------------------------
(***************************************************************************)
(* config.json (packages/core/src/config.js): the devices and remotes that *)
(* are known by name, and the defaults.  The serve daemon and the CLI each *)
(* hold a ConfigStore on the same file.  load() reads the file once; every *)
(* operation changes the copy in memory and saves it, which joins the copy *)
(* and the file under the file lock.                                       *)
(*                                                                         *)
(* An operation and its save() are one step: between them there is no      *)
(* await, and FileLock keeps the others out of the file.  Of an entry only *)
(* the device or remote it is for and, for a remote, the name of its Hub3  *)
(* are kept; companyID and the like stand for themselves in SaveOther.     *)
(***************************************************************************)
EXTENDS Naturals, FiniteSets

CONSTANTS
  Stores,   \* instances of ConfigStore, in one process each
  Names,    \* names of devices
  RemoteNames,  \* names of remotes
  Locks,    \* devices that are locks
  Hub3s,    \* devices that are Hub3s
  Remotes,  \* infrared remotes (irDeviceUUID)
  Broken,   \* the content of a file that is no JSON
  Unset,
  Unlucky,  \* bound: the stores whose save() may throw
  MaxEntries, \* bound: devices and remotes in a copy of the configuration
  MaxUnsaved  \* bound: names changed and not yet saved when a save fails again

ASSUME ConfigAssumption ==
  /\ Unset \notin Names \cup RemoteNames \cup Locks \cup Hub3s
  /\ Locks \cap Hub3s = {}
  /\ Unlucky \subseteq Stores /\ MaxEntries \in Nat /\ MaxUnsaved \in Nat

VARIABLES
  stored,   \* the file
  memory,   \* this.data of each store; Unset before load()
  known,    \* _baselineKeys
  asked     \* names each store was asked to remove since its last save

configVars == <<stored, memory, known, asked>>

Devices == Locks \cup Hub3s

RemoteEntries == [is : Remotes, hub3 : Names]
Configs == [devices       : [Names -> Devices \cup {Unset}],
            remotes       : [RemoteNames -> RemoteEntries \cup {Unset}],
            defaultLock   : Names \cup {Unset},
            defaultRemote : RemoteNames \cup {Unset}]
Keys == [devices : SUBSET Names, remotes : SUBSET RemoteNames]

(* Neither stands for a configuration or an entry of one.                  *)
ASSUME NoConfigAssumption ==
  /\ Unset \notin Configs /\ Broken \notin Configs
  /\ Unset \notin RemoteEntries

ConfigTypeOK ==
  /\ stored \in Configs \cup {Broken}
  /\ memory \in [Stores -> Configs \cup {Unset}]
  /\ known \in [Stores -> Keys]
  /\ asked \in [Stores -> SUBSET Names]

------------------------------------------------------------------------------
EmptyConfig == [devices       |-> [n \in Names |-> Unset],
                remotes       |-> [k \in RemoteNames |-> Unset],
                defaultLock   |-> Unset,
                defaultRemote |-> Unset]

(* _recordBaseline *)
KeysOf(c) == [devices |-> {n \in Names : c.devices[n] # Unset},
              remotes |-> {k \in RemoteNames : c.remotes[k] # Unset}]

Small(c) == Cardinality(KeysOf(c).devices) + Cardinality(KeysOf(c).remotes) <= MaxEntries

(* hasDevice: of the entries of version 1 for one device, the first in the *)
(* file stays and the others are passed over.  Which is first is open.     *)
FirstOfEach(entries) ==
  {kept \in [Names -> {entries[n] : n \in Names} \cup {Unset}] :
     /\ \A n \in Names : kept[n] \in {entries[n], Unset}
     /\ \A n \in Names : entries[n] # Unset => \E m \in Names : kept[m] = entries[n]
     /\ \A m, n \in Names : m # n /\ kept[m] # Unset => kept[m] # kept[n]}

(* migrateV1toV2: locks and hub3s become devices; a Hub3 replaces a lock   *)
(* of the same name.                                                       *)
MigrateV1toV2(locks, hub3s) ==
  [n \in Names |-> IF hub3s[n] # Unset THEN hub3s[n] ELSE locks[n]]

(* The file is absent, as init() writes it, or one of version 1, which is  *)
(* migrated whenever it is read.  That may give a device several names,    *)
(* and the default lock may be the one that the migration passes over.     *)
ConfigInit ==
  /\ \E locks \in [Names -> Locks \cup {Unset}], hub3s \in [Names -> Hub3s \cup {Unset}],
        remotes \in [RemoteNames -> RemoteEntries \cup {Unset}] :
     \E keptLocks \in FirstOfEach(locks), keptHub3s \in FirstOfEach(hub3s),
        lock \in {Unset} \cup {n \in Names : locks[n] # Unset},
        remote \in {Unset} \cup {k \in RemoteNames : remotes[k] # Unset} :
       /\ \A k \in RemoteNames : remotes[k] # Unset => hub3s[remotes[k].hub3] # Unset
       /\ stored = [devices |-> MigrateV1toV2(keptLocks, keptHub3s), remotes |-> remotes,
                    defaultLock |-> lock, defaultRemote |-> remote]
  /\ Small(stored)
  /\ memory = [s \in Stores |-> Unset]
  /\ known = [s \in Stores |-> [devices |-> {}, remotes |-> {}]]
  /\ asked = [s \in Stores |-> {}]

(* A collection after a save: what is in memory, and what is on disk but   *)
(* for the names that were known and are gone from memory.                 *)
UnionDeleting(disk, mine, base) ==
  [k \in DOMAIN disk |-> IF mine[k] # Unset THEN mine[k]
                         ELSE IF k \in base THEN Unset ELSE disk[k]]

(* mergeConfigData: scalars are those in memory.                           *)
KeepDefaults(disk, mine, base) ==  \* faulty: the defaults on disk win
  [devices       |-> UnionDeleting(disk.devices, mine.devices, base.devices),
   remotes       |-> UnionDeleting(disk.remotes, mine.remotes, base.remotes),
   defaultLock   |-> IF disk.defaultLock # Unset THEN disk.defaultLock ELSE mine.defaultLock,
   defaultRemote |-> mine.defaultRemote]

MergeConfigData(disk, mine, base) ==
  [devices       |-> UnionDeleting(disk.devices, mine.devices, base.devices),
   remotes       |-> UnionDeleting(disk.remotes, mine.remotes, base.remotes),
   defaultLock   |-> mine.defaultLock,
   defaultRemote |-> mine.defaultRemote]

(* load() *)
Load(s) ==
  /\ memory[s] = Unset /\ stored # Broken
  /\ memory' = [memory EXCEPT ![s] = stored]
  /\ known' = [known EXCEPT ![s] = KeysOf(stored)]
  /\ UNCHANGED <<stored, asked>>

(* The operation has made m of the copy in memory.  save() writes the file *)
(* and takes the names in memory for known; a file that cannot be parsed   *)
(* is replaced.                                                            *)
KnowAllSaved(s, m) ==  \* faulty: the names that others have added are taken for known
  /\ stored' = IF stored = Broken THEN m ELSE MergeConfigData(stored, m, known[s])
  /\ known' = [known EXCEPT ![s] = KeysOf(stored')]

Saved(s, m) ==
  /\ stored' = IF stored = Broken THEN m ELSE MergeConfigData(stored, m, known[s])
  /\ known' = [known EXCEPT ![s] = KeysOf(m)]

(* The names by which a copy and its last successful save differ.          *)
Unsaved(s) ==
  LET now == KeysOf(memory[s])
      Gap(c, d) == Cardinality((c \ d) \cup (d \ c))
  IN  Gap(now.devices, known[s].devices) + Gap(now.remotes, known[s].remotes)

(* save() throws: the lock file stays locked, or the write fails.  The     *)
(* copy in memory remains as the operation left it.                        *)
NotSaved(s) == Unsaved(s) <= MaxUnsaved /\ UNCHANGED <<stored, known>>

SaveConfig(s, m) ==
  /\ Small(m)
  /\ memory' = [memory EXCEPT ![s] = m]
  /\ Saved(s, m) \/ (s \in Unlucky /\ NotSaved(s))
  /\ stored' # Broken => Small(stored')

(* What the store has been asked to remove.  What it was asked before is   *)
(* forgotten once memory and baseline agree, as they do after a save.      *)
Asked(s, gone) ==
  asked' = [t \in Stores |-> (IF t = s THEN gone ELSE {}) \cup
                            {n \in asked[t] : known[t] # KeysOf(memory[t])}]

------------------------------------------------------------------------------
(* The operations.  The views locks and hub3s are the devices of a kind.   *)

Loaded(s) == memory[s] # Unset
Free(m) == {n \in Names : m.devices[n] = Unset}

AddLock(s, n, d) ==
  /\ Loaded(s)
  /\ LET m == memory[s]
     IN  SaveConfig(s, [m EXCEPT !.devices[n] = d,
                           !.defaultLock = IF m.defaultLock = Unset THEN n ELSE m.defaultLock])
  /\ Asked(s, {})

AddHub3(s, n, d) ==
  /\ Loaded(s)
  /\ SaveConfig(s, [memory[s] EXCEPT !.devices[n] = d])
  /\ Asked(s, {})

WithRemotes(m, placed, default) ==
  [m EXCEPT !.remotes = placed, !.defaultRemote = default]

(* A device or remote that has the name already is replaced.               *)
AddRemote(s, k, r, n) ==
  /\ Loaded(s) /\ memory[s].devices[n] \in Hub3s
  /\ LET m == memory[s]
     IN  SaveConfig(s, WithRemotes(m, [m.remotes EXCEPT ![k] = [is |-> r, hub3 |-> n]],
                                   IF m.defaultRemote = Unset THEN k ELSE m.defaultRemote))
  /\ Asked(s, {})

SetDefaultLock(s, n) ==
  /\ Loaded(s) /\ memory[s].devices[n] \in Locks
  /\ SaveConfig(s, [memory[s] EXCEPT !.defaultLock = n])
  /\ Asked(s, {})

SetDefaultRemote(s, k) ==
  /\ Loaded(s) /\ memory[s].remotes[k] # Unset
  /\ SaveConfig(s, [memory[s] EXCEPT !.defaultRemote = k])
  /\ Asked(s, {})

(* Entries taken out, and with them a default that named one of them.      *)
Without(m, gone) ==
  [m EXCEPT !.devices = [n \in Names |-> IF n \in gone THEN Unset ELSE @[n]],
            !.defaultLock = IF @ \in gone THEN Unset ELSE @]

RemoveLock(s, n) ==
  /\ Loaded(s) /\ memory[s].devices[n] \in Locks
  /\ Asked(s, {n})
  /\ SaveConfig(s, Without(memory[s], {n}))

(* Devices of the cloud's list that are not in memory get a name of their  *)
(* own: uniqueName() of a display name that may be anything.               *)
NewNames(m, list) ==
  LET new == {d \in list : \A n \in Names : m.devices[n] # d}
  IN  {f \in [new -> Free(m)] : \A d, e \in new : d # e => f[d] # f[e]}

Added(m, name) ==
  [n \in Names |-> IF \E d \in DOMAIN name : name[d] = n
                   THEN CHOOSE d \in DOMAIN name : name[d] = n ELSE m.devices[n]]

(* syncLocksFromDevices; the first lock added is the default if there is   *)
(* none.                                                                   *)
SyncLocks(s, list, prune) ==
  /\ Loaded(s)
  /\ LET m == memory[s]
     IN  \E name \in NewNames(m, list) :
         \E first \in IF m.defaultLock # Unset \/ DOMAIN name = {} THEN {m.defaultLock}
                      ELSE {name[d] : d \in DOMAIN name} :
           LET grown == [m EXCEPT !.devices = Added(m, name), !.defaultLock = first]
               gone  == {n \in Names : prune /\ grown.devices[n] \in Locks \ list}
           IN  /\ Asked(s, gone)
               /\ SaveConfig(s, Without(grown, gone))

HubsOfRemotes(c) == {c.remotes[k].hub3 : k \in KeysOf(c).remotes}

(* syncHub3sFromDevices; a Hub3 to which a remote in memory refers is not  *)
(* pruned.                                                                 *)
SyncHub3s(s, list, prune) ==
  /\ Loaded(s)
  /\ LET m == memory[s]
     IN  \E name \in NewNames(m, list) :
           LET grown == [m EXCEPT !.devices = Added(m, name)]
               gone  == {n \in Names : /\ prune /\ grown.devices[n] \in Hub3s \ list
                                       /\ n \notin HubsOfRemotes(m)}
           IN  /\ Asked(s, gone)
               /\ SaveConfig(s, Without(grown, gone))

(* Where the remotes of a list go: to an entry that has the remote, or to  *)
(* a name that is free in memory (uniqueName()).                           *)
Having(m, r) == {k \in KeysOf(m).remotes : m.remotes[k].is = r}
Places(m, list) ==
  {at \in [list -> RemoteNames] :
     \A r \in list : /\ \A q \in list \ {r} : at[q] # at[r]
                     /\ IF Having(m, r) = {} THEN m.remotes[at[r]] = Unset
                                             ELSE at[r] \in Having(m, r)}
Placed(m, at, hub3) ==
  [k \in RemoteNames |-> IF \E r \in DOMAIN at : at[r] = k
                         THEN LET r == CHOOSE r \in DOMAIN at : at[r] = k
                              IN  [is |-> r, hub3 |-> hub3[r]]
                         ELSE m.remotes[k]]

(* A remote that is new is the default if there is none.                   *)
Defaults(m, placed) ==
  LET new == {k \in RemoteNames : m.remotes[k] = Unset /\ placed[k] # Unset}
  IN  IF m.defaultRemote # Unset \/ new = {} THEN {m.defaultRemote} ELSE new

PlaceRemotes(s, at, hub3) ==
  LET placed == Placed(memory[s], at, hub3)
  IN  /\ \E default \in Defaults(memory[s], placed) :
           SaveConfig(s, WithRemotes(memory[s], placed, default))
      /\ Asked(s, {})

(* syncRemotesFromDevices: the list has remotes under Hub3s that are in    *)
(* memory; of two names of a Hub3 the last one counts.                     *)
SyncRemotes(s, hub3) ==
  /\ Loaded(s)
  /\ LET devices == memory[s].devices
     IN  \A q, r \in DOMAIN hub3 : /\ devices[hub3[r]] \in Hub3s
                                   /\ devices[hub3[q]] = devices[hub3[r]] => hub3[q] = hub3[r]
  /\ \E at \in Places(memory[s], DOMAIN hub3) : PlaceRemotes(s, at, hub3)

(* syncRemotesFromServer: a remote that is there already keeps its Hub3.   *)
SyncRemotesFromServer(s, list, n) ==
  /\ Loaded(s) /\ memory[s].devices[n] \in Hub3s
  /\ LET new == {r \in list : Having(memory[s], r) = {}}
     IN  \E at \in Places(memory[s], new) : PlaceRemotes(s, at, [r \in new |-> n])

(* updateRemoteKeys, refreshAccount and the like: nothing that is kept     *)
(* here changes, but the copy is saved.                                    *)
SaveOther(s) ==
  /\ Loaded(s)
  /\ SaveConfig(s, memory[s])
  /\ Asked(s, {})

(* The process ends, and another one takes its place.                      *)
Exit(s) ==
  /\ Loaded(s)
  /\ memory' = [memory EXCEPT ![s] = Unset]
  /\ known' = [known EXCEPT ![s] = [devices |-> {}, remotes |-> {}]]
  /\ asked' = [asked EXCEPT ![s] = {}]
  /\ UNCHANGED stored

(* The file is damaged by something else.                                  *)
Damage ==
  /\ stored # Broken
  /\ stored' = Broken
  /\ UNCHANGED <<memory, known, asked>>

(* A list without remotes changes nothing: that is SaveOther.              *)
Operate(s) ==
  \/ \E n \in Names : \/ \E d \in Locks : AddLock(s, n, d)
                      \/ \E d \in Hub3s : AddHub3(s, n, d)
                      \/ \E k \in RemoteNames, r \in Remotes : AddRemote(s, k, r, n)
                      \/ SetDefaultLock(s, n)
                      \/ RemoveLock(s, n)
                      \/ \E list \in SUBSET Remotes \ {{}} : SyncRemotesFromServer(s, list, n)
  \/ \E prune \in BOOLEAN : \/ \E list \in SUBSET Locks : SyncLocks(s, list, prune)
                            \/ \E list \in SUBSET Hub3s : SyncHub3s(s, list, prune)
  \/ \E list \in SUBSET Remotes \ {{}} : \E hub3 \in [list -> Names] : SyncRemotes(s, hub3)
  \/ \E k \in RemoteNames : SetDefaultRemote(s, k)
  \/ SaveOther(s)

ConfigNext == (\E s \in Stores : Load(s) \/ Operate(s) \/ Exit(s)) \/ Damage

ConfigSpec == ConfigInit /\ [][ConfigNext]_configVars

------------------------------------------------------------------------------
(* Rule 1 of the merge, over any number of saves and failed saves: a name  *)
(* leaves the file only in a save of a process that was itself asked to    *)
(* remove it (the save changes what that process knows), never because the *)
(* process had not heard of it; no name of a remote ever leaves it.  What  *)
(* the name stands for may be replaced.                                    *)
OnlyAskedIsRemoved ==
  [][stored # Broken /\ stored' # Broken =>
       /\ \A n \in Names : stored.devices[n] # Unset /\ stored'.devices[n] = Unset
                             => \E s \in Stores : known'[s] # known[s] /\ n \in asked'[s]
       /\ \A k \in RemoteNames :
             stored.remotes[k] # Unset => stored'.remotes[k] # Unset]_configVars

(* A default of the file, or of a copy that may be saved, that names no    *)
(* entry there: a command without a name does not find its target.         *)
DanglingIn(c) ==
  {<<"lock", n>> : n \in {n \in {c.defaultLock} \ {Unset} : c.devices[n] = Unset}} \cup
  {<<"remote", k>> : k \in {k \in {c.defaultRemote} \ {Unset} : c.remotes[k] = Unset}}
Dangling ==
  UNION {DanglingIn(c) : c \in ({stored} \cup {memory[s] : s \in Stores}) \ {Broken, Unset}}

(* No step leaves a default in the file without its entry, although the    *)
(* entries of the file come from several processes: what dangles did so    *)
(* before, from the migration of version 1 on.                             *)
DefaultsExist == [][\A default \in Dangling' : default \in Dangling]_configVars

(* Hoped for: no exception for version 1.                                  *)
EveryDefaultExists == stored # Broken => DanglingIn(stored) = {}

(* Hoped for: a sync leaves every remote that is in the file there, under  *)
(* whatever name.                                                          *)
RemotesIn(c) == {c.remotes[k].is : k \in KeysOf(c).remotes}
SyncingKeepsRemotes ==
  [][\A s \in Stores, list \in SUBSET Remotes, n \in Names :
       SyncRemotesFromServer(s, list, n) /\ stored # Broken
         => RemotesIn(stored) \subseteq RemotesIn(stored')]_configVars

(* Hoped for: a Hub3 to which a remote in the file refers is not pruned.   *)
PruningSparesHub3s ==
  [][stored # Broken /\ stored' # Broken =>
       \A n \in HubsOfRemotes(stored) :
         stored.devices[n] \in Hub3s => stored'.devices[n] # Unset]_configVars

(* Hoped for: a save that changes nothing brings back nothing that is gone *)
(* from the file.                                                          *)
RemovedStaysRemoved ==
  [][\A s \in Stores : SaveOther(s) /\ stored # Broken =>
       \A n \in Names : stored.devices[n] = Unset => stored'.devices[n] = Unset]_configVars
=============================================================================
