--------------------------- MODULE AgentRegistry ---------------------------
(***************************************************************************)
(* The registry of the sub-agents of a session: the agent tree, the        *)
(* thread -> tree key index and the atomic count that limits spawning      *)
(* (core/src/agent/registry.rs), with the operations of AgentControl that  *)
(* use it (control/spawn.rs, control/legacy.rs, control.rs).               *)
(*                                                                         *)
(* The tree and its index live under one mutex, the count is an atomic     *)
(* beside it; a spawn holds a SpawnReservation over several awaits and     *)
(* either commits it or drops it.  One action is one critical section or   *)
(* one atomic operation.  Nicknames are left out.                          *)
(***************************************************************************)
EXTENDS Naturals, FiniteSets

CONSTANTS
    Spawners,   \* tool calls that spawn, resume or restore an agent
    Threads,    \* thread ids of sub-agents
    Root,       \* the root thread
    Paths,      \* agent paths below the root
    RootPath,
    NoKey, NoThread, NoPath,
    Absent,     \* no entry under a tree key
    Reserved,   \* an entry without agent_id: the path of a reservation
    Stored,     \* threads of an earlier run of the session, on disk
    MaxThreads, \* agent_max_threads
    MaxCloses,  \* bound: closes under way at once
    Scopes      \* sets of operations exercised together

Agents == Threads \cup {Root}
SpawnOps == {"SpawnV1", "SpawnV2", "Resume", "Restore"}
OpNames == SpawnOps \cup {"Close", "Unload"}

(* A tree key is an agent path, or "thread:<id>", here the thread itself.  *)
Keys == Paths \cup {RootPath} \cup Threads

ASSUME RegistryAssumption ==
    /\ \A scope \in Scopes : scope \subseteq OpNames
    /\ MaxThreads \in Nat /\ MaxCloses \in Nat
    /\ Stored \subseteq Threads
    /\ Root \notin Threads
    /\ RootPath \notin Paths \cup Threads
    /\ Paths \cap Threads = {}
    /\ NoKey \notin Keys /\ NoThread \notin Agents /\ NoPath \notin Keys
    /\ Absent \notin Agents /\ Reserved \notin Agents /\ Absent # Reserved

VARIABLES
    tree,           \* agent_tree: key -> the agent_id of its metadata
    threadPaths,    \* thread_paths: thread -> key
    count,          \* total_count
    loaded,         \* ThreadManagerState.threads
    known,          \* threads that exist on disk, with
    stored,         \*   the agent path stored for them
    closing,        \* threads removed by a close that is yet to release them
    owed,           \* releases that are yet to decrement the count
    res,            \* spawner -> its SpawnReservation
    version,        \* multi_agent_version of the session, which agents inherit
    ops             \* the member of Scopes this behaviour belongs to

vars == <<tree, threadPaths, count, loaded, known, stored, closing, owed, res,
          version, ops>>

Idle == [pc |-> "idle", op |-> "SpawnV1", path |-> NoPath, thread |-> NoThread]

(* The types of the two maps, of the reservations and of the count, which  *)
(* never goes below zero: a release gives back a slot at most once.        *)
TypeOK ==
    /\ tree \in [Keys -> Agents \cup {Absent, Reserved}]
    /\ threadPaths \in [Agents -> Keys \cup {NoKey}]
    /\ count \in Nat
    /\ loaded \subseteq known
    /\ known \subseteq Threads
    /\ stored \in [Threads -> Paths \cup {NoPath}]
    /\ closing \subseteq Agents
    /\ owed \in Nat
    /\ res \in [Spawners -> [pc : {"idle", "slot", "named", "created",
                                   "drop_path", "drop_count"},
                             op : SpawnOps,
                             path : Paths \cup {NoPath},
                             thread : Threads \cup {NoThread}]]
    /\ version \in {"V1", "V2"}
    /\ ops \in Scopes

Init ==
    /\ tree = [k \in Keys |-> IF k = RootPath THEN Root ELSE Absent]
    /\ threadPaths = [a \in Agents |-> IF a = Root THEN RootPath ELSE NoKey]
    /\ count = 0
    /\ loaded = {}
    /\ known = Stored
    /\ stored \in [Threads -> Paths \cup {NoPath}]
    /\ \A t \in Threads \ Stored : stored[t] = NoPath
    /\ closing = {} /\ owed = 0
    /\ res = [s \in Spawners |-> Idle]
    /\ version \in {"V1", "V2"}
    /\ ops \in Scopes

-----------------------------------------------------------------------------
VersionOps == IF version = "V1" THEN {"SpawnV1", "Resume"}
                                ELSE {"SpawnV2", "Restore"}

(* Mutant: the slot is taken at a full count.                              *)
ReserveSlotOffByOne(s, op, t) ==
    /\ op \in ops \cap VersionOps /\ res[s].pc = "idle"
    /\ version = "V1" => count <= MaxThreads
    /\ count' = count + 1
    /\ res' = [res EXCEPT ![s] = [pc |-> "slot", op |-> op, path |-> NoPath,
                                  thread |-> t]]
    /\ UNCHANGED <<tree, threadPaths, loaded, known, stored, closing, owed,
                   version, ops>>

(***************************************************************************)
(* reserve_spawn_slot: the compare-and-swap of try_increment_spawned, or   *)
(* fetch_add for V2 and restored agents, which have no limit here.         *)
(***************************************************************************)
ReserveSlot(s, op, t) ==
    /\ op \in ops \cap VersionOps /\ res[s].pc = "idle"
    /\ version = "V1" => count < MaxThreads
    /\ count' = count + 1
    /\ res' = [res EXCEPT ![s] = [pc |-> "slot", op |-> op, path |-> NoPath,
                                  thread |-> t]]
    /\ UNCHANGED <<tree, threadPaths, loaded, known, stored, closing, owed,
                   version, ops>>

(* spawn_agent_internal; resume_single_agent_from_rollout, called for an   *)
(* agent without a loaded thread; restore_v2_agent_metadata, which goes    *)
(* through the stored agents one by one and skips the registered ones.     *)
Spawn(s) == \E op \in {"SpawnV1", "SpawnV2"} : ReserveSlot(s, op, NoThread)
Resume(s) == \E t \in known \ loaded : ReserveSlot(s, "Resume", t)
Restore(s) ==
    /\ \A r \in Spawners : res[r].op = "Restore" => res[r].pc = "idle"
    /\ \E t \in known \ loaded :
        threadPaths[t] = NoKey /\ ReserveSlot(s, "Restore", t)

(* register_root_thread; prepare_thread_spawn calls it for a child of the  *)
(* root, restore_v2_agent_metadata before it restores anything.            *)
RegisterRoot == <<[tree EXCEPT ![RootPath] = IF @ = Absent THEN Root ELSE @],
                  [threadPaths EXCEPT ![Root] = RootPath]>>

(* The path to reserve, new or stored.  V1 agents have none.               *)
PathsFor(s) ==
    CASE res[s].op = "SpawnV1" -> {NoPath}
      [] res[s].op = "SpawnV2" -> Paths
      [] OTHER -> {stored[res[s].thread]}

(* Mutant: a path is reserved over whatever entry it has.                  *)
PrepareOverwrites(s) ==
    /\ res[s].pc = "slot"
    /\ \E maps \in {RegisterRoot, <<tree, threadPaths>>}, p \in PathsFor(s) :
        /\ threadPaths' = maps[2]
        /\ tree' = [k \in Keys |-> IF k = p THEN Reserved ELSE maps[1][k]]
        /\ res' = [res EXCEPT ![s].pc = "named", ![s].path = p]
    /\ UNCHANGED <<count, loaded, known, stored, closing, owed, version, ops>>

(* prepare_thread_spawn: reserve_agent_path, unless the path has an entry. *)
Prepare(s) ==
    /\ res[s].pc = "slot"
    /\ \E maps \in {RegisterRoot, <<tree, threadPaths>>}, p \in PathsFor(s) :
        /\ threadPaths' = maps[2]
        /\ IF p # NoPath /\ tree[p] # Absent
           THEN /\ tree' = maps[1]
                /\ res' = [res EXCEPT ![s].pc = "drop_path"]
           ELSE /\ tree' = [k \in Keys |-> IF k = p THEN Reserved ELSE maps[1][k]]
                /\ res' = [res EXCEPT ![s].pc = "named", ![s].path = p]
    /\ UNCHANGED <<count, loaded, known, stored, closing, owed, version, ops>>

(* The thread is created or resumed; a thread that is loaded already is    *)
(* not resumed again.  A restored agent stays unloaded.                    *)
CreateThread(s) ==
    /\ res[s].pc = "named" /\ res[s].op # "Restore"
    /\ \E t \in IF res[s].op = "Resume" THEN {res[s].thread} \ loaded
                                        ELSE Threads \ known :
        /\ loaded' = loaded \cup {t}
        /\ known' = known \cup {t}
        /\ stored' = [stored EXCEPT ![t] = res[s].path]
        /\ res' = [res EXCEPT ![s].pc = "created", ![s].thread = t]
    /\ UNCHANGED <<tree, threadPaths, count, closing, owed, version, ops>>

CreateFails(s) ==
    /\ res[s].pc = "named" /\ res[s].op # "Restore"
    /\ res' = [res EXCEPT ![s].pc = "drop_path"]
    /\ UNCHANGED <<tree, threadPaths, count, loaded, known, stored, closing,
                   owed, version, ops>>

(***************************************************************************)
(* SpawnReservation::commit: register_spawned_thread under the path or the *)
(* thread's own key; an entry of the thread under another key goes, and so *)
(* does the index entry of another thread under this key.                  *)
(***************************************************************************)
Commit(s) ==
    LET t == res[s].thread
        key == IF res[s].path = NoPath THEN t ELSE res[s].path
        previous == threadPaths[t]
        old == tree[key]
    IN
    /\ res[s].pc = "created" \/ (res[s].pc = "named" /\ res[s].op = "Restore")
    /\ tree' = [k \in Keys |-> IF k = key THEN t
                               ELSE IF k = previous THEN Absent ELSE tree[k]]
    /\ threadPaths' = [a \in Agents |-> IF a = t THEN key
                               ELSE IF a = old THEN NoKey ELSE threadPaths[a]]
    /\ res' = [res EXCEPT ![s] = Idle]
    /\ UNCHANGED <<count, loaded, known, stored, closing, owed, version, ops>>

(* Mutant: the dropped reservation leaves its path behind.                 *)
DropPathKeeps(s) ==
    /\ res[s].pc = "drop_path"
    /\ res' = [res EXCEPT ![s].pc = "drop_count"]
    /\ UNCHANGED <<tree, threadPaths, count, loaded, known, stored, closing,
                   owed, version, ops>>

(* Drop of a SpawnReservation: release_reserved_agent_path, then the count. *)
DropPath(s) ==
    /\ res[s].pc = "drop_path"
    /\ tree' = [k \in Keys |-> IF k = res[s].path /\ tree[k] = Reserved
                               THEN Absent ELSE tree[k]]
    /\ res' = [res EXCEPT ![s].pc = "drop_count"]
    /\ UNCHANGED <<threadPaths, count, loaded, known, stored, closing, owed,
                   version, ops>>

DropCount(s) ==
    /\ res[s].pc = "drop_count"
    /\ count' = count - 1
    /\ res' = [res EXCEPT ![s] = Idle]
    /\ UNCHANGED <<tree, threadPaths, loaded, known, stored, closing, owed,
                   version, ops>>

-----------------------------------------------------------------------------
(* shutdown_live_agent, and handle_thread_request_result for an agent that *)
(* died: the thread leaves the manager, then the registry.                 *)
Close(a) ==
    /\ "Close" \in ops /\ a \in known \cup {Root} /\ a \notin closing
    /\ Cardinality(closing) + owed < MaxCloses
    /\ loaded' = loaded \ {a}
    /\ closing' = closing \cup {a}
    /\ UNCHANGED <<tree, threadPaths, count, known, stored, owed, res,
                   version, ops>>

(* Mutant: every release gives a slot back, whether or not it removed an   *)
(* agent that holds one.                                                   *)
ReleaseEntryAlwaysPays(a) ==
    LET key == threadPaths[a] IN
    /\ a \in closing
    /\ closing' = closing \ {a}
    /\ threadPaths' = [threadPaths EXCEPT ![a] = NoKey]
    /\ tree' = [k \in Keys |-> IF k = key THEN Absent ELSE tree[k]]
    /\ owed' = owed + 1
    /\ UNCHANGED <<count, loaded, known, stored, res, version, ops>>

(* Mutant: the index entry of the released thread stays.                   *)
ReleaseEntryKeepsIndex(a) ==
    LET key == threadPaths[a] IN
    /\ a \in closing
    /\ closing' = closing \ {a}
    /\ tree' = [k \in Keys |-> IF k = key THEN Absent ELSE tree[k]]
    /\ owed' = IF key \in Keys \ {RootPath} /\ tree[key] # Absent
               THEN owed + 1 ELSE owed
    /\ UNCHANGED <<threadPaths, count, loaded, known, stored, res, version, ops>>

(* release_spawned_thread under the lock; the root holds no slot.          *)
ReleaseEntry(a) ==
    LET key == threadPaths[a] IN
    /\ a \in closing
    /\ closing' = closing \ {a}
    /\ threadPaths' = [threadPaths EXCEPT ![a] = NoKey]
    /\ tree' = [k \in Keys |-> IF k = key THEN Absent ELSE tree[k]]
    /\ owed' = IF key \in Keys \ {RootPath} /\ tree[key] # Absent
               THEN owed + 1 ELSE owed
    /\ UNCHANGED <<count, loaded, known, stored, res, version, ops>>

(* ... and the fetch_sub after it.                                         *)
ReleaseCount ==
    /\ owed > 0
    /\ owed' = owed - 1
    /\ count' = count - 1
    /\ UNCHANGED <<tree, threadPaths, loaded, known, stored, closing, res,
                   version, ops>>

(* The app-server unloads an idle thread without subscribers, or archives  *)
(* it: ThreadManager::remove_thread, with no word to the registry.         *)
Unload(t) ==
    /\ "Unload" \in ops /\ t \in loaded
    /\ loaded' = loaded \ {t}
    /\ UNCHANGED <<tree, threadPaths, count, known, stored, closing, owed, res,
                   version, ops>>

-----------------------------------------------------------------------------
SpawnerStep(s) ==
    \/ Prepare(s) \/ CreateThread(s) \/ CreateFails(s) \/ Commit(s)
    \/ DropPath(s) \/ DropCount(s)

Next ==
    \/ \E s \in Spawners : Spawn(s) \/ Resume(s) \/ Restore(s) \/ SpawnerStep(s)
    \/ \E a \in Agents : Close(a) \/ ReleaseEntry(a) \/ Unload(a)
    \/ ReleaseCount

Spec == Init /\ [][Next]_vars

-----------------------------------------------------------------------------
Registered == {k \in Keys \ {RootPath} : tree[k] \in Agents}
Holders == {s \in Spawners : res[s].pc # "idle"}

(***************************************************************************)
(* agent_tree and thread_paths are inverse to each other through every     *)
(* mix of spawns, resumes, restores and closes: an agent that is found by  *)
(* its id is found by its path, and the other way round                    *)
(* (agent_metadata_for_thread, agent_id_for_path).                         *)
(***************************************************************************)
MapsAgree ==
    /\ \A a \in Agents : threadPaths[a] # NoKey => tree[threadPaths[a]] = a
    /\ \A k \in Keys : tree[k] \in Agents => threadPaths[tree[k]] = k

(***************************************************************************)
(* A path that is reserved belongs to exactly one spawn under way, so that *)
(* a failed spawn never leaves its name taken (reserve_agent_path against  *)
(* commit and Drop of SpawnReservation).                                   *)
(***************************************************************************)
ReservedPathsAreHeld ==
    \A p \in Paths :
        tree[p] = Reserved
        <=> \E s \in Spawners :
              /\ res[s].path = p /\ res[s].pc \in {"named", "created", "drop_path"}
              /\ \A r \in Spawners \ {s} :
                   ~(res[r].path = p /\ res[r].pc \in {"named", "created",
                                                       "drop_path"})

(***************************************************************************)
(* The count that limits spawning is the number of registered sub-agents,  *)
(* of reservations under way and of releases yet to be paid: no slot leaks *)
(* and none is given back twice ("it limits: Total number of sub-agents"). *)
(***************************************************************************)
CountIsExact == count = Cardinality(Registered) + Cardinality(Holders) + owed

(***************************************************************************)
(* No agent, reservation or unpaid release goes uncounted, which the limit *)
(* on spawning rests on, whatever is resumed or restored meanwhile; and    *)
(* where no agent is resumed, the count is exact (register_spawned_thread  *)
(* and Drop of SpawnReservation against release_spawned_thread).           *)
(***************************************************************************)
CountCoversAgents ==
    /\ count >= Cardinality(Registered) + Cardinality(Holders) + owed
    /\ "Resume" \notin ops => CountIsExact

(***************************************************************************)
(* A V1 session never runs more sub-agent threads than agent_max_threads,  *)
(* however spawns, failed spawns and closes interleave                     *)
(* (try_increment_spawned against release_spawned_thread).  A close that   *)
(* overlaps a resume of the same agent can release the resumed agent's     *)
(* entry and leave its thread, so this is about sessions without resumes.  *)
(***************************************************************************)
LimitHolds ==
    version = "V1" /\ "Resume" \notin ops => Cardinality(loaded) <= MaxThreads
=============================================================================
