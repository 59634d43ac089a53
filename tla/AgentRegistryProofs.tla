------------------------ MODULE AgentRegistryProofs ------------------------
(***************************************************************************)
(* For any number of spawners, threads and paths, and any mix of the       *)
(* operations of AgentControl, the two maps of the registry agree and a    *)
(* reserved path belongs to one spawn under way; the count covers every    *)
(* agent, is exact unless agents are resumed, and bounds what is loaded.   *)
(***************************************************************************)
EXTENDS AgentRegistry, FiniteSetTheorems, TLAPS

(***************************************************************************)
(* What the maps and the reservations hold; the count comes later.         *)
(***************************************************************************)
MapType ==
    /\ tree \in [Keys -> Agents \cup {Absent, Reserved}]
    /\ threadPaths \in [Agents -> Keys \cup {NoKey}]
    /\ known \subseteq Threads
    /\ loaded \subseteq known
    /\ stored \in [Threads -> Paths \cup {NoPath}]
    /\ closing \subseteq Agents
    /\ res \in [Spawners -> [pc : {"idle", "slot", "named", "created",
                                   "drop_path", "drop_count"},
                             op : SpawnOps,
                             path : Paths \cup {NoPath},
                             thread : Threads \cup {NoThread}]]

(* The root sits under its own key and nobody else does.                   *)
RootInv ==
    /\ tree[RootPath] \in {Root, Absent}
    /\ threadPaths[Root] \in {RootPath, NoKey}

(* A spawner that is about to commit knows its thread, and one that has    *)
(* only its slot holds no path yet.                                        *)
ResInv ==
    \A s \in Spawners :
        /\ res[s].pc = "created" => res[s].thread \in Threads
        /\ res[s].pc # "idle" /\ res[s].op \in {"Resume", "Restore"}
           => res[s].thread \in Threads
        /\ res[s].pc = "slot" => res[s].path = NoPath

Holds(s, p) == res[s].path = p /\ res[s].pc \in {"named", "created", "drop_path"}

(* ReservedPathsAreHeld in two halves: each reserved path has a holder,    *)
(* each holder's path is reserved and no two hold the same.                *)
HeldInv ==
    /\ \A p \in Paths : tree[p] = Reserved => \E s \in Spawners : Holds(s, p)
    /\ \A s \in Spawners, p \in Paths : Holds(s, p) => tree[p] = Reserved
    /\ \A s, r \in Spawners, p \in Paths : Holds(s, p) /\ Holds(r, p) => s = r
    /\ \A k \in Threads \cup {RootPath} : tree[k] # Reserved

MInv == MapType /\ RootInv /\ ResInv /\ MapsAgree /\ HeldInv

-----------------------------------------------------------------------------
(* Initially only the root is registered and nobody spawns.                *)
LEMMA InitMInv == Init => MInv
  <1> SUFFICES ASSUME Init PROVE MInv
    OBVIOUS
  <1>1. MapType
    BY RegistryAssumption DEF Init, MapType, Keys, Agents, Idle, SpawnOps
  <1>2. RootInv /\ ResInv
    BY RegistryAssumption DEF Init, RootInv, ResInv, Keys, Agents, Idle
  <1>3. MapsAgree
    BY RegistryAssumption DEF Init, MapsAgree, Keys, Agents
  <1>4. HeldInv
    BY RegistryAssumption DEF Init, HeldInv, Holds, Keys, Agents, Idle
  <1> QED BY <1>1, <1>2, <1>3, <1>4 DEF MInv

(* A slot is taken: nothing in the maps moves.                             *)
LEMMA ReserveSlotMInv ==
  ASSUME MInv, NEW s \in Spawners, NEW op \in SpawnOps, NEW t \in Threads \cup {NoThread},
         ReserveSlot(s, op, t), op \in {"Resume", "Restore"} => t \in Threads
  PROVE  MInv'
  <1> USE DEF MInv, ReserveSlot
  <1>1. MapType'
    BY DEF MapType
  <1>2. RootInv' /\ ResInv'
    BY DEF RootInv, ResInv, MapType
  <1>3. MapsAgree'
    BY DEF MapsAgree
  <1>4. \A r \in Spawners, p \in Paths : Holds(r, p)' <=> Holds(r, p)
    BY RegistryAssumption DEF Holds, MapType, Keys
  <1>5. HeldInv'
    BY <1>4 DEF HeldInv
  <1> QED BY <1>1, <1>2, <1>3, <1>5

(* The root is registered, or not, and a free path is reserved.            *)
LEMMA PrepareMInv ==
  ASSUME MInv, NEW s \in Spawners, Prepare(s)
  PROVE  MInv'
  <1> USE DEF MInv
  <1>1. PICK maps \in {RegisterRoot, <<tree, threadPaths>>}, p \in PathsFor(s) :
          /\ threadPaths' = maps[2]
          /\ IF p # NoPath /\ tree[p] # Absent
             THEN /\ tree' = maps[1]
                  /\ res' = [res EXCEPT ![s].pc = "drop_path"]
             ELSE /\ tree' = [k \in Keys |-> IF k = p THEN Reserved
                                                      ELSE maps[1][k]]
                  /\ res' = [res EXCEPT ![s].pc = "named", ![s].path = p]
    BY DEF Prepare
  <1> DEFINE tr == maps[1]
             tp == maps[2]
  <1>2. /\ res[s].pc = "slot"
        /\ UNCHANGED <<count, loaded, known, stored, closing, owed>>
    BY DEF Prepare
  <1>3. p \in Paths \cup {NoPath}
    <2>1. res[s].op \in SpawnOps
      BY DEF MapType
    <2>2. CASE res[s].op \in {"SpawnV1", "SpawnV2"}
      BY <2>2 DEF PathsFor
    <2>3. CASE res[s].op \in {"Resume", "Restore"}
      <3>1. stored[res[s].thread] \in Paths \cup {NoPath}
        BY <2>3, <1>2 DEF ResInv, MapType
      <3> QED BY <2>3, <3>1 DEF PathsFor
    <2> QED BY <2>1, <2>2, <2>3 DEF SpawnOps
  <1>4. /\ tr \in [Keys -> Agents \cup {Absent, Reserved}]
        /\ tp \in [Agents -> Keys \cup {NoKey}]
        /\ tr[RootPath] \in {Root, Absent}
        /\ tp[Root] \in {RootPath, NoKey}
        /\ \A k \in Keys \ {RootPath} : tr[k] = tree[k]
        /\ \A a \in Agents \ {Root} : tp[a] = threadPaths[a]
        /\ tp[Root] = RootPath <=> tr[RootPath] = Root
    <2>1. CASE maps = <<tree, threadPaths>>
      BY <2>1, RegistryAssumption DEF MapType, RootInv, MapsAgree, Keys, Agents
    <2>2. CASE maps = RegisterRoot
      BY <2>2, RegistryAssumption DEF RegisterRoot, MapType, RootInv, Keys, Agents
    <2> QED BY <2>1, <2>2
  <1>5. /\ \A a \in Agents : tp[a] # NoKey => tr[tp[a]] = a
        /\ \A k \in Keys : tr[k] \in Agents => tp[tr[k]] = k
    BY <1>4, RegistryAssumption DEF MapsAgree, MapType, RootInv, Keys, Agents
  <1>6. CASE p # NoPath /\ tree[p] # Absent
    <2>1. tree' = tr /\ threadPaths' = tp /\ res' = [res EXCEPT ![s].pc = "drop_path"]
      BY <1>1, <1>6
    <2>2. MapType'
      BY <2>1, <1>2, <1>4 DEF MapType
    <2>3. RootInv' /\ ResInv'
      BY <2>1, <1>2, <1>4 DEF RootInv, ResInv, MapType
    <2>4. MapsAgree'
      BY <2>1, <1>5 DEF MapsAgree
    <2>5. \A r \in Spawners, q \in Paths : Holds(r, q)' <=> Holds(r, q)
      BY <2>1, <1>2, RegistryAssumption DEF Holds, MapType, ResInv, Keys
    <2>6. \A k \in Keys : tree'[k] = Reserved <=> tree[k] = Reserved
      BY <2>1, <1>4, RegistryAssumption DEF RootInv, MapType, Agents
    <2>7. HeldInv'
      BY <2>5, <2>6 DEF HeldInv, Keys
    <2> QED BY <2>2, <2>3, <2>4, <2>7
  <1>7. CASE ~(p # NoPath /\ tree[p] # Absent)
    <2>1. /\ tree' = [k \in Keys |-> IF k = p THEN Reserved ELSE tr[k]]
          /\ threadPaths' = tp
          /\ res' = [res EXCEPT ![s].pc = "named", ![s].path = p]
      BY <1>1, <1>7
    <2>0. p \in Paths => p \in Keys /\ p # RootPath /\ tree[p] = Absent /\ tr[p] = Absent
      BY <1>4, <1>7, RegistryAssumption DEF Keys
    <2>2. MapType'
      <3>1. tree' \in [Keys -> Agents \cup {Absent, Reserved}]
        BY <2>1, <1>4
      <3>2. /\ res' \in [Spawners -> [pc : {"idle", "slot", "named", "created",
                                           "drop_path", "drop_count"},
                                     op : SpawnOps,
                                     path : Paths \cup {NoPath},
                                     thread : Threads \cup {NoThread}]]
        BY <2>1, <1>3, ZenonT(40) DEF MapType
      <3> QED BY <2>1, <3>1, <3>2, <1>2, <1>4 DEF MapType
    <2>3. RootInv' /\ ResInv'
      BY <2>1, <1>2, <1>3, <1>4, RegistryAssumption DEF RootInv, ResInv, MapType, Keys
    <2>4. MapsAgree'
      <3>1. \A a \in Agents : tp[a] # p \/ p = NoPath
        BY <1>3, <1>5, <2>0, RegistryAssumption DEF Keys, MapType
      <3>2. \A k \in Keys : k # p => tree'[k] = tr[k]
        BY <2>1
      <3>3. p \in Keys => tree'[p] = Reserved
        BY <2>1
      <3>4. ASSUME NEW a \in Agents, tp[a] # NoKey PROVE tree'[tp[a]] = a
        BY <1>3, <1>4, <1>5, <3>1, <3>2, <3>4, RegistryAssumption DEF Keys
      <3>5. ASSUME NEW k \in Keys, tree'[k] \in Agents PROVE tp[tree'[k]] = k
        BY <1>5, <3>2, <3>3, <3>5, RegistryAssumption
      <3> QED BY <2>1, <3>4, <3>5 DEF MapsAgree
    <2>5. \A r \in Spawners \ {s}, q \in Paths : Holds(r, q)' <=> Holds(r, q)
      BY <2>1 DEF Holds, MapType
    <2>6. \A q \in Paths : ~Holds(s, q) /\ (Holds(s, q)' <=> q = p)
      BY <2>1, <1>2, RegistryAssumption DEF Holds, MapType, ResInv, Keys
    <2>7. \A q \in Paths : tree'[q] = Reserved <=> (tree[q] = Reserved \/ q = p)
      BY <2>1, <1>4, RegistryAssumption DEF Keys
    <2>8. \A k \in Threads \cup {RootPath} : tree'[k] # Reserved
      BY <2>1, <1>3, <1>4, RegistryAssumption DEF HeldInv, Keys, Agents
    <2>9. p \in Paths => \A r \in Spawners : ~Holds(r, p)
      BY <2>0, RegistryAssumption DEF HeldInv
    <2>10. HeldInv'
      BY <2>5, <2>6, <2>7, <2>8, <2>9 DEF HeldInv
    <2> QED BY <2>2, <2>3, <2>4, <2>10
  <1> QED BY <1>6, <1>7

(* The maps stay as they are, and every spawner keeps the path it holds.   *)
LEMMA SameMapsMInv ==
  ASSUME MInv, MapType', ResInv', UNCHANGED <<tree, threadPaths>>,
         \A s \in Spawners, p \in Paths : Holds(s, p)' <=> Holds(s, p)
  PROVE  MInv'
  BY DEF MInv, RootInv, MapsAgree, HeldInv

(* The thread exists now; maps and reserved paths are as they were.        *)
LEMMA CreateThreadMInv ==
  ASSUME MInv, NEW s \in Spawners, CreateThread(s)
  PROVE  MInv'
  <1> USE DEF MInv
  <1>1. PICK t \in Threads :
          /\ loaded' = loaded \cup {t}
          /\ known' = known \cup {t}
          /\ stored' = [stored EXCEPT ![t] = res[s].path]
          /\ res' = [res EXCEPT ![s].pc = "created", ![s].thread = t]
          /\ res[s].pc = "named"
          /\ UNCHANGED <<tree, threadPaths, count, closing, owed>>
    BY DEF CreateThread, ResInv
  <1>2. MapType'
    BY <1>1, ZenonT(40) DEF MapType
  <1>3. ResInv'
    BY <1>1 DEF ResInv, MapType
  <1>4. \A r \in Spawners, p \in Paths : Holds(r, p)' <=> Holds(r, p)
    BY <1>1 DEF Holds, MapType
  <1> QED BY <1>1, <1>2, <1>3, <1>4, SameMapsMInv

(* A spawn that fails still holds its path until the drop.                 *)
LEMMA CreateFailsMInv ==
  ASSUME MInv, NEW s \in Spawners, CreateFails(s)
  PROVE  MInv'
  <1> USE DEF MInv, CreateFails
  <1>1. MapType'
    BY DEF MapType
  <1>2. ResInv'
    BY DEF ResInv, MapType
  <1>3. \A r \in Spawners, p \in Paths : Holds(r, p)' <=> Holds(r, p)
    BY DEF Holds, MapType
  <1> QED BY <1>1, <1>2, <1>3, SameMapsMInv

(* The thread moves under its key: its old entry and the old owner's index *)
(* entry go, and the reservation of the path ends.                         *)
LEMMA CommitMInv ==
  ASSUME MInv, NEW s \in Spawners, Commit(s)
  PROVE  MInv'
  <1> USE DEF MInv
  <1> DEFINE t == res[s].thread
             key == IF res[s].path = NoPath THEN t ELSE res[s].path
             previous == threadPaths[t]
             old == tree[key]
  <1>1. /\ res[s].pc \in {"created", "named"}
        /\ tree' = [k \in Keys |-> IF k = key THEN t
                                   ELSE IF k = previous THEN Absent ELSE tree[k]]
        /\ threadPaths' = [a \in Agents |-> IF a = t THEN key
                                   ELSE IF a = old THEN NoKey ELSE threadPaths[a]]
        /\ res' = [res EXCEPT ![s] = Idle]
        /\ UNCHANGED <<count, loaded, known, stored, closing, owed>>
    BY DEF Commit
  <1>2. t \in Threads /\ t \in Agents /\ t # Root
    BY RegistryAssumption DEF Commit, ResInv, Agents
  <1>3. key \in Keys /\ key # RootPath /\ key \in Paths \cup Threads
    BY <1>2, RegistryAssumption DEF MapType, Keys
  <1>4. /\ \A k \in Keys : tree'[k] = IF k = key THEN t
                                      ELSE IF k = previous THEN Absent ELSE tree[k]
        /\ \A a \in Agents : threadPaths'[a] = IF a = t THEN key
                                      ELSE IF a = old THEN NoKey ELSE threadPaths[a]
    BY <1>1
  <1>5. MapType'
    BY <1>1, <1>2, <1>3 DEF MapType, Idle, SpawnOps
  <1>6. previous # RootPath
    BY <1>2, RegistryAssumption DEF MapsAgree, RootInv, Agents, Keys, MapType
  <1>7. RootInv'
    BY <1>2, <1>3, <1>4, <1>6, RegistryAssumption DEF RootInv, Keys, Agents
  <1>8. ResInv'
    BY <1>1 DEF ResInv, MapType, Idle
  <1>9. MapsAgree'
    <2>1. ASSUME NEW a \in Agents, threadPaths'[a] # NoKey
          PROVE  tree'[threadPaths'[a]] = a
      BY <2>1, <1>2, <1>3, <1>4, RegistryAssumption DEF MapsAgree, MapType
    <2>2. ASSUME NEW k \in Keys, tree'[k] \in Agents
          PROVE  threadPaths'[tree'[k]] = k
      BY <2>2, <1>2, <1>3, <1>4, RegistryAssumption DEF MapsAgree, MapType
    <2> QED BY <2>1, <2>2 DEF MapsAgree
  <1>10. \A r \in Spawners \ {s}, q \in Paths : Holds(r, q)' <=> Holds(r, q)
    BY <1>1 DEF Holds, MapType
  <1>11. \A q \in Paths : ~Holds(s, q)' /\ (Holds(s, q) <=> q = key)
    BY <1>1, <1>2, RegistryAssumption DEF Holds, MapType, Idle, Keys
  <1>12. \A k \in Keys : tree'[k] = Reserved <=> (tree[k] = Reserved /\ k # key)
    BY <1>2, <1>4, RegistryAssumption DEF MapsAgree, MapType, Agents
  <1>13. HeldInv'
    BY <1>10, <1>11, <1>12 DEF HeldInv, Keys
  <1> QED BY <1>5, <1>7, <1>8, <1>9, <1>13

(* A dropped reservation gives its path back and nobody else's.            *)
LEMMA DropPathMInv ==
  ASSUME MInv, NEW s \in Spawners, DropPath(s)
  PROVE  MInv'
  <1> USE DEF MInv, DropPath
  <1>1. MapType'
    BY DEF MapType
  <1>2. \A k \in Keys : tree'[k] = IF k = res[s].path /\ tree[k] = Reserved
                                   THEN Absent ELSE tree[k]
    OBVIOUS
  <1>3. RootInv' /\ ResInv'
    BY <1>2 DEF RootInv, ResInv, MapType, Keys
  <1>4. MapsAgree'
    BY <1>2, RegistryAssumption DEF MapsAgree, MapType, Agents
  <1>5. \A r \in Spawners \ {s}, q \in Paths : Holds(r, q)' <=> Holds(r, q)
    BY DEF Holds, MapType
  <1>6. \A q \in Paths : ~Holds(s, q)' /\ (Holds(s, q) <=> q = res[s].path)
    BY DEF Holds, MapType
  <1>7. \A k \in Keys : tree'[k] = Reserved <=> (tree[k] = Reserved /\ k # res[s].path)
    BY <1>2, RegistryAssumption
  <1>8. HeldInv'
    BY <1>5, <1>6, <1>7 DEF HeldInv, Keys
  <1> QED BY <1>1, <1>3, <1>4, <1>8

(* The end of a dropped reservation: its path is gone already.             *)
LEMMA DropCountMInv ==
  ASSUME MInv, NEW s \in Spawners, DropCount(s)
  PROVE  MInv'
  <1> USE DEF MInv, DropCount
  <1>1. MapType'
    BY DEF MapType, Idle, SpawnOps
  <1>2. ResInv'
    BY DEF ResInv, MapType, Idle
  <1>3. \A r \in Spawners, p \in Paths : Holds(r, p)' <=> Holds(r, p)
    BY RegistryAssumption DEF Holds, MapType, Idle, Keys
  <1> QED BY <1>1, <1>2, <1>3, SameMapsMInv

(* The agent leaves both maps at once.                                     *)
LEMMA ReleaseEntryMInv ==
  ASSUME MInv, NEW a \in Agents, ReleaseEntry(a)
  PROVE  MInv'
  <1> USE DEF MInv, ReleaseEntry
  <1> DEFINE key == threadPaths[a]
  <1>1. MapType'
    BY DEF MapType
  <1>2. /\ \A k \in Keys : tree'[k] = IF k = key THEN Absent ELSE tree[k]
        /\ \A b \in Agents : threadPaths'[b] = IF b = a THEN NoKey ELSE threadPaths[b]
    BY DEF MapType
  <1>3. key \in Keys => tree[key] = a
    BY RegistryAssumption DEF MapsAgree
  <1>4. RootInv' /\ ResInv'
    BY <1>2, RegistryAssumption DEF RootInv, ResInv, Keys, Agents
  <1>5. MapsAgree'
    <2>1. ASSUME NEW b \in Agents, threadPaths'[b] # NoKey
          PROVE  tree'[threadPaths'[b]] = b
      BY <2>1, <1>2, <1>3, RegistryAssumption DEF MapsAgree, MapType
    <2>2. ASSUME NEW k \in Keys, tree'[k] \in Agents
          PROVE  threadPaths'[tree'[k]] = k
      BY <2>2, <1>2, <1>3, RegistryAssumption DEF MapsAgree, MapType
    <2> QED BY <2>1, <2>2 DEF MapsAgree
  <1>6. \A k \in Keys : tree'[k] = Reserved <=> tree[k] = Reserved
    BY <1>2, <1>3, RegistryAssumption
  <1>7. \A r \in Spawners, p \in Paths : Holds(r, p)' <=> Holds(r, p)
    BY DEF Holds
  <1>8. HeldInv'
    BY <1>6, <1>7 DEF HeldInv, Keys
  <1> QED BY <1>1, <1>4, <1>5, <1>8

(* Steps on the thread manager, the closes and the count alone.            *)
LEMMA OutsideStepMInv ==
  ASSUME MInv, UNCHANGED <<tree, threadPaths, known, stored, res>>,
         loaded' \subseteq loaded, closing' \subseteq Agents
  PROVE  MInv'
  <1> USE DEF MInv
  <1>1. MapType'
    BY DEF MapType
  <1>2. ResInv'
    BY DEF ResInv
  <1>3. \A r \in Spawners, p \in Paths : Holds(r, p)' <=> Holds(r, p)
    BY DEF Holds
  <1> QED BY <1>1, <1>2, <1>3, SameMapsMInv

(* Every step of the registry preserves MInv.                              *)
LEMMA NextMInv == MInv /\ [Next]_vars => MInv'
  <1> SUFFICES ASSUME MInv, [Next]_vars PROVE MInv'
    OBVIOUS
  <1>0. known \subseteq Threads /\ closing \subseteq Agents
    BY DEF MInv, MapType
  <1>1. CASE UNCHANGED vars
    BY <1>1, <1>0, OutsideStepMInv DEF vars
  <1>2. ASSUME NEW s \in Spawners, Spawn(s) PROVE MInv'
    BY <1>2, ReserveSlotMInv DEF Spawn, SpawnOps
  <1>3. ASSUME NEW s \in Spawners, Resume(s) \/ Restore(s) PROVE MInv'
    BY <1>3, <1>0, ReserveSlotMInv DEF Resume, Restore, SpawnOps
  <1>4. ASSUME NEW s \in Spawners, SpawnerStep(s) PROVE MInv'
    BY <1>4, PrepareMInv, CreateThreadMInv, CreateFailsMInv, CommitMInv,
       DropPathMInv, DropCountMInv DEF SpawnerStep
  <1>5. ASSUME NEW a \in Agents, Close(a) PROVE MInv'
    BY <1>5, <1>0, OutsideStepMInv DEF Close
  <1>6. ASSUME NEW a \in Agents, ReleaseEntry(a) PROVE MInv'
    BY <1>6, ReleaseEntryMInv
  <1>7. ASSUME NEW a \in Agents, Unload(a) PROVE MInv'
    BY <1>7, <1>0, OutsideStepMInv DEF Unload
  <1>8. CASE ReleaseCount
    BY <1>8, <1>0, OutsideStepMInv DEF ReleaseCount
  <1> QED BY <1>1, <1>2, <1>3, <1>4, <1>5, <1>6, <1>7, <1>8 DEF Next

(* MInv is an invariant of the specification.                              *)
LEMMA SpecMInv == Spec => []MInv
  BY InitMInv, NextMInv, PTL DEF Spec

-----------------------------------------------------------------------------
(***************************************************************************)
(* agent_tree and thread_paths are inverse to each other in every state,   *)
(* whatever operations run concurrently.                                   *)
(***************************************************************************)
THEOREM SpecMapsAgree == Spec => []MapsAgree
  <1>1. MInv => MapsAgree
    BY DEF MInv
  <1> QED BY <1>1, SpecMInv, PTL

(***************************************************************************)
(* Every reserved path has exactly one spawn under way that holds it, and  *)
(* every spawn that holds a path has it reserved.                          *)
(***************************************************************************)
THEOREM SpecReservedPathsAreHeld == Spec => []ReservedPathsAreHeld
  <1>1. MInv => ReservedPathsAreHeld
    BY DEF MInv, HeldInv, Holds, ReservedPathsAreHeld
  <1> QED BY <1>1, SpecMInv, PTL

-----------------------------------------------------------------------------
NoResume == "Resume" \notin ops

(* The key a thread is registered under.                                   *)
KeyOf(t) == IF stored[t] = NoPath THEN t ELSE stored[t]

(* How many agents and reservations the count stands for.                  *)
CountInv ==
    /\ count \in Nat /\ owed \in Nat
    /\ IsFiniteSet(Registered) /\ IsFiniteSet(Holders)
    /\ count >= Cardinality(Registered) + Cardinality(Holders) + owed

(* Without resumes, no thread is registered twice or by two spawns.        *)
FreshInv ==
    /\ \A s \in Spawners : res[s].pc # "idle" => res[s].op \in ops \cap VersionOps
    /\ \A t \in Threads : threadPaths[t] # NoKey
                           => t \in known /\ threadPaths[t] = KeyOf(t)
    /\ \A s \in Spawners : res[s].pc \in {"named", "created"} =>
          /\ res[s].op = "SpawnV1" => res[s].path = NoPath
          /\ res[s].op = "SpawnV2" => res[s].path \in Paths
    /\ \A s \in Spawners : res[s].pc = "created" =>
          /\ res[s].op # "Restore" /\ res[s].thread \in known
          /\ threadPaths[res[s].thread] = NoKey
          /\ stored[res[s].thread] = res[s].path
    /\ \A s, r \in Spawners :
          res[s].pc = "created" /\ res[r].pc = "created"
          /\ res[s].thread = res[r].thread => s = r

Restoring(s) == res[s].op = "Restore" /\ res[s].pc # "idle"

(* A restore under way is the only one, and its thread is unregistered     *)
(* unless its path is taken.                                               *)
RestoreInv ==
    /\ \A s, r \in Spawners : Restoring(s) /\ Restoring(r) => s = r
    /\ \A s \in Spawners :
          res[s].op = "Restore" /\ res[s].pc \in {"slot", "named"} =>
            /\ res[s].thread \in known
            /\ res[s].pc = "named" => /\ res[s].path = stored[res[s].thread]
                                      /\ threadPaths[res[s].thread] = NoKey
            /\ res[s].pc = "slot" /\ stored[res[s].thread] = NoPath
               => threadPaths[res[s].thread] = NoKey

(* The count where no agent is resumed.                                    *)
ExactInv == NoResume => FreshInv /\ RestoreInv /\ CountIsExact

(* V1 sessions without resumes: the count stays within the limit, and what *)
(* is loaded is registered or about to be.                                 *)
LimitInv ==
    version = "V1" /\ NoResume =>
        /\ count <= MaxThreads
        /\ closing \cap loaded = {} /\ closing \subseteq known \cup {Root}
        /\ \A t \in loaded :
              \/ threadPaths[t] # NoKey
              \/ \E s \in Spawners : res[s].pc = "created" /\ res[s].thread = t

(* A step that leaves the agents, the reservations and the count alone.    *)
LEMMA SameCount ==
  ASSUME CountInv, UNCHANGED <<count, owed>>,
         Registered' = Registered, Holders' = Holders
  PROVE  CountInv' /\ (CountIsExact => CountIsExact')
  BY DEF CountInv, CountIsExact

(* A slot is counted before it is held.                                    *)
LEMMA ReserveSlotCount ==
  ASSUME MInv, CountInv, NEW s \in Spawners, NEW op, NEW t, ReserveSlot(s, op, t)
  PROVE  CountInv' /\ (CountIsExact => CountIsExact')
  <1>1. Registered' = Registered
    BY DEF ReserveSlot, Registered
  <1>2. Holders' = Holders \cup {s} /\ s \notin Holders
    BY DEF ReserveSlot, Holders, MInv, MapType
  <1>3. IsFiniteSet(Holders') /\ Cardinality(Holders') = Cardinality(Holders) + 1
    BY <1>2, FS_AddElement DEF CountInv
  <1>4. count' = count + 1 /\ owed' = owed
    BY DEF ReserveSlot
  <1>5. Cardinality(Registered) \in Nat /\ Cardinality(Holders) \in Nat
    BY FS_CardinalityType DEF CountInv
  <1> QED BY <1>1, <1>3, <1>4, <1>5 DEF CountInv, CountIsExact

(* Naming and creating move no slot.                                       *)
LEMMA PrepareCount ==
  ASSUME MInv, CountInv, NEW s \in Spawners, Prepare(s)
  PROVE  CountInv' /\ (CountIsExact => CountIsExact')
  <1>1. PICK maps \in {RegisterRoot, <<tree, threadPaths>>}, p \in PathsFor(s) :
          \/ /\ p # NoPath /\ tree[p] # Absent
             /\ tree' = maps[1]
             /\ res' = [res EXCEPT ![s].pc = "drop_path"]
          \/ /\ p = NoPath \/ tree[p] = Absent
             /\ tree' = [k \in Keys |-> IF k = p THEN Reserved ELSE maps[1][k]]
             /\ res' = [res EXCEPT ![s].pc = "named", ![s].path = p]
    BY DEF Prepare
  <1>2. \A k \in Keys \ {RootPath} : maps[1][k] = tree[k]
    BY DEF RegisterRoot, MInv, MapType
  <1>3. NoPath \notin Keys
    BY RegistryAssumption
  <1>4. Registered' = Registered
    BY <1>1, <1>2, <1>3, RegistryAssumption DEF Registered
  <1>5. Holders' = Holders
    BY <1>1 DEF Holders, Prepare, MInv, MapType
  <1> QED BY <1>4, <1>5, SameCount DEF Prepare

(* ... nor does the creation of the thread, or its failure.                *)
LEMMA CreateCount ==
  ASSUME MInv, CountInv, NEW s \in Spawners, CreateThread(s) \/ CreateFails(s)
  PROVE  CountInv' /\ (CountIsExact => CountIsExact')
  <1>1. Registered' = Registered
    BY DEF CreateThread, CreateFails, Registered
  <1>2. Holders' = Holders
    BY DEF Holders, CreateThread, CreateFails, MInv, MapType
  <1> QED BY <1>1, <1>2, SameCount DEF CreateThread, CreateFails

(* A dropped reservation gives its path back, then its slot.               *)
LEMMA DropCounts ==
  ASSUME MInv, CountInv, NEW s \in Spawners, DropPath(s) \/ DropCount(s)
  PROVE  CountInv' /\ (CountIsExact => CountIsExact')
  <1>1. Registered' = Registered
    BY RegistryAssumption DEF DropPath, DropCount, Registered
  <1>2. CASE DropPath(s)
    <2>1. Holders' = Holders
      BY <1>2 DEF Holders, DropPath, MInv, MapType
    <2> QED BY <1>1, <1>2, <2>1, SameCount DEF DropPath
  <1>3. CASE DropCount(s)
    <2>1. Holders' = Holders \ {s} /\ s \in Holders
      BY <1>3 DEF Holders, DropCount, Idle, MInv, MapType
    <2>2. IsFiniteSet(Holders') /\ Cardinality(Holders') = Cardinality(Holders) - 1
      BY <2>1, FS_RemoveElement DEF CountInv
    <2>3. /\ Cardinality(Registered) \in Nat /\ Cardinality(Holders) \in Nat
          /\ Cardinality(Holders') \in Nat
      BY <2>2, FS_CardinalityType DEF CountInv
    <2>4. count' = count - 1 /\ owed' = owed
      BY <1>3 DEF DropCount
    <2> QED BY <1>1, <2>2, <2>3, <2>4 DEF CountInv, CountIsExact
  <1> QED BY <1>2, <1>3

(* The slot of the reservation becomes that of the agent: at most one key  *)
(* more is taken, and exactly one when the thread was not registered and   *)
(* its key held no agent.                                                  *)
LEMMA CommitCount ==
  ASSUME MInv, CountInv, NEW s \in Spawners, Commit(s),
         NEW key, key = IF res[s].path = NoPath THEN res[s].thread ELSE res[s].path
  PROVE  /\ CountInv'
         /\ CountIsExact /\ threadPaths[res[s].thread] = NoKey /\ tree[key] \notin Agents
            => CountIsExact'
  <1> DEFINE t == res[s].thread
  <1>1. /\ tree' = [k \in Keys |-> IF k = key THEN t
                                   ELSE IF k = threadPaths[t] THEN Absent ELSE tree[k]]
        /\ res' = [res EXCEPT ![s] = Idle]
        /\ res[s].pc \in {"created", "named"}
        /\ UNCHANGED <<count, owed>>
    BY DEF Commit
  <1>2. t \in Agents /\ key \in Keys \ {RootPath}
    BY RegistryAssumption DEF Commit, MInv, ResInv, MapType, Agents, Keys
  <1>3. Holders' = Holders \ {s} /\ s \in Holders
    BY <1>1 DEF Holders, Idle, MInv, MapType
  <1>4. IsFiniteSet(Holders') /\ Cardinality(Holders') = Cardinality(Holders) - 1
    BY <1>3, FS_RemoveElement DEF CountInv
  <1>5. Registered' \subseteq Registered \cup {key}
    BY <1>1, <1>2, RegistryAssumption DEF Registered
  <1>6. /\ IsFiniteSet(Registered \cup {key})
        /\ Cardinality(Registered \cup {key}) <= Cardinality(Registered) + 1
    <2>1. Cardinality(Registered) \in Nat
      BY FS_CardinalityType DEF CountInv
    <2>2. /\ IsFiniteSet(Registered \cup {key})
          /\ Cardinality(Registered \cup {key})
             = IF key \in Registered THEN Cardinality(Registered)
                                     ELSE Cardinality(Registered) + 1
      BY FS_AddElement DEF CountInv
    <2> QED BY <2>1, <2>2
  <1>7. /\ IsFiniteSet(Registered')
        /\ Cardinality(Registered') <= Cardinality(Registered \cup {key})
    BY <1>5, <1>6, FS_Subset
  <1>8. /\ Cardinality(Registered) \in Nat /\ Cardinality(Holders) \in Nat
        /\ Cardinality(Registered') \in Nat /\ Cardinality(Holders') \in Nat
        /\ Cardinality(Registered \cup {key}) \in Nat
    BY <1>4, <1>6, <1>7, FS_CardinalityType DEF CountInv
  <1>9. CountInv'
    BY <1>1, <1>4, <1>6, <1>7, <1>8 DEF CountInv
  <1>10. ASSUME CountIsExact, threadPaths[t] = NoKey, tree[key] \notin Agents
         PROVE  CountIsExact'
    <2>1. Registered' = Registered \cup {key} /\ key \notin Registered
      BY <1>1, <1>2, <1>10, RegistryAssumption DEF Registered
    <2>2. Cardinality(Registered') = Cardinality(Registered) + 1
      BY <2>1, FS_AddElement DEF CountInv
    <2> QED BY <1>1, <1>4, <1>8, <1>10, <2>2 DEF CountIsExact, CountInv
  <1> QED BY <1>9, <1>10

(* A release that removes an agent owes its slot, and pays it once.        *)
LEMMA ReleaseCounts ==
  ASSUME MInv, CountInv, (\E a \in Agents : ReleaseEntry(a)) \/ ReleaseCount
  PROVE  CountInv' /\ (CountIsExact => CountIsExact')
  <1>0. Cardinality(Registered) \in Nat /\ Cardinality(Holders) \in Nat
    BY FS_CardinalityType DEF CountInv
  <1>1. ASSUME NEW a \in Agents, ReleaseEntry(a)
        PROVE  CountInv' /\ (CountIsExact => CountIsExact')
    <2> DEFINE key == threadPaths[a]
    <2>1. Holders' = Holders /\ count' = count
      BY <1>1 DEF Holders, ReleaseEntry
    <2>2. tree' = [k \in Keys |-> IF k = key THEN Absent ELSE tree[k]]
      BY <1>1 DEF ReleaseEntry
    <2>3. key \in Keys => tree[key] = a
      BY RegistryAssumption DEF MInv, MapsAgree
    <2>4. key \in Keys \cup {NoKey}
      BY DEF MInv, MapType
    <2>5. CASE key \in Keys \ {RootPath}
      <3>1. Registered' = Registered \ {key} /\ key \in Registered
        BY <2>2, <2>3, <2>5, RegistryAssumption DEF Registered
      <3>2. IsFiniteSet(Registered')
            /\ Cardinality(Registered') = Cardinality(Registered) - 1
        BY <3>1, FS_RemoveElement DEF CountInv
      <3>3. owed' = owed + 1
        BY <1>1, <2>3, <2>5, RegistryAssumption DEF ReleaseEntry
      <3> QED BY <1>0, <2>1, <3>2, <3>3 DEF CountInv, CountIsExact
    <2>6. CASE key \notin Keys \ {RootPath}
      <3>1. Registered' = Registered
        BY <2>2, <2>6 DEF Registered
      <3>2. owed' = owed
        BY <1>1, <2>6 DEF ReleaseEntry
      <3> QED BY <2>1, <3>1, <3>2, SameCount
    <2> QED BY <2>5, <2>6
  <1>2. CASE ReleaseCount
    <2>1. Holders' = Holders /\ Registered' = Registered
      BY <1>2 DEF Holders, Registered, ReleaseCount
    <2>2. count' = count - 1 /\ owed' = owed - 1 /\ owed > 0
      BY <1>2 DEF ReleaseCount
    <2>3. /\ count' \in Nat /\ owed' \in Nat
          /\ count' >= Cardinality(Registered) + Cardinality(Holders) + owed'
          /\ CountIsExact
             => count' = Cardinality(Registered) + Cardinality(Holders) + owed'
      <3> DEFINE a == Cardinality(Registered)
                 b == Cardinality(Holders)
      <3>1. a \in Nat /\ b \in Nat /\ count \in Nat /\ owed \in Nat /\ count >= a + b + owed
        BY <1>0 DEF CountInv
      <3> HIDE DEF a, b
      <3>2. owed' \in Nat /\ count' \in Nat
        BY <2>2, <3>1
      <3>3. count' >= a + b + owed' /\ (count = a + b + owed => count' = a + b + owed')
        BY <2>2, <3>1
      <3> QED BY <3>2, <3>3 DEF CountIsExact, a, b
    <2> QED BY <2>1, <2>3 DEF CountInv, CountIsExact
  <1> QED BY <1>1, <1>2

-----------------------------------------------------------------------------
(* Sessions without resumes: where the invariant holds, a commit adds      *)
(* exactly one agent.                                                      *)
LEMMA CommitIsFresh ==
  ASSUME MInv, FreshInv, RestoreInv, NEW s \in Spawners, Commit(s),
         NEW key, key = IF res[s].path = NoPath THEN res[s].thread ELSE res[s].path,
         NoResume
  PROVE  /\ threadPaths[res[s].thread] = NoKey /\ tree[key] \notin Agents
         /\ res[s].thread \in Threads /\ res[s].thread \in known
         /\ stored[res[s].thread] = res[s].path
         /\ key = KeyOf(res[s].thread)
  <1> DEFINE t == res[s].thread
  <1>1. \/ res[s].pc = "created"
        \/ res[s].pc = "named" /\ res[s].op = "Restore"
    BY DEF Commit
  <1>2. threadPaths[t] = NoKey /\ t \in known /\ stored[t] = res[s].path
    BY <1>1 DEF FreshInv, RestoreInv
  <1>3. t \in Threads /\ key = KeyOf(t)
    BY <1>2 DEF MInv, MapType, KeyOf
  <1>4. tree[key] \notin Agents
    <2>1. CASE res[s].path = NoPath
      <3>1. SUFFICES ASSUME tree[t] \in Agents PROVE FALSE
        BY <2>1
      <3>2. threadPaths[tree[t]] = t
        BY <3>1, <1>3 DEF MInv, MapsAgree, Keys
      <3>3. tree[t] # Root
        BY <3>2, <1>3, RegistryAssumption DEF MInv, RootInv, Keys
      <3>4. KeyOf(tree[t]) = t /\ tree[t] \in Threads
        BY <3>1, <3>2, <3>3, <1>3, RegistryAssumption DEF FreshInv, Agents, Keys
      <3>5. tree[t] = t
        BY <3>4, <1>3, RegistryAssumption DEF KeyOf, MInv, MapType
      <3> QED BY <1>2, <1>3, <3>2, <3>5, RegistryAssumption DEF Keys
    <2>2. CASE res[s].path # NoPath
      <3>1. Holds(s, key) /\ key \in Paths
        BY <1>1, <2>2 DEF Holds, MInv, MapType
      <3> QED BY <3>1, RegistryAssumption DEF MInv, HeldInv
    <2> QED BY <2>1, <2>2
  <1> QED BY <1>2, <1>3, <1>4

(* A new reservation: a restore begins with an unregistered thread.        *)
LEMMA ReserveSlotFresh ==
  ASSUME MInv, FreshInv, RestoreInv, NEW s \in Spawners,
         Spawn(s) \/ Resume(s) \/ Restore(s), NoResume
  PROVE  FreshInv' /\ RestoreInv'
  <1>1. ~Resume(s)
    BY DEF Resume, ReserveSlot, NoResume
  <1>2. PICK op \in SpawnOps, t \in Threads \cup {NoThread} :
          /\ ReserveSlot(s, op, t)
          /\ op = "Restore" =>
               /\ t \in known /\ threadPaths[t] = NoKey
               /\ \A r \in Spawners : ~Restoring(r)
    BY <1>1 DEF Spawn, Restore, SpawnOps, MInv, MapType, Restoring
  <1>3. /\ res' = [res EXCEPT ![s] = [pc |-> "slot", op |-> op, path |-> NoPath,
                                      thread |-> t]]
        /\ op \in ops \cap VersionOps
        /\ UNCHANGED <<threadPaths, known, stored, version, ops>>
    BY <1>2 DEF ReserveSlot
  <1>4. /\ \A r \in Spawners \ {s} : res'[r] = res[r]
        /\ res'[s] = [pc |-> "slot", op |-> op, path |-> NoPath, thread |-> t]
    BY <1>3 DEF MInv, MapType
  <1>5. FreshInv'
    BY <1>3, <1>4 DEF FreshInv, KeyOf, VersionOps
  <1>6. RestoreInv'
    BY <1>2, <1>3, <1>4 DEF RestoreInv, Restoring
  <1> QED BY <1>5, <1>6

(* A restore whose thread got registered meanwhile finds its path taken.   *)
LEMMA PrepareFresh ==
  ASSUME MInv, FreshInv, RestoreInv, NEW s \in Spawners, Prepare(s), NoResume
  PROVE  FreshInv' /\ RestoreInv'
  <1>1. PICK maps \in {RegisterRoot, <<tree, threadPaths>>}, p \in PathsFor(s) :
          /\ threadPaths' = maps[2]
          /\ \/ res' = [res EXCEPT ![s].pc = "drop_path"]
             \/ /\ p = NoPath \/ tree[p] = Absent
                /\ res' = [res EXCEPT ![s].pc = "named", ![s].path = p]
    BY DEF Prepare
  <1>2. \A t \in Threads : threadPaths'[t] = threadPaths[t]
    BY <1>1, RegistryAssumption DEF RegisterRoot, MInv, MapType, Agents
  <1>3. res[s].pc = "slot" /\ UNCHANGED <<known, stored, version, ops>>
    BY DEF Prepare
  <1>4. /\ \A r \in Spawners \ {s} : res'[r] = res[r]
        /\ res'[s].op = res[s].op /\ res'[s].thread = res[s].thread
        /\ \/ res'[s].pc = "drop_path"
           \/ /\ res'[s].pc = "named" /\ res'[s].path = p
              /\ p = NoPath \/ tree[p] = Absent
    BY <1>1 DEF MInv, MapType
  <1>5. /\ res[s].op = "SpawnV1" => p = NoPath
        /\ res[s].op = "SpawnV2" => p \in Paths
        /\ res[s].op = "Restore" => p = stored[res[s].thread]
    BY DEF PathsFor
  <1>6. known \subseteq Threads
    BY DEF MInv, MapType
  <1>7. FreshInv'
    BY <1>2, <1>3, <1>4, <1>5, <1>6 DEF FreshInv, KeyOf, VersionOps
  <1>8. ASSUME res[s].op = "Restore", res'[s].pc = "named"
        PROVE  threadPaths[res[s].thread] = NoKey
    <2> DEFINE t == res[s].thread
    <2>1. t \in known /\ (stored[t] = NoPath => threadPaths[t] = NoKey)
      BY <1>3, <1>8 DEF RestoreInv
    <2>2. SUFFICES ASSUME threadPaths[t] # NoKey PROVE FALSE
      OBVIOUS
    <2>3. threadPaths[t] = p /\ p \in Paths
      BY <1>5, <1>6, <1>8, <2>1, <2>2 DEF FreshInv, KeyOf, MInv, MapType
    <2>4. tree[p] = t
      BY <1>6, <2>1, <2>2, <2>3 DEF MInv, MapsAgree, Agents
    <2> QED BY <1>4, <1>6, <1>8, <2>1, <2>3, <2>4, RegistryAssumption DEF Keys, Agents
  <1>9. RestoreInv'
    BY <1>2, <1>3, <1>4, <1>5, <1>6, <1>8 DEF RestoreInv, Restoring
  <1> QED BY <1>7, <1>9

(* A new thread is unknown to the maps and to every other spawn.           *)
LEMMA CreateFresh ==
  ASSUME MInv, FreshInv, RestoreInv, NEW s \in Spawners,
         CreateThread(s) \/ CreateFails(s), NoResume
  PROVE  FreshInv' /\ RestoreInv'
  <1>1. CASE CreateFails(s)
    <2>1. /\ \A r \in Spawners \ {s} : res'[r] = res[r]
          /\ res'[s].op = res[s].op /\ res'[s].pc = "drop_path"
          /\ res[s].op # "Restore" /\ res[s].pc = "named"
          /\ UNCHANGED <<threadPaths, known, stored, version, ops>>
      BY <1>1 DEF CreateFails, MInv, MapType
    <2> QED BY <2>1 DEF FreshInv, RestoreInv, Restoring, KeyOf, VersionOps
  <1>2. CASE CreateThread(s)
    <2>1. res[s].op # "Resume" /\ res[s].op # "Restore" /\ res[s].pc = "named"
      BY <1>2 DEF CreateThread, FreshInv, NoResume
    <2>2. PICK t \in Threads \ known :
            /\ known' = known \cup {t}
            /\ stored' = [stored EXCEPT ![t] = res[s].path]
            /\ res' = [res EXCEPT ![s].pc = "created", ![s].thread = t]
            /\ UNCHANGED <<threadPaths, version, ops>>
      BY <1>2, <2>1 DEF CreateThread
    <2>3. /\ \A r \in Spawners \ {s} : res'[r] = res[r]
          /\ res'[s].op = res[s].op /\ res'[s].pc = "created"
          /\ res'[s].thread = t /\ res'[s].path = res[s].path
      BY <2>2 DEF MInv, MapType
    <2>4. \A u \in Threads : u # t => stored'[u] = stored[u]
      BY <2>2 DEF MInv, MapType
    <2>5. stored'[t] = res[s].path /\ threadPaths[t] = NoKey
      BY <2>2 DEF MInv, MapType, FreshInv
    <2>6. known \subseteq Threads
      BY DEF MInv, MapType
    <2>7. /\ known' = known \cup {t} /\ t \notin known /\ t \in Threads
          /\ UNCHANGED <<threadPaths, version, ops>>
      BY <2>2
    <2>8. FreshInv'
      <3>1. \A u \in Threads : threadPaths'[u] # NoKey => threadPaths'[u] = KeyOf(u)'
        BY <2>4, <2>5, <2>7 DEF FreshInv, KeyOf
      <3>2. \A r \in Spawners : res'[r].pc = "created" =>
              /\ res'[r].op # "Restore" /\ res'[r].thread \in known'
              /\ threadPaths'[res'[r].thread] = NoKey
              /\ stored'[res'[r].thread] = res'[r].path
        BY <2>1, <2>3, <2>4, <2>5, <2>6, <2>7 DEF FreshInv
      <3>3. \A r \in Spawners \ {s} : res[r].pc = "created" => res[r].thread # t
        BY <2>7 DEF FreshInv
      <3>4. \A q, r \in Spawners :
              res'[q].pc = "created" /\ res'[r].pc = "created"
              /\ res'[q].thread = res'[r].thread => q = r
        BY <2>3, <3>3 DEF FreshInv
      <3>5. \A r \in Spawners : res'[r].pc \in {"named", "created"} =>
              /\ res'[r].op = "SpawnV1" => res'[r].path = NoPath
              /\ res'[r].op = "SpawnV2" => res'[r].path \in Paths
        BY <2>1, <2>3 DEF FreshInv
      <3>6. \A r \in Spawners : res'[r].pc # "idle" => res'[r].op \in (ops \cap VersionOps)'
        BY <2>1, <2>3, <2>7 DEF FreshInv, VersionOps
      <3>7. \A u \in Threads : threadPaths'[u] # NoKey => u \in known'
        BY <2>7 DEF FreshInv
      <3> QED BY <3>1, <3>2, <3>4, <3>5, <3>6, <3>7 DEF FreshInv
    <2>9. RestoreInv'
      <3>1. \A r \in Spawners : Restoring(r)' <=> Restoring(r) /\ r # s
        BY <2>1, <2>3 DEF Restoring
      <3>2. ASSUME NEW r \in Spawners, res'[r].op = "Restore", res'[r].pc \in {"slot", "named"}
            PROVE  /\ res'[r].thread \in known'
                   /\ res'[r].pc = "named" => /\ res'[r].path = stored'[res'[r].thread]
                                              /\ threadPaths'[res'[r].thread] = NoKey
                   /\ res'[r].pc = "slot" /\ stored'[res'[r].thread] = NoPath
                      => threadPaths'[res'[r].thread] = NoKey
        <4>1. res'[r] = res[r] /\ res[r].thread \in known /\ res[r].thread # t
          BY <2>3, <2>7, <3>2 DEF RestoreInv
        <4> QED BY <2>4, <2>6, <2>7, <3>2, <4>1 DEF RestoreInv
      <3> QED BY <3>1, <3>2 DEF RestoreInv
    <2> QED BY <2>8, <2>9
  <1> QED BY <1>1, <1>2

(* The thread is registered by one spawn: no other one holds it.           *)
LEMMA CommitFresh ==
  ASSUME MInv, FreshInv, RestoreInv, NEW s \in Spawners, Commit(s), NoResume
  PROVE  FreshInv' /\ RestoreInv'
  <1> DEFINE t == res[s].thread
             key == IF res[s].path = NoPath THEN t ELSE res[s].path
  <1>1. /\ threadPaths[t] = NoKey /\ tree[key] \notin Agents
        /\ t \in Threads /\ t \in known /\ stored[t] = res[s].path /\ key = KeyOf(t)
    BY CommitIsFresh
  <1>2. /\ threadPaths' = [a \in Agents |-> IF a = t THEN key
                               ELSE IF a = tree[key] THEN NoKey ELSE threadPaths[a]]
        /\ res' = [res EXCEPT ![s] = Idle]
        /\ UNCHANGED <<known, stored, version, ops>>
    BY DEF Commit
  <1>3. /\ threadPaths'[t] = KeyOf(t)
        /\ \A u \in Threads : u # t => threadPaths'[u] = threadPaths[u]
    BY <1>1, <1>2 DEF Agents
  <1>4. /\ \A r \in Spawners \ {s} : res'[r] = res[r]
        /\ res'[s] = Idle
    BY <1>2 DEF MInv, MapType
  <1>5. \A r \in Spawners \ {s} : res[r].pc = "created" => res[r].thread # t
    <2> SUFFICES ASSUME NEW r \in Spawners \ {s}, res[r].pc = "created", res[r].thread = t
                 PROVE  FALSE
      OBVIOUS
    <2>1. CASE res[s].pc = "created"
      BY <2>1 DEF FreshInv
    <2>2. CASE res[s].pc = "named" /\ res[s].op = "Restore"
      <3>1. res[r].path = res[s].path
        BY <1>1 DEF FreshInv
      <3>2. res[r].op = "SpawnV2"
        BY <2>2 DEF FreshInv, VersionOps, NoResume
      <3>3. Holds(r, res[s].path) /\ Holds(s, res[s].path) /\ res[s].path \in Paths
        BY <2>2, <3>1, <3>2 DEF Holds, FreshInv
      <3> QED BY <3>3 DEF MInv, HeldInv
    <2> QED BY <2>1, <2>2 DEF Commit
  <1>6. \A r \in Spawners \ {s} :
          res[r].op = "Restore" /\ res[r].pc = "named" => res[r].thread # t
    <2> SUFFICES ASSUME NEW r \in Spawners \ {s}, res[r].thread = t,
                        res[r].op = "Restore", res[r].pc = "named"
                 PROVE  FALSE
      OBVIOUS
    <2>1. res[s].pc = "created"
      BY DEF Commit, RestoreInv, Restoring
    <2>2. res[s].op = "SpawnV2"
      BY <2>1 DEF FreshInv, VersionOps, NoResume
    <2>3. res[r].path = res[s].path /\ res[s].path \in Paths
      BY <1>1, <2>1, <2>2 DEF FreshInv, RestoreInv
    <2>4. Holds(r, res[s].path) /\ Holds(s, res[s].path)
      BY <2>1, <2>3 DEF Holds
    <2> QED BY <2>3, <2>4 DEF MInv, HeldInv
  <1>7. \A r \in Spawners \ {s} :
          res[r].op = "Restore" /\ res[r].pc = "slot" /\ stored[res[r].thread] = NoPath
          => res[r].thread # t
    <2> SUFFICES ASSUME NEW r \in Spawners \ {s}, res[r].thread = t,
                        res[r].op = "Restore", res[r].pc = "slot", stored[t] = NoPath
                 PROVE  FALSE
      OBVIOUS
    <2>1. res[s].pc = "created"
      BY DEF Commit, RestoreInv, Restoring
    <2>2. res[s].op = "SpawnV2"
      BY <2>1 DEF FreshInv, VersionOps, NoResume
    <2> QED BY <1>1, <2>1, <2>2, RegistryAssumption DEF FreshInv, Keys
  <1>8. known \subseteq Threads
    BY DEF MInv, MapType
  <1>9. FreshInv'
    <2>1. \A u \in Threads : threadPaths'[u] # NoKey
                             => u \in known' /\ threadPaths'[u] = KeyOf(u)'
      BY <1>1, <1>2, <1>3 DEF FreshInv, KeyOf
    <2>2. \A r \in Spawners : res'[r].pc = "created" =>
            /\ res'[r].op # "Restore" /\ res'[r].thread \in known'
            /\ threadPaths'[res'[r].thread] = NoKey
            /\ stored'[res'[r].thread] = res'[r].path
      BY <1>2, <1>3, <1>4, <1>5, <1>8 DEF FreshInv, Idle
    <2> QED BY <1>2, <1>4, <2>1, <2>2 DEF FreshInv, VersionOps, Idle
  <1>10. RestoreInv'
    <2>1. \A r \in Spawners : Restoring(r)' => Restoring(r)
      BY <1>4 DEF Restoring, Idle
    <2>2. ASSUME NEW r \in Spawners, res'[r].op = "Restore", res'[r].pc \in {"slot", "named"}
          PROVE  /\ res'[r].thread \in known'
                 /\ res'[r].pc = "named" => /\ res'[r].path = stored'[res'[r].thread]
                                            /\ threadPaths'[res'[r].thread] = NoKey
                 /\ res'[r].pc = "slot" /\ stored'[res'[r].thread] = NoPath
                    => threadPaths'[res'[r].thread] = NoKey
      <3>1. r # s /\ res'[r] = res[r] /\ res[r].thread \in Threads
        BY <1>4, <1>8, <2>2 DEF RestoreInv, Idle
      <3> QED BY <1>2, <1>3, <1>6, <1>7, <2>2, <3>1 DEF RestoreInv
    <2> QED BY <2>1, <2>2 DEF RestoreInv
  <1> QED BY <1>9, <1>10

(* The other steps: a reservation ends, or an agent leaves the maps.       *)
LEMMA LeaveFresh ==
  ASSUME MInv, FreshInv, RestoreInv,
         UNCHANGED <<known, stored, version, ops>>,
         \A t \in Threads : threadPaths'[t] \in {threadPaths[t], NoKey},
         \A s \in Spawners : \/ res'[s] = res[s]
                            \/ /\ res'[s].pc \in {"idle", "drop_count"}
                               /\ res[s].pc # "idle"
                               /\ res'[s].op \in {res[s].op, Idle.op}
                               /\ res'[s].pc # "idle" => res'[s].op = res[s].op
  PROVE  FreshInv' /\ RestoreInv'
  <1>1. known \subseteq Threads
    BY DEF MInv, MapType
  <1>2. FreshInv'
    <2>1. \A u \in Threads : threadPaths'[u] # NoKey
                             => u \in known' /\ threadPaths'[u] = KeyOf(u)'
      BY DEF FreshInv, KeyOf
    <2>2. \A r \in Spawners : res'[r].pc = "created" =>
            /\ res'[r].op # "Restore" /\ res'[r].thread \in known'
            /\ threadPaths'[res'[r].thread] = NoKey
            /\ stored'[res'[r].thread] = res'[r].path
      BY <1>1 DEF FreshInv
    <2> QED BY <2>1, <2>2 DEF FreshInv, VersionOps
  <1>3. RestoreInv'
    <2>1. \A r \in Spawners : Restoring(r)' => Restoring(r)
      BY DEF Restoring, Idle
    <2>2. ASSUME NEW r \in Spawners, res'[r].op = "Restore", res'[r].pc \in {"slot", "named"}
          PROVE  /\ res'[r].thread \in known'
                 /\ res'[r].pc = "named" => /\ res'[r].path = stored'[res'[r].thread]
                                            /\ threadPaths'[res'[r].thread] = NoKey
                 /\ res'[r].pc = "slot" /\ stored'[res'[r].thread] = NoPath
                    => threadPaths'[res'[r].thread] = NoKey
      BY <1>1, <2>2 DEF RestoreInv
    <2> QED BY <2>1, <2>2 DEF RestoreInv
  <1> QED BY <1>2, <1>3

-----------------------------------------------------------------------------
(* What the count is worth, in all sessions and in those without resumes.  *)
CInv == MInv /\ CountInv /\ ExactInv /\ version \in {"V1", "V2"} /\ ops \in Scopes

(* Initially nothing is counted.                                           *)
LEMMA InitCInv == Init => CInv
  <1> SUFFICES ASSUME Init PROVE CInv
    OBVIOUS
  <1>1. Registered = {} /\ Holders = {}
    BY RegistryAssumption DEF Init, Registered, Holders, Idle, Keys, Agents
  <1>2. CountInv /\ CountIsExact
    BY <1>1, FS_EmptySet DEF Init, CountInv, CountIsExact
  <1>3. FreshInv /\ RestoreInv
    <2>1. \A t \in Threads : threadPaths[t] = NoKey
      BY RegistryAssumption DEF Init, Agents
    <2>2. \A s \in Spawners : res[s] = Idle
      BY DEF Init
    <2> QED BY <2>1, <2>2 DEF FreshInv, RestoreInv, Restoring, Idle
  <1> QED BY <1>2, <1>3, InitMInv DEF CInv, ExactInv, Init

(* The count, step by step.                                                *)
LEMMA NextCInv == CInv /\ [Next]_vars => CInv'
  <1> SUFFICES ASSUME CInv, [Next]_vars PROVE CInv'
    OBVIOUS
  <1>0. MInv' /\ MInv /\ CountInv /\ UNCHANGED <<version, ops>>
    <2>1. UNCHANGED <<version, ops>>
      BY DEF Next, vars, Spawn, Resume, Restore, ReserveSlot, SpawnerStep, Prepare,
             CreateThread, CreateFails, Commit, DropPath, DropCount, Close,
             ReleaseEntry, Unload, ReleaseCount
    <2> QED BY <2>1, NextMInv DEF CInv
  <1> SUFFICES /\ CountInv'
               /\ NoResume => (/\ FreshInv /\ RestoreInv /\ CountIsExact
                               => FreshInv' /\ RestoreInv' /\ CountIsExact')
    BY <1>0 DEF CInv, ExactInv, NoResume
  <1> DEFINE Goal == /\ CountInv'
                     /\ NoResume => (/\ FreshInv /\ RestoreInv /\ CountIsExact
                                     => FreshInv' /\ RestoreInv' /\ CountIsExact')
  <1>1. ASSUME NEW s \in Spawners, Spawn(s) \/ Resume(s) \/ Restore(s) PROVE Goal
    <2>1. \E op, t : ReserveSlot(s, op, t)
      BY <1>1 DEF Spawn, Resume, Restore
    <2>2. CountInv' /\ (CountIsExact => CountIsExact')
      BY <1>0, <2>1, ReserveSlotCount
    <2> QED BY <1>0, <1>1, <2>2, ReserveSlotFresh
  <1>2. ASSUME NEW s \in Spawners, Prepare(s) PROVE Goal
    BY <1>0, <1>2, PrepareCount, PrepareFresh
  <1>3. ASSUME NEW s \in Spawners, CreateThread(s) \/ CreateFails(s) PROVE Goal
    <2>1. CountInv' /\ (CountIsExact => CountIsExact')
      BY <1>0, <1>3, CreateCount
    <2>2. NoResume /\ FreshInv /\ RestoreInv => FreshInv' /\ RestoreInv'
      BY <1>0, <1>3, CreateFresh
    <2> QED BY <2>1, <2>2
  <1>4. ASSUME NEW s \in Spawners, Commit(s) PROVE Goal
    <2> DEFINE key == IF res[s].path = NoPath THEN res[s].thread ELSE res[s].path
    <2>1. /\ CountInv'
          /\ CountIsExact /\ threadPaths[res[s].thread] = NoKey /\ tree[key] \notin Agents
             => CountIsExact'
      BY <1>0, <1>4, CommitCount
    <2>2. NoResume /\ FreshInv /\ RestoreInv
          => threadPaths[res[s].thread] = NoKey /\ tree[key] \notin Agents
      BY <1>0, <1>4, CommitIsFresh
    <2>3. NoResume /\ FreshInv /\ RestoreInv => FreshInv' /\ RestoreInv'
      BY <1>0, <1>4, CommitFresh
    <2> QED BY <2>1, <2>2, <2>3
  <1>5. ASSUME NEW s \in Spawners, DropPath(s) \/ DropCount(s) PROVE Goal
    <2>1. CountInv' /\ (CountIsExact => CountIsExact')
      BY <1>0, <1>5, DropCounts
    <2>2. /\ UNCHANGED <<threadPaths, known, stored>>
          /\ \A r \in Spawners \ {s} : res'[r] = res[r]
          /\ \/ res'[s].pc = "drop_count" /\ res'[s].op = res[s].op
             \/ res'[s].pc = "idle" /\ res'[s].op = Idle.op
          /\ res[s].pc # "idle"
      BY <1>0, <1>5 DEF DropPath, DropCount, MInv, MapType, Idle
    <2>3. NoResume /\ FreshInv /\ RestoreInv => FreshInv' /\ RestoreInv'
      BY <1>0, <2>2, LeaveFresh
    <2> QED BY <2>1, <2>3
  <1>6. ASSUME NEW a \in Agents, ReleaseEntry(a) PROVE Goal
    <2>1. CountInv' /\ (CountIsExact => CountIsExact')
      BY <1>0, <1>6, ReleaseCounts
    <2>2. /\ UNCHANGED <<known, stored, res>>
          /\ \A t \in Threads : threadPaths'[t] \in {threadPaths[t], NoKey}
      BY <1>0, <1>6 DEF ReleaseEntry, MInv, MapType, Agents
    <2>3. NoResume /\ FreshInv /\ RestoreInv => FreshInv' /\ RestoreInv'
      BY <1>0, <2>2, LeaveFresh
    <2> QED BY <2>1, <2>3
  <1>7. CASE ReleaseCount
    <2>1. CountInv' /\ (CountIsExact => CountIsExact')
      BY <1>0, <1>7, ReleaseCounts
    <2>2. UNCHANGED <<threadPaths, known, stored, res>>
      BY <1>7 DEF ReleaseCount
    <2>3. NoResume /\ FreshInv /\ RestoreInv => FreshInv' /\ RestoreInv'
      BY <1>0, <2>2, LeaveFresh
    <2> QED BY <2>1, <2>3
  <1>8. CASE (\E a \in Agents : Close(a) \/ Unload(a)) \/ UNCHANGED vars
    <2>1. UNCHANGED <<tree, threadPaths, count, known, stored, owed, res>>
      BY <1>8 DEF Close, Unload, vars
    <2>2. CountInv' /\ (CountIsExact => CountIsExact')
      <3>1. Registered' = Registered /\ Holders' = Holders
        BY <2>1 DEF Registered, Holders
      <3> QED BY <1>0, <2>1, <3>1, SameCount
    <2>3. NoResume /\ FreshInv /\ RestoreInv => FreshInv' /\ RestoreInv'
      BY <1>0, <2>1, LeaveFresh
    <2> QED BY <2>2, <2>3
  <1> QED BY <1>1, <1>2, <1>3, <1>4, <1>5, <1>6, <1>7, <1>8 DEF Next, SpawnerStep

(* CInv is an invariant of the specification.                              *)
LEMMA SpecCInv == Spec => []CInv
  BY InitCInv, NextCInv, PTL DEF Spec

(***************************************************************************)
(* The maps, the reservations and the count have their types; in           *)
(* particular the count never wraps below zero, although a release and a   *)
(* dropped reservation subtract from it outside the lock.                  *)
(***************************************************************************)
THEOREM SpecTypeOK == Spec => []TypeOK
  <1>1. CInv => TypeOK
    BY DEF CInv, MInv, MapType, CountInv, TypeOK
  <1> QED BY <1>1, SpecCInv, PTL

(***************************************************************************)
(* Every agent, reservation and unpaid release is counted, and the count   *)
(* is exact in sessions that resume no agent.                              *)
(***************************************************************************)
THEOREM SpecCountCoversAgents == Spec => []CountCoversAgents
  <1>1. CInv => CountCoversAgents
    BY DEF CInv, CountInv, ExactInv, NoResume, CountCoversAgents
  <1> QED BY <1>1, SpecCInv, PTL

-----------------------------------------------------------------------------
(* Initially no thread is loaded.                                          *)
LEMMA InitLimitInv == Init => LimitInv
  BY RegistryAssumption DEF Init, LimitInv

(* Spawning tests the count; a thread that is loaded is registered, or its *)
(* spawn is about to commit; a close unloads it before it releases it.     *)
LEMMA NextLimitInv == CInv /\ LimitInv /\ [Next]_vars => LimitInv'
  <1> SUFFICES ASSUME CInv, LimitInv, [Next]_vars, (version = "V1" /\ NoResume)'
               PROVE  /\ (count <= MaxThreads)'
                      /\ (closing \cap loaded = {})' /\ (closing \subseteq known \cup {Root})'
                      /\ (\A t \in loaded :
                            \/ threadPaths[t] # NoKey
                            \/ \E s \in Spawners :
                                 res[s].pc = "created" /\ res[s].thread = t)'
    BY DEF LimitInv
  <1>0. UNCHANGED <<version, ops>>
    BY DEF Next, vars, Spawn, Resume, Restore, ReserveSlot, SpawnerStep, Prepare,
           CreateThread, CreateFails, Commit, DropPath, DropCount, Close,
           ReleaseEntry, Unload, ReleaseCount
  <1>1. /\ MInv /\ CountInv /\ FreshInv /\ RestoreInv
        /\ version = "V1" /\ NoResume
        /\ count \in Nat /\ MaxThreads \in Nat
    BY <1>0, RegistryAssumption DEF CInv, ExactInv, NoResume, CountInv
  <1> DEFINE Made(t) == \E s \in Spawners : res[s].pc = "created" /\ res[s].thread = t
  <1>2. /\ count <= MaxThreads
        /\ closing \cap loaded = {} /\ closing \subseteq known \cup {Root}
        /\ \A t \in loaded : threadPaths[t] # NoKey \/ Made(t)
        /\ loaded \subseteq Threads /\ known \subseteq Threads
    BY <1>1 DEF LimitInv, MInv, MapType
  <1> DEFINE Rest == /\ (closing \cap loaded = {})' /\ (closing \subseteq known \cup {Root})'
                     /\ \A t \in loaded' : threadPaths'[t] # NoKey \/ Made(t)'
  <1>3. ASSUME NEW s \in Spawners, Spawn(s) \/ Resume(s) \/ Restore(s)
        PROVE  count' <= MaxThreads /\ Rest
    <2>1. PICK op, t : ReserveSlot(s, op, t)
      BY <1>3 DEF Spawn, Resume, Restore
    <2>2. count' = count + 1 /\ count < MaxThreads
          /\ UNCHANGED <<loaded, closing, known, threadPaths>> /\ res[s].pc = "idle"
          /\ \A r \in Spawners \ {s} : res'[r] = res[r]
      BY <1>1, <2>1 DEF ReserveSlot, MInv, MapType
    <2> QED BY <1>1, <1>2, <2>2
  <1>4. ASSUME NEW s \in Spawners, Prepare(s) \/ CreateFails(s) \/ DropPath(s) \/ DropCount(s)
        PROVE  count' <= MaxThreads /\ Rest
    <2>1. count' \in {count, count - 1} /\ UNCHANGED <<loaded, closing, known>>
      BY <1>4 DEF Prepare, CreateFails, DropPath, DropCount
    <2>2. \A t \in Threads : threadPaths'[t] = threadPaths[t]
      <3>1. CASE Prepare(s)
        <4>1. \E maps \in {RegisterRoot, <<tree, threadPaths>>} : threadPaths' = maps[2]
          BY <3>1 DEF Prepare
        <4> QED BY <1>1, <4>1, RegistryAssumption DEF RegisterRoot, MInv, MapType, Agents
      <3> QED BY <1>4, <3>1 DEF CreateFails, DropPath, DropCount
    <2>3. res[s].pc # "created" /\ \A r \in Spawners \ {s} : res'[r] = res[r]
      BY <1>1, <1>4 DEF Prepare, CreateFails, DropPath, DropCount, MInv, MapType
    <2> QED BY <1>1, <1>2, <2>1, <2>2, <2>3
  <1>5. ASSUME NEW s \in Spawners, CreateThread(s) PROVE count' <= MaxThreads /\ Rest
    <2>1. res[s].op # "Resume" /\ res[s].pc = "named"
      BY <1>1, <1>5 DEF CreateThread, FreshInv, NoResume
    <2>2. PICK t \in Threads \ known :
            /\ loaded' = loaded \cup {t} /\ known' = known \cup {t}
            /\ res' = [res EXCEPT ![s].pc = "created", ![s].thread = t]
            /\ UNCHANGED <<threadPaths, count, closing>>
      BY <1>5, <2>1 DEF CreateThread
    <2>3. /\ res'[s].pc = "created" /\ res'[s].thread = t
          /\ \A r \in Spawners \ {s} : res'[r] = res[r]
      BY <1>1, <2>2 DEF MInv, MapType
    <2>4. t # Root
      BY RegistryAssumption
    <2>5. \A u \in Threads : Made(u) => Made(u)'
      BY <2>1, <2>3
    <2>6. \A u \in loaded' : threadPaths'[u] # NoKey \/ Made(u)'
      BY <1>2, <2>2, <2>3, <2>5
    <2>7. (closing \cap loaded = {})' /\ (closing \subseteq known \cup {Root})'
      BY <1>2, <2>2, <2>4
    <2> QED BY <1>2, <2>2, <2>6, <2>7
  <1>6. ASSUME NEW s \in Spawners, Commit(s) PROVE count' <= MaxThreads /\ Rest
    <2> DEFINE t == res[s].thread
               key == IF res[s].path = NoPath THEN t ELSE res[s].path
    <2>1. tree[key] \notin Agents /\ t \in Threads /\ key = KeyOf(t)
      BY <1>1, <1>6, CommitIsFresh
    <2>2. /\ threadPaths' = [a \in Agents |-> IF a = t THEN key
                               ELSE IF a = tree[key] THEN NoKey ELSE threadPaths[a]]
          /\ UNCHANGED <<count, loaded, closing, known>>
          /\ \A r \in Spawners \ {s} : res'[r] = res[r]
      BY <1>1, <1>6 DEF Commit, MInv, MapType
    <2>3. key # NoKey
      BY <1>1, <2>1, RegistryAssumption DEF MInv, MapType, Keys
    <2>4. threadPaths'[t] # NoKey
          /\ \A u \in Threads : u # t => threadPaths'[u] = threadPaths[u]
      BY <2>1, <2>2, <2>3 DEF Agents
    <2>5. \A u \in Threads : u # t /\ Made(u) => Made(u)'
      BY <2>2
    <2> QED BY <1>2, <2>2, <2>4, <2>5
  <1>7. ASSUME NEW a \in Agents, Close(a) \/ Unload(a) \/ ReleaseEntry(a)
        PROVE  count' <= MaxThreads /\ Rest
    <2>1. UNCHANGED <<count, known, res>> /\ loaded' \subseteq loaded
      BY <1>7 DEF Close, Unload, ReleaseEntry
    <2>2. (closing \cap loaded = {})' /\ (closing \subseteq known \cup {Root})'
      BY <1>2, <1>7 DEF Close, Unload, ReleaseEntry
    <2>3. \A t \in loaded' : threadPaths'[t] = threadPaths[t]
      BY <1>1, <1>2, <1>7 DEF Close, Unload, ReleaseEntry, MInv, MapType, Agents
    <2> QED BY <1>2, <2>1, <2>2, <2>3
  <1>8. CASE ReleaseCount \/ UNCHANGED vars
    <2>1. count' \in {count, count - 1}
          /\ UNCHANGED <<loaded, closing, known, threadPaths, res>>
      BY <1>8 DEF ReleaseCount, vars
    <2> QED BY <1>1, <1>2, <2>1
  <1> QED BY <1>3, <1>4, <1>5, <1>6, <1>7, <1>8 DEF Next, SpawnerStep

(* Loaded threads are registered or their spawns hold a slot, one each.    *)
LEMMA LoadedAreCounted ==
  ASSUME CInv, LimitInv, version = "V1", NoResume
  PROVE  Cardinality(loaded) <= MaxThreads
  <1>1. /\ MInv /\ CountInv /\ FreshInv
        /\ count <= MaxThreads /\ count \in Nat /\ owed \in Nat /\ MaxThreads \in Nat
        /\ loaded \subseteq Threads
    BY RegistryAssumption DEF CInv, ExactInv, CountInv, LimitInv, MInv, MapType
  <1> DEFINE A == {t \in loaded : threadPaths[t] # NoKey}
             B == loaded \ A
             MadeBy(t) == CHOOSE s \in Spawners : res[s].pc = "created" /\ res[s].thread = t
             f == [t \in A |-> threadPaths[t]]
             g == [t \in B |-> MadeBy(t)]
  <1>2. f \in Injection(A, Registered)
    <2>1. ASSUME NEW t \in A PROVE f[t] \in Registered /\ tree[f[t]] = t
      <3>1. t \in Threads /\ t \in Agents /\ threadPaths[t] # NoKey /\ t # Root
        BY <1>1, RegistryAssumption DEF Agents
      <3>2. tree[threadPaths[t]] = t /\ threadPaths[t] \in Keys
        BY <1>1, <3>1 DEF MInv, MapsAgree, MapType
      <3>3. threadPaths[t] # RootPath
        BY <1>1, <3>1, <3>2, RegistryAssumption DEF MInv, RootInv, Agents
      <3> QED BY <3>1, <3>2, <3>3 DEF Registered
    <2>2. f \in [A -> Registered]
      BY <2>1
    <2>3. \A t, u \in A : f[t] = f[u] => t = u
      BY <2>1
    <2> QED BY <2>2, <2>3 DEF Injection, IsInjective
  <1>3. g \in Injection(B, Holders)
    <2>1. ASSUME NEW t \in B PROVE g[t] \in Holders /\ res[g[t]].thread = t
      <3>1. \E s \in Spawners : res[s].pc = "created" /\ res[s].thread = t
        BY <1>1 DEF LimitInv
      <3> QED BY <3>1 DEF Holders
    <2>2. g \in [B -> Holders]
      BY <2>1
    <2>3. \A t, u \in B : g[t] = g[u] => t = u
      BY <2>1
    <2> QED BY <2>2, <2>3 DEF Injection, IsInjective
  <1> HIDE DEF f, g
  <1>4. IsFiniteSet(A) /\ Cardinality(A) <= Cardinality(Registered)
    BY <1>1, <1>2, FS_Injection DEF CountInv
  <1>5. IsFiniteSet(B) /\ Cardinality(B) <= Cardinality(Holders)
    BY <1>1, <1>3, FS_Injection DEF CountInv
  <1>6. loaded = A \cup B /\ A \cap B = {}
    OBVIOUS
  <1> HIDE DEF A, B
  <1>7. Cardinality(loaded) = Cardinality(A) + Cardinality(B) - Cardinality(A \cap B)
    BY <1>4, <1>5, <1>6, FS_Union
  <1>8. Cardinality(A \cap B) = 0
    BY <1>6, FS_EmptySet
  <1>9. /\ Cardinality(A) \in Nat /\ Cardinality(B) \in Nat
        /\ Cardinality(Registered) \in Nat /\ Cardinality(Holders) \in Nat
    BY <1>1, <1>4, <1>5, FS_CardinalityType DEF CountInv
  <1>10. count >= Cardinality(Registered) + Cardinality(Holders) + owed
    BY <1>1 DEF CountInv
  <1> QED BY <1>1, <1>4, <1>5, <1>7, <1>8, <1>9, <1>10

(***************************************************************************)
(* A V1 session without resumes never has more sub-agent threads loaded    *)
(* than agent_max_threads, for any number of concurrent spawns and closes. *)
(***************************************************************************)
THEOREM SpecLimitHolds == Spec => []LimitHolds
  <1>1. CInv /\ LimitInv => LimitHolds
    BY LoadedAreCounted DEF LimitHolds, NoResume
  <1>2. Spec => []LimitInv
    BY InitLimitInv, NextLimitInv, SpecCInv, PTL DEF Spec
  <1> QED BY <1>1, <1>2, SpecCInv, PTL
=============================================================================
