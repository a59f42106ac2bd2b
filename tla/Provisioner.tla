---------------------------- MODULE Provisioner ----------------------------
(***************************************************************************)
(* The operator's commands on the Agent Registry and the agents' keys:     *)
(* registry-apply and registry-rekey (provisioner.py, cli.py) and          *)
(* scripts/sync_daytona_secrets.py.  One operator runs one command after   *)
(* another.  The Registry, the Keychain and Daytona's secrets are external. *)
(* A command may fail or be interrupted between any two steps; when a call *)
(* was applied but its response lost, the step of the call is followed by  *)
(* Raise.  A key is revealed once, in the response of the call that issues *)
(* it, and is known here by the generation of the agent's identity.        *)
(***************************************************************************)
EXTENDS Naturals, Sequences, Functions

CONSTANTS Objects,     \* the framework, the provider and the environments
          Agents,
          Plan,        \* the objects and agents, in the order apply visits them
          RekeyOrder,  \* the agents, in the order of registry-rekey
          SyncOrder,   \* the agents, in the order of sync_daytona_secrets
          Renamed,     \* the agent that once had the legacy name
          MaxKeys      \* bound on the generations of an identity

Names == Objects \cup Agents
Generations == 0 .. MaxKeys      \* 0: there is no key

Enumerates(order, set) == order \in Seq(set) /\ IsInjective(order) /\ Range(order) = set

ASSUME MaxKeysAssumption == MaxKeys \in Nat \ {0}
ASSUME NamesAssumption == Objects \cap Agents = {} /\ Renamed \in Agents
ASSUME PlanAssumption == Enumerates(Plan, Names) /\ Plan[1] \in Objects
ASSUME OrderAssumption == Enumerates(RekeyOrder, Agents) /\ Enumerates(SyncOrder, Agents)

VARIABLES
    (* the command that runs: where it is, at which object, the names its   *)
    (* inventories found, the key it holds                                  *)
    pc, at, known, key,
    (* what the commands leave behind *)
    completed,    \* commands completed since a later one of the three began
    stateFile,    \* the agents of the state file
    keychain,     \* agent -> generation of the key in the Keychain
    secret,       \* agent -> generation of the key in its Daytona secret
    (* the Registry *)
    count,        \* name -> how many objects carry it
    legacy,       \* the agent with the legacy name: none, the right one or another
    identity      \* agent -> generation of its identity

localVars == <<completed, stateFile, keychain, secret>>
registryVars == <<count, legacy, identity>>
vars == <<pc, at, known, key, completed, stateFile, keychain, secret, count, legacy, identity>>

Commands == {"apply", "rekey", "sync"}
ApplyPCs == {"inventory", "item", "legacy", "capture", "put", "readback"}
RekeyPCs == {"rotate", "store"}
SyncPCs == {"read", "update"}
PCs == {"idle"} \cup ApplyPCs \cup RekeyPCs \cup SyncPCs

(* A first installation, or one whose agents exist; this machine's Keychain *)
(* and Daytona may hold their keys, and the state file may name them.       *)
Init == /\ pc = "idle" /\ at = 1 /\ known = {} /\ key = 0
        /\ completed = {}
        /\ legacy \in {"none", "expected", "unexpected"}
        /\ count \in [Names -> 0 .. 1]
        /\ legacy # "none" => count[Renamed] = 0
        /\ identity = [a \in Agents |->
                         IF a = Renamed /\ legacy = "expected" THEN 1 ELSE count[a]]
        /\ stateFile \in SUBSET {a \in Agents : identity[a] = 1}
        /\ keychain \in [Agents -> 0 .. 1]
        /\ secret \in [Agents -> 0 .. 1]
        /\ \A a \in Agents : keychain[a] <= identity[a] /\ secret[a] <= identity[a]

Goto(label) == pc' = label /\ UNCHANGED <<at, known, key>>
NextItem(label) == pc' = label /\ at' = at + 1 /\ UNCHANGED <<known, key>>
Finish(command) == Goto("idle") /\ completed' = completed \cup {command}

(* An identity is created or rotated: its older keys are worth nothing.     *)
Issue(a) == identity[a] < MaxKeys /\ identity' = [identity EXCEPT ![a] = @ + 1]
Reveal(a, label) == pc' = label /\ key' = identity'[a] /\ UNCHANGED <<at, known>>

Start(label, keeps) ==
    /\ pc = "idle"
    /\ pc' = label /\ at' = 1 /\ known' = {} /\ key' = 0
    /\ completed' = completed \cap keeps
    /\ UNCHANGED <<stateFile, keychain, secret>> /\ UNCHANGED registryVars

StartApply == Start("inventory", {})
StartRekey == Start("rotate", {"apply"})
StartSync == Start("read", {"apply", "rekey"})

(* Any step may raise instead of acting, and the process may be killed.     *)
Raise == pc # "idle" /\ Goto("idle") /\ UNCHANGED localVars /\ UNCHANGED registryVars

-----------------------------------------------------------------------------
(* registry-apply.  The four inventories are read first.                    *)
InventoryOfState ==   \* mutant: the state file is trusted instead
    /\ pc = "inventory"
    /\ known' = stateFile \cup {n \in Objects : count[n] > 0}
    /\ pc' = "item" /\ UNCHANGED <<at, key>>
    /\ UNCHANGED localVars /\ UNCHANGED registryVars
Inventory ==
    /\ pc = "inventory"
    /\ known' = {n \in Names : count[n] > 0}
    /\ pc' = "item" /\ UNCHANGED <<at, key>>
    /\ UNCHANGED localVars /\ UNCHANGED registryVars

(* An object that is known is reused; only an agent is read back again.     *)
Reuse ==
    /\ pc = "item" /\ at <= Len(Plan) /\ Plan[at] \in known
    /\ IF Plan[at] \in Agents THEN Goto("readback")
       ELSE NextItem(IF at = 1 THEN "legacy" ELSE "item")
    /\ UNCHANGED localVars /\ UNCHANGED registryVars

(* One that is not is created.  The answer for an agent may carry its key.  *)
Create ==
    /\ pc = "item" /\ at <= Len(Plan) /\ Plan[at] \notin known
    /\ count' = [count EXCEPT ![Plan[at]] = @ + 1]
    /\ IF Plan[at] \in Agents
       THEN /\ Issue(Plan[at])
            /\ Reveal(Plan[at], "put") \/ Goto("capture")
       ELSE Goto("readback") /\ UNCHANGED identity
    /\ UNCHANGED legacy /\ UNCHANGED localVars

(* When it does not, the identity is rotated at once to obtain one.         *)
CaptureSkipped ==   \* mutant: an agent created without a key is left without
    /\ pc = "capture"
    /\ Goto("readback")
    /\ UNCHANGED localVars /\ UNCHANGED registryVars
Capture ==
    /\ pc = "capture"
    /\ Issue(Plan[at]) /\ Reveal(Plan[at], "put")
    /\ UNCHANGED <<count, legacy>> /\ UNCHANGED localVars

Put ==
    /\ pc = "put"
    /\ keychain' = [keychain EXCEPT ![Plan[at]] = key]
    /\ Goto("readback")
    /\ UNCHANGED <<completed, stateFile, secret>> /\ UNCHANGED registryVars

Readback ==
    /\ pc = "readback"
    /\ count[Plan[at]] > 0
    /\ NextItem(IF at = 1 THEN "legacy" ELSE "item")
    /\ UNCHANGED localVars /\ UNCHANGED registryVars

(* After the framework, an agent with the legacy name is renamed, and is    *)
(* then one of the known agents.  It must be the one the code names.        *)
RenameForgotten ==   \* mutant: the renamed agent is not added to the inventory
    /\ pc = "legacy"
    /\ legacy # "unexpected"
    /\ legacy' = "none"
    /\ count' = IF legacy = "none" THEN count ELSE [count EXCEPT ![Renamed] = @ + 1]
    /\ Goto("item")
    /\ UNCHANGED identity /\ UNCHANGED localVars
RenameLegacy ==
    /\ pc = "legacy"
    /\ legacy # "unexpected"
    /\ legacy' = "none"
    /\ IF legacy = "none" THEN UNCHANGED <<count, known>>
       ELSE /\ count' = [count EXCEPT ![Renamed] = @ + 1]
            /\ known' = known \cup {Renamed}
    /\ pc' = "item" /\ UNCHANGED <<at, key>>
    /\ UNCHANGED identity /\ UNCHANGED localVars

(* apply has returned: the CLI writes the state file. *)
WriteInventory ==   \* mutant: the state file lists the whole inventory
    /\ pc = "item" /\ at > Len(Plan)
    /\ stateFile' = known
    /\ Finish("apply")
    /\ UNCHANGED <<keychain, secret>> /\ UNCHANGED registryVars
WriteState ==
    /\ pc = "item" /\ at > Len(Plan)
    /\ stateFile' = Agents
    /\ Finish("apply")
    /\ UNCHANGED <<keychain, secret>> /\ UNCHANGED registryVars

-----------------------------------------------------------------------------
(* registry-rekey: agent after agent, the identity is rotated and the new   *)
(* key stored.  An agent the state file lacks is noticed only when its turn *)
(* comes.                                                                   *)
Rotate ==
    /\ pc = "rotate" /\ at <= Len(RekeyOrder)
    /\ RekeyOrder[at] \in stateFile
    /\ Issue(RekeyOrder[at]) /\ Reveal(RekeyOrder[at], "store")
    /\ UNCHANGED <<count, legacy>> /\ UNCHANGED localVars

StoreIfAbsent ==   \* mutant: an entry of the Keychain is not overwritten
    /\ pc = "store"
    /\ keychain' = [keychain EXCEPT ![RekeyOrder[at]] = IF @ = 0 THEN key ELSE @]
    /\ NextItem("rotate")
    /\ UNCHANGED <<completed, stateFile, secret>> /\ UNCHANGED registryVars
Store ==
    /\ pc = "store"
    /\ keychain' = [keychain EXCEPT ![RekeyOrder[at]] = key]
    /\ NextItem("rotate")
    /\ UNCHANGED <<completed, stateFile, secret>> /\ UNCHANGED registryVars

EndRekey ==
    /\ pc = "rotate" /\ at > Len(RekeyOrder)
    /\ Finish("rekey")
    /\ UNCHANGED <<stateFile, keychain, secret>> /\ UNCHANGED registryVars

-----------------------------------------------------------------------------
(* sync_daytona_secrets: every key is read from the Keychain, which raises  *)
(* for one that is not there, before the first secret is touched.  No other *)
(* command runs meanwhile: the values read are those of the Keychain.       *)
ReadKeysUnchecked ==   \* mutant: a missing entry is read as an empty key
    /\ pc = "read"
    /\ Goto("update") /\ UNCHANGED localVars /\ UNCHANGED registryVars
ReadKeys ==
    /\ pc = "read"
    /\ \A a \in Agents : keychain[a] > 0
    /\ Goto("update") /\ UNCHANGED localVars /\ UNCHANGED registryVars

UpdateSecret ==
    /\ pc = "update" /\ at <= Len(SyncOrder)
    /\ secret' = [secret EXCEPT ![SyncOrder[at]] = keychain[SyncOrder[at]]]
    /\ NextItem("update")
    /\ UNCHANGED <<completed, stateFile, keychain>> /\ UNCHANGED registryVars

EndSync ==
    /\ pc = "update" /\ at > Len(SyncOrder)
    /\ Finish("sync")
    /\ UNCHANGED <<stateFile, keychain, secret>> /\ UNCHANGED registryVars

-----------------------------------------------------------------------------
ApplyStep == \/ Inventory \/ Reuse \/ Create \/ Capture \/ Put \/ Readback
             \/ RenameLegacy \/ WriteState
RekeyStep == Rotate \/ Store \/ EndRekey
SyncStep == ReadKeys \/ UpdateSecret \/ EndSync

Next == \/ StartApply \/ StartRekey \/ StartSync
        \/ ApplyStep \/ RekeyStep \/ SyncStep \/ Raise

Spec == Init /\ [][Next]_vars
-----------------------------------------------------------------------------
(* Type correctness. *)
TypeOK == /\ pc \in PCs
          /\ at \in Nat \ {0}
          /\ known \subseteq Names
          /\ key \in Generations
          /\ completed \subseteq Commands
          /\ stateFile \subseteq Agents
          /\ keychain \in [Agents -> Generations]
          /\ secret \in [Agents -> Generations]
          /\ count \in [Names -> Nat]
          /\ legacy \in {"none", "expected", "unexpected"}
          /\ identity \in [Agents -> Generations]

(* After registry-rekey and then sync_daytona_secrets have completed, every *)
(* agent's current key is the one in the Keychain and in Daytona, whatever  *)
(* was rotated, lost or half done before.                                   *)
KeysAgree ==
    {"rekey", "sync"} \subseteq completed =>
        \A a \in Agents : keychain[a] = identity[a] /\ secret[a] = identity[a]

(* registry-apply can be run again after any failure: it never registers a  *)
(* second object under a name, one whose creation was not acknowledged and  *)
(* the renamed legacy agent included.                                       *)
NoDuplicates == \A n \in Names : count[n] <= 1

(* A registry-apply that completed left every planned object registered,    *)
(* and every agent of the state file it wrote exists.                       *)
AppliedIsComplete ==
    /\ "apply" \in completed => \A n \in Names : count[n] = 1
    /\ \A a \in stateFile : identity[a] > 0

(* No command replaces a key, in the Keychain or in Daytona, by an older    *)
(* one or by none.                                                          *)
KeysMoveForward ==
    [][\A a \in Agents : keychain[a] <= keychain'[a] /\ secret[a] <= secret'[a]]_vars

(* No agent is silently reused: after registry-apply the key of every agent *)
(* has been captured (docs/api-contracts.md).                               *)
AppliedAgentsHaveKeys ==
    "apply" \in completed => \A a \in Agents : keychain[a] > 0

(* What holds in place of AppliedAgentsHaveKeys, which the code breaks for  *)
(* a reused agent: a registry-apply that completes has stored the current   *)
(* key of every agent it created itself, captured by a second call or not.  *)
CreatedAgentsHaveKeys ==
    [][WriteState => \A a \in Agents \ known : keychain[a] > 0 /\ keychain[a] = identity[a]]_vars

(* The inductive invariant behind KeysAgree, NoDuplicates and               *)
(* AppliedIsComplete: how far a command has come determines which keys      *)
(* agree and which names are registered.                                    *)
AtItem == {"capture", "put", "readback"}
Applying == AtItem \cup {"item", "legacy"}

KeyStage ==
    /\ pc \in {"inventory", "read"} => at = 1
    /\ pc \in AtItem => at <= Len(Plan)
    /\ pc \in {"capture", "put"} => Plan[at] \in Agents
    /\ pc = "put" => key = identity[Plan[at]]
    /\ pc = "store" => at <= Len(RekeyOrder) /\ key = identity[RekeyOrder[at]]

Forward ==
    \A a \in Agents : /\ keychain[a] <= identity[a] /\ secret[a] <= identity[a]
                      /\ keychain[a] > 0 => secret[a] <= keychain[a]

CommandStage ==
    /\ pc \in ApplyPCs => completed = {}
    /\ pc \in RekeyPCs => completed \subseteq {"apply"}
    /\ pc \in SyncPCs => completed \subseteq {"apply", "rekey"}

RekeyStage ==
    /\ "rekey" \in completed => \A a \in Agents : keychain[a] = identity[a]
    /\ pc \in RekeyPCs => \A j \in 1 .. Len(RekeyOrder) :
          j < at => keychain[RekeyOrder[j]] = identity[RekeyOrder[j]]

SyncStage ==
    /\ "sync" \in completed => \A a \in Agents : secret[a] = keychain[a]
    /\ pc = "update" =>
          /\ \A a \in Agents : keychain[a] > 0
          /\ \A j \in 1 .. Len(SyncOrder) :
                j < at => secret[SyncOrder[j]] = keychain[SyncOrder[j]]

Registered ==
    /\ \A n \in Names : count[n] <= 1
    /\ \A a \in Agents : count[a] > 0 => identity[a] > 0
    /\ legacy # "none" => count[Renamed] = 0
    /\ legacy = "expected" => identity[Renamed] > 0
    /\ \A a \in stateFile : identity[a] > 0
    /\ "apply" \in completed => \A n \in Names : count[n] = 1

ApplyStage ==
    /\ pc \in Applying =>
          /\ \A n \in known : count[n] = 1
          /\ \A j \in 1 .. Len(Plan) : j < at => count[Plan[j]] = 1
          /\ \A j \in 1 .. Len(Plan) : at < j /\ Plan[j] \notin known => count[Plan[j]] = 0
    /\ pc \in AtItem => count[Plan[at]] = 1
    /\ pc \in {"item", "legacy"} /\ at <= Len(Plan) /\ Plan[at] \notin known =>
          count[Plan[at]] = 0
    /\ pc \in AtItem \cup {"item"} /\ at > 1 => legacy = "none"

IndInv == /\ KeyStage /\ Forward /\ CommandStage /\ RekeyStage /\ SyncStage
          /\ Registered /\ ApplyStage
=============================================================================
