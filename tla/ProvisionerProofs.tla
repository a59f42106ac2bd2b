------------------------- MODULE ProvisionerProofs -------------------------
(* Proofs about Provisioner, for every plan, set of agents and bound.       *)
EXTENDS Provisioner, TLAPS

USE DEF Commands, ApplyPCs, RekeyPCs, SyncPCs, PCs, Generations, localVars, registryVars

(* An enumeration visits every member of its set, once.                     *)
LEMMA EnumerationFacts ==
  ASSUME NEW set, NEW order, Enumerates(order, set)
  PROVE  /\ Len(order) \in Nat
         /\ \A j \in 1 .. Len(order) : order[j] \in set
         /\ \A i, j \in 1 .. Len(order) : order[i] = order[j] => i = j
         /\ \A e \in set : \E j \in 1 .. Len(order) : order[j] = e
  BY DEF Enumerates, IsInjective, Range

LEMMA PlanFacts ==
  /\ Len(Plan) \in Nat
  /\ \A j \in 1 .. Len(Plan) : Plan[j] \in Names
  /\ \A i, j \in 1 .. Len(Plan) : Plan[i] = Plan[j] => i = j
  /\ \A e \in Names : \E j \in 1 .. Len(Plan) : Plan[j] = e
  BY EnumerationFacts, PlanAssumption

LEMMA RekeyFacts ==
  /\ Len(RekeyOrder) \in Nat
  /\ \A j \in 1 .. Len(RekeyOrder) : RekeyOrder[j] \in Agents
  /\ \A i, j \in 1 .. Len(RekeyOrder) : RekeyOrder[i] = RekeyOrder[j] => i = j
  /\ \A e \in Agents : \E j \in 1 .. Len(RekeyOrder) : RekeyOrder[j] = e
  BY EnumerationFacts, OrderAssumption

LEMMA SyncFacts ==
  /\ Len(SyncOrder) \in Nat
  /\ \A j \in 1 .. Len(SyncOrder) : SyncOrder[j] \in Agents
  /\ \A i, j \in 1 .. Len(SyncOrder) : SyncOrder[i] = SyncOrder[j] => i = j
  /\ \A e \in Agents : \E j \in 1 .. Len(SyncOrder) : SyncOrder[j] = e
  BY EnumerationFacts, OrderAssumption

-----------------------------------------------------------------------------
LEMMA InitTypeOK == Init => TypeOK
<1> SUFFICES ASSUME Init PROVE TypeOK
  OBVIOUS
<1> USE MaxKeysAssumption
<1>1. count \in [Names -> Nat]
  BY DEF Init
<1>2. \A a \in Agents : count[a] \in 0 .. 1
  BY DEF Init, Names
<1>3. identity \in [Agents -> Generations]
  BY <1>2 DEF Init
<1>4. keychain \in [Agents -> Generations] /\ secret \in [Agents -> Generations]
  BY DEF Init
<1>5. stateFile \subseteq Agents
  BY DEF Init
<1> QED
  BY <1>1, <1>3, <1>4, <1>5 DEF Init, TypeOK

LEMMA IssueType ==
  ASSUME TypeOK, NEW a \in Agents, Issue(a)
  PROVE  identity' \in [Agents -> Generations] /\ identity'[a] = identity[a] + 1
  BY MaxKeysAssumption DEF TypeOK, Issue

LEMMA NextTypeOK == TypeOK /\ IndInv /\ [Next]_vars => TypeOK'
<1> SUFFICES ASSUME TypeOK, IndInv, [Next]_vars PROVE TypeOK'
  OBVIOUS
<1> USE DEF TypeOK
<1>1. CASE UNCHANGED vars
  BY <1>1 DEF vars
<1>2. CASE StartApply \/ StartRekey \/ StartSync
  BY <1>2, MaxKeysAssumption DEF StartApply, StartRekey, StartSync, Start
<1>3. CASE Inventory
  BY <1>3 DEF Inventory
<1>13. CASE Reuse
  BY <1>13 DEF Reuse, Goto, NextItem
<1>14. CASE Readback
  BY <1>14 DEF Readback, NextItem
<1>4. CASE Create
  <2>1. Plan[at] \in Names
    BY <1>4, PlanFacts DEF Create
  <2>2. count' \in [Names -> Nat]
    BY <1>4, <2>1 DEF Create
  <2>3. identity' \in [Agents -> Generations]
    BY <1>4, IssueType DEF Create
  <2>4. Plan[at] \in Agents => identity'[Plan[at]] \in Generations
    BY <2>3
  <2>5. key' \in Generations /\ pc' \in PCs /\ at' = at /\ known' = known
    BY <1>4, <2>4 DEF Create, Reveal, Goto
  <2> QED
    BY <1>4, <2>2, <2>3, <2>5 DEF Create
<1>5. CASE Capture
  <2>1. Plan[at] \in Agents
    BY <1>5 DEF Capture, IndInv, KeyStage
  <2>2. identity' \in [Agents -> Generations]
    BY <1>5, <2>1, IssueType DEF Capture
  <2> QED
    BY <1>5, <2>1, <2>2 DEF Capture, Reveal
<1>6. CASE Put
  BY <1>6 DEF Put, Goto
<1>7. CASE RenameLegacy
  <2>1. Renamed \in Names
    BY NamesAssumption DEF Names
  <2>2. count' \in [Names -> Nat] /\ known' \subseteq Names
    BY <1>7, <2>1 DEF RenameLegacy
  <2> QED
    BY <1>7, <2>2 DEF RenameLegacy
<1>8. CASE WriteState \/ EndRekey \/ EndSync \/ Raise
  BY <1>8 DEF WriteState, EndRekey, EndSync, Raise, Finish, Goto
<1>9. CASE Rotate
  <2>1. RekeyOrder[at] \in Agents
    BY <1>9 DEF Rotate
  <2>2. identity' \in [Agents -> Generations]
    BY <1>9, <2>1, IssueType DEF Rotate
  <2> QED
    BY <1>9, <2>1, <2>2 DEF Rotate, Reveal
<1>10. CASE Store
  <2>1. keychain' \in [Agents -> Generations]
    BY <1>10 DEF Store
  <2>2. at' \in Nat \ {0} /\ pc' = "rotate"
    BY <1>10 DEF Store, NextItem
  <2> QED
    BY <1>10, <2>1, <2>2 DEF Store, NextItem
<1>11. CASE ReadKeys
  BY <1>11 DEF ReadKeys, Goto
<1>12. CASE UpdateSecret
  <2>1. SyncOrder[at] \in Agents
    BY <1>12, SyncFacts DEF UpdateSecret
  <2>2. secret' \in [Agents -> Generations]
    BY <1>12, <2>1 DEF UpdateSecret
  <2> QED
    BY <1>12, <2>2 DEF UpdateSecret, NextItem
<1> QED
  BY <1>1, <1>2, <1>3, <1>4, <1>5, <1>6, <1>7, <1>8, <1>9, <1>10, <1>11, <1>12, <1>13, <1>14
  DEF Next, ApplyStep, RekeyStep, SyncStep

LEMMA InitInv == Init => IndInv
<1> SUFFICES ASSUME Init PROVE IndInv
  OBVIOUS
<1>1. \A a \in Agents : count[a] \in 0 .. 1 /\ identity[a] \in 0 .. 1
  BY DEF Init, Names
<1>2. \A a \in Agents : keychain[a] \in 0 .. 1 /\ secret[a] \in 0 .. 1
  BY DEF Init
<1>3. KeyStage /\ CommandStage /\ RekeyStage /\ SyncStage /\ ApplyStage
  BY DEF Init, KeyStage, CommandStage, RekeyStage, SyncStage, ApplyStage, AtItem, Applying
<1>4. Forward
  BY <1>1, <1>2 DEF Init, Forward
<1>5. \A n \in Names : count[n] <= 1
  BY DEF Init
<1>6. Registered
  BY <1>1, <1>5, NamesAssumption DEF Init, Registered
<1> QED
  BY <1>3, <1>4, <1>6 DEF IndInv

(* The parts of the invariant that are about a running command hold of no   *)
(* command, and of one that has just begun.                                 *)
LEMMA StartInv ==
  ASSUME TypeOK, IndInv, StartApply \/ StartRekey \/ StartSync
  PROVE  IndInv'
<1> USE DEF IndInv, StartApply, StartRekey, StartSync, Start
<1>1. KeyStage' /\ CommandStage'
  BY DEF KeyStage, CommandStage, AtItem
<1>2. Forward'
  BY DEF Forward
<1>3. RekeyStage' /\ SyncStage'
  BY DEF RekeyStage, SyncStage
<1>4. Registered'
  BY DEF Registered
<1>5. ApplyStage'
  BY DEF ApplyStage, AtItem, Applying
<1> QED
  BY <1>1, <1>2, <1>3, <1>4, <1>5

LEMMA EndInv ==
  ASSUME TypeOK, IndInv, WriteState \/ EndRekey \/ EndSync \/ Raise
  PROVE  IndInv'
<1> USE DEF IndInv, TypeOK, WriteState, EndRekey, EndSync, Raise, Finish, Goto
<1>1. KeyStage' /\ CommandStage' /\ ApplyStage'
  BY DEF KeyStage, CommandStage, ApplyStage, AtItem, Applying
<1>2. Forward'
  BY DEF Forward
<1>a. EndRekey => \A a \in Agents : keychain[a] = identity[a]
  <2> SUFFICES ASSUME EndRekey, NEW a \in Agents PROVE keychain[a] = identity[a]
    OBVIOUS
  <2>1. PICK j \in 1 .. Len(RekeyOrder) : RekeyOrder[j] = a
    BY RekeyFacts
  <2> QED
    BY <2>1, RekeyFacts DEF RekeyStage
<1>b. EndSync => \A a \in Agents : secret[a] = keychain[a]
  <2> SUFFICES ASSUME EndSync, NEW a \in Agents PROVE secret[a] = keychain[a]
    OBVIOUS
  <2>1. PICK j \in 1 .. Len(SyncOrder) : SyncOrder[j] = a
    BY SyncFacts
  <2> QED
    BY <2>1, SyncFacts DEF SyncStage
<1>3. RekeyStage'
  BY <1>a DEF RekeyStage, CommandStage
<1>4. SyncStage'
  BY <1>b DEF SyncStage, CommandStage
<1>5. WriteState => \A n \in Names : count[n] = 1
  <2> SUFFICES ASSUME WriteState, NEW n \in Names PROVE count[n] = 1
    OBVIOUS
  <2>1. PICK j \in 1 .. Len(Plan) : Plan[j] = n
    BY PlanFacts
  <2> QED
    BY <2>1, PlanFacts DEF ApplyStage, Applying
<1>6. WriteState => \A a \in Agents : identity[a] > 0
  BY <1>5 DEF Registered, Names
<1>7. Registered'
  BY <1>5, <1>6 DEF Registered
<1> QED
  BY <1>1, <1>2, <1>3, <1>4, <1>7

(* Steps that change nothing but the place in the command.                  *)
LEMMA ReadInv ==
  ASSUME TypeOK, IndInv, Inventory \/ Reuse \/ Readback \/ ReadKeys
  PROVE  IndInv'
<1> USE DEF IndInv
<1>1. KeyStage' /\ CommandStage'
  BY DEF KeyStage, CommandStage, AtItem, TypeOK,
         Inventory, Reuse, Readback, ReadKeys, Goto, NextItem
<1>2. Forward' /\ Registered'
  BY DEF Forward, Registered, Inventory, Reuse, Readback, ReadKeys, Goto, NextItem
<1>3. RekeyStage'
  BY DEF RekeyStage, Inventory, Reuse, Readback, ReadKeys, Goto, NextItem
<1>5. SyncStage'
  <2>1. CASE Inventory \/ Reuse \/ Readback
    BY <2>1 DEF SyncStage, Inventory, Reuse, Readback, Goto, NextItem
  <2>2. CASE ReadKeys
    BY <2>2, SyncFacts DEF SyncStage, KeyStage, ReadKeys, Goto
  <2> QED
    BY <2>1, <2>2
<1>4. ApplyStage'
  <2> USE PlanFacts DEF ApplyStage, AtItem, Applying, TypeOK
  <2>1. CASE Inventory
    <3>1. \A n \in Names : count[n] > 0 => count[n] = 1
      BY DEF Registered
    <3>2. \A n \in Names : count[n] > 0 \/ count[n] = 0
      OBVIOUS
    <3>3. at = 1 /\ at' = 1 /\ count' = count /\ pc' = "item"
      BY <2>1 DEF Inventory, KeyStage
    <3>4. \A n \in known' : count[n] = 1
      BY <2>1, <3>1 DEF Inventory
    <3>5. \A n \in Names : n \notin known' => count[n] = 0
      BY <2>1, <3>2 DEF Inventory
    <3> QED
      BY <3>3, <3>4, <3>5
  <2>2. CASE Reuse
    BY <2>2 DEF Reuse, Goto, NextItem
  <2>3. CASE Readback
    BY <2>3 DEF Readback, NextItem, KeyStage
  <2>4. CASE ReadKeys
    BY <2>4 DEF ReadKeys, Goto
  <2> QED
    BY <2>1, <2>2, <2>3, <2>4
<1> QED
  BY <1>1, <1>2, <1>3, <1>4, <1>5

(* A new identity outdates the keys of its agent, and of no other.          *)
LEMMA IssueForward ==
  ASSUME TypeOK, IndInv, NEW a \in Agents, Issue(a),
         keychain' = keychain, secret' = secret
  PROVE  /\ Forward'
         /\ \A b \in Agents : identity'[b] >= identity[b]
         /\ \A b \in Agents : b # a => identity'[b] = identity[b]
         /\ identity'[a] > 0
<1>1. identity'[a] = identity[a] + 1 /\ identity[a] \in Nat
  BY MaxKeysAssumption, IssueType DEF TypeOK
<1>2. \A b \in Agents : b # a => identity'[b] = identity[b]
  BY DEF Issue, TypeOK
<1>3. \A b \in Agents : identity[b] \in Nat /\ identity'[b] >= identity[b]
  BY <1>1, <1>2, MaxKeysAssumption DEF TypeOK
<1>4. \A b \in Agents : identity'[b] \in Nat /\ keychain[b] \in Nat /\ secret[b] \in Nat
  BY IssueType, MaxKeysAssumption DEF TypeOK
<1>5. Forward'
  BY <1>3, <1>4 DEF IndInv, Forward
<1> QED
  BY <1>1, <1>2, <1>3, <1>5

LEMMA RotateInv == ASSUME TypeOK, IndInv, Rotate PROVE IndInv'
<1> USE DEF IndInv, Rotate, Reveal
<1> DEFINE a == RekeyOrder[at]
<1>1. a \in Agents /\ at \in 1 .. Len(RekeyOrder)
  BY RekeyFacts DEF TypeOK
<1>2. /\ Forward'
      /\ \A b \in Agents : identity'[b] >= identity[b]
      /\ \A b \in Agents : b # a => identity'[b] = identity[b]
  BY <1>1, IssueForward
<1>3. KeyStage' /\ CommandStage' /\ SyncStage' /\ ApplyStage'
  BY <1>1 DEF KeyStage, CommandStage, SyncStage, ApplyStage, AtItem, Applying
<1>4. RekeyStage'
  <2>1. \A j \in 1 .. Len(RekeyOrder) : j < at => RekeyOrder[j] \in Agents /\ RekeyOrder[j] # a
    BY <1>1, RekeyFacts
  <2> QED
    BY <1>2, <2>1 DEF RekeyStage, CommandStage
<1>5. Registered'
  <2>1. \A b \in Agents : identity[b] > 0 => identity'[b] > 0
    BY <1>2, IssueType, <1>1, MaxKeysAssumption DEF TypeOK
  <2> QED
    BY <2>1, NamesAssumption DEF Registered, TypeOK
<1> QED
  BY <1>2, <1>3, <1>4, <1>5

LEMMA CaptureInv == ASSUME TypeOK, IndInv, Capture PROVE IndInv'
<1> USE DEF IndInv, Capture, Reveal
<1> DEFINE a == Plan[at]
<1>1. a \in Agents
  BY DEF KeyStage
<1>2. /\ Forward'
      /\ \A b \in Agents : identity'[b] >= identity[b]
  BY <1>1, IssueForward
<1>3. KeyStage' /\ CommandStage' /\ SyncStage' /\ ApplyStage' /\ RekeyStage'
  BY <1>1 DEF KeyStage, CommandStage, SyncStage, ApplyStage, RekeyStage, AtItem, Applying
<1>5. Registered'
  <2>1. \A b \in Agents : identity[b] > 0 => identity'[b] > 0
    BY <1>2, IssueType, <1>1, MaxKeysAssumption DEF TypeOK
  <2> QED
    BY <2>1, NamesAssumption DEF Registered, TypeOK
<1> QED
  BY <1>2, <1>3, <1>5

LEMMA CreateInv == ASSUME TypeOK, IndInv, Create PROVE IndInv'
<1> USE DEF IndInv, Create
<1> DEFINE n == Plan[at]
<1>1. n \in Names /\ at \in 1 .. Len(Plan) /\ count[n] = 0
  BY PlanFacts DEF TypeOK, ApplyStage
<1>2. \A m \in Names : count'[m] = IF m = n THEN 1 ELSE count[m]
  BY <1>1 DEF TypeOK
<1>3. Forward' /\ \A b \in Agents : identity[b] > 0 => identity'[b] > 0
  <2>1. CASE n \in Agents
    BY <2>1, IssueForward, IssueType, MaxKeysAssumption DEF TypeOK
  <2>2. CASE n \notin Agents
    BY <2>2 DEF Forward
  <2> QED
    BY <2>1, <2>2
<1>4. n \in Agents => identity'[n] > 0
  BY IssueForward
<1>5. pc' \in AtItem /\ at' = at /\ known' = known
  BY DEF Reveal, Goto, AtItem
<1>6. KeyStage'
  <2>1. pc' = "put" => key' = identity'[n]
    BY DEF Reveal, Goto
  <2>2. pc' \in {"capture", "put"} => n \in Agents
    BY DEF Goto
  <2> QED
    BY <1>1, <1>5, <2>1, <2>2 DEF KeyStage, AtItem
<1>7. CommandStage' /\ RekeyStage' /\ SyncStage'
  BY <1>5 DEF CommandStage, RekeyStage, SyncStage, AtItem
<1>8. legacy # "none" => n # Renamed
  BY <1>1, NamesAssumption, PlanAssumption DEF ApplyStage, AtItem, TypeOK
<1>9. Registered'
  <2>1. /\ legacy' = legacy /\ stateFile' = stateFile
        /\ stateFile \subseteq Agents /\ Agents \subseteq Names
        /\ Renamed \in Agents
    BY NamesAssumption DEF TypeOK, Names
  <2>2. \A m \in Names : count'[m] <= 1
    BY <1>2 DEF Registered
  <2>3. \A b \in Agents : count'[b] > 0 => identity'[b] > 0
    BY <1>2, <1>3, <1>4, <2>1 DEF Registered
  <2>4. legacy' # "none" => count'[Renamed] = 0
    BY <1>2, <1>8, <2>1 DEF Registered
  <2>5. /\ legacy' = "expected" => identity'[Renamed] > 0
        /\ \A b \in stateFile' : identity'[b] > 0
    BY <1>3, <2>1 DEF Registered
  <2>6. "apply" \notin completed'
    BY DEF CommandStage
  <2> QED
    BY <2>2, <2>3, <2>4, <2>5, <2>6 DEF Registered
<1>10. ApplyStage'
  <2>1. \A m \in known : m \in Names /\ m # n
    BY DEF TypeOK
  <2>2. \A j \in 1 .. Len(Plan) : Plan[j] \in Names /\ (j # at => Plan[j] # n)
    BY <1>1, PlanFacts
  <2> QED
    BY <1>1, <1>2, <1>5, <2>1, <2>2 DEF ApplyStage, AtItem, Applying
<1> QED
  BY <1>3, <1>6, <1>7, <1>9, <1>10

LEMMA PutInv == ASSUME TypeOK, IndInv, Put PROVE IndInv'
<1> USE DEF IndInv, Put, Goto
<1>1. Plan[at] \in Agents /\ key = identity[Plan[at]]
  BY DEF KeyStage
<1>2. Forward'
  BY <1>1, MaxKeysAssumption DEF Forward, TypeOK
<1>3. KeyStage' /\ CommandStage' /\ ApplyStage'
  BY DEF KeyStage, CommandStage, ApplyStage, AtItem, Applying
<1>4. RekeyStage' /\ SyncStage'
  BY DEF RekeyStage, SyncStage, CommandStage
<1>5. Registered'
  BY DEF Registered
<1> QED
  BY <1>2, <1>3, <1>4, <1>5

LEMMA RenameInv == ASSUME TypeOK, IndInv, RenameLegacy PROVE IndInv'
<1> USE DEF IndInv, RenameLegacy
<1>1. Renamed \in Names /\ Renamed \in Agents
  BY NamesAssumption DEF Names
<1>2. \A m \in Names : count[m] \in Nat /\ (count'[m] = count[m] \/ m = Renamed)
  BY DEF TypeOK
<1>3. legacy = "none" => count' = count /\ known' = known
  OBVIOUS
<1>4. legacy # "none" =>
        /\ legacy = "expected" /\ count[Renamed] = 0 /\ count'[Renamed] = 1
        /\ known' = known \cup {Renamed}
  BY <1>1 DEF Registered, TypeOK
<1>5. KeyStage' /\ CommandStage' /\ Forward' /\ RekeyStage' /\ SyncStage'
  BY DEF KeyStage, CommandStage, Forward, RekeyStage, SyncStage, AtItem
<1>6. Registered'
  BY <1>1, <1>2, <1>3, <1>4 DEF Registered, CommandStage, Names
<1>7. ApplyStage'
  <2>1. \A j \in 1 .. Len(Plan) : Plan[j] \in Names
    BY PlanFacts
  <2>2. \A m \in known : m \in Names
    BY DEF TypeOK
  <2>3. at \in Nat
    BY DEF TypeOK
  <2>4. CASE legacy = "none"
    BY <1>3, <2>4 DEF ApplyStage, AtItem, Applying
  <2>5. CASE legacy # "none"
    <3>1. \A m \in known' : count'[m] = 1
      BY <1>2, <1>4, <2>2, <2>5 DEF ApplyStage, Applying
    <3>2. \A m \in Names : m \notin known' => m \notin known /\ count'[m] = count[m]
      BY <1>2, <1>4, <2>5
    <3>3. \A m \in Names : count[m] = 1 => count'[m] = 1
      BY <1>2, <1>4, <2>5
    <3>4. pc = "legacy" /\ pc' = "item" /\ at' = at /\ legacy' = "none"
      OBVIOUS
    <3>5. \A j \in 1 .. Len(Plan) : j < at => count'[Plan[j]] = 1
      BY <2>1, <3>3, <3>4 DEF ApplyStage, Applying
    <3>6. \A j \in 1 .. Len(Plan) : at < j /\ Plan[j] \notin known' => count'[Plan[j]] = 0
      BY <2>1, <3>2, <3>4 DEF ApplyStage, Applying
    <3>7. at <= Len(Plan) /\ Plan[at] \notin known' => count'[Plan[at]] = 0
      BY <2>1, <2>3, <3>2, <3>4, PlanFacts DEF ApplyStage, TypeOK
    <3> QED
      BY <3>1, <3>4, <3>5, <3>6, <3>7 DEF ApplyStage, AtItem, Applying
  <2> QED
    BY <2>4, <2>5
<1> QED
  BY <1>5, <1>6, <1>7

LEMMA StoreInv == ASSUME TypeOK, IndInv, Store PROVE IndInv'
<1> USE DEF IndInv, Store, NextItem
<1> DEFINE a == RekeyOrder[at]
<1>1. at \in 1 .. Len(RekeyOrder) /\ a \in Agents /\ key = identity[a]
  BY RekeyFacts DEF KeyStage, TypeOK
<1>2. \A b \in Agents : keychain'[b] = IF b = a THEN identity[a] ELSE keychain[b]
  BY <1>1 DEF TypeOK
<1>3. Forward'
  BY <1>1, <1>2, MaxKeysAssumption DEF Forward, TypeOK
<1>4. KeyStage' /\ CommandStage' /\ ApplyStage' /\ SyncStage'
  BY DEF KeyStage, CommandStage, ApplyStage, SyncStage, AtItem, Applying
<1>5. RekeyStage'
  <2>1. \A j \in 1 .. Len(RekeyOrder) : RekeyOrder[j] \in Agents
    BY RekeyFacts
  <2>2. \A j \in 1 .. Len(RekeyOrder) : j < at + 1 => j < at \/ j = at
    BY <1>1
  <2> QED
    BY <1>1, <1>2, <2>1, <2>2 DEF RekeyStage, CommandStage
<1>6. Registered'
  BY DEF Registered
<1> QED
  BY <1>3, <1>4, <1>5, <1>6

LEMMA UpdateInv == ASSUME TypeOK, IndInv, UpdateSecret PROVE IndInv'
<1> USE DEF IndInv, UpdateSecret, NextItem
<1> DEFINE a == SyncOrder[at]
<1>1. at \in 1 .. Len(SyncOrder) /\ a \in Agents
  BY SyncFacts DEF TypeOK
<1>2. \A b \in Agents : secret'[b] = IF b = a THEN keychain[a] ELSE secret[b]
  BY <1>1 DEF TypeOK
<1>3. Forward'
  BY <1>1, <1>2, MaxKeysAssumption DEF Forward, TypeOK
<1>4. KeyStage' /\ CommandStage' /\ ApplyStage' /\ RekeyStage'
  BY DEF KeyStage, CommandStage, ApplyStage, RekeyStage, AtItem, Applying
<1>5. SyncStage'
  <2>1. \A j \in 1 .. Len(SyncOrder) : SyncOrder[j] \in Agents
    BY SyncFacts
  <2>2. \A j \in 1 .. Len(SyncOrder) : j < at + 1 => j < at \/ j = at
    BY <1>1
  <2> QED
    BY <1>1, <1>2, <2>1, <2>2 DEF SyncStage, CommandStage
<1>6. Registered'
  BY DEF Registered
<1> QED
  BY <1>3, <1>4, <1>5, <1>6

LEMMA NextInv == TypeOK /\ IndInv /\ [Next]_vars => IndInv'
<1> SUFFICES ASSUME TypeOK, IndInv, [Next]_vars PROVE IndInv'
  OBVIOUS
<1>1. CASE UNCHANGED vars
  BY <1>1 DEF vars, IndInv, KeyStage, Forward, CommandStage, RekeyStage, SyncStage,
              Registered, ApplyStage
<1>2. CASE StartApply \/ StartRekey \/ StartSync
  BY <1>2, StartInv
<1>3. CASE ApplyStep
  BY <1>3, ReadInv, CreateInv, CaptureInv, PutInv, RenameInv, EndInv DEF ApplyStep
<1>4. CASE RekeyStep
  BY <1>4, RotateInv, StoreInv, EndInv DEF RekeyStep
<1>5. CASE SyncStep
  BY <1>5, ReadInv, UpdateInv, EndInv DEF SyncStep
<1>6. CASE Raise
  BY <1>6, EndInv
<1> QED
  BY <1>1, <1>2, <1>3, <1>4, <1>5, <1>6 DEF Next

(* The invariant behind the theorems: every reachable state has its type    *)
(* and the stage of the running command fixes which keys agree.             *)
THEOREM Inductive == Spec => [](TypeOK /\ IndInv)
<1>1. Init => TypeOK /\ IndInv
  BY InitTypeOK, InitInv
<1>2. TypeOK /\ IndInv /\ [Next]_vars => (TypeOK /\ IndInv)'
  BY NextTypeOK, NextInv
<1> QED
  BY <1>1, <1>2, PTL DEF Spec

(* Type correctness of the provisioner, its Keychain and its secrets.       *)
THEOREM TypeCorrect == Spec => []TypeOK
  BY Inductive, PTL

(* A completed rekey followed by a completed sync heals every lost key.     *)
THEOREM KeysHealed == Spec => []KeysAgree
<1>1. IndInv => KeysAgree
  BY DEF IndInv, RekeyStage, SyncStage, KeysAgree
<1> QED
  BY <1>1, Inductive, PTL

(* registry-apply never registers a second object under a name.             *)
THEOREM ApplyIdempotent == Spec => []NoDuplicates
<1>1. IndInv => NoDuplicates
  BY DEF IndInv, Registered, NoDuplicates
<1> QED
  BY <1>1, Inductive, PTL

(* A completed registry-apply left everything registered.                   *)
THEOREM ApplyComplete == Spec => []AppliedIsComplete
<1>1. IndInv => AppliedIsComplete
  BY DEF IndInv, Registered, AppliedIsComplete
<1> QED
  BY <1>1, Inductive, PTL

(* No key is ever replaced by an older one or by none.                      *)
THEOREM KeysForward == Spec => KeysMoveForward
<1> DEFINE Moves == \A a \in Agents : keychain[a] <= keychain'[a] /\ secret[a] <= secret'[a]
<1>1. ASSUME TypeOK, IndInv, [Next]_vars PROVE Moves
  <2>1. \A a \in Agents : keychain[a] \in Nat /\ secret[a] \in Nat /\ identity[a] \in Nat
    BY <1>1, MaxKeysAssumption DEF TypeOK
  <2>2. CASE Put
    BY <2>1, <2>2, <1>1 DEF Put, IndInv, KeyStage, Forward, TypeOK
  <2>3. CASE Store
    BY <2>1, <2>3, <1>1, RekeyFacts DEF Store, IndInv, KeyStage, Forward, TypeOK
  <2>4. CASE UpdateSecret
    BY <2>1, <2>4, <1>1, SyncFacts DEF UpdateSecret, IndInv, SyncStage, Forward, TypeOK
  <2>5. CASE UNCHANGED <<keychain, secret>>
    BY <2>1, <2>5
  <2>6. Put \/ Store \/ UpdateSecret \/ UNCHANGED <<keychain, secret>>
    BY <1>1 DEF Next, vars, StartApply, StartRekey, StartSync, Start, ApplyStep, RekeyStep,
                SyncStep, Raise, Inventory, Reuse, Create, Capture, Readback, RenameLegacy,
                WriteState, Rotate, EndRekey, ReadKeys, EndSync
  <2> QED
    BY <2>2, <2>3, <2>4, <2>5, <2>6
<1>2. TypeOK /\ IndInv /\ [Next]_vars => [Moves]_vars
  BY <1>1
<1>3. Spec => [][Moves]_vars
  BY <1>2, Inductive, PTL DEF Spec
<1> QED
  BY <1>3 DEF KeysMoveForward
-----------------------------------------------------------------------------
(* A registry-apply that knows every planned name, as one that runs again   *)
(* after a completed one does, is a check: it creates, renames, rotates and *)
(* stores nothing.                                                          *)
ReapplyChangesNothing ==
    [][known = Names /\ pc \in ApplyPCs =>
          UNCHANGED <<count, legacy, identity, keychain, secret>>]_vars

(* Only an object the inventories missed is created and given a key.        *)
Unknown == pc \in {"capture", "put"} => Plan[at] \notin known

LEMMA UnknownStep == TypeOK /\ Unknown /\ [Next]_vars => Unknown'
<1> SUFFICES ASSUME TypeOK, Unknown, [Next]_vars, pc' \in {"capture", "put"}
             PROVE  Plan[at'] \notin known'
  BY DEF Unknown
<1>1. CASE UNCHANGED vars
  BY <1>1 DEF vars, Unknown
<1>2. CASE Create
  BY <1>2 DEF Create, Reveal, Goto
<1>3. CASE Capture
  BY <1>3 DEF Capture, Reveal, Unknown
<1>4. pc' \notin {"capture", "put"} \/ Create \/ Capture \/ UNCHANGED vars
  BY DEF Next, ApplyStep, RekeyStep, SyncStep, StartApply, StartRekey, StartSync, Start,
         Inventory, Reuse, Put, Readback, RenameLegacy, WriteState, Rotate, Store, EndRekey,
         ReadKeys, UpdateSecret, EndSync, Raise, Goto, NextItem, Finish, Reveal
<1> QED
  BY <1>1, <1>2, <1>3, <1>4

LEMMA KnownIsKept ==
  ASSUME TypeOK, IndInv, Unknown, [Next]_vars, pc \in ApplyPCs, known = Names
  PROVE  UNCHANGED <<count, legacy, identity, keychain, secret>>
<1>1. CASE UNCHANGED vars
  BY <1>1 DEF vars
<1>2. CASE Inventory \/ Reuse \/ Readback \/ WriteState \/ Raise
  BY <1>2 DEF Inventory, Reuse, Readback, WriteState, Raise
<1>3. ~Create
  <2>1. at \in Nat \ {0} /\ at <= Len(Plan) => Plan[at] \in Names
    BY PlanFacts
  <2> QED
    BY <2>1 DEF Create, TypeOK
<1>4. ~Capture /\ ~Put
  <2>1. pc \in {"capture", "put"} => Plan[at] \in Names
    BY DEF IndInv, KeyStage, Names
  <2> QED
    BY <2>1 DEF Capture, Put, Unknown
<1>5. CASE RenameLegacy
  <2>1. Renamed \in Names
    BY NamesAssumption DEF Names
  <2>2. count[Renamed] = 1
    BY <1>5, <2>1 DEF RenameLegacy, IndInv, ApplyStage, Applying
  <2>3. legacy = "none"
    BY <2>2 DEF IndInv, Registered
  <2> QED
    BY <1>5, <2>3 DEF RenameLegacy
<1>6. ApplyStep \/ Raise \/ UNCHANGED vars
  BY DEF Next, RekeyStep, SyncStep, StartApply, StartRekey, StartSync, Start, Rotate, Store,
         EndRekey, ReadKeys, UpdateSecret, EndSync
<1> QED
  BY <1>1, <1>2, <1>3, <1>4, <1>5, <1>6 DEF ApplyStep

(* registry-apply is idempotent in the strong sense: not only does it       *)
(* register nothing twice, once all is registered it does not write at all. *)
THEOREM ReapplyWritesNothing == Spec => ReapplyChangesNothing
<1>1. Init => Unknown
  BY DEF Init, Unknown
<1>2. TypeOK /\ IndInv /\ Unknown /\ [Next]_vars =>
         [known = Names /\ pc \in ApplyPCs =>
            UNCHANGED <<count, legacy, identity, keychain, secret>>]_vars
  BY KnownIsKept
<1> QED
  BY <1>1, <1>2, UnknownStep, Inductive, PTL DEF Spec, ReapplyChangesNothing

(* Once every name is registered, no command, however it is interrupted and *)
(* run again, adds, removes or renames an object.                           *)
SettledForGood ==
    [][(\A n \in Names : count[n] = 1) => UNCHANGED <<count, legacy>>]_vars

(* What creates or renames finds a name that is not registered.             *)
LEMMA SettledStep ==
  ASSUME TypeOK, IndInv, [Next]_vars, \A n \in Names : count[n] = 1
  PROVE  UNCHANGED <<count, legacy>>
<1>1. ~Create
  <2>1. at \in Nat \ {0} /\ at <= Len(Plan) => Plan[at] \in Names
    BY PlanFacts
  <2> QED
    BY <2>1 DEF Create, TypeOK, IndInv, ApplyStage
<1>2. CASE RenameLegacy
  <2>1. Renamed \in Names
    BY NamesAssumption DEF Names
  <2>2. legacy = "none"
    BY <2>1 DEF IndInv, Registered
  <2> QED
    BY <1>2, <2>2 DEF RenameLegacy
<1>3. Create \/ RenameLegacy \/ UNCHANGED <<count, legacy>>
  BY DEF Next, vars, StartApply, StartRekey, StartSync, Start, ApplyStep, RekeyStep, SyncStep,
         Raise, Inventory, Reuse, Capture, Put, Readback, WriteState, Rotate, Store, EndRekey,
         ReadKeys, UpdateSecret, EndSync
<1> QED
  BY <1>1, <1>2, <1>3

(* A complete registration is stable under every command.                   *)
THEOREM RegistrySettles == Spec => SettledForGood
<1>1. TypeOK /\ IndInv /\ [Next]_vars =>
         [(\A n \in Names : count[n] = 1) => UNCHANGED <<count, legacy>>]_vars
  BY SettledStep
<1> QED
  BY <1>1, Inductive, PTL DEF Spec, SettledForGood
-----------------------------------------------------------------------------
(* Behind CreatedAgentsHaveKeys, which holds in place of                    *)
(* AppliedAgentsHaveKeys: the keys of the new agents visited so far, and of *)
(* the one just stored.                                                     *)
Stored(a) == a \in Agents \ known => keychain[a] = identity[a]

StoredStage ==
    /\ pc \in Applying => \A j \in 1 .. Len(Plan) : j < at => Stored(Plan[j])
    /\ pc = "readback" => Stored(Plan[at])

(* A step that leaves the keys, and what is known, of the visited agents.   *)
LEMMA StoredKept ==
  ASSUME StoredStage, UNCHANGED <<at, known, keychain>>, pc \in Applying,
         pc' \in Applying \ {"readback"},
         \A j \in 1 .. Len(Plan) : j < at /\ Plan[j] \in Agents =>
            identity'[Plan[j]] = identity[Plan[j]]
  PROVE  StoredStage'
  BY DEF StoredStage, Stored

LEMMA StoredStep == TypeOK /\ IndInv /\ StoredStage /\ [Next]_vars => StoredStage'
<1> SUFFICES ASSUME TypeOK, IndInv, StoredStage, [Next]_vars PROVE StoredStage'
  OBVIOUS
<1>1. CASE UNCHANGED vars
  BY <1>1 DEF vars, StoredStage, Stored
<1>2. CASE pc' \notin Applying
  BY <1>2 DEF StoredStage, Applying, AtItem
<1>3. CASE Inventory
  <2>1. at' = 1 /\ pc' = "item"
    BY <1>3 DEF Inventory, IndInv, KeyStage
  <2>2. \A j \in 1 .. Len(Plan) : ~(j < at')
    BY <2>1, PlanFacts
  <2> QED
    BY <2>1, <2>2 DEF StoredStage
<1>4. CASE Reuse
  <2>1. UNCHANGED <<known, keychain, identity>> /\ Plan[at] \in known /\ pc = "item"
        /\ at \in Nat \ {0}
    BY <1>4 DEF Reuse, Goto, NextItem, TypeOK
  <2>2. \/ pc' = "readback" /\ at' = at
        \/ pc' \in {"item", "legacy"} /\ at' = at + 1
    BY <1>4 DEF Reuse, Goto, NextItem
  <2>3. Stored(Plan[at]) /\ \A j \in 1 .. Len(Plan) : j < at => Stored(Plan[j])
    BY <2>1 DEF StoredStage, Stored, Applying, AtItem
  <2>4. \A j \in 1 .. Len(Plan) : j < at' => j < at \/ j = at
    BY <2>1, <2>2, PlanFacts
  <2>5. \A a : Stored(a) => Stored(a)'
    BY <2>1 DEF Stored
  <2> QED
    BY <2>2, <2>3, <2>4, <2>5 DEF StoredStage
<1>5. CASE Readback
  <2>1. /\ UNCHANGED <<known, keychain, identity>> /\ pc = "readback" /\ at \in Nat \ {0}
        /\ at' = at + 1 /\ pc' \in {"item", "legacy"}
    BY <1>5 DEF Readback, NextItem, TypeOK
  <2>2. Stored(Plan[at]) /\ \A j \in 1 .. Len(Plan) : j < at => Stored(Plan[j])
    BY <2>1 DEF StoredStage, Applying, AtItem
  <2>3. \A j \in 1 .. Len(Plan) : j < at' => j < at \/ j = at
    BY <2>1, PlanFacts
  <2>4. \A a : Stored(a) => Stored(a)'
    BY <2>1 DEF Stored
  <2> QED
    BY <2>1, <2>2, <2>3, <2>4 DEF StoredStage
<1>6. CASE Create
  <2>1. /\ UNCHANGED <<at, known, keychain>> /\ pc = "item" /\ at \in 1 .. Len(Plan)
        /\ pc' \in {"put", "capture", "readback"}
        /\ pc' = "readback" => Plan[at] \notin Agents
    BY <1>6, PlanFacts DEF Create, Reveal, Goto, TypeOK
  <2>2. \A j \in 1 .. Len(Plan) : j < at => Plan[j] # Plan[at]
    BY <2>1, PlanFacts
  <2>3. \A a \in Agents : a # Plan[at] => identity'[a] = identity[a]
    BY <1>6 DEF Create, Issue, TypeOK
  <2>4. \A j \in 1 .. Len(Plan) : j < at => Stored(Plan[j])'
    BY <2>1, <2>2, <2>3 DEF StoredStage, Stored, Applying, AtItem
  <2> QED
    BY <2>1, <2>4 DEF StoredStage, Stored
<1>7. CASE Capture
  <2>1. UNCHANGED <<at, known, keychain>> /\ pc = "capture" /\ pc' = "put"
    BY <1>7 DEF Capture, Reveal
  <2>2. \A j \in 1 .. Len(Plan) : j < at => Plan[j] # Plan[at]
    BY <2>1, PlanFacts DEF TypeOK, IndInv, KeyStage, AtItem
  <2>3. \A a \in Agents : a # Plan[at] => identity'[a] = identity[a]
    BY <1>7 DEF Capture, Issue, TypeOK
  <2> QED
    BY <2>1, <2>2, <2>3, StoredKept DEF Applying, AtItem
<1>8. CASE Put
  <2>1. /\ UNCHANGED <<at, known, identity>> /\ pc = "put" /\ pc' = "readback"
        /\ keychain' = [keychain EXCEPT ![Plan[at]] = key] /\ key = identity[Plan[at]]
        /\ Plan[at] \in Agents
    BY <1>8 DEF Put, Goto, IndInv, KeyStage
  <2>2. keychain'[Plan[at]] = identity[Plan[at]] /\ \A a \in Agents : a # Plan[at] => keychain'[a] = keychain[a]
    BY <2>1 DEF TypeOK
  <2>3. \A a : Stored(a) => Stored(a)'
    BY <2>1, <2>2 DEF Stored
  <2>4. \A j \in 1 .. Len(Plan) : j < at => Stored(Plan[j])
    BY <2>1 DEF StoredStage, Applying, AtItem
  <2>5. Stored(Plan[at])'
    BY <2>1, <2>2 DEF Stored
  <2> QED
    BY <2>1, <2>3, <2>4, <2>5 DEF StoredStage
<1>9. CASE RenameLegacy
  <2>1. /\ UNCHANGED <<at, keychain, identity>> /\ known \subseteq known'
        /\ pc = "legacy" /\ pc' = "item"
    BY <1>9 DEF RenameLegacy
  <2>2. \A a : Stored(a) => Stored(a)'
    BY <2>1 DEF Stored
  <2> QED
    BY <2>1, <2>2 DEF StoredStage, Applying, AtItem
<1>10. \/ pc' \notin Applying \/ UNCHANGED vars \/ Inventory \/ Reuse \/ Readback \/ Create
       \/ Capture \/ Put \/ RenameLegacy
  BY DEF Next, ApplyStep, RekeyStep, SyncStep, StartApply, StartRekey, StartSync, Start,
         WriteState, Rotate, Store, EndRekey, ReadKeys, UpdateSecret, EndSync, Raise, Goto,
         NextItem, Finish, Reveal, Applying, AtItem
<1> QED
  BY <1>1, <1>2, <1>3, <1>4, <1>5, <1>6, <1>7, <1>8, <1>9, <1>10

(* An agent is left without its current key only when it was there before   *)
(* the apply that completed began: nothing this apply issued is lost.       *)
THEOREM CreatedAgentsAreKeyed == Spec => CreatedAgentsHaveKeys
<1>1. Init => StoredStage
  BY DEF Init, StoredStage, Applying, AtItem
<1>2. TypeOK /\ IndInv /\ StoredStage /\ WriteState =>
         \A a \in Agents \ known : keychain[a] > 0 /\ keychain[a] = identity[a]
  <2> SUFFICES ASSUME TypeOK, IndInv, StoredStage, WriteState, NEW a \in Agents \ known
               PROVE  keychain[a] > 0 /\ keychain[a] = identity[a]
    OBVIOUS
  <2>1. PICK j \in 1 .. Len(Plan) : Plan[j] = a
    BY PlanFacts DEF Names
  <2>2. pc = "item" /\ j < at
    BY PlanFacts DEF WriteState, TypeOK
  <2>3. keychain[a] = identity[a]
    BY <2>1, <2>2 DEF StoredStage, Stored, Applying
  <2>4. count[a] = 1
    BY <2>1, <2>2 DEF IndInv, ApplyStage, Applying
  <2>5. identity[a] > 0
    BY <2>4 DEF IndInv, Registered
  <2> QED
    BY <2>3, <2>5
<1>3. TypeOK /\ IndInv /\ StoredStage /\ [Next]_vars =>
        [WriteState => \A a \in Agents \ known : keychain[a] > 0 /\ keychain[a] = identity[a]]_vars
  BY <1>2
<1> QED
  BY <1>1, <1>3, StoredStep, Inductive, PTL DEF Spec, CreatedAgentsHaveKeys
=============================================================================
