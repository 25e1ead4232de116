--------------------------- MODULE HelmCacheProofs ---------------------------
(***************************************************************************)
(* Proofs about HelmCache, for any number of processes, workers, files,    *)
(* versions and helms.  The invariants bracket what each worker has read:  *)
(* versions only grow, so a file that the first walk and the second one    *)
(* saw alike was that version for helm as well.                            *)
(***************************************************************************)
EXTENDS HelmCache, TLAPS

(* How far a call has come says whether it has a key and whether its process
   has asked for helm's identity. *)
PhaseOf(w) ==
  /\ began[w] = Nothing <=> pc[w] \in {"idle", "answered"}
  /\ answer[w] = Nothing <=> pc[w] # "answered"
  /\ pc[w] \in {"idle", "answered", "key"} => key[w] = Nothing
  /\ pc[w] \in {"get", "lock", "again", "identity", "disk", "rekey", "create",
                "write", "persist"} => key[w] # Nothing
  /\ pc[w] \in {"disk", "create", "write", "persist"} =>
       identity[ProcessOf[w]] \in Helm
  /\ pc[w] \in {"spawn", "render", "rekey"} /\ key[w] # Nothing =>
       identity[ProcessOf[w]] # Unasked

PhaseInv == \A w \in Worker : PhaseOf(w)

-----------------------------------------------------------------------------
(* Types.                                                                  *)

(* The blank values that calls start from have the types of full ones. *)
LEMMA BlankTypes ==
  ASSUME NEW h \in Helm
  PROVE  Blank \in Key /\ NoRender \in Render
<1>1. 0 \in Version
  BY FileAssumption DEF Version
<1>2. Blank \in Key
  BY <1>1 DEF Blank, Key
<1>3. (CHOOSE i \in Helm : TRUE) \in Helm
  OBVIOUS
<1>. QED  BY <1>2, <1>3 DEF NoRender, Render

(* Looking a key up in memory yields a render or nothing. *)
LEMMA LookupTypes ==
  ASSUME TypeOK, NEW w \in Worker, key[w] # Nothing
  PROVE  /\ ProcessOf[w] \in Process
         /\ key[w] \in Key
         /\ Remembered(w) \in Render \cup {Nothing}
  BY WorkerAssumption DEF TypeOK, Remembered

(* Returning a typed result keeps the types of all that Return sets. *)
LEMMA ReturnTypes ==
  ASSUME TypeOK, NEW w \in Worker, NEW result \in Render \cup {Failed},
         Return(w, result)
  PROVE  /\ began' \in [Worker -> Key \cup {Nothing}]
         /\ answer' \in [Worker -> Render \cup {Nothing, Failed}]
         /\ computations' \in [Process -> [Key -> Worker \cup {Nothing}]]
         /\ pc' \in [Worker -> {"idle", "key", "get", "lock", "answered"} \cup Guarded]
         /\ unread' \in [Worker -> SUBSET File]
         /\ seen' \in [Worker -> Key]
         /\ key' \in [Worker -> Key \cup {Nothing}]
         /\ value' \in [Worker -> Render]
         /\ UNCHANGED <<chart, helm, identity, life, calls>>
<1>1. Blank \in Key /\ NoRender \in Render
  BY BlankTypes DEF TypeOK
<1>2. computations' \in [Process -> [Key -> Worker \cup {Nothing}]]
  <2>1. ProcessOf[w] \in Process
    BY WorkerAssumption
  <2>2. computations[ProcessOf[w]] \in [Key -> Worker \cup {Nothing}]
    BY <2>1 DEF TypeOK
  <2>3. [k \in Key |-> IF computations[ProcessOf[w]][k] = w
                         THEN Nothing ELSE computations[ProcessOf[w]][k]]
          \in [Key -> Worker \cup {Nothing}]
    BY <2>2
  <2>4. computations' =
          [computations EXCEPT ![ProcessOf[w]] =
             [k \in Key |-> IF computations[ProcessOf[w]][k] = w
                             THEN Nothing ELSE computations[ProcessOf[w]][k]]]
    BY <2>1 DEF TypeOK, Return, Unlock
  <2>. QED  BY <2>1, <2>3, <2>4 DEF TypeOK
<1>3. pc' \in [Worker -> {"idle", "key", "get", "lock", "answered"} \cup Guarded]
  BY DEF TypeOK, Return, Goto, Guarded
<1>4. /\ began' \in [Worker -> Key \cup {Nothing}]
      /\ answer' \in [Worker -> Render \cup {Nothing, Failed}]
      /\ unread' \in [Worker -> SUBSET File]
  BY DEF TypeOK, Return
<1>5. /\ seen' \in [Worker -> Key]
      /\ key' \in [Worker -> Key \cup {Nothing}]
      /\ value' \in [Worker -> Render]
  BY <1>1 DEF TypeOK, Return
<1>6. UNCHANGED <<chart, helm, identity, life, calls>>
  BY DEF Return
<1>. QED  BY <1>2, <1>3, <1>4, <1>5, <1>6

(* Storing a typed render keeps memory typed. *)
LEMMA InsertTypes ==
  ASSUME TypeOK, NEW w \in Worker, key[w] # Nothing, NEW r \in Render,
         Insert(w, r)
  PROVE  values' \in [Process -> [Key -> Render \cup {Nothing}]]
  BY LookupTypes DEF TypeOK, Insert

(* Every step of a worker keeps the types. *)
LEMMA StepTypes ==
  ASSUME TypeOK, PhaseInv, NEW w \in Worker, Step(w)
  PROVE  TypeOK'
<1>. USE DEF serviceVars, processVars, directoryVars, workVars
<1>1. CASE HashFile(w)
  <2>1. PICK f \in File :
          /\ seen' = [seen EXCEPT ![w] = [seen[w] EXCEPT ![f] = chart[f]]]
          /\ unread' = [unread EXCEPT ![w] = unread[w] \ {f}]
    BY <1>1 DEF TypeOK, HashFile
  <2>2. [seen[w] EXCEPT ![f] = chart[f]] \in Key
    BY DEF TypeOK, Key
  <2>3. seen' \in [Worker -> Key] /\ unread' \in [Worker -> SUBSET File]
    BY <2>1, <2>2 DEF TypeOK
  <2>. QED  BY <1>1, <2>3 DEF TypeOK, HashFile
<1>2. CASE HashFails(w)
  BY <1>2, BlankTypes DEF TypeOK, Goto, Guarded, HashFails
<1>3. CASE HashDone(w)
  BY <1>3, BlankTypes DEF TypeOK, Goto, Guarded, HashDone
<1>4. CASE Miss(w)
  BY <1>4 DEF TypeOK, Goto, Guarded, Miss
<1>5. CASE Lock(w)
  BY <1>5, WorkerAssumption DEF TypeOK, Goto, Guarded, Lock
<1>6. CASE Identify(w)
  <2>1. identity' \in [Process -> Helm \cup {Unasked, Nothing}]
    <3>1. \/ identity' = identity
          \/ \E known \in {helm, Nothing} :
                identity' = [identity EXCEPT ![ProcessOf[w]] = known]
      BY <1>6 DEF Identify
    <3>2. identity \in [Process -> Helm \cup {Unasked, Nothing}] /\ helm \in Helm
      BY DEF TypeOK
    <3>. QED  BY <3>1, <3>2
  <2>2. pc' \in [Worker -> {"idle", "key", "get", "lock", "answered"} \cup Guarded]
    BY <1>6 DEF TypeOK, Goto, Guarded, Identify
  <2>. QED  BY <1>6, <2>1, <2>2 DEF TypeOK, Identify
<1>7. CASE NoEntry(w)
  BY <1>7 DEF TypeOK, Goto, Guarded, NoEntry
<1>8. CASE Spawn(w)
  BY <1>8, BlankTypes DEF TypeOK, Goto, Guarded, Spawn, StartReading, Render
<1>9. CASE CreateTemporary(w)
  <2>1. Temporary(w) \in Worker \X Life
    BY WorkerAssumption DEF TypeOK, Temporary
  <2>2. pc' \in [Worker -> {"idle", "key", "get", "lock", "answered"} \cup Guarded]
    BY <1>9 DEF TypeOK, Goto, Guarded, CreateTemporary
  <2>. QED  BY <1>9, <2>1, <2>2 DEF TypeOK, CreateTemporary
<1>10. CASE WriteTemporary(w)
  BY <1>10 DEF TypeOK, Goto, Guarded, WriteTemporary
<1>11. CASE Take(w)
  BY <1>11 DEF TypeOK, Goto, Guarded, Take
<1>12. CASE HelmReads(w)
  <2>1. PICK f \in File :
          /\ value' = [value EXCEPT ![w] =
               [files |-> [value[w].files EXCEPT ![f] = chart[f]],
                helm |-> value[w].helm]]
          /\ unread' = [unread EXCEPT ![w] = unread[w] \ {f}]
    BY <1>12 DEF TypeOK, HelmReads
  <2>2. value[w].files \in Key /\ value[w].helm \in Helm
    BY DEF TypeOK, Render
  <2>3. [value[w].files EXCEPT ![f] = chart[f]] \in Key
    BY <2>2 DEF TypeOK, Key
  <2>4. [files |-> [value[w].files EXCEPT ![f] = chart[f]],
         helm |-> value[w].helm] \in Render
    BY <2>2, <2>3 DEF Render
  <2>5. value' \in [Worker -> Render] /\ unread' \in [Worker -> SUBSET File]
    BY <2>1, <2>4 DEF TypeOK
  <2>. QED  BY <1>12, <2>5 DEF TypeOK, HelmReads
<1>13. CASE Hit(w)
  <2>1. Remembered(w) \in Render \cup {Failed}
    BY <1>13, LookupTypes DEF Hit, PhaseInv, PhaseOf
  <2>. QED  BY <1>13, <2>1, ReturnTypes DEF TypeOK, Hit
<1>14. CASE RenderFails(w)
  <2>1. Failed \in Render \cup {Failed}
    BY DEF TypeOK
  <2>2. Return(w, Failed)
    BY <1>14 DEF RenderFails
  <2>. QED  BY <1>14, <2>1, <2>2, ReturnTypes DEF TypeOK, RenderFails
<1>15. CASE InputsChanged(w)
  <2>1. value[w] \in Render \cup {Failed}
    BY DEF TypeOK
  <2>2. Return(w, value[w])
    BY <1>15 DEF InputsChanged
  <2>. QED  BY <1>15, <2>1, <2>2, ReturnTypes DEF TypeOK, InputsChanged
<1>16. CASE CreateFails(w)
  <2>1. value[w] \in Render \cup {Failed}
    BY DEF TypeOK
  <2>2. Return(w, value[w])
    BY <1>16 DEF CreateFails
  <2>. QED  BY <1>16, <2>1, <2>2, ReturnTypes DEF TypeOK, CreateFails
<1>17. CASE WriteFails(w)
  <2>1. value[w] \in Render \cup {Failed}
    BY DEF TypeOK
  <2>2. Return(w, value[w])
    BY <1>17 DEF WriteFails
  <2>. QED  BY <1>17, <2>1, <2>2, ReturnTypes DEF TypeOK, WriteFails, DropTemporary
<1>18. CASE Persist(w)
  <2>1. value[w] \in Render \cup {Failed}
    BY DEF TypeOK
  <2>2. Return(w, value[w])
    BY <1>18 DEF Persist
  <2>. QED  BY <1>18, <2>1, <2>2, ReturnTypes DEF TypeOK, Persist, DropTemporary
<1>19. CASE ReadDisk(w)
  <2>1. key[w] \in Key /\ identity[ProcessOf[w]] \in Helm
    BY <1>19 DEF ReadDisk, PhaseInv, PhaseOf, TypeOK
  <2>2. Entry(w) \in Render /\ Entry(w) \in Render \cup {Failed}
    BY <1>19, <2>1 DEF ReadDisk, Entry, TypeOK
  <2>3. Return(w, Entry(w)) /\ Insert(w, Entry(w)) /\ key[w] # Nothing
    BY <1>19 DEF ReadDisk, PhaseInv, PhaseOf
  <2>. QED  BY <1>19, <2>2, <2>3, ReturnTypes, InsertTypes DEF TypeOK, ReadDisk
<1>20. CASE Rendered(w)
  <2>1. CASE key[w] = Nothing
    <3>1. value[w] \in Render \cup {Failed} /\ Return(w, value[w])
      BY <1>20, <2>1 DEF TypeOK, Rendered
    <3>. QED  BY <1>20, <3>1, ReturnTypes DEF TypeOK, Rendered
  <2>2. CASE key[w] # Nothing
    <3>1. pc' = [pc EXCEPT ![w] = "rekey"] /\ unread' = [unread EXCEPT ![w] = File]
      BY <1>20, <2>2 DEF Rendered, Goto, StartReading
    <3>2. pc' \in [Worker -> {"idle", "key", "get", "lock", "answered"} \cup Guarded]
      BY <3>1 DEF TypeOK, Guarded
    <3>3. unread' \in [Worker -> SUBSET File]
      BY <3>1 DEF TypeOK
    <3>4. UNCHANGED <<serviceVars, processVars, directoryVars, seen, key, value, calls>>
      BY <1>20, <2>2 DEF Rendered, processVars
    <3>. QED
      BY <3>2, <3>3, <3>4
      DEF TypeOK, serviceVars, processVars, directoryVars
  <2>. QED  BY <2>1, <2>2
<1>21. CASE InputsStand(w)
  <2>1. value[w] \in Render /\ value[w] \in Render \cup {Failed}
    BY DEF TypeOK
  <2>2. Insert(w, value[w]) /\ key[w] # Nothing
    BY <1>21 DEF InputsStand, PhaseInv, PhaseOf
  <2>3. values' \in [Process -> [Key -> Render \cup {Nothing}]]
    BY <2>1, <2>2, InsertTypes
  <2>4. CASE identity[ProcessOf[w]] = Nothing
    <3>1. Return(w, value[w])
      BY <1>21, <2>4 DEF InputsStand
    <3>. QED  BY <1>21, <2>1, <2>3, <3>1, ReturnTypes DEF TypeOK, InputsStand
  <2>5. CASE identity[ProcessOf[w]] # Nothing
    BY <1>21, <2>3, <2>5 DEF TypeOK, InputsStand, Goto, Guarded
  <2>. QED  BY <2>4, <2>5
<1>. QED  BY <1>1, <1>2, <1>3, <1>4, <1>5, <1>6, <1>7, <1>8, <1>9, <1>10, <1>11, <1>12, <1>13, <1>14, <1>15, <1>16, <1>17, <1>18, <1>19, <1>20, <1>21 DEF Step

(* So does every step of the surroundings, and the start of a call. *)
LEMMA OutsideTypes ==
  ASSUME TypeOK,
         \/ Edit \/ Upgrade \/ Hour
         \/ \E p \in Process : Stop(p)
         \/ \E w \in Worker : Call(w)
         \/ UNCHANGED vars
  PROVE  TypeOK'
<1>. USE DEF serviceVars, processVars, directoryVars, workVars
<1>1. CASE Edit
  BY <1>1 DEF TypeOK, Edit, Key
<1>2. CASE Upgrade
  BY <1>2 DEF TypeOK, Upgrade
<1>3. CASE Hour
  BY <1>3 DEF TypeOK, Hour
<1>4. ASSUME NEW p \in Process, Stop(p)
      PROVE  TypeOK'
  <2>1. Blank \in Key /\ NoRender \in Render
    BY BlankTypes DEF TypeOK
  <2>2. /\ began' \in [Worker -> Key \cup {Nothing}]
        /\ answer' \in [Worker -> Render \cup {Nothing, Failed}]
        /\ pc' \in [Worker -> {"idle", "key", "get", "lock", "answered"} \cup Guarded]
    BY <1>4 DEF TypeOK, Stop
  <2>3. /\ unread' \in [Worker -> SUBSET File]
        /\ seen' \in [Worker -> Key]
        /\ key' \in [Worker -> Key \cup {Nothing}]
        /\ value' \in [Worker -> Render]
    BY <1>4, <2>1 DEF TypeOK, Stop
  <2>4. /\ values' \in [Process -> [Key -> Render \cup {Nothing}]]
        /\ computations' \in [Process -> [Key -> Worker \cup {Nothing}]]
        /\ identity' \in [Process -> Helm \cup {Unasked, Nothing}]
    BY <1>4 DEF TypeOK, Stop
  <2>5. life' \in [Process -> Life]
    BY <1>4, BoundAssumption DEF TypeOK, Stop, Life
  <2>. QED  BY <1>4, <2>2, <2>3, <2>4, <2>5 DEF TypeOK, Stop
<1>5. ASSUME NEW w \in Worker, Call(w)
      PROVE  TypeOK'
  <2>1. calls' \in 0..MaxCalls
    BY <1>5, BoundAssumption DEF TypeOK, Call
  <2>2. began' \in [Worker -> Key \cup {Nothing}]
    BY <1>5 DEF TypeOK, Call
  <2>3. /\ pc' \in [Worker -> {"idle", "key", "get", "lock", "answered"} \cup Guarded]
        /\ unread' \in [Worker -> SUBSET File]
    <3>1. \/ pc' = [pc EXCEPT ![w] = "key"] /\ unread' = [unread EXCEPT ![w] = File]
          \/ pc' = [pc EXCEPT ![w] = "spawn"] /\ unread' = unread
      BY <1>5 DEF Call, Goto, StartReading
    <3>2. pc' \in [Worker -> {"idle", "key", "get", "lock", "answered"} \cup Guarded]
      BY <3>1 DEF TypeOK, Guarded
    <3>3. unread' \in [Worker -> SUBSET File]
      BY <3>1 DEF TypeOK
    <3>. QED  BY <3>2, <3>3
  <2>. QED  BY <1>5, <2>1, <2>2, <2>3 DEF TypeOK, Call
<1>6. CASE UNCHANGED vars
  BY <1>6 DEF TypeOK, vars
<1>. QED  BY <1>1, <1>2, <1>3, <1>4, <1>5, <1>6

-----------------------------------------------------------------------------
(* The steps of one worker and the state of another.                       *)

(* A worker's own state, as another's step leaves it. *)
Stands(u) ==
  /\ began'[u] = began[u]
  /\ answer'[u] = answer[u]
  /\ pc'[u] = pc[u]
  /\ unread'[u] = unread[u]
  /\ seen'[u] = seen[u]
  /\ key'[u] = key[u]
  /\ value'[u] = value[u]

LEMMA ReturnLeavesOthers ==
  ASSUME TypeOK, NEW w \in Worker, NEW u \in Worker, u # w, NEW result, Return(w, result)
  PROVE  Stands(u)
  BY DEF TypeOK, Return, Goto, Stands

(* A worker's step changes no other worker's state, nor the outside world. *)
LEMMA StepLeavesOthers ==
  ASSUME TypeOK, NEW w \in Worker, NEW u \in Worker, u # w, Step(w)
  PROVE  Stands(u)
<1>. USE DEF serviceVars, processVars, directoryVars, workVars
<1>1. CASE HashFile(w)
  BY <1>1 DEF HashFile, TypeOK, Goto, Stands, StartReading
<1>2. CASE HashFails(w)
  BY <1>2 DEF HashFails, TypeOK, Goto, Stands, StartReading
<1>3. CASE HashDone(w)
  BY <1>3 DEF HashDone, TypeOK, Goto, Stands, StartReading
<1>4. CASE Miss(w)
  BY <1>4 DEF Miss, TypeOK, Goto, Stands, StartReading
<1>5. CASE Lock(w)
  BY <1>5 DEF Lock, TypeOK, Goto, Stands, StartReading
<1>6. CASE Identify(w)
  BY <1>6 DEF Identify, TypeOK, Goto, Stands, StartReading
<1>7. CASE NoEntry(w)
  BY <1>7 DEF NoEntry, TypeOK, Goto, Stands, StartReading
<1>8. CASE Spawn(w)
  BY <1>8 DEF Spawn, TypeOK, Goto, Stands, StartReading
<1>9. CASE HelmReads(w)
  BY <1>9 DEF HelmReads, TypeOK, Goto, Stands, StartReading
<1>10. CASE CreateTemporary(w)
  BY <1>10 DEF CreateTemporary, TypeOK, Goto, Stands, StartReading
<1>11. CASE WriteTemporary(w)
  BY <1>11 DEF WriteTemporary, TypeOK, Goto, Stands, StartReading
<1>12. CASE Take(w)
  BY <1>12 DEF Take, TypeOK, Goto, Stands, StartReading
<1>13. CASE Hit(w)
  BY <1>13, ReturnLeavesOthers DEF Hit
<1>14. CASE RenderFails(w)
  BY <1>14, ReturnLeavesOthers DEF RenderFails
<1>15. CASE InputsChanged(w)
  BY <1>15, ReturnLeavesOthers DEF InputsChanged
<1>16. CASE CreateFails(w)
  BY <1>16, ReturnLeavesOthers DEF CreateFails
<1>17. CASE WriteFails(w)
  BY <1>17, ReturnLeavesOthers DEF WriteFails
<1>18. CASE Persist(w)
  BY <1>18, ReturnLeavesOthers DEF Persist
<1>19. CASE ReadDisk(w)
  BY <1>19, ReturnLeavesOthers DEF ReadDisk
<1>20. CASE Rendered(w)
  BY <1>20, ReturnLeavesOthers DEF Rendered, TypeOK, Goto, Stands, StartReading
<1>21. CASE InputsStand(w)
  BY <1>21, ReturnLeavesOthers DEF InputsStand, TypeOK, Goto, Stands, StartReading
<1>. QED  BY <1>1, <1>2, <1>3, <1>4, <1>5, <1>6, <1>7, <1>8, <1>9, <1>10, <1>11, <1>12, <1>13, <1>14, <1>15, <1>16, <1>17, <1>18, <1>19, <1>20, <1>21 DEF Step

LEMMA StepLeavesOutside ==
  ASSUME NEW w \in Worker, Step(w)
  PROVE  chart' = chart /\ helm' = helm /\ life' = life
  BY DEF Step, Return, serviceVars, processVars, HashFile, HashFails, HashDone, Miss, Lock, Identify, NoEntry, Spawn, HelmReads, CreateTemporary, WriteTemporary, Take, Hit, RenderFails, InputsChanged, CreateFails, WriteFails, Persist, ReadDisk, Rendered, InputsStand

(* What Return leaves of the call itself. *)
LEMMA ReturnClears ==
  ASSUME TypeOK, NEW w \in Worker, NEW result, Return(w, result)
  PROVE  /\ began'[w] = Nothing
         /\ answer'[w] = result
         /\ pc'[w] = "answered"
         /\ unread'[w] = {}
         /\ seen'[w] = Blank
         /\ key'[w] = Nothing
         /\ value'[w] = NoRender
         /\ identity' = identity
  BY DEF TypeOK, Return, Goto

(* A process's answer to which helm it is changes once, when it first asks. *)
LEMMA IdentityIsAskedOnce ==
  ASSUME TypeOK, NEW w \in Worker, Step(w), NEW p \in Process
  PROVE  \/ identity'[p] = identity[p]
         \/ identity[p] = Unasked /\ identity'[p] \in {helm, Nothing}
<1>1. CASE Identify(w)
  BY <1>1, WorkerAssumption DEF TypeOK, Identify
<1>2. CASE ~Identify(w)
  <2>1. identity' = identity
    BY <1>2 DEF Step, Return, processVars, HashFile, HashFails, HashDone, Miss, Lock, NoEntry, Spawn, HelmReads, CreateTemporary, WriteTemporary, Take, Hit, RenderFails, InputsChanged, CreateFails, WriteFails, Persist, ReadDisk, Rendered, InputsStand
  <2>. QED  BY <2>1
<1>. QED  BY <1>1, <1>2

-----------------------------------------------------------------------------
(* The phases of a call.                                                   *)

LEMMA ReturnEndsPhase ==
  ASSUME TypeOK, NEW w \in Worker, NEW result, result # Nothing, Return(w, result)
  PROVE  PhaseOf(w)'
  BY ReturnClears DEF PhaseOf

(* No answer is the absence of one. *)
LEMMA AnswersAreSomething ==
  ASSUME NEW r \in Render \cup {Failed}
  PROVE  r # Nothing
  BY NothingAssumption

LEMMA StepPhase ==
  ASSUME TypeOK, PhaseInv, NEW w \in Worker, Step(w)
  PROVE  PhaseOf(w)'
<1>. USE DEF serviceVars, processVars, directoryVars, workVars
<1>0. PhaseOf(w) /\ value[w] # Nothing /\ Failed # Nothing
  BY AnswersAreSomething DEF PhaseInv, TypeOK
<1>1. CASE HashFile(w)
  BY <1>0, <1>1 DEF HashFile, TypeOK, Goto, PhaseOf
<1>2. CASE HashFails(w)
  BY <1>0, <1>2 DEF HashFails, TypeOK, Goto, PhaseOf
<1>3. CASE HashDone(w)
  BY <1>0, <1>3, NothingAssumption DEF HashDone, TypeOK, Goto, PhaseOf
<1>4. CASE Miss(w)
  BY <1>0, <1>4 DEF Miss, TypeOK, Goto, PhaseOf
<1>5. CASE Lock(w)
  BY <1>0, <1>5 DEF Lock, TypeOK, Goto, PhaseOf
<1>6. CASE Identify(w)
  <2>1. pc[w] = "identity" /\ key[w] # Nothing
    BY <1>0, <1>6 DEF Identify, PhaseOf
  <2>2. identity'[ProcessOf[w]] \in Helm \cup {Nothing}
    BY <1>6, WorkerAssumption DEF Identify, TypeOK
  <2>3. pc'[w] = IF identity'[ProcessOf[w]] = Nothing THEN "spawn" ELSE "disk"
    BY <1>6 DEF Identify, TypeOK, Goto
  <2>4. began' = began /\ answer' = answer /\ key' = key
    BY <1>6 DEF Identify
  <2>5. identity'[ProcessOf[w]] # Unasked
    BY <2>2, NothingAssumption
  <2>. QED  BY <1>0, <2>1, <2>2, <2>3, <2>4, <2>5 DEF PhaseOf
<1>7. CASE NoEntry(w)
  BY <1>0, <1>7, WorkerAssumption, NothingAssumption DEF NoEntry, TypeOK, Goto, PhaseOf
<1>8. CASE Spawn(w)
  BY <1>0, <1>8 DEF Spawn, TypeOK, Goto, PhaseOf
<1>9. CASE HelmReads(w)
  BY <1>0, <1>9 DEF HelmReads, TypeOK, Goto, PhaseOf
<1>10. CASE CreateTemporary(w)
  BY <1>0, <1>10 DEF CreateTemporary, TypeOK, Goto, PhaseOf
<1>11. CASE WriteTemporary(w)
  BY <1>0, <1>11 DEF WriteTemporary, TypeOK, Goto, PhaseOf
<1>12. CASE Take(w)
  BY <1>0, <1>12 DEF Take, TypeOK, Goto, PhaseOf
<1>13. CASE Hit(w)
  BY <1>0, <1>13, ReturnEndsPhase DEF Hit
<1>14. CASE RenderFails(w)
  BY <1>0, <1>14, ReturnEndsPhase DEF RenderFails
<1>15. CASE InputsChanged(w)
  BY <1>0, <1>15, ReturnEndsPhase DEF InputsChanged
<1>16. CASE CreateFails(w)
  BY <1>0, <1>16, ReturnEndsPhase DEF CreateFails
<1>17. CASE WriteFails(w)
  BY <1>0, <1>17, ReturnEndsPhase DEF WriteFails
<1>18. CASE Persist(w)
  BY <1>0, <1>18, ReturnEndsPhase DEF Persist
<1>19. CASE ReadDisk(w)
  BY <1>0, <1>19, ReturnEndsPhase DEF ReadDisk
<1>20. CASE Rendered(w)
  <2>1. CASE key[w] = Nothing
    BY <1>0, <1>20, <2>1, ReturnEndsPhase DEF Rendered
  <2>2. CASE ~(key[w] = Nothing)
    BY <1>0, <1>20, <2>2, WorkerAssumption DEF Rendered, TypeOK, Goto, PhaseOf
  <2>. QED  BY <2>1, <2>2
<1>21. CASE InputsStand(w)
  <2>1. CASE identity[ProcessOf[w]] = Nothing
    BY <1>0, <1>21, <2>1, ReturnEndsPhase DEF InputsStand
  <2>2. CASE ~(identity[ProcessOf[w]] = Nothing)
    BY <1>0, <1>21, <2>2, WorkerAssumption DEF InputsStand, TypeOK, Goto, PhaseOf
  <2>. QED  BY <2>1, <2>2
<1>. QED  BY <1>1, <1>2, <1>3, <1>4, <1>5, <1>6, <1>7, <1>8, <1>9, <1>10, <1>11, <1>12, <1>13, <1>14, <1>15, <1>16, <1>17, <1>18, <1>19, <1>20, <1>21 DEF Step

(* The phases are kept by whatever happens. *)
LEMMA PhaseIsKept ==
  ASSUME TypeOK, PhaseInv, [Next]_vars
  PROVE  PhaseInv'
<1>. SUFFICES ASSUME NEW u \in Worker
              PROVE  PhaseOf(u)'
  BY DEF PhaseInv
<1>0. PhaseOf(u) /\ ProcessOf[u] \in Process
  BY WorkerAssumption DEF PhaseInv
<1>. USE DEF serviceVars, processVars, directoryVars, workVars
<1>1. CASE Edit \/ Upgrade \/ Hour
  BY <1>0, <1>1 DEF Edit, Upgrade, Hour, PhaseOf
<1>2. ASSUME NEW p \in Process, Stop(p)
      PROVE  PhaseOf(u)'
  BY <1>0, <1>2 DEF Stop, PhaseOf, TypeOK
<1>3. ASSUME NEW w \in Worker, Call(w)
      PROVE  PhaseOf(u)'
  BY <1>0, <1>3, NothingAssumption DEF Call, Goto, PhaseOf, TypeOK
<1>4. ASSUME NEW w \in Worker, Step(w)
      PROVE  PhaseOf(u)'
  <2>1. CASE u = w
    BY <1>4, <2>1, StepPhase
  <2>2. CASE u # w
    <3>1. Stands(u)
      BY <1>4, <2>2, StepLeavesOthers
    <3>2. \/ identity'[ProcessOf[u]] = identity[ProcessOf[u]]
          \/ /\ identity[ProcessOf[u]] = Unasked
             /\ identity'[ProcessOf[u]] \in {helm, Nothing}
      BY <1>0, <1>4, IdentityIsAskedOnce
    <3>. QED  BY <1>0, <3>1, <3>2, NothingAssumption DEF Stands, PhaseOf, TypeOK
  <2>. QED  BY <2>1, <2>2
<1>5. CASE UNCHANGED vars
  BY <1>0, <1>5 DEF vars, PhaseOf
<1>. QED  BY <1>1, <1>2, <1>3, <1>4, <1>5 DEF Next

-----------------------------------------------------------------------------
(* What a worker's step does to the state that workers share.              *)

(* Memory changes at the worker's own key, and only on a disk hit or after a
   second walk that found the same chart. *)
LEMMA MemoryStep ==
  ASSUME TypeOK, PhaseInv, NEW w \in Worker, Step(w),
         NEW p \in Process, NEW k \in Key, values'[p][k] # values[p][k]
  PROVE  /\ p = ProcessOf[w] /\ k = key[w]
         /\ \/ ReadDisk(w) /\ values'[p][k] = Entry(w)
            \/ InputsStand(w) /\ values'[p][k] = value[w]
<1>. USE DEF serviceVars, processVars, directoryVars, workVars
<1>1. CASE ReadDisk(w)
  <2>1. Insert(w, Entry(w))
    BY <1>1 DEF ReadDisk
  <2>. QED  BY <1>1, <2>1, WorkerAssumption DEF Insert, TypeOK
<1>2. CASE InputsStand(w)
  <2>1. Insert(w, value[w])
    BY <1>2 DEF InputsStand
  <2>. QED  BY <1>2, <2>1, WorkerAssumption DEF Insert, TypeOK
<1>3. CASE ~ReadDisk(w) /\ ~InputsStand(w)
  <2>1. values' = values
    BY <1>3 DEF Step, HashFile, HashFails, HashDone, Miss, Lock, Identify, NoEntry, Spawn, HelmReads, CreateTemporary, WriteTemporary, Take, Hit, RenderFails, InputsChanged, CreateFails, WriteFails, Persist, Rendered
  <2>. QED  BY <2>1
<1>. QED  BY <1>1, <1>2, <1>3

(* The directory's entries change only when one is renamed into place. *)
LEMMA DirectoryStep ==
  ASSUME TypeOK, NEW w \in Worker, Step(w),
         NEW k \in Key, NEW h \in Helm, disk'[<<k, h>>] # disk[<<k, h>>]
  PROVE  /\ Persist(w)
         /\ k = key[w] /\ h = identity[ProcessOf[w]]
         /\ disk'[<<k, h>>] = value[w]
<1>. USE DEF serviceVars, processVars, directoryVars, workVars
<1>1. CASE Persist(w)
  <2>1. disk' = [disk EXCEPT ![<<key[w], identity[ProcessOf[w]]>>] = value[w]]
    BY <1>1 DEF Persist
  <2>2. <<k, h>> \in DOMAIN disk
    BY DEF TypeOK
  <2>. QED  BY <1>1, <2>1, <2>2
<1>2. CASE ~Persist(w)
  <2>1. disk' = disk
    BY <1>2 DEF Step, HashFile, HashFails, HashDone, Miss, Lock, Identify, NoEntry, Spawn, HelmReads, CreateTemporary, WriteTemporary, Take, Hit, RenderFails, InputsChanged, CreateFails, WriteFails, ReadDisk, Rendered, InputsStand
  <2>. QED  BY <2>1
<1>. QED  BY <1>1, <1>2

(* A returning call leaves every mutex it does not hold as it is. *)
LEMMA ReturnLeavesMutexes ==
  ASSUME TypeOK, NEW w \in Worker, NEW result, Return(w, result),
         NEW p \in Process, NEW k \in Key, computations[p][k] # w
  PROVE  computations'[p][k] = computations[p][k]
  BY WorkerAssumption DEF TypeOK, Return, Unlock

(* A worker takes no mutex that is held, and releases none but its own. *)
LEMMA MutexStep ==
  ASSUME TypeOK, NEW w \in Worker, Step(w),
         NEW p \in Process, NEW k \in Key,
         computations[p][k] # Nothing, computations[p][k] # w
  PROVE  computations'[p][k] = computations[p][k]
<1>. USE DEF serviceVars, processVars, directoryVars, workVars
<1>1. CASE Lock(w)
  BY <1>1, WorkerAssumption DEF Lock, TypeOK
<1>2. CASE \E result : Return(w, result)
  BY <1>2, ReturnLeavesMutexes
<1>3. CASE ~Lock(w) /\ ~\E result : Return(w, result)
  <2>1. computations' = computations
    BY <1>3 DEF Step, HashFile, HashFails, HashDone, Miss, Identify, NoEntry, Spawn, HelmReads, CreateTemporary, WriteTemporary, Take, Hit, RenderFails, InputsChanged, CreateFails, WriteFails, Persist, ReadDisk, Rendered, InputsStand
  <2>. QED  BY <2>1
<1>. QED  BY <1>1, <1>2, <1>3

-----------------------------------------------------------------------------
(* The mutex of a key.                                                     *)

(* A call past its mutex holds it, and until it has a render to store, the
   process remembers none for its key. *)
LockOf(w) ==
  pc[w] \in Guarded /\ key[w] # Nothing =>
    /\ computations[ProcessOf[w]][key[w]] = w
    /\ pc[w] \in {"identity", "disk", "spawn", "render", "rekey"} =>
         Remembered(w) = Nothing

LockInv == \A w \in Worker : LockOf(w)

LEMMA ReturnUnlocks ==
  ASSUME TypeOK, NEW w \in Worker, NEW result, Return(w, result)
  PROVE  LockOf(w)'
  BY ReturnClears DEF LockOf

LEMMA StepLock ==
  ASSUME TypeOK, PhaseInv, LockInv, NEW w \in Worker, Step(w)
  PROVE  LockOf(w)'
<1>. USE DEF serviceVars, processVars, directoryVars, workVars
<1>0. LockOf(w) /\ PhaseOf(w)
  BY DEF LockInv, PhaseInv
<1>1. CASE HashFile(w)
  BY <1>0, <1>1 DEF HashFile, TypeOK, Goto, LockOf, PhaseOf, Remembered, Guarded
<1>2. CASE HashFails(w)
  BY <1>0, <1>2 DEF HashFails, TypeOK, Goto, LockOf, PhaseOf, Remembered, Guarded
<1>3. CASE HashDone(w)
  BY <1>0, <1>3 DEF HashDone, TypeOK, Goto, LockOf, PhaseOf, Remembered, Guarded
<1>4. CASE Miss(w)
  BY <1>0, <1>4 DEF Miss, TypeOK, Goto, LockOf, PhaseOf, Remembered, Guarded
<1>5. CASE Lock(w)
  <2>1. key[w] \in Key /\ key' = key
    BY <1>0, <1>5 DEF Lock, TypeOK, PhaseOf
  <2>2. computations'[ProcessOf[w]][key[w]] = w
    BY <1>5, <2>1, WorkerAssumption DEF Lock, TypeOK
  <2>3. pc'[w] = "again"
    BY <1>5 DEF Lock, TypeOK, Goto
  <2>. QED  BY <2>1, <2>2, <2>3 DEF LockOf
<1>6. CASE Identify(w)
  BY <1>0, <1>6 DEF Identify, TypeOK, Goto, LockOf, PhaseOf, Remembered, Guarded
<1>7. CASE NoEntry(w)
  BY <1>0, <1>7 DEF NoEntry, TypeOK, Goto, LockOf, PhaseOf, Remembered, Guarded
<1>8. CASE Spawn(w)
  BY <1>0, <1>8 DEF Spawn, TypeOK, Goto, LockOf, PhaseOf, Remembered, Guarded
<1>9. CASE HelmReads(w)
  BY <1>0, <1>9 DEF HelmReads, TypeOK, Goto, LockOf, PhaseOf, Remembered, Guarded
<1>10. CASE CreateTemporary(w)
  BY <1>0, <1>10 DEF CreateTemporary, TypeOK, Goto, LockOf, PhaseOf, Remembered, Guarded
<1>11. CASE WriteTemporary(w)
  BY <1>0, <1>11 DEF WriteTemporary, TypeOK, Goto, LockOf, PhaseOf, Remembered, Guarded
<1>12. CASE Take(w)
  BY <1>0, <1>12 DEF Take, TypeOK, Goto, LockOf, PhaseOf, Remembered, Guarded
<1>13. CASE Rendered(w)
  <2>1. CASE key[w] = Nothing
    BY <1>13, <2>1, ReturnUnlocks DEF Rendered
  <2>2. CASE ~(key[w] = Nothing)
    BY <1>0, <1>13, <2>2 DEF Rendered, TypeOK, Goto, LockOf, Remembered, Guarded
  <2>. QED  BY <2>1, <2>2
<1>14. CASE InputsStand(w)
  <2>1. CASE identity[ProcessOf[w]] = Nothing
    BY <1>14, <2>1, ReturnUnlocks DEF InputsStand
  <2>2. CASE ~(identity[ProcessOf[w]] = Nothing)
    BY <1>0, <1>14, <2>2 DEF InputsStand, TypeOK, Goto, LockOf, Remembered, Guarded
  <2>. QED  BY <2>1, <2>2
<1>15. CASE \E result : Return(w, result)
  BY <1>15, ReturnUnlocks
<1>. QED  BY <1>1, <1>2, <1>3, <1>4, <1>5, <1>6, <1>7, <1>8, <1>9, <1>10, <1>11, <1>12, <1>13, <1>14, <1>15 DEF Step, Hit, RenderFails, InputsChanged, CreateFails, WriteFails, Persist, ReadDisk

LEMMA LockIsKept ==
  ASSUME TypeOK, PhaseInv, LockInv, [Next]_vars
  PROVE  LockInv'
<1>. SUFFICES ASSUME NEW u \in Worker
              PROVE  LockOf(u)'
  BY DEF LockInv
<1>0. LockOf(u) /\ PhaseOf(u) /\ ProcessOf[u] \in Process
  BY WorkerAssumption DEF LockInv, PhaseInv
<1>. USE DEF serviceVars, processVars, directoryVars, workVars
<1>1. CASE Edit \/ Upgrade \/ Hour
  BY <1>0, <1>1 DEF Edit, Upgrade, Hour, LockOf, Remembered
<1>2. ASSUME NEW p \in Process, Stop(p)
      PROVE  LockOf(u)'
  <2>1. CASE ProcessOf[u] = p
    <3>1. key'[u] = Nothing
      BY <1>2, <2>1 DEF Stop
    <3>. QED  BY <3>1 DEF LockOf
  <2>2. CASE ProcessOf[u] # p
    <3>1. pc'[u] = pc[u] /\ key'[u] = key[u]
      BY <1>2, <2>2 DEF Stop
    <3>2. /\ computations'[ProcessOf[u]] = computations[ProcessOf[u]]
          /\ values'[ProcessOf[u]] = values[ProcessOf[u]]
      BY <1>0, <1>2, <2>2 DEF Stop, TypeOK
    <3>. QED  BY <1>0, <3>1, <3>2 DEF LockOf, Remembered
  <2>. QED  BY <2>1, <2>2
<1>3. ASSUME NEW w \in Worker, Call(w)
      PROVE  LockOf(u)'
  BY <1>0, <1>3 DEF Call, Goto, LockOf, PhaseOf, Remembered, TypeOK, Guarded
<1>4. ASSUME NEW w \in Worker, Step(w)
      PROVE  LockOf(u)'
  <2>1. CASE u = w
    BY <1>4, <2>1, StepLock
  <2>2. CASE u # w
    <3>. SUFFICES ASSUME pc[u] \in Guarded, key[u] # Nothing
                  PROVE  /\ computations'[ProcessOf[u]][key[u]] = u
                         /\ pc[u] \in {"identity", "disk", "spawn", "render", "rekey"} =>
                              values'[ProcessOf[u]][key[u]] = Nothing
      <4>1. Stands(u)
        BY <1>4, <2>2, StepLeavesOthers
      <4>. QED  BY <4>1 DEF Stands, LockOf, Remembered
    <3>1. key[u] \in Key /\ u # Nothing /\ computations[ProcessOf[u]][key[u]] = u
      BY <1>0, NothingAssumption DEF LockOf, TypeOK
    <3>2. computations'[ProcessOf[u]][key[u]] = u
      BY <1>0, <1>4, <2>2, <3>1, MutexStep
    <3>3. values'[ProcessOf[u]][key[u]] = values[ProcessOf[u]][key[u]]
      <4>1. SUFFICES ASSUME values'[ProcessOf[u]][key[u]] # values[ProcessOf[u]][key[u]]
                     PROVE  FALSE
        OBVIOUS
      <4>2. /\ ProcessOf[u] = ProcessOf[w] /\ key[u] = key[w]
            /\ ReadDisk(w) \/ InputsStand(w)
        BY <1>0, <1>4, <3>1, <4>1, MemoryStep
      <4>3. pc[w] \in Guarded /\ key[w] # Nothing
        BY <3>1, <4>2 DEF ReadDisk, InputsStand, Guarded
      <4>4. computations[ProcessOf[w]][key[w]] = w
        BY <4>3 DEF LockInv, LockOf
      <4>. QED  BY <2>2, <3>1, <4>2, <4>4
    <3>. QED  BY <1>0, <3>2, <3>3 DEF LockOf, Remembered
  <2>. QED  BY <2>1, <2>2
<1>5. CASE UNCHANGED vars
  BY <1>0, <1>5 DEF vars, LockOf, Remembered
<1>. QED  BY <1>1, <1>2, <1>3, <1>4, <1>5 DEF Next

-----------------------------------------------------------------------------
(* Who holds a mutex.                                                      *)

(* A mutex that is held is held for the call of a worker that is past it. *)
HeldBy(p, k, w) ==
  ProcessOf[w] = p /\ key[w] = k /\ pc[w] \in Guarded

HeldInv ==
  \A p \in Process, k \in Key, u \in Worker :
    computations[p][k] = u => HeldBy(p, k, u)

LEMMA StepKeepsHolder ==
  ASSUME TypeOK, PhaseInv, NEW w \in Worker, Step(w),
         NEW p \in Process, NEW k \in Key, HeldBy(p, k, w),
         computations'[p][k] = w
  PROVE  HeldBy(p, k, w)'
<1>. USE DEF serviceVars, processVars, directoryVars, workVars
<1>0. k # Nothing
  BY NothingAssumption
<1>1. ~\E result : Return(w, result)
  <2>1. SUFFICES ASSUME NEW result, Return(w, result) PROVE FALSE
    OBVIOUS
  <2>2. computations'[p][k] # w
    BY <2>1, NothingAssumption DEF Return, Unlock, HeldBy, TypeOK
  <2>. QED  BY <2>2
<1>2. CASE HashFile(w) \/ Miss(w) \/ HelmReads(w) \/ Spawn(w) \/ NoEntry(w)
  BY <1>2 DEF HashFile, Miss, HelmReads, Spawn, NoEntry, HeldBy, Guarded, TypeOK, Goto
<1>3. CASE CreateTemporary(w) \/ WriteTemporary(w)
  BY <1>3 DEF CreateTemporary, WriteTemporary, HeldBy, Guarded, TypeOK, Goto
<1>4. CASE HashFails(w) \/ HashDone(w) \/ Lock(w) \/ Take(w)
  BY <1>4 DEF HashFails, HashDone, Lock, Take, HeldBy, Guarded
<1>5. CASE Identify(w)
  BY <1>5 DEF Identify, HeldBy, Guarded, TypeOK, Goto
<1>6. CASE Rendered(w)
  <2>1. key[w] # Nothing
    BY <1>0 DEF HeldBy
  <2>2. Goto(w, "rekey") /\ UNCHANGED key
    BY <1>6, <2>1 DEF Rendered
  <2>. QED  BY <2>2 DEF HeldBy, Guarded, TypeOK, Goto
<1>7. CASE InputsStand(w)
  <2>1. Goto(w, "create") /\ UNCHANGED key
    BY <1>1, <1>7 DEF InputsStand
  <2>. QED  BY <2>1 DEF HeldBy, Guarded, TypeOK, Goto
<1>. QED  BY <1>1, <1>2, <1>3, <1>4, <1>5, <1>6, <1>7
          DEF Step, Hit, RenderFails, InputsChanged, CreateFails, WriteFails, Persist, ReadDisk

LEMMA HolderIsKept ==
  ASSUME TypeOK, PhaseInv, HeldInv, [Next]_vars
  PROVE  HeldInv'
<1>. SUFFICES ASSUME NEW p \in Process, NEW k \in Key, NEW u \in Worker,
                     computations'[p][k] = u
              PROVE  HeldBy(p, k, u)'
  BY DEF HeldInv
<1>. USE DEF serviceVars, processVars, directoryVars, workVars
<1>0. /\ computations[p][k] = u => HeldBy(p, k, u)
      /\ computations[p][k] \in Worker \cup {Nothing}
      /\ u # Nothing
  <2>1. computations[p][k] = u => HeldBy(p, k, u)
    BY DEF HeldInv
  <2>2. computations[p][k] \in Worker \cup {Nothing}
    BY DEF TypeOK
  <2>. QED  BY <2>1, <2>2, NothingAssumption
<1>1. CASE Edit \/ Upgrade \/ Hour \/ UNCHANGED vars
  <2>1. UNCHANGED <<computations, pc, key>>
    BY <1>1 DEF Edit, Upgrade, Hour, vars
  <2>. QED  BY <1>0, <2>1 DEF HeldBy
<1>2. ASSUME NEW q \in Process, Stop(q)
      PROVE  HeldBy(p, k, u)'
  <2>1. /\ p # q
        /\ computations'[p][k] = computations[p][k]
    BY <1>0, <1>2 DEF Stop, TypeOK
  <2>2. ProcessOf[u] # q => pc'[u] = pc[u] /\ key'[u] = key[u]
    BY <1>2 DEF Stop
  <2>. QED  BY <1>0, <2>1, <2>2 DEF HeldBy
<1>3. ASSUME NEW w \in Worker, Call(w)
      PROVE  HeldBy(p, k, u)'
  <2>1. /\ UNCHANGED <<computations, key>> /\ pc[w] = "idle"
        /\ u # w => pc'[u] = pc[u]
    BY <1>3 DEF Call, Goto, TypeOK
  <2>. QED  BY <1>0, <2>1 DEF HeldBy, Guarded
<1>4. ASSUME NEW w \in Worker, Step(w)
      PROVE  HeldBy(p, k, u)'
  <2>1. CASE computations[p][k] = u /\ u = w
    BY <1>0, <1>4, <2>1, StepKeepsHolder
  <2>2. CASE computations[p][k] = u /\ u # w
    <3>1. Stands(u)
      BY <1>4, <2>2, StepLeavesOthers
    <3>. QED  BY <1>0, <2>2, <3>1 DEF HeldBy, Stands
  <2>3. CASE computations[p][k] # u
    <3>1. computations[p][k] = Nothing \/ computations[p][k] = w
      BY <1>0, <1>4, <2>3, MutexStep
    <3>2. ~\E result : Return(w, result)
      <4>. SUFFICES ASSUME NEW result, Return(w, result) PROVE FALSE
        OBVIOUS
      <4>1. computations'[p][k] \in {computations[p][k], Nothing}
        BY DEF Return, Unlock, TypeOK
      <4>2. computations[p][k] = w
        BY <1>0, <2>3, <3>1, <4>1
      <4>. QED  BY <1>0, <2>3, <4>1
    <3>3. Lock(w)
      <4>1. SUFFICES ASSUME ~Lock(w) PROVE computations' = computations
        BY <2>3
      <4>. QED  BY <1>4, <3>2, <4>1 DEF Step, HashFile, HashFails, HashDone, Miss, Identify, NoEntry, Spawn, HelmReads, CreateTemporary, WriteTemporary, Take, Hit, RenderFails, InputsChanged, CreateFails, WriteFails, Persist, ReadDisk, Rendered, InputsStand
    <3>4. p = ProcessOf[w] /\ k = key[w] /\ u = w
      BY <2>3, <3>3 DEF Lock, TypeOK
    <3>5. pc'[w] = "again" /\ key' = key
      BY <3>3 DEF Lock, Goto, TypeOK
    <3>. QED  BY <3>4, <3>5 DEF HeldBy, Guarded
  <2>. QED  BY <2>1, <2>2, <2>3
<1>. QED  BY <1>1, <1>2, <1>3, <1>4 DEF Next

-----------------------------------------------------------------------------
(* Temporaries.                                                            *)

(* A temporary is of an earlier life of its process, or of the write that its
   worker is in. *)
TemporaryInv ==
  \A t \in temporaries :
    \/ t[2] < life[ProcessOf[t[1]]]
    \/ t[2] = life[ProcessOf[t[1]]] /\ pc[t[1]] \in {"write", "persist"}

LEMMA TemporariesStep ==
  ASSUME NEW w \in Worker, Step(w), NEW t \in temporaries'
  PROVE  \/ t \in temporaries /\ UNCHANGED temporaries /\ pc[w] \notin {"persist"}
              /\ (pc[w] = "write" => WriteTemporary(w))
         \/ t \in temporaries /\ pc[w] = "create"
         \/ t = Temporary(w) /\ CreateTemporary(w)
         \/ t \in temporaries /\ t # Temporary(w)
<1>. USE DEF serviceVars, processVars, directoryVars, workVars
<1>1. CASE CreateTemporary(w)
  BY <1>1 DEF CreateTemporary
<1>2. CASE CreateFails(w)
  BY <1>2 DEF CreateFails
<1>3. CASE Persist(w) \/ WriteFails(w)
  BY <1>3 DEF Persist, WriteFails, DropTemporary
<1>4. CASE ~(CreateTemporary(w) \/ CreateFails(w) \/ Persist(w) \/ WriteFails(w))
  <2>1. UNCHANGED temporaries /\ pc[w] # "persist" /\ (pc[w] = "write" => WriteTemporary(w))
    BY <1>4 DEF Step, HashFile, HashFails, HashDone, Miss, Lock, Identify, NoEntry, Spawn, HelmReads, WriteTemporary, Take, Hit, RenderFails, InputsChanged, ReadDisk, Rendered, InputsStand
  <2>. QED  BY <2>1
<1>. QED  BY <1>1, <1>2, <1>3, <1>4

LEMMA TemporariesAreKept ==
  ASSUME TypeOK, TemporaryInv, [Next]_vars
  PROVE  TemporaryInv'
<1>. USE DEF serviceVars, processVars, directoryVars, workVars
<1>1. CASE Edit \/ Upgrade \/ Hour
  BY <1>1 DEF Edit, Upgrade, Hour, TemporaryInv
<1>2. ASSUME NEW p \in Process, Stop(p)
      PROVE  TemporaryInv'
  <2>. SUFFICES ASSUME NEW t \in temporaries
                PROVE  \/ t[2] < life'[ProcessOf[t[1]]]
                       \/ /\ t[2] = life'[ProcessOf[t[1]]]
                          /\ pc'[t[1]] \in {"write", "persist"}
    BY <1>2 DEF Stop, TemporaryInv
  <2>1. t[1] \in Worker /\ t[2] \in Nat /\ ProcessOf[t[1]] \in Process
    BY WorkerAssumption DEF TypeOK, Life
  <2>2. CASE ProcessOf[t[1]] = p
    <3>1. life'[p] = life[p] + 1 /\ life[p] \in Nat
      BY <1>2 DEF Stop, TypeOK, Life
    <3>2. t[2] < life[p] \/ t[2] = life[p]
      BY <2>2 DEF TemporaryInv
    <3>. QED  BY <2>1, <2>2, <3>1, <3>2
  <2>3. CASE ProcessOf[t[1]] # p
    <3>1. pc'[t[1]] = pc[t[1]]
      BY <1>2, <2>1, <2>3 DEF Stop
    <3>2. life'[ProcessOf[t[1]]] = life[ProcessOf[t[1]]]
      BY <1>2, <2>1, <2>3 DEF Stop, TypeOK
    <3>. QED  BY <3>1, <3>2 DEF TemporaryInv
  <2>. QED  BY <2>2, <2>3
<1>3. ASSUME NEW w \in Worker, Call(w)
      PROVE  TemporaryInv'
  BY <1>3 DEF Call, Goto, TemporaryInv, TypeOK
<1>4. ASSUME NEW w \in Worker, Step(w)
      PROVE  TemporaryInv'
  <2>. SUFFICES ASSUME NEW t \in temporaries'
                PROVE  \/ t[2] < life[ProcessOf[t[1]]]
                       \/ /\ t[2] = life[ProcessOf[t[1]]]
                          /\ pc'[t[1]] \in {"write", "persist"}
    BY <1>4, StepLeavesOutside DEF TemporaryInv
  <2>1. CASE t = Temporary(w) /\ CreateTemporary(w)
    BY <2>1 DEF Temporary, CreateTemporary, Goto, TypeOK
  <2>2. CASE t \in temporaries /\ t[1] # w
    <3>1. t[1] \in Worker
      BY <2>2 DEF TypeOK
    <3>2. pc'[t[1]] = pc[t[1]]
      BY <1>4, <2>2, <3>1, StepLeavesOthers DEF Stands
    <3>. QED  BY <2>2, <3>2 DEF TemporaryInv
  <2>3. CASE t \in temporaries /\ t[1] = w /\ t[2] < life[ProcessOf[w]]
    BY <2>3
  <2>4. CASE t \in temporaries /\ t[1] = w /\ t[2] = life[ProcessOf[w]]
             /\ pc[w] \in {"write", "persist"}
    <3>1. t = Temporary(w)
      BY <2>4 DEF Temporary, TypeOK
    <3>2. CASE CreateTemporary(w)
      BY <2>4, <3>2 DEF CreateTemporary
    <3>3. CASE ~CreateTemporary(w)
      <4>1. WriteTemporary(w)
        BY <1>4, <2>4, <3>1, <3>3, TemporariesStep
      <4>. QED  BY <2>4, <4>1 DEF WriteTemporary, Goto, TypeOK
    <3>. QED  BY <3>2, <3>3
  <2>5. \/ t \in temporaries
        \/ t = Temporary(w) /\ CreateTemporary(w)
    BY <1>4, TemporariesStep
  <2>. QED  BY <2>1, <2>2, <2>3, <2>4, <2>5 DEF TemporaryInv
<1>5. CASE UNCHANGED vars
  BY <1>5 DEF vars, TemporaryInv
<1>. QED  BY <1>1, <1>2, <1>3, <1>4, <1>5 DEF Next

-----------------------------------------------------------------------------
(* What a call has read.                                                   *)

(* The brackets: what the call's walks and its helm read, each against the
   versions of the chart before and after.  Files that are still unread are
   left out. *)
WalkOf(w) ==
  /\ began[w] # Nothing => \A f \in File : began[w][f] <= chart[f]
  /\ key[w] # Nothing =>
       \A f \in File : began[w][f] <= key[w][f] /\ key[w][f] <= chart[f]
  /\ pc[w] = "key" =>
       \A f \in File \ unread[w] : began[w][f] <= seen[w][f] /\ seen[w][f] <= chart[f]
  /\ pc[w] \in {"render", "rekey"} =>
       \A f \in File : f \notin unread[w] \/ pc[w] = "rekey" =>
         /\ began[w][f] <= value[w].files[f] /\ value[w].files[f] <= chart[f]
         /\ key[w] # Nothing => key[w][f] <= value[w].files[f]
  /\ pc[w] = "rekey" =>
       \A f \in File \ unread[w] : value[w].files[f] <= seen[w][f]
  /\ pc[w] \in {"create", "write", "persist"} => value[w].files = key[w]

WalkInv == \A w \in Worker : WalkOf(w)

(* Versions are numbers, whatever holds them. *)
LEMMA VersionsAreNumbers ==
  ASSUME TypeOK, NEW w \in Worker, NEW f \in File
  PROVE  /\ chart[f] \in Nat /\ seen[w][f] \in Nat /\ value[w].files[f] \in Nat
         /\ began[w] # Nothing => began[w][f] \in Nat
         /\ key[w] # Nothing => key[w][f] \in Nat
<1>1. \A c \in Key : c[f] \in Nat
  BY DEF Key, Version
<1>2. value[w].files \in Key /\ seen[w] \in Key /\ chart \in Key
  BY DEF TypeOK, Render
<1>3. /\ began[w] # Nothing => began[w] \in Key
      /\ key[w] # Nothing => key[w] \in Key
  BY DEF TypeOK
<1>. QED  BY <1>1, <1>2, <1>3

LEMMA ReturnEndsWalk ==
  ASSUME TypeOK, NEW w \in Worker, NEW result, Return(w, result)
  PROVE  WalkOf(w)'
  BY ReturnClears DEF WalkOf

(* A second walk that sees the first one's chart brackets helm's reading. *)
LEMMA WalksAgree ==
  ASSUME TypeOK, PhaseInv, WalkInv, NEW w \in Worker, InputsStand(w)
  PROVE  value[w].files = key[w]
<1>1. /\ pc[w] = "rekey" /\ unread[w] = {} /\ seen[w] = key[w]
      /\ key[w] # Nothing
  BY DEF InputsStand, PhaseInv, PhaseOf
<1>2. key[w] \in Key /\ value[w].files \in Key
  BY <1>1 DEF TypeOK, Render
<1>3. \A f \in File : key[w][f] <= value[w].files[f] /\ value[w].files[f] <= seen[w][f]
  BY <1>1 DEF WalkInv, WalkOf
<1>4. \A f \in File : value[w].files[f] = key[w][f]
  <2>. TAKE f \in File
  <2>1. value[w].files[f] \in Nat /\ key[w][f] \in Nat
    BY <1>1, VersionsAreNumbers
  <2>. QED  BY <1>1, <1>3, <2>1
<1>. QED  BY <1>2, <1>4 DEF Key

LEMMA StepWalk ==
  ASSUME TypeOK, PhaseInv, WalkInv, NEW w \in Worker, Step(w)
  PROVE  WalkOf(w)'
<1>. USE DEF serviceVars, processVars, directoryVars, workVars
<1>0. WalkOf(w) /\ PhaseOf(w)
  BY DEF WalkInv, PhaseInv
<1>1. CASE HashFile(w)
  <2>1. PICK f \in File :
          /\ seen' = [seen EXCEPT ![w] = [seen[w] EXCEPT ![f] = chart[f]]]
          /\ unread' = [unread EXCEPT ![w] = unread[w] \ {f}]
    BY <1>1 DEF TypeOK, HashFile
  <2>2. /\ \A g \in File : seen'[w][g] = IF g = f THEN chart[f] ELSE seen[w][g]
        /\ unread'[w] = unread[w] \ {f}
    BY <2>1 DEF TypeOK, Key
  <2>3. UNCHANGED <<began, chart, key, value, pc>> /\ pc[w] \in {"key", "rekey"}
    BY <1>1 DEF HashFile
  <2>4. CASE pc[w] = "key"
    <3>1. key[w] = Nothing /\ began[w] # Nothing
      BY <1>0, <2>4 DEF PhaseOf
    <3>2. chart[f] \in Nat
      BY VersionsAreNumbers
    <3>3. \A g \in File \ unread'[w] :
            began[w][g] <= seen'[w][g] /\ seen'[w][g] <= chart[g]
      BY <1>0, <2>2, <2>4, <3>1, <3>2 DEF WalkOf
    <3>. QED  BY <1>0, <2>3, <2>4, <3>1, <3>3 DEF WalkOf
  <2>5. CASE pc[w] = "rekey"
    <3>1. \A g \in File \ unread'[w] : value[w].files[g] <= seen'[w][g]
      BY <1>0, <2>2, <2>5 DEF WalkOf
    <3>. QED  BY <1>0, <2>3, <2>5, <3>1 DEF WalkOf
  <2>. QED  BY <2>3, <2>4, <2>5
<1>2. CASE HashFails(w)
  BY <1>0, <1>2 DEF HashFails, Goto, TypeOK, WalkOf
<1>3. CASE HashDone(w)
  <2>1. key'[w] = seen[w] /\ pc'[w] = "get" /\ UNCHANGED <<began, chart>>
    BY <1>3 DEF HashDone, Goto, TypeOK
  <2>2. \A f \in File : began[w][f] <= seen[w][f] /\ seen[w][f] <= chart[f]
    BY <1>0, <1>3 DEF HashDone, WalkOf
  <2>. QED  BY <1>0, <2>1, <2>2 DEF WalkOf
<1>4. CASE Miss(w) \/ Lock(w) \/ NoEntry(w) \/ CreateTemporary(w) \/ WriteTemporary(w)
  <2>1. UNCHANGED <<began, chart, key, value, seen, unread>>
    BY <1>4 DEF Miss, Lock, NoEntry, CreateTemporary, WriteTemporary
  <2>2. \/ pc'[w] \in {"lock", "identity", "again", "spawn"}
        \/ pc[w] \in {"create", "write"} /\ pc'[w] \in {"write", "persist"}
    BY <1>4 DEF Miss, Lock, NoEntry, CreateTemporary, WriteTemporary, Goto, TypeOK
  <2>. QED  BY <1>0, <2>1, <2>2 DEF WalkOf
<1>5. CASE Identify(w)
  <2>1. UNCHANGED <<began, chart, key, value, seen, unread>>
    BY <1>5 DEF Identify
  <2>2. pc'[w] \in {"spawn", "disk"}
    BY <1>5 DEF Identify, Goto, TypeOK
  <2>. QED  BY <1>0, <2>1, <2>2 DEF WalkOf
<1>6. CASE Spawn(w)
  BY <1>0, <1>6 DEF Spawn, StartReading, Goto, TypeOK, WalkOf
<1>7. CASE HelmReads(w)
  <2>1. PICK f \in File :
          /\ value' = [value EXCEPT ![w] =
               [files |-> [value[w].files EXCEPT ![f] = chart[f]],
                helm |-> value[w].helm]]
          /\ unread' = [unread EXCEPT ![w] = unread[w] \ {f}]
    BY <1>7 DEF TypeOK, HelmReads
  <2>2. value[w].files \in Key /\ chart[f] \in Nat
    BY VersionsAreNumbers DEF TypeOK, Render
  <2>3. value'[w].files = [value[w].files EXCEPT ![f] = chart[f]]
    BY <2>1 DEF TypeOK
  <2>4. /\ \A g \in File : value'[w].files[g] = IF g = f THEN chart[f]
                                                 ELSE value[w].files[g]
        /\ unread'[w] = unread[w] \ {f}
    BY <2>1, <2>2, <2>3 DEF Key, TypeOK
  <2>5. UNCHANGED <<began, chart, key, pc>> /\ pc[w] = "render" /\ began[w] # Nothing
    BY <1>0, <1>7 DEF HelmReads, PhaseOf
  <2>6. \A g \in File \ unread'[w] :
          /\ began[w][g] <= value'[w].files[g] /\ value'[w].files[g] <= chart[g]
          /\ key[w] # Nothing => key[w][g] <= value'[w].files[g]
    BY <1>0, <2>2, <2>4, <2>5 DEF WalkOf
  <2>. QED  BY <1>0, <2>5, <2>6 DEF WalkOf
<1>8. CASE Take(w)
  BY <1>0, <1>8 DEF Take, Goto, TypeOK, WalkOf
<1>9. CASE Rendered(w)
  <2>1. CASE key[w] = Nothing
    BY <1>9, <2>1, ReturnEndsWalk DEF Rendered
  <2>2. CASE key[w] # Nothing
    <3>1. /\ pc[w] = "render" /\ unread[w] = {}
          /\ pc'[w] = "rekey" /\ unread'[w] = File
          /\ UNCHANGED <<began, chart, key, value>>
      BY <1>9, <2>2 DEF Rendered, Goto, StartReading, TypeOK
    <3>. QED  BY <1>0, <3>1 DEF WalkOf
  <2>. QED  BY <2>1, <2>2
<1>10. CASE InputsStand(w)
  <2>1. CASE identity[ProcessOf[w]] = Nothing
    BY <1>10, <2>1, ReturnEndsWalk DEF InputsStand
  <2>2. CASE identity[ProcessOf[w]] # Nothing
    <3>1. pc'[w] = "create" /\ UNCHANGED <<began, chart, key, value>>
      BY <1>10, <2>2 DEF InputsStand, Goto, TypeOK
    <3>. QED  BY <1>0, <1>10, <3>1, WalksAgree DEF WalkOf
  <2>. QED  BY <2>1, <2>2
<1>11. CASE \E result : Return(w, result)
  BY <1>11, ReturnEndsWalk
<1>. QED  BY <1>1, <1>2, <1>3, <1>4, <1>5, <1>6, <1>7, <1>8, <1>9, <1>10, <1>11
          DEF Step, Hit, RenderFails, InputsChanged, CreateFails, WriteFails, Persist, ReadDisk

(* Without reverts no file of the chart ever gets an older version. *)
LEMMA ChartGrows ==
  ASSUME ~Reverts, TypeOK, [Next]_vars, NEW f \in File
  PROVE  chart[f] <= chart'[f]
<1>0. chart[f] \in Nat
  BY DEF TypeOK, Key, Version
<1>1. CASE Edit
  BY <1>0, <1>1 DEF Edit, TypeOK, Key, Version
<1>2. CASE ~Edit
  <2>1. chart' = chart
    BY <1>2, StepLeavesOutside DEF Next, Upgrade, Hour, Stop, Call, vars, serviceVars
  <2>. QED  BY <1>0, <2>1
<1>. QED  BY <1>1, <1>2

LEMMA WalksAreKept ==
  ASSUME ~Reverts, TypeOK, PhaseInv, WalkInv, [Next]_vars
  PROVE  WalkInv'
<1>. SUFFICES ASSUME NEW u \in Worker
              PROVE  WalkOf(u)'
  BY DEF WalkInv
<1>0. WalkOf(u) /\ PhaseOf(u)
  BY DEF WalkInv, PhaseInv
<1>. USE DEF serviceVars, processVars, directoryVars, workVars
<1>1. CASE Edit
  <2>1. UNCHANGED <<began, unread, seen, key, value, pc>>
    BY <1>1 DEF Edit
  <2>2. \A f \in File : chart[f] <= chart'[f] /\ chart[f] \in Nat /\ chart'[f] \in Nat
    <3>1. TypeOK'
      BY <1>1, OutsideTypes
    <3>2. \A f \in File : chart[f] \in Nat /\ chart'[f] \in Nat
      BY <3>1 DEF TypeOK, Key, Version
    <3>. QED  BY <3>2, ChartGrows
  <2>3. \A f \in File :
          /\ seen[u][f] \in Nat /\ value[u].files[f] \in Nat
          /\ began[u] # Nothing => began[u][f] \in Nat
          /\ key[u] # Nothing => key[u][f] \in Nat
    BY VersionsAreNumbers
  <2>4. pc[u] \in {"key", "render", "rekey"} \/ key[u] # Nothing => began[u] # Nothing
    BY <1>0 DEF PhaseOf
  <2>5. \A f \in File, n \in Nat : n <= chart[f] => n <= chart'[f]
    BY <2>2
  <2>. QED  BY <1>0, <2>1, <2>3, <2>4, <2>5 DEF WalkOf
<1>2. CASE Upgrade \/ Hour
  BY <1>0, <1>2 DEF Upgrade, Hour, WalkOf
<1>3. ASSUME NEW p \in Process, Stop(p)
      PROVE  WalkOf(u)'
  <2>1. CASE ProcessOf[u] = p
    <3>1. began'[u] = Nothing /\ key'[u] = Nothing /\ pc'[u] = "idle"
      BY <1>3, <2>1 DEF Stop
    <3>. QED  BY <3>1 DEF WalkOf
  <2>2. CASE ProcessOf[u] # p
    <3>1. Stands(u) /\ chart' = chart
      BY <1>3, <2>2 DEF Stop, Stands
    <3>. QED  BY <1>0, <3>1 DEF Stands, WalkOf
  <2>. QED  BY <2>1, <2>2
<1>4. ASSUME NEW w \in Worker, Call(w)
      PROVE  WalkOf(u)'
  <2>1. CASE u = w
    <3>1. began'[u] = chart /\ chart' = chart /\ key'[u] = Nothing
      BY <1>0, <1>4, <2>1 DEF Call, PhaseOf, TypeOK
    <3>2. (pc'[u] = "key" /\ unread'[u] = File) \/ pc'[u] = "spawn"
      BY <1>4, <2>1 DEF Call, Goto, StartReading, TypeOK
    <3>3. \A f \in File : chart[f] <= chart[f]
      BY VersionsAreNumbers
    <3>. QED  BY <3>1, <3>2, <3>3 DEF WalkOf
  <2>2. CASE u # w
    <3>1. Stands(u) /\ chart' = chart
      BY <1>4, <2>2 DEF Call, Goto, StartReading, TypeOK, Stands
    <3>. QED  BY <1>0, <3>1 DEF Stands, WalkOf
  <2>. QED  BY <2>1, <2>2
<1>5. ASSUME NEW w \in Worker, Step(w)
      PROVE  WalkOf(u)'
  <2>1. CASE u = w
    BY <1>5, <2>1, StepWalk
  <2>2. CASE u # w
    <3>1. Stands(u) /\ chart' = chart
      BY <1>5, <2>2, StepLeavesOthers, StepLeavesOutside
    <3>. QED  BY <1>0, <3>1 DEF Stands, WalkOf
  <2>. QED  BY <2>1, <2>2
<1>6. CASE UNCHANGED vars
  BY <1>0, <1>6 DEF vars, WalkOf
<1>. QED  BY <1>1, <1>2, <1>3, <1>4, <1>5, <1>6 DEF Next

-----------------------------------------------------------------------------
(* What is stored, and which helm rendered it.                             *)

(* Whatever a running process knows of helm is the helm that is installed. *)
HelmInv ==
  /\ \A w \in Worker :
       pc[w] \in {"render", "rekey", "create", "write", "persist"} =>
         value[w].helm = helm
  /\ \A p \in Process : identity[p] \in Helm => identity[p] = helm
  /\ \A p \in Process, k \in Key : values[p][k] # Nothing => values[p][k].helm = helm

StoreInv == EntriesAreTrue /\ HelmInv

(* A render is its files and its helm. *)
LEMMA RenderIsItsParts ==
  ASSUME NEW r \in Render
  PROVE  r = [files |-> r.files, helm |-> r.helm]
  BY DEF Render

(* A disk hit is the render that its key and the process's helm name. *)
LEMMA DiskHitIsTrue ==
  ASSUME TypeOK, PhaseInv, StoreInv, NEW w \in Worker, ReadDisk(w)
  PROVE  /\ Entry(w) \in Render
         /\ Entry(w).files = key[w]
         /\ Entry(w).helm = helm
<1>1. key[w] \in Key /\ identity[ProcessOf[w]] \in Helm
  BY DEF ReadDisk, PhaseInv, PhaseOf, TypeOK
<1>2. identity[ProcessOf[w]] = helm
  BY <1>1, WorkerAssumption DEF StoreInv, HelmInv
<1>3. Entry(w) = [files |-> key[w], helm |-> helm]
  BY <1>1, <1>2 DEF ReadDisk, Entry, StoreInv, EntriesAreTrue
<1>. QED  BY <1>1, <1>2, <1>3 DEF Render

LEMMA StepEntries ==
  ASSUME TypeOK, PhaseInv, WalkInv, StoreInv, NEW w \in Worker, Step(w)
  PROVE  EntriesAreTrue'
<1>1. ASSUME NEW p \in Process, NEW k \in Key, values'[p][k] # Nothing
      PROVE  values'[p][k].files = k
  <2>1. CASE values'[p][k] = values[p][k]
    BY <1>1, <2>1 DEF StoreInv, EntriesAreTrue
  <2>2. CASE values'[p][k] # values[p][k]
    <3>1. /\ k = key[w]
          /\ \/ ReadDisk(w) /\ values'[p][k] = Entry(w)
             \/ InputsStand(w) /\ values'[p][k] = value[w]
      BY <2>2, MemoryStep
    <3>. QED  BY <3>1, DiskHitIsTrue, WalksAgree
  <2>. QED  BY <2>1, <2>2
<1>2. ASSUME NEW k \in Key, NEW h \in Helm, disk'[<<k, h>>] # Nothing
      PROVE  disk'[<<k, h>>] = [files |-> k, helm |-> h]
  <2>1. CASE disk'[<<k, h>>] = disk[<<k, h>>]
    BY <1>2, <2>1 DEF StoreInv, EntriesAreTrue
  <2>2. CASE disk'[<<k, h>>] # disk[<<k, h>>]
    <3>1. /\ Persist(w)
          /\ k = key[w] /\ h = identity[ProcessOf[w]]
          /\ disk'[<<k, h>>] = value[w]
      BY <2>2, DirectoryStep
    <3>2. value[w].files = k /\ value[w].helm = helm /\ h = helm
      BY <3>1, WorkerAssumption DEF Persist, WalkInv, WalkOf, StoreInv, HelmInv
    <3>3. value[w] \in Render
      BY DEF TypeOK
    <3>. QED  BY <3>1, <3>2, <3>3, RenderIsItsParts
  <2>. QED  BY <2>1, <2>2
<1>. QED  BY <1>1, <1>2 DEF EntriesAreTrue

(* The reader's helm is fixed when it is spawned. *)
LEMMA StepReader ==
  ASSUME TypeOK, PhaseInv, HelmInv, NEW w \in Worker, Step(w),
         pc'[w] \in {"render", "rekey", "create", "write", "persist"}
  PROVE  value'[w].helm = helm
<1>. USE DEF serviceVars, processVars, directoryVars, workVars
<1>1. CASE Spawn(w)
  BY <1>1 DEF Spawn, TypeOK
<1>2. CASE HelmReads(w)
  <2>1. \E g : value' = [value EXCEPT ![w] = [files |-> g, helm |-> value[w].helm]]
    BY <1>2 DEF HelmReads
  <2>2. value'[w].helm = value[w].helm
    BY <2>1 DEF TypeOK
  <2>. QED  BY <1>2, <2>2 DEF HelmReads, HelmInv
<1>3. CASE HashFile(w) \/ CreateTemporary(w) \/ WriteTemporary(w)
  BY <1>3 DEF HashFile, CreateTemporary, WriteTemporary, HelmInv
<1>4. CASE Rendered(w)
  BY <1>4, ReturnClears DEF Rendered, HelmInv
<1>5. CASE InputsStand(w)
  BY <1>5, ReturnClears DEF InputsStand, HelmInv
<1>6. CASE HashFails(w) \/ HashDone(w) \/ Miss(w) \/ Lock(w) \/ NoEntry(w) \/ Take(w)
  BY <1>6 DEF HashFails, HashDone, Miss, Lock, NoEntry, Take, Goto, TypeOK
<1>7. CASE Identify(w)
  BY <1>7 DEF Identify, Goto, TypeOK
<1>8. CASE \E result : Return(w, result)
  BY <1>8, ReturnClears
<1>. QED  BY <1>1, <1>2, <1>3, <1>4, <1>5, <1>6, <1>7, <1>8
          DEF Step, Hit, RenderFails, InputsChanged, CreateFails, WriteFails, Persist, ReadDisk

LEMMA StepHelm ==
  ASSUME TypeOK, PhaseInv, StoreInv, NEW w \in Worker, Step(w)
  PROVE  HelmInv'
<1>0. helm' = helm /\ helm \in Helm /\ HelmInv
  BY StepLeavesOutside DEF TypeOK, StoreInv
<1>1. ASSUME NEW u \in Worker,
             pc'[u] \in {"render", "rekey", "create", "write", "persist"}
      PROVE  value'[u].helm = helm
  <2>1. CASE u = w
    BY <1>0, <1>1, <2>1, StepReader
  <2>2. CASE u # w
    BY <1>0, <1>1, <2>2, StepLeavesOthers DEF Stands, HelmInv
  <2>. QED  BY <2>1, <2>2
<1>2. ASSUME NEW p \in Process, identity'[p] \in Helm
      PROVE  identity'[p] = helm
  BY <1>0, <1>2, IdentityIsAskedOnce, NothingAssumption DEF HelmInv
<1>3. ASSUME NEW p \in Process, NEW k \in Key, values'[p][k] # Nothing
      PROVE  values'[p][k].helm = helm
  <2>1. CASE values'[p][k] = values[p][k]
    BY <1>0, <1>3, <2>1 DEF HelmInv
  <2>2. CASE values'[p][k] # values[p][k]
    <3>1. \/ ReadDisk(w) /\ values'[p][k] = Entry(w)
          \/ InputsStand(w) /\ values'[p][k] = value[w]
      BY <2>2, MemoryStep
    <3>2. InputsStand(w) => value[w].helm = helm
      BY <1>0 DEF InputsStand, HelmInv
    <3>. QED  BY <3>1, <3>2, DiskHitIsTrue
  <2>. QED  BY <2>1, <2>2
<1>. QED  BY <1>0, <1>1, <1>2, <1>3 DEF HelmInv

LEMMA StoreIsKept ==
  ASSUME ~UpgradesMidRun, TypeOK, PhaseInv, WalkInv, StoreInv, [Next]_vars
  PROVE  StoreInv'
<1>. USE DEF serviceVars, processVars, directoryVars, workVars
<1>1. CASE Edit \/ Hour
  BY <1>1 DEF Edit, Hour, StoreInv, EntriesAreTrue, HelmInv
<1>2. CASE Upgrade
  <2>1. UNCHANGED <<pc, value, identity, values, disk>>
    BY <1>2 DEF Upgrade
  <2>2. \A p \in Process : Untouched(p)
    BY <1>2 DEF Upgrade
  <2>3. \A w \in Worker : pc[w] = "idle"
    BY <2>2, WorkerAssumption DEF Untouched
  <2>4. \A p \in Process : identity[p] \notin Helm
    BY <2>2, NothingAssumption DEF Untouched
  <2>5. \A p \in Process, k \in Key : values[p][k] = Nothing
    BY <2>2 DEF Untouched
  <2>. QED  BY <2>1, <2>3, <2>4, <2>5 DEF StoreInv, EntriesAreTrue, HelmInv
<1>3. ASSUME NEW p \in Process, Stop(p)
      PROVE  StoreInv'
  <2>1. disk' = disk /\ helm' = helm
    BY <1>3 DEF Stop
  <2>2. \A q \in Process, k \in Key :
          values'[q][k] = Nothing \/ values'[q][k] = values[q][k]
    BY <1>3 DEF Stop, TypeOK
  <2>3. \A q \in Process : identity'[q] = Unasked \/ identity'[q] = identity[q]
    BY <1>3 DEF Stop, TypeOK
  <2>4. \A w \in Worker : \/ pc'[w] = "idle"
                          \/ pc'[w] = pc[w] /\ value'[w] = value[w]
    BY <1>3 DEF Stop
  <2>5. EntriesAreTrue'
    BY <2>1, <2>2 DEF StoreInv, EntriesAreTrue
  <2>6. HelmInv'
    BY <2>1, <2>2, <2>3, <2>4, NothingAssumption DEF StoreInv, HelmInv
  <2>. QED  BY <2>5, <2>6 DEF StoreInv
<1>4. ASSUME NEW w \in Worker, Call(w)
      PROVE  StoreInv'
  <2>1. UNCHANGED <<helm, value, identity, values, disk>>
    BY <1>4 DEF Call
  <2>2. \A u \in Worker : pc'[u] = pc[u] \/ pc'[u] \in {"key", "spawn"}
    BY <1>4 DEF Call, Goto, TypeOK
  <2>. QED  BY <2>1, <2>2 DEF StoreInv, EntriesAreTrue, HelmInv
<1>5. ASSUME NEW w \in Worker, Step(w)
      PROVE  StoreInv'
  BY <1>5, StepEntries, StepHelm DEF StoreInv
<1>6. CASE UNCHANGED vars
  BY <1>6 DEF vars, StoreInv, EntriesAreTrue, HelmInv
<1>. QED  BY <1>1, <1>2, <1>3, <1>4, <1>5, <1>6 DEF Next

-----------------------------------------------------------------------------
(* The caches implement RenderService.                                     *)

(* An answer that RenderService allows the call of w to give. *)
Allowed(w, r) ==
  \/ r = Failed
  \/ r \in Render /\ Between(began[w], r.files, chart) /\ r.helm = helm

(* A call with a key may be answered by any render of that key. *)
LEMMA KeyedRenderIsAllowed ==
  ASSUME WalkInv, NEW w \in Worker, key[w] # Nothing,
         NEW r \in Render, r.files = key[w], r.helm = helm
  PROVE  Allowed(w, r)
  BY DEF WalkInv, WalkOf, Allowed, Between

(* So may it be by what helm has just read. *)
LEMMA FreshRenderIsAllowed ==
  ASSUME TypeOK, WalkInv, HelmInv, NEW w \in Worker,
         pc[w] = "rekey" \/ (pc[w] = "render" /\ unread[w] = {})
  PROVE  Allowed(w, value[w])
  BY DEF TypeOK, WalkInv, WalkOf, HelmInv, Allowed, Between

(* Every answer is an allowed one. *)
LEMMA AnswersAreAllowed ==
  ASSUME TypeOK, PhaseInv, WalkInv, StoreInv, NEW w \in Worker, Step(w), ~Take(w),
         answer' # answer
  PROVE  \E r : Return(w, r) /\ Allowed(w, r) /\ began[w] # Nothing
<1>. USE DEF serviceVars, processVars, directoryVars, workVars
<1>0. PhaseOf(w) /\ HelmInv
  BY DEF PhaseInv, StoreInv
<1>1. CASE Hit(w)
  <2>1. /\ key[w] # Nothing /\ began[w] # Nothing
        /\ Return(w, Remembered(w)) /\ Remembered(w) # Nothing
    BY <1>0, <1>1 DEF Hit, PhaseOf
  <2>2. Remembered(w) \in Render
    BY <2>1, LookupTypes
  <2>3. Remembered(w).files = key[w] /\ Remembered(w).helm = helm
    BY <1>0, <2>1, LookupTypes DEF Remembered, StoreInv, EntriesAreTrue, HelmInv
  <2>. QED  BY <2>1, <2>2, <2>3, KeyedRenderIsAllowed
<1>2. CASE ReadDisk(w)
  <2>1. key[w] # Nothing /\ began[w] # Nothing /\ Return(w, Entry(w))
    BY <1>0, <1>2 DEF ReadDisk, PhaseOf
  <2>. QED  BY <1>2, <2>1, DiskHitIsTrue, KeyedRenderIsAllowed
<1>3. CASE RenderFails(w)
  <2>1. began[w] # Nothing /\ Return(w, Failed)
    BY <1>0, <1>3 DEF RenderFails, PhaseOf
  <2>. QED  BY <2>1 DEF Allowed
<1>4. CASE InputsChanged(w) \/ InputsStand(w) \/ Rendered(w)
  <2>1. /\ began[w] # Nothing /\ Return(w, value[w])
        /\ (pc[w] = "rekey" \/ (pc[w] = "render" /\ unread[w] = {}))
    BY <1>0, <1>4 DEF InputsChanged, InputsStand, Rendered, PhaseOf
  <2>. QED  BY <1>0, <2>1, FreshRenderIsAllowed
<1>5. CASE CreateFails(w) \/ WriteFails(w) \/ Persist(w)
  <2>1. /\ key[w] # Nothing /\ began[w] # Nothing /\ Return(w, value[w])
        /\ pc[w] \in {"create", "write", "persist"}
    BY <1>0, <1>5 DEF CreateFails, WriteFails, Persist, PhaseOf
  <2>2. value[w] \in Render /\ value[w].files = key[w] /\ value[w].helm = helm
    BY <1>0, <2>1 DEF TypeOK, WalkInv, WalkOf, HelmInv
  <2>. QED  BY <2>1, <2>2, KeyedRenderIsAllowed
<1>6. CASE \/ HashFile(w) \/ HashFails(w) \/ HashDone(w) \/ Miss(w) \/ Lock(w)
           \/ Identify(w) \/ NoEntry(w) \/ Spawn(w) \/ HelmReads(w)
           \/ CreateTemporary(w) \/ WriteTemporary(w)
  BY <1>6 DEF HashFile, HashFails, HashDone, Miss, Lock, Identify, NoEntry, Spawn,
              HelmReads, CreateTemporary, WriteTemporary
<1>. QED  BY <1>1, <1>2, <1>3, <1>4, <1>5, <1>6 DEF Step

(* A call's step answers it, takes its answer, or is no step of the service. *)
LEMMA StepServes ==
  ASSUME TypeOK, PhaseInv, WalkInv, StoreInv, NEW w \in Worker, Step(w)
  PROVE  [ServiceNext]_serviceVars
<1>. USE DEF serviceVars, processVars, directoryVars, workVars
<1>0. PhaseOf(w)
  BY DEF PhaseInv
<1>1. CASE Take(w)
  <2>1. answer[w] # Nothing
    BY <1>0, <1>1 DEF Take, PhaseOf
  <2>2. Taken(w)
    BY <1>1, <2>1 DEF Take, Taken
  <2>. QED  BY <2>2 DEF ServiceNext
<1>2. CASE ~Take(w) /\ answer' # answer
  <2>1. PICK r : Return(w, r) /\ Allowed(w, r) /\ began[w] # Nothing
    BY <1>2, AnswersAreAllowed
  <2>2. /\ answer' = [answer EXCEPT ![w] = r]
        /\ began' = [began EXCEPT ![w] = Nothing]
        /\ UNCHANGED <<chart, helm>>
    BY <2>1 DEF Return
  <2>3. CASE r = Failed
    BY <2>1, <2>2, <2>3 DEF Reply, ServiceNext
  <2>4. CASE r # Failed
    <3>1. r \in Render /\ Between(began[w], r.files, chart) /\ r.helm = helm
      BY <2>1, <2>4 DEF Allowed
    <3>2. r = [files |-> r.files, helm |-> helm] /\ r.files \in Key
      BY <3>1, RenderIsItsParts DEF Render
    <3>3. Reply(w)
      BY <2>1, <2>2, <3>1, <3>2 DEF Reply
    <3>. QED  BY <3>3 DEF ServiceNext
  <2>. QED  BY <2>3, <2>4
<1>3. CASE ~Take(w) /\ answer' = answer
  <2>1. began' = began
    <3>1. ASSUME NEW r, Return(w, r)
          PROVE  FALSE
      <4>1. answer'[w] = r /\ pc'[w] = "answered"
        BY <3>1, ReturnClears
      <4>2. answer'[w] # Nothing
        BY <4>1, StepPhase DEF PhaseOf
      <4>3. pc[w] # "answered"
        BY <1>3 DEF Step, HashFile, HashFails, HashDone, Miss, Lock, Identify, NoEntry, Spawn, HelmReads, CreateTemporary, WriteTemporary, Take, Hit, RenderFails, InputsChanged, CreateFails, WriteFails, Persist, ReadDisk, Rendered, InputsStand
      <4>. QED  BY <1>0, <1>3, <4>2, <4>3 DEF PhaseOf
    <3>2. CASE ~\E r : Return(w, r)
      BY <1>3, <3>2 DEF Step, HashFile, HashFails, HashDone, Miss, Lock, Identify, NoEntry, Spawn, HelmReads, CreateTemporary, WriteTemporary, Take, Hit, RenderFails, InputsChanged, CreateFails, WriteFails, Persist, ReadDisk, Rendered, InputsStand
    <3>. QED  BY <3>1, <3>2
  <2>2. chart' = chart /\ helm' = helm
    BY StepLeavesOutside
  <2>. QED  BY <1>3, <2>1, <2>2
<1>. QED  BY <1>1, <1>2, <1>3

LEMMA NextServes ==
  ASSUME ~Reverts, ~UpgradesMidRun, TypeOK, PhaseInv, WalkInv, StoreInv, [Next]_vars
  PROVE  [ServiceNext]_serviceVars
<1>. USE DEF serviceVars, processVars, directoryVars, workVars
<1>1. CASE Edit
  <2>1. EditForward
    BY <1>1 DEF Edit, EditForward
  <2>. QED  BY <2>1 DEF ServiceNext
<1>2. CASE Upgrade
  <2>1. \A w \in Worker : pc[w] = "idle"
    BY <1>2, WorkerAssumption DEF Upgrade, Untouched
  <2>2. \A w \in Worker : began[w] = Nothing
    BY <2>1 DEF PhaseInv, PhaseOf
  <2>3. Install
    BY <1>2, <2>2 DEF Upgrade, Install
  <2>. QED  BY <2>3 DEF ServiceNext
<1>3. CASE Hour
  BY <1>3 DEF Hour
<1>4. ASSUME NEW p \in Process, Stop(p)
      PROVE  [ServiceNext]_serviceVars
  <2>. DEFINE workers == {w \in Worker : ProcessOf[w] = p}
  <2>1. Abandon(workers)
    BY <1>4 DEF Stop, Abandon
  <2>2. workers \in SUBSET Worker
    OBVIOUS
  <2>. QED  BY <2>1, <2>2 DEF ServiceNext
<1>5. ASSUME NEW w \in Worker, Call(w)
      PROVE  [ServiceNext]_serviceVars
  <2>1. began[w] = Nothing /\ answer[w] = Nothing
    BY <1>5 DEF Call, PhaseInv, PhaseOf
  <2>2. Begin(w)
    BY <1>5, <2>1 DEF Call, Begin
  <2>. QED  BY <2>2 DEF ServiceNext
<1>6. ASSUME NEW w \in Worker, Step(w)
      PROVE  [ServiceNext]_serviceVars
  BY <1>6, StepServes
<1>7. CASE UNCHANGED vars
  BY <1>7 DEF vars
<1>. QED  BY <1>1, <1>2, <1>3, <1>4, <1>5, <1>6, <1>7 DEF Next

-----------------------------------------------------------------------------
(* The theorems.                                                           *)

(* What holds whatever the editor and helm's installation do. *)
CallInv == TypeOK /\ PhaseInv /\ LockInv /\ HeldInv /\ TemporaryInv

LEMMA InitCall == Init => CallInv
<1>. SUFFICES ASSUME Init
              PROVE  CallInv
  OBVIOUS
<1>1. helm \in Helm /\ 0 \in Version /\ Blank \in Key /\ NoRender \in Render
  BY FileAssumption, BlankTypes DEF Init, ServiceInit, Version
<1>2. chart \in Key
  BY <1>1 DEF Init, ServiceInit, Key
<1>3. TypeOK
  BY <1>1, <1>2, BoundAssumption DEF Init, ServiceInit, TypeOK, Life
<1>4. PhaseInv /\ LockInv /\ HeldInv /\ TemporaryInv
  BY NothingAssumption DEF Init, ServiceInit, PhaseInv, PhaseOf, LockInv, LockOf,
                           HeldInv, TemporaryInv, Guarded
<1>. QED  BY <1>3, <1>4 DEF CallInv

LEMMA NextCall == CallInv /\ [Next]_vars => CallInv'
<1>. SUFFICES ASSUME CallInv, [Next]_vars
              PROVE  CallInv'
  OBVIOUS
<1>1. TypeOK'
  BY StepTypes, OutsideTypes DEF CallInv, Next
<1>. QED  BY <1>1, PhaseIsKept, LockIsKept, HolderIsKept, TemporariesAreKept DEF CallInv

THEOREM CallsAreConsistent == Spec => []CallInv
  BY InitCall, NextCall, PTL DEF Spec

(* Every variable keeps its type, and of the temporaries only those are old
   that exist. *)
THEOREM TypeCorrect == Spec => []TypeOK
<1>1. CallInv => TypeOK
  BY DEF CallInv
<1>. QED  BY <1>1, CallsAreConsistent, PTL

(* Only a process that was ended outright leaves a temporary behind. *)
THEOREM TemporariesAreAccountedFor == Spec => []OnlyStopsLeaveTemporaries
<1>1. CallInv => OnlyStopsLeaveTemporaries
  BY DEF CallInv, TemporaryInv, OnlyStopsLeaveTemporaries
<1>. QED  BY <1>1, CallsAreConsistent, PTL

(* The mutex of a key is held by exactly the calls of its process that are past
   it and have not returned, never by one that waits, failed or was ended: who
   waits for it, waits for a worker that waits for nobody.  (cached_or_compute,
   the guard.) *)
THEOREM MutexesAreHeldByCalls ==
  Spec => [](\A p \in Process, k \in Key, w \in Worker :
               computations[p][k] = w <=> HeldBy(p, k, w))
<1>. DEFINE Accounted == \A p \in Process, k \in Key, w \in Worker :
                          computations[p][k] = w <=> HeldBy(p, k, w)
<1>1. CallInv => Accounted
  <2>. SUFFICES ASSUME CallInv, NEW p \in Process, NEW k \in Key, NEW w \in Worker
                PROVE  computations[p][k] = w <=> HeldBy(p, k, w)
    OBVIOUS
  <2>1. ASSUME computations[p][k] = w PROVE HeldBy(p, k, w)
    BY <2>1 DEF CallInv, HeldInv
  <2>2. ASSUME HeldBy(p, k, w) PROVE computations[p][k] = w
    BY <2>2, NothingAssumption DEF CallInv, LockInv, LockOf, HeldBy
  <2>. QED  BY <2>1, <2>2
<1>. QED  BY <1>1, CallsAreConsistent, PTL

(* A process starts no render for a key it has remembered or is rendering. *)
THEOREM RendersOnce == Spec => RenderedOnce
<1>. DEFINE Once ==
       \A w \in Worker :
         (pc[w] = "spawn" /\ pc'[w] = "render" /\ key[w] # Nothing) =>
           /\ Remembered(w) = Nothing
           /\ \A u \in Worker \ {w} :
                ProcessOf[u] = ProcessOf[w] => ~Rendering(u, key[w])
<1>1. CallInv => Once
  <2>. SUFFICES ASSUME CallInv, NEW w \in Worker, pc[w] = "spawn", key[w] # Nothing
                PROVE  /\ Remembered(w) = Nothing
                       /\ \A u \in Worker \ {w} :
                            ProcessOf[u] = ProcessOf[w] => ~Rendering(u, key[w])
    OBVIOUS
  <2>1. /\ Remembered(w) = Nothing
        /\ computations[ProcessOf[w]][key[w]] = w
    BY DEF CallInv, LockInv, LockOf, Guarded
  <2>2. ASSUME NEW u \in Worker \ {w}, ProcessOf[u] = ProcessOf[w],
               Rendering(u, key[w])
        PROVE  FALSE
    <3>1. computations[ProcessOf[u]][key[u]] = u /\ key[u] = key[w]
      BY <2>2 DEF CallInv, LockInv, LockOf, Guarded, Rendering
    <3>. QED  BY <2>1, <2>2, <3>1
  <2>. QED  BY <2>1, <2>2
<1>2. CallInv /\ [Next]_vars => [Once]_vars
  BY <1>1
<1>3. Spec => [][Once]_vars
  BY <1>2, CallsAreConsistent, PTL DEF Spec
<1>. QED  BY <1>3 DEF RenderedOnce

(* What holds when versions only grow and helm is not replaced mid-run. *)
CacheInv == CallInv /\ WalkInv /\ StoreInv

LEMMA InitCache == Init => CacheInv
<1>. SUFFICES ASSUME Init
              PROVE  CacheInv
  OBVIOUS
<1>1. WalkInv
  BY DEF Init, ServiceInit, WalkInv, WalkOf
<1>2. StoreInv
  BY NothingAssumption DEF Init, ServiceInit, StoreInv, EntriesAreTrue, HelmInv
<1>. QED  BY <1>1, <1>2, InitCall DEF CacheInv

LEMMA NextCache ==
  ASSUME ~Reverts, ~UpgradesMidRun
  PROVE  CacheInv /\ [Next]_vars => CacheInv'
  BY NextCall, WalksAreKept, StoreIsKept DEF CacheInv, CallInv

THEOREM CachesAreConsistent ==
  ASSUME ~Reverts, ~UpgradesMidRun
  PROVE  Spec => []CacheInv
  BY InitCache, NextCache, PTL DEF Spec

(* An entry, in memory or on disk, is the render of what its key names. *)
THEOREM EntriesAreSound ==
  ASSUME ~Reverts, ~UpgradesMidRun
  PROVE  Spec => []EntriesAreTrue
<1>1. CacheInv => EntriesAreTrue
  BY DEF CacheInv, StoreInv
<1>. QED  BY <1>1, CachesAreConsistent, PTL

(* The caches keep the promise of RenderService: no answer is stale. *)
THEOREM PromiseIsKept ==
  ASSUME ~Reverts, ~UpgradesMidRun
  PROVE  Spec => KeepsPromise
<1>1. Init => ServiceInit
  BY DEF Init
<1>2. CacheInv /\ [Next]_vars => [ServiceNext]_serviceVars
  BY NextServes DEF CacheInv, CallInv
<1>. QED  BY <1>1, <1>2, CachesAreConsistent, PTL DEF Spec, KeepsPromise, ServiceSpec

-----------------------------------------------------------------------------
(* Nearer to the end: what EveryCallReturns rests on besides fairness.     *)

Stage == [s \in {"idle", "key", "get", "lock", "answered"} \cup Guarded |->
            CASE s = "idle"     -> 0  [] s = "key"      -> 1  [] s = "get"     -> 2
              [] s = "lock"     -> 3  [] s = "again"    -> 4  [] s = "identity" -> 5
              [] s = "disk"     -> 6  [] s = "spawn"    -> 7  [] s = "render"  -> 8
              [] s = "rekey"    -> 9  [] s = "create"   -> 10 [] s = "write"   -> 11
              [] s = "persist"  -> 12 [] s = "answered" -> 13]

(* The worker has a file less to read, or goes on and never back. *)
Nearer(w) ==
  \/ pc'[w] = pc[w] /\ unread'[w] \subseteq unread[w] /\ unread'[w] # unread[w]
  \/ Stage[pc[w]] < Stage[pc'[w]]
  \/ pc[w] = "answered" /\ pc'[w] = "idle"

LEMMA ReturnIsNearer ==
  ASSUME TypeOK, NEW w \in Worker, NEW result, Return(w, result),
         pc[w] \in {"get", "lock"} \cup Guarded
  PROVE  Nearer(w)
<1>1. pc'[w] = "answered"
  BY DEF Return, Goto, TypeOK
<1>. QED  BY <1>1 DEF Nearer, Stage, Guarded

LEMMA StepIsNearer ==
  ASSUME TypeOK, NEW w \in Worker, Step(w)
  PROVE  Nearer(w)
<1>1. CASE HashFile(w) \/ HelmReads(w)
  <2>1. PICK f \in unread[w] : unread' = [unread EXCEPT ![w] = unread[w] \ {f}]
    BY <1>1 DEF HashFile, HelmReads
  <2>2. unread'[w] = unread[w] \ {f} /\ pc' = pc
    BY <1>1, <2>1 DEF HashFile, HelmReads, TypeOK
  <2>. QED  BY <2>1, <2>2 DEF Nearer
<1>2. \A to : Goto(w, to) => pc'[w] = to
  BY DEF Goto, TypeOK
<1> DEFINE Goes(from, to) == pc[w] \in from /\ pc'[w] \in to
<1>3. CASE HashFails(w) \/ HashDone(w)
  <2>1. Goes({"key"}, {"get", "spawn"})
    BY <1>2, <1>3 DEF HashFails, HashDone
  <2>. QED  BY <2>1 DEF Nearer, Stage, Guarded
<1>4. CASE Miss(w) \/ Lock(w)
  <2>1. Goes({"get"}, {"lock"}) \/ Goes({"lock"}, {"again"}) \/ Goes({"again"}, {"identity"})
    BY <1>2, <1>4 DEF Miss, Lock
  <2>. QED  BY <2>1 DEF Nearer, Stage, Guarded
<1>5. CASE Identify(w) \/ NoEntry(w)
  <2>1. Goes({"identity"}, {"disk", "spawn"}) \/ Goes({"disk"}, {"spawn"})
    BY <1>2, <1>5 DEF Identify, NoEntry
  <2>. QED  BY <2>1 DEF Nearer, Stage, Guarded
<1>6. CASE Spawn(w) \/ CreateTemporary(w) \/ WriteTemporary(w)
  <2>1. Goes({"spawn"}, {"render"}) \/ Goes({"create"}, {"write"}) \/ Goes({"write"}, {"persist"})
    BY <1>2, <1>6 DEF Spawn, CreateTemporary, WriteTemporary
  <2>. QED  BY <2>1 DEF Nearer, Stage, Guarded
<1>7. CASE Take(w)
  BY <1>2, <1>7 DEF Take, Nearer
<1>8. CASE Hit(w) \/ ReadDisk(w) \/ RenderFails(w) \/ InputsChanged(w)
  BY <1>8, ReturnIsNearer DEF Hit, ReadDisk, RenderFails, InputsChanged, Guarded
<1>9. CASE CreateFails(w) \/ Persist(w) \/ WriteFails(w)
  <2>1. pc[w] \in Guarded
    BY <1>9 DEF CreateFails, Persist, WriteFails, Guarded
  <2>2. Return(w, value[w])
    BY <1>9 DEF CreateFails, Persist, WriteFails
  <2>. QED  BY <2>1, <2>2, ReturnIsNearer
<1>10. CASE Rendered(w)
  <2>1. Goes({"render"}, {"rekey"}) \/ (Return(w, value[w]) /\ pc[w] \in Guarded)
    BY <1>2, <1>10 DEF Rendered, Guarded
  <2>. QED  BY <2>1, ReturnIsNearer DEF Nearer, Stage, Guarded
<1>11. CASE InputsStand(w)
  <2>1. Goes({"rekey"}, {"create"}) \/ (Return(w, value[w]) /\ pc[w] \in Guarded)
    BY <1>2, <1>11 DEF InputsStand, Guarded
  <2>. QED  BY <2>1, ReturnIsNearer DEF Nearer, Stage, Guarded
<1>. QED  BY <1>1, <1>3, <1>4, <1>5, <1>6, <1>7, <1>8, <1>9, <1>10, <1>11 DEF Step

CallProgress ==
  \A w \in Worker : pc[w] # "idle" =>
    IF Step(w) THEN Nearer(w) ELSE pc'[w] = "idle" \/ UNCHANGED <<pc[w], unread[w]>>

(* A call is nearer to its end after each of its steps, and nothing but the end
   of its process sets it back, whatever other workers, editors and upgrades do:
   a render whose inputs changed is not tried again.  With MutexesAreHeldByCalls,
   who waits for a mutex waits for a call that waits for none.
   (cached_or_compute.) *)
THEOREM CallsProgress == Spec => [][CallProgress]_vars
<1>1. CallInv /\ [Next]_vars => [CallProgress]_vars
  <2> SUFFICES ASSUME CallInv, Next, NEW w \in Worker, pc[w] # "idle"
               PROVE  IF Step(w) THEN Nearer(w)
                      ELSE pc'[w] = "idle" \/ UNCHANGED <<pc[w], unread[w]>>
    BY DEF CallProgress
  <2>1. TypeOK
    BY DEF CallInv
  <2>2. Step(w) => Nearer(w)
    BY <2>1, StepIsNearer
  <2>3. CASE Edit \/ Upgrade \/ Hour
    BY <2>2, <2>3 DEF Edit, Upgrade, Hour, serviceVars, workVars
  <2>4. ASSUME NEW p \in Process, Stop(p) PROVE pc'[w] = "idle" \/ UNCHANGED <<pc[w], unread[w]>>
    BY <2>4 DEF Stop
  <2>5. ASSUME NEW u \in Worker, Call(u) PROVE UNCHANGED <<pc[w], unread[w]>>
    BY <2>1, <2>5 DEF Call, Goto, StartReading, TypeOK
  <2>6. ASSUME NEW u \in Worker, u # w, Step(u) PROVE UNCHANGED <<pc[w], unread[w]>>
    BY <2>1, <2>6, StepLeavesOthers DEF Stands
  <2>. QED  BY <2>2, <2>3, <2>4, <2>5, <2>6 DEF Next
<1>. QED  BY <1>1, CallsAreConsistent, PTL DEF Spec
=============================================================================
