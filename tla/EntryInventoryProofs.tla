------------------------- MODULE EntryInventoryProofs -------------------------
(***************************************************************************)
(* What EntryInventory promises for any inventory and any amount of        *)
(* evidence.  The invariant adds to the types that evidence is never       *)
(* older than the data it was counted on; without it the cleanup at the    *)
(* end of a set-up could go by evidence that no longer holds.              *)
(*                                                                         *)
(* And of EntityRegistry, for any two data a set-up and its clean-up find. *)
(***************************************************************************)
EXTENDS MCEntryInventory, TLAPS

\* Counted evidence is about the data the coordinators hold now.
EvidenceCurrent == Listening /\ count > 0 => Trusted(raw, statusOk, devs)

InventoryInv == TypeOK /\ AskedReloadPending /\ EvidenceCurrent

Registries == [devices : SUBSET Devices, held : SUBSET Devices,
               sparse : {"absent", "enabled", "disabled"}, repair : BOOLEAN]

-----------------------------------------------------------------------------
\* Evidence is counted within its bound, and only on a trusted inventory.
LEMMA RecordedType ==
    ASSUME TypeOK, NEW r \in BOOLEAN, NEW ok \in BOOLEAN, NEW ds \in Inventories
    PROVE  /\ Recorded(r, ok, ds) \in 0..EvidenceNeeded
           /\ Recorded(r, ok, ds) > 0 => Trusted(r, ok, ds)
  BY EvidenceAssumption DEF Recorded, TypeOK

\* Enabling entities leaves devices alone; a cleanup keeps the known ones.
LEMMA EnableType ==
    ASSUME NEW reg \in Registries, NEW rl \in BOOLEAN, NEW lv \in BOOLEAN
    PROVE  /\ AfterEnable(reg, rl, lv) \in Registries
           /\ AfterEnable(reg, rl, lv).devices = reg.devices
           /\ AfterEnable(reg, rl, lv).held = reg.held
  BY DEF Registries, AfterEnable

LEMMA CleanupType ==
    ASSUME NEW reg \in Registries, NEW rl \in BOOLEAN, NEW lv \in BOOLEAN
    PROVE  /\ AfterCleanup(reg, rl, lv) \in Registries
           /\ AfterCleanup(reg, rl, lv).devices = reg.devices \cap (known \cup reg.held)
  <1>1. AfterDisable(reg, rl, lv) \in Registries
    BY DEF Registries, AfterDisable
  <1>2. AfterDisable(reg, rl, lv).devices = reg.devices /\ AfterDisable(reg, rl, lv).held = reg.held
    BY DEF Registries, AfterDisable
  <1>3. /\ AfterEnable(AfterDisable(reg, rl, lv), rl, lv) \in Registries
        /\ AfterEnable(AfterDisable(reg, rl, lv), rl, lv).devices = reg.devices
        /\ AfterEnable(AfterDisable(reg, rl, lv), rl, lv).held = reg.held
    BY <1>1, <1>2, EnableType
  <1> QED
    BY <1>3 DEF Registries, AfterCleanup

\* Asking for a reload keeps the types, and what was asked for waits.
LEMMA AsksWaits ==
    ASSUME TypeOK, NEW b, Asks(b)
    PROVE  /\ asked' \in BOOLEAN
           /\ reloads' \in Nat
           /\ reloads' >= reloads
           /\ asked' => (asked \/ reloads' > 0)
  <1>1. reloads \in Nat /\ asked \in BOOLEAN
    BY DEF TypeOK
  <1>2. \/ asked' = TRUE /\ reloads' = reloads + 1
        \/ asked' = asked /\ reloads' = reloads
    BY Zenon DEF Asks
  <1>3. CASE asked' = TRUE /\ reloads' = reloads + 1
    <2>1. reloads' \in Nat /\ reloads' >= reloads /\ reloads' > 0
      BY <1>1, <1>3
    <2> QED
      BY <2>1, <1>3, Zenon
  <1>4. CASE asked' = asked /\ reloads' = reloads
    <2>1. reloads' \in Nat /\ reloads' >= reloads
      BY <1>1, <1>4
    <2> QED
      BY <2>1, <1>1, <1>4, Zenon
  <1> QED
    BY <1>2, <1>3, <1>4, Zenon

\* What the two handlers that count evidence do, for the data of an update.
LEMMA HandleDevicesStep ==
    ASSUME TypeOK, NEW ds \in Inventories, HandleDevices(ds)
    PROVE  /\ count' = Recorded(raw, statusOk, ds)
           /\ ran' \in BOOLEAN /\ registry' \in Registries
           /\ \E b : Asks(b)
           /\ \/ registry'.devices = registry.devices
              \/ /\ registry'.devices = registry.devices \cap (known \cup registry.held)
                 /\ Allowed(count') /\ Keys(ds) \subseteq known
  <1> DEFINE rl == RepairLive(raw, ds)
  <1>1. /\ registry \in Registries /\ ran \in BOOLEAN
        /\ rl \in BOOLEAN /\ live \in BOOLEAN
    BY DEF TypeOK, Registries, RepairLive, Effective
  <1>2. count' = Recorded(raw, statusOk, ds)
    BY DEF HandleDevices
  <1>3. Asks(FALSE) <=> UNCHANGED <<asked, reloads>>
    BY Zenon DEF Asks
  <1>4. CASE ~(Keys(ds) \subseteq known)
    BY <1>1, <1>2, <1>4, Zenon DEF HandleDevices
  <1>5. CASE /\ Keys(ds) \subseteq known
             /\ Keys(ds) # {} /\ MayCleanUp(Recorded(raw, statusOk, ds))
    <2>1. /\ registry' = AfterCleanup(registry, rl, live)
          /\ Asks(CleanupAsks(registry, rl, live))
          /\ ran' = TRUE
      BY <1>5, Zenon DEF HandleDevices
    <2>2. /\ registry' \in Registries
          /\ registry'.devices = registry.devices \cap (known \cup registry.held)
      BY <2>1, <1>1, CleanupType
    <2> QED
      BY <2>1, <2>2, <1>2, <1>5, Zenon DEF MayCleanUp
  <1>6. CASE /\ Keys(ds) \subseteq known
             /\ ~(Keys(ds) # {} /\ MayCleanUp(Recorded(raw, statusOk, ds)))
    <2>1. NoHandlerEffect
      BY <1>6, Zenon DEF HandleDevices
    <2> QED
      BY <2>1, <1>1, <1>2, <1>3, Zenon DEF NoHandlerEffect
  <1> QED
    BY <1>4, <1>5, <1>6, Zenon

LEMMA HandleStatusStep ==
    ASSUME TypeOK, NEW r \in BOOLEAN, NEW ok \in BOOLEAN, HandleStatus(r, ok)
    PROVE  /\ count' = Recorded(r, ok, devs)
           /\ ran' \in BOOLEAN /\ registry' \in Registries
           /\ \E b : Asks(b)
           /\ \/ registry'.devices = registry.devices
              \/ /\ registry'.devices = registry.devices \cap (known \cup registry.held)
                 /\ Allowed(count') /\ Keys(devs) \subseteq known
  <1> DEFINE rl == RepairLive(r, devs)
             enabled == AfterEnable(registry, rl, live)
  <1>1. /\ registry \in Registries /\ ran \in BOOLEAN
        /\ rl \in BOOLEAN /\ live \in BOOLEAN
    BY DEF TypeOK, Registries, RepairLive, Effective
  <1>2. count' = Recorded(r, ok, devs)
    BY DEF HandleStatus
  <1>3. enabled \in Registries /\ enabled.devices = registry.devices /\ enabled.held = registry.held
    BY <1>1, EnableType
  <1>4. CASE ~(Keys(devs) \subseteq known)
    BY <1>1, <1>2, <1>4, Zenon DEF HandleStatus
  <1>5. CASE /\ Keys(devs) \subseteq known
             /\ Keys(devs) # {} /\ MayCleanUp(Recorded(r, ok, devs))
    <2>1. /\ registry' = AfterCleanup(enabled, rl, live)
          /\ \E b : Asks(b)
          /\ ran' = TRUE
      BY <1>5, Zenon DEF HandleStatus
    <2>2. /\ registry' \in Registries
          /\ registry'.devices = enabled.devices \cap (known \cup enabled.held)
      BY <2>1, <1>1, <1>3, CleanupType
    <2> QED
      BY <2>1, <2>2, <1>2, <1>3, <1>5, Zenon DEF MayCleanUp
  <1>6. CASE /\ Keys(devs) \subseteq known
             /\ ~(Keys(devs) # {} /\ MayCleanUp(Recorded(r, ok, devs)))
    <2>1. registry' = enabled /\ (\E b : Asks(b)) /\ ran' = ran
      BY <1>6, Zenon DEF HandleStatus
    <2> QED
      BY <2>1, <1>1, <1>2, <1>3, Zenon
  <1> QED
    BY <1>4, <1>5, <1>6, Zenon

\* The boiler's entities sit on a device; no device leaves.
LEMMA CreateEntitiesStep ==
    ASSUME TypeOK, CreateEntities
    PROVE  registry' \in Registries /\ registry.devices \subseteq registry'.devices
  <1> DEFINE rl == RepairLive(raw, devs)
  <1>1. registry \in Registries /\ known \subseteq Devices /\ rl \in BOOLEAN
    BY DEF TypeOK, Registries, RepairLive, Effective
  <1>2. PICK held \in IF known \cap Holders = {} THEN {registry.held}
                     ELSE {{key} : key \in known \cap Holders} :
           registry' = [registry EXCEPT
                         !.devices = @ \cup Keys(devs),
                         !.held = held,
                         !.repair = @ \/ rl,
                         !.sparse = IF @ # "absent" THEN @
                                    ELSE IF live THEN "enabled" ELSE "disabled"]
    BY DEF CreateEntities
  <1>3. held \subseteq Devices
    BY <1>1, <1>2 DEF Registries
  <1> QED
    BY <1>1, <1>2, <1>3 DEF Registries, Keys

-----------------------------------------------------------------------------
LEMMA InitEstablishes == Init => InventoryInv
  <1> SUFFICES ASSUME Init PROVE InventoryInv
    OBVIOUS
  <1> USE DEF Init
  <1>1. present \in Inventories /\ admitted \in BOOLEAN /\ value \in BOOLEAN
    BY ValuesAssumption
  <1>2. devs \in Inventories /\ known \subseteq Devices
    BY DEF Inventories
  <1>3. devsOk \in BOOLEAN /\ raw \in BOOLEAN /\ statusOk \in BOOLEAN /\ live \in BOOLEAN
    OBVIOUS
  <1>4. ran \in BOOLEAN /\ asked \in BOOLEAN
    OBVIOUS
  <1>5. count \in 0..EvidenceNeeded /\ reloads \in Nat /\ ghosts \in 0..MaxPending
    BY EvidenceAssumption, PendingAssumption
  <1>6. registry \in Registries
    BY DEF Registries
  <1>7. TypeOK
    BY <1>1, <1>2, <1>3, <1>4, <1>5, <1>6 DEF TypeOK, Registries
  <1>8. AskedReloadPending
    BY DEF AskedReloadPending
  <1>9. EvidenceCurrent
    BY DEF EvidenceCurrent, Listening
  <1> QED
    BY <1>7, <1>8, <1>9 DEF InventoryInv

\* The environment leaves what a runtime has counted alone.
LEMMA EnvironmentPreserves ==
    ASSUME InventoryInv, Environment
    PROVE  InventoryInv'
  <1> USE DEF InventoryInv, TypeOK
  <1>1. CASE GatewayChanges
    <2>1. present' \in Inventories /\ admitted' \in BOOLEAN /\ value' \in BOOLEAN
      BY <1>1, ValuesAssumption DEF GatewayChanges
    <2>2. UNCHANGED <<devs, devsOk, raw, statusOk, live, phase, known, ran, asked,
                      count, reloads, registry, ghosts, leaked>>
      BY <1>1 DEF GatewayChanges, data, runtime
    <2> QED
      BY <2>1, <2>2 DEF AskedReloadPending, EvidenceCurrent, Listening, Trusted, Effective
  <1>2. CASE ReloadRequested
    <2>1. reloads' \in Nat /\ reloads' > 0
      BY <1>2 DEF ReloadRequested
    <2>2. UNCHANGED <<present, admitted, value, devs, devsOk, raw, statusOk, live,
                      phase, known, ran, asked, count, registry, ghosts, leaked>>
      BY <1>2 DEF ReloadRequested, gateway, data, runtime
    <2> QED
      BY <2>1, <2>2 DEF AskedReloadPending, EvidenceCurrent, Listening, Trusted, Effective
  <1>3. CASE Restart
    <2>1. /\ phase' = "refreshing" /\ count' = 0 /\ reloads' = 0 /\ ghosts' = 0 /\ leaked' = {}
          /\ devs' = {} /\ known' = {} /\ UNCHANGED <<present, registry, asked>>
          /\ UNCHANGED <<admitted, value>>
      BY <1>3 DEF Restart, Forgets, gateway
    <2>2. /\ devsOk' \in BOOLEAN /\ raw' \in BOOLEAN /\ statusOk' \in BOOLEAN
          /\ live' \in BOOLEAN /\ ran' \in BOOLEAN
      BY <1>3 DEF Restart, Forgets
    <2>3. count' \in 0..EvidenceNeeded /\ reloads' \in Nat /\ ghosts' \in 0..MaxPending
      BY <2>1, EvidenceAssumption, PendingAssumption
    <2>4. TypeOK'
      BY <2>1, <2>2, <2>3 DEF Inventories
    <2>5. AskedReloadPending'
      BY <2>1 DEF AskedReloadPending
    <2>6. EvidenceCurrent'
      BY <2>1 DEF EvidenceCurrent, Listening
    <2> QED
      BY <2>4, <2>5, <2>6
  <1>4. CASE SetupFails
    <2>1. /\ phase' \in {"retry", "error"} /\ devs' = {} /\ known' = {}
          /\ UNCHANGED <<present, admitted, value, asked, count, reloads, registry>>
      BY <1>4 DEF SetupFails, Forgets, gateway
    <2>2. /\ devsOk' \in BOOLEAN /\ raw' \in BOOLEAN /\ statusOk' \in BOOLEAN
          /\ live' \in BOOLEAN /\ ran' \in BOOLEAN
      BY <1>4 DEF SetupFails, Forgets
    <2>3. ghosts' \in 0..MaxPending /\ leaked' \subseteq BOOLEAN
      BY <1>4, PendingAssumption DEF SetupFails
    <2>4. TypeOK'
      BY <2>1, <2>2, <2>3 DEF Inventories
    <2>5. AskedReloadPending'
      BY <2>1 DEF AskedReloadPending
    <2>6. EvidenceCurrent'
      BY <2>1 DEF EvidenceCurrent, Listening
    <2> QED
      BY <2>4, <2>5, <2>6
  <1> QED
    BY <1>1, <1>2, <1>3, <1>4 DEF Environment

\* A set-up starts to count on what it has just read.
LEMMA EstablishPreserves ==
    ASSUME InventoryInv, Establish
    PROVE  InventoryInv'
  <1> USE DEF InventoryInv, TypeOK
  <1>1. /\ raw' = admitted /\ live' = value /\ known' = Keys(devs)
        /\ phase' = "listening"
        /\ UNCHANGED <<present, admitted, value, devs, reloads, ghosts, leaked>>
    BY DEF Establish, gateway
  <1>2. asked' = FALSE /\ ran' = FALSE /\ statusOk' = TRUE /\ UNCHANGED devsOk
    BY DEF Establish
  <1>3. count' = Recorded(admitted, TRUE, devs)
    BY DEF Establish
  <1>4. /\ count' \in 0..EvidenceNeeded
        /\ count' > 0 => Trusted(admitted, TRUE, devs)
    BY <1>3, RecordedType
  <1>5. registry' \in Registries
    BY DEF Establish, Registries, Keys
  <1>6. raw' \in BOOLEAN /\ live' \in BOOLEAN /\ ran' \in BOOLEAN /\ asked' \in BOOLEAN
    BY <1>1, <1>2
  <1>7. TypeOK'
    BY <1>1, <1>2, <1>4, <1>5, <1>6 DEF Registries, Keys
  <1>8. AskedReloadPending'
    BY <1>2 DEF AskedReloadPending
  <1>9. EvidenceCurrent'
    BY <1>1, <1>2, <1>4 DEF EvidenceCurrent, Trusted, Effective
  <1> QED
    BY <1>7, <1>8, <1>9

-----------------------------------------------------------------------------
\* Any step by which the listeners of a runtime react to an update.
LEMMA HandledPreserves ==
    ASSUME InventoryInv,
           registry' \in Registries, ran' \in BOOLEAN,
           \E b : Asks(b),
           raw' \in BOOLEAN, statusOk' \in BOOLEAN, devsOk' \in BOOLEAN,
           live' \in BOOLEAN, devs' \in Inventories,
           count' \in 0..EvidenceNeeded,
           count' > 0 => Trusted(raw', statusOk', devs'),
           phase' = phase,
           UNCHANGED <<present, admitted, value, known, ghosts, leaked>>
    PROVE  InventoryInv'
  <1> USE DEF InventoryInv
  <1>1. PICK b : Asks(b)
    OBVIOUS
  <1>2. /\ asked' \in BOOLEAN
        /\ reloads' \in Nat
        /\ reloads' >= reloads
        /\ asked' => (asked \/ reloads' > 0)
    BY <1>1, AsksWaits
  <1>3. TypeOK'
    BY <1>2 DEF TypeOK, Registries
  <1>4. AskedReloadPending'
    <2>1. reloads \in Nat
      BY DEF TypeOK
    <2>2. reloads > 0 => reloads' > 0
      BY <2>1, <1>2
    <2> QED
      BY <2>2, <1>2, Zenon DEF AskedReloadPending
  <1>5. EvidenceCurrent'
    BY Zenon DEF EvidenceCurrent
  <1> QED
    BY <1>3, <1>4, <1>5

\* Polls: the data a coordinator keeps is the data its listeners judge.
LEMMA PollsPreserve ==
    ASSUME InventoryInv, Polls
    PROVE  InventoryInv'
  <1>1. /\ TypeOK
        /\ present \in Inventories /\ devs \in Inventories
        /\ registry \in Registries /\ count \in 0..EvidenceNeeded
    BY DEF InventoryInv, TypeOK, Registries
  <1>2. /\ admitted \in BOOLEAN /\ raw \in BOOLEAN /\ statusOk \in BOOLEAN
        /\ devsOk \in BOOLEAN /\ live \in BOOLEAN /\ value \in BOOLEAN
        /\ ran \in BOOLEAN
    BY DEF InventoryInv, TypeOK
  <1>3. CASE DevicesAnswered
    <2>1. /\ devs' = present /\ devsOk' = TRUE /\ HandleDevices(present)
          /\ UNCHANGED <<present, admitted, value, raw, statusOk, live, phase, known,
                         ghosts, leaked>>
      BY <1>3 DEF DevicesAnswered, gateway
    <2>2. /\ count' = Recorded(raw, statusOk, present)
          /\ ran' \in BOOLEAN /\ registry' \in Registries
          /\ \E b : Asks(b)
      BY <2>1, <1>1, HandleDevicesStep
    <2>3. /\ count' \in 0..EvidenceNeeded
          /\ count' > 0 => Trusted(raw', statusOk', devs')
      BY <2>1, <2>2, <1>1, <1>2, RecordedType
    <2>4. /\ devs' \in Inventories /\ devsOk' \in BOOLEAN /\ raw' \in BOOLEAN
          /\ statusOk' \in BOOLEAN /\ live' \in BOOLEAN
      BY <2>1, <1>1, <1>2
    <2> QED
      BY <2>1, <2>2, <2>3, <2>4, HandledPreserves, Zenon
  <1>4. CASE DevicesUnanswered
    <2>1. /\ devsOk' = FALSE /\ HandleDevices(devs)
          /\ UNCHANGED <<present, admitted, value, devs, raw, statusOk, live, phase,
                         known, ghosts, leaked>>
      BY <1>4 DEF DevicesUnanswered, gateway
    <2>2. /\ count' = Recorded(raw, statusOk, devs)
          /\ ran' \in BOOLEAN /\ registry' \in Registries
          /\ \E b : Asks(b)
      BY <2>1, <1>1, HandleDevicesStep
    <2>3. /\ count' \in 0..EvidenceNeeded
          /\ count' > 0 => Trusted(raw', statusOk', devs')
      BY <2>1, <2>2, <1>1, <1>2, RecordedType
    <2>4. /\ devs' \in Inventories /\ devsOk' \in BOOLEAN /\ raw' \in BOOLEAN
          /\ statusOk' \in BOOLEAN /\ live' \in BOOLEAN
      BY <2>1, <1>1, <1>2
    <2> QED
      BY <2>1, <2>2, <2>3, <2>4, HandledPreserves, Zenon
  <1>5. CASE StatusAnswered
    <2>1. /\ raw' = admitted /\ statusOk' = TRUE /\ HandleStatus(admitted, TRUE)
          /\ UNCHANGED <<present, admitted, value, devs, devsOk, live, phase, known,
                         ghosts, leaked>>
      BY <1>5 DEF StatusAnswered, gateway
    <2>2. /\ count' = Recorded(admitted, TRUE, devs)
          /\ ran' \in BOOLEAN /\ registry' \in Registries
          /\ \E b : Asks(b)
      BY <2>1, <1>1, <1>2, HandleStatusStep
    <2>3. /\ count' \in 0..EvidenceNeeded
          /\ count' > 0 => Trusted(raw', statusOk', devs')
      BY <2>1, <2>2, <1>1, <1>2, RecordedType
    <2>4. /\ devs' \in Inventories /\ devsOk' \in BOOLEAN /\ raw' \in BOOLEAN
          /\ statusOk' \in BOOLEAN /\ live' \in BOOLEAN
      BY <2>1, <1>1, <1>2
    <2> QED
      BY <2>1, <2>2, <2>3, <2>4, HandledPreserves, Zenon
  <1>6. CASE StatusUnanswered
    <2>1. /\ statusOk' = FALSE /\ HandleStatus(raw, FALSE)
          /\ UNCHANGED <<present, admitted, value, devs, devsOk, raw, live, phase,
                         known, ghosts, leaked>>
      BY <1>6 DEF StatusUnanswered, gateway
    <2>2. /\ count' = Recorded(raw, FALSE, devs)
          /\ ran' \in BOOLEAN /\ registry' \in Registries
          /\ \E b : Asks(b)
      BY <2>1, <1>1, <1>2, HandleStatusStep
    <2>3. /\ count' \in 0..EvidenceNeeded
          /\ count' > 0 => Trusted(raw', statusOk', devs')
      BY <2>1, <2>2, <1>1, <1>2, RecordedType
    <2>4. /\ devs' \in Inventories /\ devsOk' \in BOOLEAN /\ raw' \in BOOLEAN
          /\ statusOk' \in BOOLEAN /\ live' \in BOOLEAN
      BY <2>1, <1>1, <1>2
    <2> QED
      BY <2>1, <2>2, <2>3, <2>4, HandledPreserves, Zenon
  <1>7. CASE OtherAnswered
    <2>1. /\ live' = value
          /\ registry' = AfterEnable(registry, RepairLive(raw, devs), value)
          /\ \E b : Asks(b)
          /\ UNCHANGED <<present, admitted, value, devs, devsOk, raw, statusOk, phase,
                         known, ran, count, ghosts, leaked>>
          /\ Listening
      BY <1>7 DEF OtherAnswered, gateway
    <2>2. RepairLive(raw, devs) \in BOOLEAN
      BY DEF RepairLive, Effective
    <2>3. registry' \in Registries
      BY <2>1, <2>2, <1>1, <1>2, EnableType
    <2>4. /\ count' \in 0..EvidenceNeeded
          /\ count' > 0 => Trusted(raw', statusOk', devs')
      BY <2>1, <1>1 DEF InventoryInv, EvidenceCurrent
    <2>5. /\ devs' \in Inventories /\ devsOk' \in BOOLEAN /\ raw' \in BOOLEAN
          /\ statusOk' \in BOOLEAN /\ live' \in BOOLEAN /\ ran' \in BOOLEAN
      BY <2>1, <1>1, <1>2
    <2> QED
      BY <2>1, <2>3, <2>4, <2>5, HandledPreserves, Zenon
  <1> QED
    BY <1>3, <1>4, <1>5, <1>6, <1>7 DEF Polls

-----------------------------------------------------------------------------
\* The set-up's other steps, the reload tasks and the unload.
LEMMA SetupPreserves ==
    ASSUME InventoryInv, DevicesRead \/ CreateEntities \/ FinishSetup \/ NotReady \/ RetrySetup
    PROVE  InventoryInv'
  <1> USE DEF InventoryInv, TypeOK
  <1>1. CASE DevicesRead
    <2>1. /\ devs' = present /\ phase' = "refreshed"
          /\ UNCHANGED <<present, admitted, value, devsOk, raw, statusOk, live, known, ran,
                         asked, count, reloads, registry, ghosts, leaked>>
      BY <1>1 DEF DevicesRead, gateway, runtime
    <2> QED
      BY <2>1 DEF AskedReloadPending, EvidenceCurrent, Listening
  <1>2. CASE CreateEntities
    <2>1. /\ phase = "listening" /\ phase' = "forwarded"
          /\ UNCHANGED <<present, admitted, value, devs, devsOk, raw, statusOk, live, known,
                         ran, asked, count, reloads, ghosts, leaked>>
      BY <1>2 DEF CreateEntities, gateway, data, runtime
    <2>2. RepairLive(raw, devs) \in BOOLEAN
      BY DEF RepairLive, Effective
    <2>3. registry' \in Registries
      BY <1>2, CreateEntitiesStep
    <2>4. TypeOK'
      BY <2>1, <2>3 DEF Registries
    <2> QED
      BY <2>1, <2>4 DEF AskedReloadPending, EvidenceCurrent, Listening, Trusted, Effective
  <1>3. CASE FinishSetup
    <2> DEFINE rl == RepairLive(raw, devs)
    <2>1. /\ phase = "forwarded" /\ phase' = "loaded"
          /\ UNCHANGED <<present, admitted, value, devs, devsOk, raw, statusOk, live, known,
                         count, ghosts, leaked>>
      BY <1>3 DEF FinishSetup, gateway, data
    <2>2. rl \in BOOLEAN
      BY DEF RepairLive, Effective
    <2>3. /\ registry' \in Registries /\ ran' \in BOOLEAN /\ \E b : Asks(b)
      <3>1. CASE MayCleanUp(count)
        <4>1. /\ registry' = AfterCleanup(registry, rl, live) /\ ran' = TRUE
              /\ \E b : Asks(b)
          BY <1>3, <3>1 DEF FinishSetup
        <4>2. registry' \in Registries
          BY <4>1, <2>2, CleanupType DEF Registries
        <4> QED
          BY <4>1, <4>2
      <3>2. CASE ~MayCleanUp(count)
        <4>1. NoHandlerEffect
          BY <1>3, <3>2 DEF FinishSetup
        <4>2. Asks(FALSE)
          BY <4>1, Zenon DEF NoHandlerEffect, Asks
        <4> QED
          BY <4>1, <4>2 DEF NoHandlerEffect, Registries
      <3> QED
        BY <3>1, <3>2
    <2>4. PICK b : Asks(b)
      BY <2>3
    <2>5. /\ asked' \in BOOLEAN
          /\ reloads' \in Nat
          /\ reloads' >= reloads
          /\ asked' => (asked \/ reloads' > 0)
      BY <2>4, AsksWaits
    <2>6. TypeOK'
      BY <2>1, <2>3, <2>5 DEF Registries
    <2>7. AskedReloadPending'
      <3>1. asked => reloads > 0
        BY <2>1 DEF AskedReloadPending
      <3>2. reloads > 0 => reloads' > 0
        BY <2>5
      <3> QED
        BY <3>1, <3>2, <2>5, Zenon DEF AskedReloadPending
    <2>8. EvidenceCurrent'
      BY <2>1 DEF EvidenceCurrent, Listening, Trusted, Effective
    <2> QED
      BY <2>6, <2>7, <2>8
  <1>4. CASE NotReady
    <2>1. /\ phase' = "retry" /\ devs' = {} /\ known' = {}
          /\ UNCHANGED <<present, admitted, value, asked, count, reloads, registry, ghosts, leaked>>
      BY <1>4 DEF NotReady, Forgets, gateway
    <2>2. /\ devsOk' \in BOOLEAN /\ raw' \in BOOLEAN /\ statusOk' \in BOOLEAN
          /\ live' \in BOOLEAN /\ ran' \in BOOLEAN
      BY <1>4 DEF NotReady, Forgets
    <2> QED
      BY <2>1, <2>2 DEF AskedReloadPending, Inventories, EvidenceCurrent, Listening
  <1>5. CASE RetrySetup
    <2>1. /\ phase' = "refreshing"
          /\ UNCHANGED <<present, admitted, value, devs, devsOk, raw, statusOk, live, known,
                         ran, asked, count, reloads, registry, ghosts, leaked>>
      BY <1>5 DEF RetrySetup, gateway, data, runtime
    <2> QED
      BY <2>1 DEF AskedReloadPending, EvidenceCurrent, Listening
  <1> QED
    BY <1>1, <1>2, <1>3, <1>4, <1>5

LEMMA ReloadPreserves ==
    ASSUME InventoryInv, GhostActs \/ ReloadRuns \/ Unload
    PROVE  InventoryInv'
  <1> USE DEF InventoryInv, TypeOK
  <1>1. CASE GhostActs
    <2>1. PICK old \in leaked, repairLive \in BOOLEAN :
             \E lv \in {old, value}, others \in SUBSET {old} :
                 /\ leaked' = (leaked \ {old}) \cup {lv} \cup others
                 /\ registry' = AfterEnable(registry, repairLive, lv)
      BY <1>1 DEF GhostActs
    <2>2. PICK lv \in {old, value}, others \in SUBSET {old} :
             /\ leaked' = (leaked \ {old}) \cup {lv} \cup others
             /\ registry' = AfterEnable(registry, repairLive, lv)
      BY <2>1
    <2>3. lv \in BOOLEAN /\ leaked' \subseteq BOOLEAN
      BY <2>2
    <2>4. registry' \in Registries
      BY <2>2, <2>3, EnableType DEF Registries
    <2>5. /\ ghosts' \in 0..MaxPending /\ reloads' \in Nat
          /\ reloads > 0 => reloads' > 0
      BY <1>1, PendingAssumption DEF GhostActs
    <2>6. UNCHANGED <<present, admitted, value, devs, devsOk, raw, statusOk, live, phase,
                      known, ran, asked, count>>
      BY <1>1 DEF GhostActs, gateway, data, runtime
    <2>7. TypeOK'
      BY <2>3, <2>4, <2>5, <2>6 DEF Registries
    <2> QED
      BY <2>5, <2>6, <2>7 DEF AskedReloadPending, EvidenceCurrent, Listening, Trusted, Effective
  <1>2. CASE ReloadRuns
    <2>1. /\ reloads' \in Nat
          /\ UNCHANGED <<present, admitted, value, devs, devsOk, raw, statusOk, live, known,
                         ran, asked, count, registry, ghosts, leaked>>
      BY <1>2 DEF ReloadRuns, gateway, data, runtime
    <2>2. \/ phase = "loaded" /\ phase' = "unloading"
          \/ phase' = "refreshing"
          \/ phase = "failed" /\ phase' = "failed"
          \/ phase = "torn" /\ phase' = "torn"
      BY <1>2 DEF ReloadRuns
    <2>3. TypeOK'
      BY <2>1, <2>2
    <2>4. AskedReloadPending'
      BY <2>2 DEF AskedReloadPending
    <2>5. EvidenceCurrent'
      BY <2>1, <2>2 DEF EvidenceCurrent, Listening, Trusted, Effective
    <2> QED
      BY <2>3, <2>4, <2>5
  <1>3. CASE UnloadEntry \/ UnloadTorn
    <2>1. /\ phase' \in {"refreshing", "torn"} /\ devs' = {} /\ known' = {} /\ count' = 0
          /\ UNCHANGED <<present, admitted, value, asked, reloads, registry, ghosts, leaked>>
      BY <1>3 DEF UnloadEntry, UnloadTorn, Forgets, gateway
    <2>2. /\ devsOk' \in BOOLEAN /\ raw' \in BOOLEAN /\ statusOk' \in BOOLEAN
          /\ live' \in BOOLEAN /\ ran' \in BOOLEAN
      BY <1>3 DEF UnloadEntry, UnloadTorn, Forgets
    <2>3. count' \in 0..EvidenceNeeded
      BY <2>1, EvidenceAssumption
    <2> QED
      BY <2>1, <2>2, <2>3 DEF AskedReloadPending, Inventories, EvidenceCurrent, Listening
  <1>4. CASE UnloadRefused
    <2>1. /\ phase = "unloading" /\ phase' = "failed"
          /\ UNCHANGED <<present, admitted, value, devs, devsOk, raw, statusOk, live, known,
                         ran, asked, count, reloads, registry, ghosts, leaked>>
      BY <1>4 DEF UnloadRefused, gateway, data, runtime
    <2> QED
      BY <2>1 DEF AskedReloadPending, EvidenceCurrent, Listening, Trusted, Effective
  <1> QED
    BY <1>1, <1>2, <1>3, <1>4 DEF Unload

\* The invariant of the config entry.
THEOREM InventoryInvariance == Spec => []InventoryInv
  <1>1. Init => InventoryInv
    BY InitEstablishes
  <1>2. InventoryInv /\ [Next]_vars => InventoryInv'
    <2> SUFFICES ASSUME InventoryInv, [Next]_vars PROVE InventoryInv'
      OBVIOUS
    <2>1. CASE Environment
      BY <2>1, EnvironmentPreserves
    <2>2. CASE Setup \/ NotReady \/ RetrySetup
      BY <2>2, EstablishPreserves, SetupPreserves DEF Setup
    <2>3. CASE Polls
      BY <2>3, PollsPreserve
    <2>4. CASE GhostActs \/ ReloadRuns \/ Unload
      BY <2>4, ReloadPreserves
    <2>5. CASE UNCHANGED vars
      <3>1. UNCHANGED <<present, admitted, value, devs, devsOk, raw, statusOk, live, phase,
                        known, ran, asked, count, reloads, registry, ghosts, leaked>>
        BY <2>5 DEF vars, gateway, data, runtime
      <3> QED
        BY <3>1 DEF InventoryInv, TypeOK, AskedReloadPending, EvidenceCurrent, Listening,
                    Trusted, Effective
    <2> QED
      BY <2>1, <2>2, <2>3, <2>4, <2>5 DEF Next
  <1> QED
    BY <1>1, <1>2, PTL DEF Spec

\* Types, for any inventory.
THEOREM InventoryTypeCorrect == Spec => []TypeOK
  <1>1. InventoryInv => TypeOK
    BY DEF InventoryInv
  <1> QED
    BY <1>1, InventoryInvariance, PTL

\* A reload that schedule_reload has asked for waits until the runtime that
\* asked is unloaded.
THEOREM AskedReloadsWait == Spec => []AskedReloadPending
  <1>1. InventoryInv => AskedReloadPending
    BY DEF InventoryInv
  <1> QED
    BY <1>1, InventoryInvariance, PTL

-----------------------------------------------------------------------------
\* Where devices can leave the registry at all.
LEMMA DevicesLeave ==
    ASSUME InventoryInv, Next, registry.devices \ registry'.devices # {}
    PROVE  /\ registry'.devices = registry.devices \cap (known \cup registry.held)
           /\ count' > 0 => Trusted(raw', statusOk', devs')
           /\ Allowed(count')
           /\ phase' = phase => Keys(devs') \subseteq known
  <1>1. /\ TypeOK
        /\ present \in Inventories /\ devs \in Inventories
        /\ registry \in Registries /\ count \in 0..EvidenceNeeded
    BY DEF InventoryInv, TypeOK, Registries
  <1>2. /\ admitted \in BOOLEAN /\ raw \in BOOLEAN /\ live \in BOOLEAN /\ value \in BOOLEAN
    BY DEF InventoryInv, TypeOK
  <1>3. InventoryInv'
    BY EnvironmentPreserves, EstablishPreserves, SetupPreserves,
       PollsPreserve, ReloadPreserves DEF Next, Setup
  <1>4. registry'.devices # registry.devices
    OBVIOUS
  <1>5. CASE Environment
    BY <1>4, <1>5 DEF Environment, GatewayChanges, ReloadRequested, Restart, SetupFails
  <1>6. CASE DevicesRead \/ Establish \/ CreateEntities \/ NotReady \/ RetrySetup
    <2>1. registry.devices \subseteq registry'.devices
      BY <1>1, <1>6, CreateEntitiesStep DEF DevicesRead, Establish, NotReady, RetrySetup, Registries
    <2> QED
      BY <2>1
  <1>7. CASE FinishSetup
    <2>1. phase = "forwarded" /\ phase' = "loaded" /\ count' = count
      BY <1>7 DEF FinishSetup
    <2>2. MayCleanUp(count)
      BY <1>4, <1>7 DEF FinishSetup, NoHandlerEffect
    <2>3. registry' = AfterCleanup(registry, RepairLive(raw, devs), live)
      BY <1>7, <2>2 DEF FinishSetup
    <2>4. registry'.devices = registry.devices \cap (known \cup registry.held)
      BY <2>3, <1>1, <1>2, CleanupType DEF RepairLive, Effective
    <2>5. count' > 0 => Trusted(raw', statusOk', devs')
      BY <1>3, <2>1 DEF InventoryInv, EvidenceCurrent, Listening
    <2> QED
      BY <2>1, <2>2, <2>4, <2>5 DEF MayCleanUp
  <1>8. CASE Polls
    <2>1. /\ Listening /\ phase' = phase
      BY <1>8 DEF Polls, DevicesAnswered, DevicesUnanswered, StatusAnswered,
                  StatusUnanswered, OtherAnswered
    <2>2. count' > 0 => Trusted(raw', statusOk', devs')
      BY <1>3, <2>1 DEF InventoryInv, EvidenceCurrent, Listening
    <2>3. CASE DevicesAnswered \/ DevicesUnanswered
      <3>1. HandleDevices(devs') /\ devs' \in Inventories
        BY <1>1, <2>3 DEF DevicesAnswered, DevicesUnanswered
      <3> QED
        BY <3>1, <1>1, <1>4, <2>2, HandleDevicesStep
    <2>4. CASE StatusAnswered
      <3>1. HandleStatus(admitted, TRUE) /\ devs' = devs
        BY <2>4 DEF StatusAnswered
      <3> QED
        BY <3>1, <1>1, <1>2, <1>4, <2>2, HandleStatusStep
    <2>5. CASE StatusUnanswered
      <3>1. HandleStatus(raw, FALSE) /\ devs' = devs
        BY <2>5 DEF StatusUnanswered
      <3> QED
        BY <3>1, <1>1, <1>2, <1>4, <2>2, HandleStatusStep
    <2>6. CASE OtherAnswered
      <3>1. registry' = AfterEnable(registry, RepairLive(raw, devs), value)
        BY <2>6 DEF OtherAnswered
      <3>2. RepairLive(raw, devs) \in BOOLEAN
        BY DEF RepairLive, Effective
      <3> QED
        BY <3>1, <3>2, <1>1, <1>2, <1>4, EnableType
    <2> QED
      BY <1>8, <2>3, <2>4, <2>5, <2>6 DEF Polls
  <1>9. CASE ReloadRuns \/ Unload
    BY <1>4, <1>9 DEF ReloadRuns, Unload, UnloadEntry, UnloadRefused, UnloadTorn
  <1>10. CASE GhostActs
    <2>1. \E repairLive, lv \in BOOLEAN : registry' = AfterEnable(registry, repairLive, lv)
      BY <1>2, <1>10 DEF GhostActs, InventoryInv, TypeOK
    <2> QED
      BY <2>1, <1>1, <1>4, EnableType
  <1> QED
    BY <1>5, <1>6, <1>7, <1>8, <1>9, <1>10 DEF Next, Setup

\* No device leaves the registry unless enough trusted updates were counted,
\* and what they were counted on still holds: the admission is trusted and the
\* inventory not empty, whichever handler or set-up step cleans up.
THEOREM CleanupsHaveEvidence == Spec => CleanupNeedsEvidence
  <1>1. InventoryInv /\ [Next]_vars
        => [registry.devices \ registry'.devices # {}
            => Allowed(count') /\ Trusted(raw', statusOk', devs')]_vars
    <2> SUFFICES ASSUME InventoryInv, Next, registry.devices \ registry'.devices # {}
                 PROVE  Allowed(count') /\ Trusted(raw', statusOk', devs')
      OBVIOUS
    <2>1. /\ count' > 0 => Trusted(raw', statusOk', devs')
          /\ Allowed(count')
      BY DevicesLeave
    <2>2. InventoryInv'
      BY EnvironmentPreserves, EstablishPreserves, SetupPreserves,
         PollsPreserve, ReloadPreserves DEF Next, Setup
    <2>3. count' > 0
      BY <2>1, <2>2, EvidenceAssumption DEF Allowed, InventoryInv, TypeOK
    <2> QED
      BY <2>1, <2>3
  <1> QED
    BY <1>1, InventoryInvariance, PTL DEF Spec, CleanupNeedsEvidence

\* A cleanup that an update brings about keeps what the update reports.
THEOREM UpdatesKeepReported == Spec => UpdateCleanupKeepsReported
  <1>1. InventoryInv /\ [Next]_vars
        => [phase' = phase => devs' \cap (registry.devices \ registry'.devices) = {}]_vars
    <2> SUFFICES ASSUME InventoryInv, Next, phase' = phase,
                        registry.devices \ registry'.devices # {}
                 PROVE  devs' \cap (registry.devices \ registry'.devices) = {}
      OBVIOUS
    <2>1. /\ registry'.devices = registry.devices \cap (known \cup registry.held)
          /\ Keys(devs') \subseteq known
      BY DevicesLeave
    <2>2. registry.devices \subseteq Devices
      BY DEF InventoryInv, TypeOK
    <2> QED
      BY <2>1, <2>2 DEF Keys
  <1> QED
    BY <1>1, InventoryInvariance, PTL DEF Spec, UpdateCleanupKeepsReported

-----------------------------------------------------------------------------
(* The entity registry *)

\* What is created of each family that a clean-up may remove
Founded(k, d, e) ==
    /\ e[1] = "repair_code" => d.repair
    /\ e[1] = "address" => e[2] \in Entities!BusKeys(d)
    /\ e[1] = "radio_sensor" => e[2][1] \in Entities!Exported(d) \ k.merged
    /\ e[1] = "radio_connected" => e[2] \in Entities!Exported(d)
    /\ e[1] \in {"cylinder_temperature", "cylinder_config"} =>
          d.mode = "interpreted" /\ e[2] \in d.cylinders

\* The families of the platforms that a clean-up never removes
LEMMA LeftAlone ==
    ASSUME NEW k, NEW d, NEW e,
           e[1] \notin {"repair_code", "address", "radio_sensor", "radio_connected",
                        "cylinder_temperature", "cylinder_config"}
    PROVE  Founded(k, d, e)
  BY DEF Founded

LEMMA CreatedIsFounded ==
    ASSUME NEW k, NEW d, NEW e \in Entities!Created(k, d)
    PROVE  Founded(k, d, e)
  <1>1. CASE e \in Entities!BusEntities(d)
    BY <1>1 DEF Entities!BusEntities, Founded
  <1>2. CASE e \in Entities!StatusEntities(d)
    BY <1>2 DEF Entities!StatusEntities, Entities!When, Founded
  <1>3. CASE e \in Entities!BoilerEntities(k)
    <2>1. e[1] \in {"boiler_temperature", "boiler_state", "boiler_diagnostics", "boiler_hours",
                    "boiler_flag", "boiler_number", "boiler_text", "boiler_menu_code"}
      BY <1>3 DEF Entities!BoilerEntities, Entities!When, Entities!Each
    <2>2. QED
      BY <2>1, LeftAlone
  <1>4. CASE e \in Entities!CircuitEntities(d)
    <2>1. e[1] \in {"circuit_sensor", "circuit_pump", "circuit_number", "circuit_room_control"}
      BY <1>4 DEF Entities!CircuitEntities, Entities!Each
    <2>2. QED
      BY <2>1, LeftAlone
  <1>5. CASE e \in Entities!SystemEntities(k, d)
    <2>1. e[1] \in {"system_text", "system_menu_code", "maintenance_date", "system_sensor",
                    "system_number", "system_flag", "system_optional"}
      BY <1>5 DEF Entities!SystemEntities, Entities!When, Entities!Each
    <2>2. QED
      BY <2>1, LeftAlone
  <1>6. CASE e \in Entities!RadioEntities(k, d)
    <2>1. PICK s \in Entities!Exported(d) :
              e \in {<<"radio_connected", s>>} \cup Entities!RadioSensors(k, d, s)
      BY <1>6 DEF Entities!RadioEntities
    <2>2. CASE e = <<"radio_connected", s>>
      BY <2>2 DEF Founded
    <2>3. CASE e \in Entities!RadioSensors(k, d, s)
      <3>1. s \notin k.merged
        BY <2>3 DEF Entities!RadioSensors
      <3>2. \E f : e = <<"radio_sensor", <<s, f>>>>
        BY <2>3 DEF Entities!RadioSensors, Entities!When
      <3>3. QED
        BY <3>1, <3>2 DEF Founded
    <2>4. QED
      BY <2>1, <2>2, <2>3
  <1>7. CASE e \in Entities!SolarEntities(k, d)
    <2>1. \/ e[1] \in {"fm5_mode", "solar_flag", "solar_sensor"}
          \/ /\ d.mode = "interpreted" /\ e[1] \in {"cylinder_temperature", "cylinder_config"}
             /\ e[2] \in d.cylinders
      BY <1>7 DEF Entities!SolarEntities, Entities!When, Entities!Each
    <2>2. QED
      BY <2>1, LeftAlone DEF Founded
  <1>8. CASE e \in Entities!ZoneEntities(k, d)
    <2>1. e[1] \in {"climate", "zone_schedule", "zone_valve", "zone_demand", "zone_valve_position"}
      BY <1>8 DEF Entities!ZoneEntities, Entities!When, Entities!Each
    <2>2. QED
      BY <2>1, LeftAlone
  <1>9. CASE e \in Entities!DhwEntities(d)
    <2>1. e[1] \in {"dhw_schedule", "dhw_demand", "dhw_status", "dhw_overrun"}
      BY <1>9 DEF Entities!DhwEntities, Entities!When, Entities!Each
    <2>2. QED
      BY <2>1, LeftAlone
  <1>10. CASE e \in Entities!AdapterEntities(d)
    <2>1. e[1] \in {"adapter_hw", "adapter_wifi", "adapter_reset"}
      BY <1>10 DEF Entities!AdapterEntities, Entities!When
    <2>2. QED
      BY <2>1, LeftAlone
  <1>11. CASE e \in Entities!Each({"calendar"}, d.programs)
    <2>1. e[1] = "calendar"
      BY <1>11 DEF Entities!Each
    <2>2. QED
      BY <2>1, LeftAlone
  <1>12. QED
    BY <1>1, <1>2, <1>3, <1>4, <1>5, <1>6, <1>7, <1>8, <1>9, <1>10, <1>11 DEF Entities!Created

LEMMA KnownFields ==
    ASSUME NEW d
    PROVE  /\ Entities!Known(d).bus = Entities!BusKeys(d)
           /\ Entities!Known(d).radio = Entities!Exported(d)
           /\ Entities!Known(d).merged = Entities!Merged(d)
           /\ Entities!Known(d).cylinders = d.cylinders
  BY DEF Entities!Known

\* A clean-up spares what the platforms created, and remotes.
LEMMA SetUpIsSpared ==
    ASSUME NEW c
    PROVE  Entities!CleanupSparesSetUp(c)
  <1> DEFINE k == Entities!Known(c.began)
  <1> SUFFICES ASSUME NEW e \in Entities!Created(k, c.now), Entities!Removed(k, c.now, e),
                      ~Entities!OfMergedSlot(k, e)
               PROVE  Entities!Asks(k, c.now)
    BY DEF Entities!CleanupSparesSetUp
  <1>1. Founded(k, c.now, e)
    BY CreatedIsFounded
  <1>2. CASE e[1] = "address" /\ e[2] \notin k.bus
    BY <1>1, <1>2 DEF Founded, Entities!Asks
  <1>3. CASE e[1] = "radio_sensor" /\ Entities!MissingSlot(k, e[2][1])
    BY <1>1, <1>3 DEF Founded, Entities!Asks, Entities!MissingSlot
  <1>4. CASE e[1] = "radio_connected" /\ Entities!MissingSlot(k, e[2])
    BY <1>1, <1>4 DEF Founded, Entities!Asks, Entities!MissingSlot, Entities!OfMergedSlot
  <1>5. CASE e[1] \in {"cylinder_temperature", "cylinder_config"} /\ e[2] \notin k.cylinders
    BY <1>1, <1>5 DEF Founded, Entities!Asks
  <1>6. ~(e[1] = "repair_code" /\ ~Entities!Live(c.now, e))
    BY <1>1 DEF Founded, Entities!Live
  <1>7. QED
    BY <1>2, <1>3, <1>4, <1>5, <1>6 DEF Entities!Removed

LEMMA RemotesAreSpared ==
    ASSUME NEW c
    PROVE  Entities!RemotesSurvive(c)
  <1>1. "remote" \notin Entities!Known(c.now).merged
    BY KnownFields DEF Entities!Merged
  <1>2. QED
    BY <1>1 DEF Entities!RemotesSurvive, Entities!Removed, Entities!MissingSlot

\* An entity with a value is a sparse one.
LEMMA LiveIsSparse ==
    ASSUME NEW d, NEW e, Entities!Live(d, e)
    PROVE  Entities!Sparse(e)
  BY DEF Entities!Live, Entities!Sparse

\* A registry in which the repair code has its entity, as it has before anything
\* is enabled; the clean-up leaves it there.
HasRepair(r, d) ==
    /\ r = [all |-> r.all, on |-> r.on]
    /\ d.repair => <<"repair_code", 0>> \in r.all

LEMMA RepairIsCreated ==
    ASSUME NEW k, NEW d, d.repair
    PROVE  /\ <<"repair_code", 0>> \in Entities!Created(k, d)
           /\ ~Entities!Removed(k, d, <<"repair_code", 0>>)
  <1>1. <<"repair_code", 0>> \in Entities!StatusEntities(d)
    BY DEF Entities!StatusEntities, Entities!When
  <1>2. QED
    BY <1>1 DEF Entities!Created, Entities!Removed, Entities!Live

\* What a set-up, and a clean-up of the same data, do to a registry
LEMMA AfterSetUp ==
    ASSUME NEW r, NEW d
    PROVE  LET k == Entities!Known(d)
               t == Entities!SetUp(r, d)
           IN  /\ t.all = r.all \cup Entities!Created(k, d) /\ HasRepair(t, d)
               /\ t.on = r.on \cup {e \in Entities!Created(k, d) \ r.all :
                                        Entities!EnabledAtFirst(d, e)}
  BY RepairIsCreated DEF Entities!SetUp, HasRepair

LEMMA AfterPurge ==
    ASSUME NEW r, NEW d, NEW k, HasRepair(r, d)
    PROVE  LET p == Entities!Purged(r, k, d)
           IN  /\ p.all = {e \in r.all : ~Entities!Removed(k, d, e)}
               /\ p.on = {e \in r.on : ~(e \in r.all /\ Entities!Removed(k, d, e))}
               /\ HasRepair(p, d)
  BY RepairIsCreated DEF Entities!Purged, HasRepair

LEMMA AfterDisabling ==
    ASSUME NEW r, NEW d, HasRepair(r, d)
    PROVE  LET t == Entities!Disabled(r, d)
           IN  /\ t.all = r.all /\ HasRepair(t, d)
               /\ t.on = {e \in r.on : Entities!Sparse(e) => Entities!Live(d, e)}
  BY DEF Entities!Disabled, Entities!ToDisable, HasRepair

LEMMA AfterEnabling ==
    ASSUME NEW r, NEW d, HasRepair(r, d)
    PROVE  LET t == Entities!Enabled(r, d)
           IN  /\ t.all = r.all /\ HasRepair(t, d)
               /\ t.on = r.on \cup {e \in r.all : Entities!Live(d, e)}
  <1>1. Entities!ToEnable(r, d) = {e \in r.all \ r.on : Entities!Live(d, e)}
    BY DEF Entities!ToEnable, Entities!Reappears, HasRepair
  <1>2. /\ Entities!Enabled(r, d).all = r.all
        /\ Entities!Enabled(r, d).on = r.on \cup Entities!ToEnable(r, d)
        /\ Entities!Enabled(r, d) = [all |-> Entities!Enabled(r, d).all,
                                     on |-> Entities!Enabled(r, d).on]
    BY DEF Entities!Enabled, HasRepair
  <1>3. QED
    BY <1>1, <1>2 DEF HasRepair

\* Whatever registry a clean-up gets, it leaves the entities that were not
\* removed, with the sparse ones among them enabled exactly when they are live.
LEMMA AfterCleanUp ==
    ASSUME NEW r, NEW d, NEW k, HasRepair(r, d)
    PROVE  LET t == Entities!CleanedUp(r, k, d)
           IN  /\ HasRepair(t, d) /\ t.all = {e \in r.all : ~Entities!Removed(k, d, e)}
               /\ \A e \in t.on : Entities!Sparse(e) => Entities!Live(d, e)
               /\ \A e \in t.all : Entities!Live(d, e) => e \in t.on
  <1> DEFINE p == Entities!Purged(r, k, d)
             q == Entities!Disabled(p, d)
             t == Entities!Enabled(q, d)
  <1>1. HasRepair(p, d) /\ p.all = {e \in r.all : ~Entities!Removed(k, d, e)}
    BY AfterPurge
  <1>2. /\ HasRepair(q, d) /\ q.all = p.all
        /\ q.on = {e \in p.on : Entities!Sparse(e) => Entities!Live(d, e)}
    <2> HIDE DEF p
    <2>1. QED
      BY <1>1, AfterDisabling
  <1>3. HasRepair(t, d) /\ t.all = q.all /\ t.on = q.on \cup {e \in q.all : Entities!Live(d, e)}
    <2> HIDE DEF q
    <2>1. QED
      BY <1>2, AfterEnabling
  <1>4. t = Entities!CleanedUp(r, k, d)
    BY DEF Entities!CleanedUp
  <1> HIDE DEF p, q, t
  <1>5. QED
    BY <1>1, <1>2, <1>3, <1>4

\* One reload settles the registry that any earlier set-up left.
LEMMA OneReloadSettles ==
    ASSUME NEW c
    PROVE  Entities!ReloadsSettle(c)
  <1> DEFINE d == c.now
             k == Entities!Known(d)
             first == Entities!SetUp(Entities!SetUp(Entities!Empty, c.began), d)
             once == Entities!CleanedUp(first, k, d)
             twice == Entities!SetUp(once, d)
             purged == Entities!Purged(twice, k, d)
             kept == Entities!Disabled(purged, d)
             settled == Entities!CleanedUp(twice, k, d)
  <1>1. HasRepair(first, d)
    BY AfterSetUp
  <1>2. /\ HasRepair(once, d)
        /\ \A e \in once.on : Entities!Sparse(e) => Entities!Live(d, e)
        /\ \A e \in once.all : Entities!Live(d, e) => e \in once.on
    <2> HIDE DEF first
    <2>1. QED
      BY <1>1, AfterCleanUp
  <1>3. /\ HasRepair(twice, d) /\ twice.all = once.all \cup Entities!Created(k, d)
        /\ twice.on = once.on \cup {e \in Entities!Created(k, d) \ once.all :
                                        Entities!EnabledAtFirst(d, e)}
    <2> HIDE DEF once
    <2>1. QED
      BY AfterSetUp
  <1> HIDE DEF once
  \* Nothing is left to do for the clean-up after the reload.
  <1>4. /\ \A e \in twice.on : Entities!Sparse(e) => Entities!Live(d, e)
        /\ \A e \in twice.all : Entities!Live(d, e) => e \in twice.on
    <2>1. \A e : Entities!EnabledAtFirst(d, e) /\ Entities!Sparse(e) => Entities!Live(d, e)
      BY DEF Entities!EnabledAtFirst
    <2>2. \A e : Entities!Live(d, e) => Entities!EnabledAtFirst(d, e)
      BY LiveIsSparse DEF Entities!EnabledAtFirst, Entities!Sparse
    <2>3. QED
      BY <1>2, <1>3, <2>1, <2>2
  <1> HIDE DEF twice
  <1>5. /\ HasRepair(purged, d) /\ purged.all = {e \in twice.all : ~Entities!Removed(k, d, e)}
        /\ purged.on = {e \in twice.on : ~(e \in twice.all /\ Entities!Removed(k, d, e))}
    BY <1>3, AfterPurge
  <1> HIDE DEF purged
  <1>6. Entities!ToDisable(purged, d) = {}
    BY <1>4, <1>5 DEF Entities!ToDisable
  <1>7. /\ HasRepair(kept, d) /\ kept.all = purged.all
        /\ kept.on = {e \in purged.on : Entities!Sparse(e) => Entities!Live(d, e)}
    BY <1>5, AfterDisabling
  <1> HIDE DEF kept
  <1>8. ~Entities!EnableAsks(kept, d)
    <2>1. \A e \in kept.all : Entities!Live(d, e) => e \in kept.on
      BY <1>4, <1>5, <1>7
    <2>2. QED
      BY <1>7, <2>1 DEF Entities!EnableAsks, Entities!ToEnable, Entities!Reappears, HasRepair
  <1>9. ~Entities!CleanupAsks(twice, k, d)
    BY <1>6, <1>8 DEF Entities!CleanupAsks, purged, kept
  <1>10. /\ HasRepair(settled, d)
         /\ settled.all = {e \in twice.all : ~Entities!Removed(k, d, e)}
         /\ \A e \in settled.on : Entities!Sparse(e) => Entities!Live(d, e)
         /\ \A e \in settled.all : Entities!Live(d, e) => e \in settled.on
    BY <1>3, AfterCleanUp
  <1> HIDE DEF settled
  <1>11. ~Entities!EnableAsks(settled, d)
    BY <1>10 DEF Entities!EnableAsks, Entities!ToEnable, Entities!Reappears, HasRepair
  <1>12. ASSUME NEW e \in Entities!Created(k, d)
         PROVE  e \in settled.all \/ Entities!OfMergedSlot(k, e)
    <2>1. Founded(k, d, e)
      BY CreatedIsFounded
    <2>2. Entities!Removed(k, d, e) => Entities!OfMergedSlot(k, e)
      BY <2>1, KnownFields
      DEF Founded, Entities!Removed, Entities!MissingSlot, Entities!OfMergedSlot, Entities!Live
    <2>3. QED
      BY <1>3, <1>10, <2>2
  <1>13. QED
    BY <1>9, <1>10, <1>11, <1>12 DEF Entities!ReloadsSettle, once, twice, settled

\* Whatever data a set-up began with and an update brought since, no clean-up
\* removes what the platforms created, remotes keep their entities, and one
\* reload settles the entity registry (entry_setup.py and the platforms).
THEOREM RegistryIsSettled == MCSpec => []RegistrySettles
  <1>1. RegistrySettles
    BY SetUpIsSpared, RemotesAreSpared, OneReloadSettles
    DEF RegistrySettles, Entities!RegistrySettles
  <1>2. QED
    BY <1>1, PTL
=============================================================================
