-------------------------- MODULE M2MBoundaryProofs --------------------------
(***************************************************************************)
(* Proofs about the semantic boundaries, for any consumers in any order,   *)
(* any facts, assets and limits, and about what the consumers accept, for  *)
(* any answer.                                                             *)
(*                                                                         *)
(* LifeInv says how far a set-up or a close has come: who may be polling,  *)
(* which boundaries run the saved options, which sessions are closed.      *)
(* NameInv says that the descriptors of a running boundary are those that  *)
(* the options hold for its asset, that the ids used so far agree with     *)
(* them, and that those on disk do unless a change of the asset was not    *)
(* written yet: without the last part a crash could bring back an older    *)
(* id, and without the one about an asset chosen under a running boundary  *)
(* the boundary's next write could lose one.                               *)
(***************************************************************************)
EXTENDS MCM2MBoundary, TLAPS

-----------------------------------------------------------------------------
(* How far a set-up or a close has come *)

PollersRun == \A k \in polling : running[k].enabled /\ client[k] # "none"

QuietWhenOff ==
    phase = "off" =>
        polling = {} /\ \A k \in Consumers : ~running[k].enabled /\ client[k] # "open"

OpensOneByOne ==
    phase = "opening" =>
        /\ \A k \in polling : at <= Len(Order) /\ k = Here
        /\ \A i \in 1 .. Len(Order) : client[Order[i]] = "open" => i < at \/ Order[i] \in polling

OpenedAsSaved ==
    phase = "opening" /\ ~missed =>
        \A i \in 1 .. Len(Order) :
            i < at \/ Order[i] \in polling => running[Order[i]] = options[Order[i]]

RunsApplied ==
    Listening =>
        /\ ~missed => \A k \in Kinds : running[k] = applied[k]
        /\ ~check => options = applied

ClosedBehind ==
    phase = "closing" => \A i \in 1 .. Len(Order) : i < at => client[Order[i]] # "open"

LifeInv ==
    /\ TypeOK /\ PollersRun /\ QuietWhenOff /\ OpensOneByOne
    /\ OpenedAsSaved /\ RunsApplied /\ ClosedBehind

-----------------------------------------------------------------------------
(* Descriptors and the ids used so far *)

\* What the configuration of its boundary let it read
RunsStored ==
    \A k \in Consumers :
        \/ data[k].uids = NoUids /\ (running[k].enabled => client[k] = "none")
        \/ running[k].enabled /\ data[k].uids = ReadStore(store[k], k, running[k].asset)

SensorsHaveData ==
    \A k \in Consumers :
        sensors[k] \subseteq IF Live THEN Known(data[k].uids) ELSE {}

\* The id that the fact has, or that it will be given
IdOf(uids, f) == IF uids[f] = "legacy" THEN "legacy" ELSE "built"

Agree(names, uids) == \A f \in FactIds : names[f] \subseteq {IdOf(uids, f)}

NamesAgree ==
    \A k \in Consumers :
        /\ Agree(named[k][options[k].asset], ReadStore(store[k], k, options[k].asset))
        /\ running[k].enabled =>
              Agree(named[k][running[k].asset], ReadStore(store[k], k, running[k].asset))

OneName ==
    \A k \in Consumers, a \in Assets, f \in FactIds :
        \E uid \in Uids : named[k][a][f] \subseteq {uid}

ChosenUnused ==
    \A k \in Consumers :
        running[k].enabled /\ running[k].asset # options[k].asset =>
            \A f \in FactIds : named[k][options[k].asset][f] = {}

DiskAgrees ==
    \A k \in Consumers \ unsaved :
        /\ disk.options[k].asset = options[k].asset
        /\ disk.store[k].asset = store[k].asset
        /\ \A f \in FactIds : ReadStore(disk.store[k], k, options[k].asset)[f] = "legacy"
                                <=> ReadStore(store[k], k, options[k].asset)[f] = "legacy"

NameInv ==
    /\ RunsStored /\ SensorsHaveData /\ NamesAgree
    /\ OneName /\ ChosenUnused /\ DiskAgrees

BoundaryInv == LifeInv /\ NameInv

-----------------------------------------------------------------------------
(* The operators *)

LEMMA OrderFacts ==
    /\ Len(Order) \in Nat
    /\ \A i \in 1 .. Len(Order) : Order[i] \in Kinds
    /\ \A k \in Kinds : \E i \in 1 .. Len(Order) : k = Order[i]
    /\ \A i, j \in 1 .. Len(Order) : Order[i] = Order[j] => i = j
    /\ Kinds \subseteq Consumers
  BY BoundaryConstants DEF Kinds, Range, IsInjective

LEMMA LimitFacts ==
    /\ 1 \in 1 .. Len(Order) + 1 /\ 0 \in 0 .. MaxRevision
    /\ 0 \in 0 .. MaxSaves /\ 0 \in 0 .. MaxFaults
    /\ Assets # {} /\ \A k \in Consumers : FactsOf[k] \subseteq FactIds
    /\ FactLimit \in Nat \ {0} /\ MaxRevision \in Nat \ {0}
    /\ MaxSaves \in Nat /\ MaxFaults \in Nat
  BY BoundaryConstants, OrderFacts

LEMMA UsedFacts ==
    ASSUME NEW u \in Uids
    PROVE  /\ Used(u) \subseteq {"built", "legacy"}
           /\ Used(u) \subseteq {u} /\ (u = "none" => Used(u) = {})
  BY DEF Uids, Used

LEMMA DefaultTypes ==
    /\ NoUids \in [FactIds -> Uids] /\ \A f \in FactIds : NoUids[f] = "none"
    /\ Off \in Settings /\ ~Off.enabled
    /\ NoStore \in Stores
    /\ NoData.uids = NoUids /\ NoData.available = FALSE
    /\ NoData \in [uids : [FactIds -> Uids], available : BOOLEAN]
  <1>1. (CHOOSE a \in Assets : TRUE) \in Assets
    BY LimitFacts
  <1>2. NoUids \in [FactIds -> Uids] /\ \A f \in FactIds : NoUids[f] = "none"
    BY DEF NoUids, Uids
  <1>3. QED
    BY <1>1, <1>2 DEF Off, Settings, NoStore, Stores, NoData

LEMMA LoadedTypes ==
    ASSUME TypeOK, NEW k \in Consumers, NEW a \in Assets
    PROVE  Loaded(k, a) \in [FactIds -> Uids]
  BY DefaultTypes DEF TypeOK, StoreTypes, Loaded, ReadStore, Stores

\* A snapshot only adds ids, and new ones.
LEMMA GrownFacts ==
    ASSUME NEW uids \in [FactIds -> Uids], NEW facts \in SUBSET FactIds,
           NEW grown \in Grown(uids, facts \ Known(uids))
    PROVE  /\ grown \in [FactIds -> Uids]
           /\ \A f \in FactIds : grown[f] = uids[f] \/ (uids[f] = "none" /\ grown[f] = "built")
  <1>1. PICK added \in SUBSET (facts \ Known(uids)) :
            grown = [f \in FactIds |-> IF f \in added THEN "built" ELSE uids[f]]
    BY DEF Grown
  <1>2. \A f \in added : uids[f] = "none"
    BY <1>1 DEF Known
  <1>3. QED
    BY <1>1, <1>2 DEF Uids

-----------------------------------------------------------------------------
(* Types *)

LEMMA InitTypeOK == Init => TypeOK
  <1> SUFFICES ASSUME Init PROVE TypeOK
    OBVIOUS
  <1>1. SettingTypes
    <2>1. \A enabled \in BOOLEAN : [Off EXCEPT !.enabled = enabled] \in Settings
      BY DefaultTypes DEF Settings
    <2>2. PICK on \in SUBSET Kinds : options = [k \in Consumers |-> [Off EXCEPT !.enabled = k \in on]]
      BY DEF Init
    <2>3. \A k \in Consumers : (k \in on) \in BOOLEAN
      OBVIOUS
    <2>4. options \in [Consumers -> Settings]
      BY <2>1, <2>2, <2>3
    <2>5. running = [k \in Consumers |-> Off] /\ applied = running
      BY DEF Init
    <2>6. QED
      BY <2>4, <2>5, DefaultTypes DEF SettingTypes
  <1>2. store \in [Consumers -> Stores]
    <2>1. \A u \in {"legacy"} :
              [f \in FactIds |-> IF f = Special THEN u ELSE "none"] \in [FactIds -> Uids]
      BY DEF Uids
    <2>2. \A s \in {"v0", "corrupt"}, uids \in [FactIds -> Uids] :
              [NoStore EXCEPT !.schema = s, !.uids = uids] \in Stores
      BY DefaultTypes DEF Stores
    <2>3. \A s \in StartStores("pv") : s \in Stores
      <3> SUFFICES ASSUME NEW s \in StartStores("pv") PROVE s \in Stores
        OBVIOUS
      <3>1. \/ s = NoStore
            \/ \E sc \in {"v0", "corrupt"}, u \in {"legacy"} :
                  s = [NoStore EXCEPT !.schema = sc,
                           !.uids = [f \in FactIds |-> IF f = Special THEN u ELSE "none"]]
        BY DEF StartStores
      <3>2. QED
        <4>1. CASE s = NoStore
          BY <4>1, DefaultTypes
        <4>2. ASSUME NEW sc \in {"v0", "corrupt"}, NEW u \in {"legacy"},
                     s = [NoStore EXCEPT !.schema = sc,
                              !.uids = [f \in FactIds |-> IF f = Special THEN u ELSE "none"]]
              PROVE  s \in Stores
          <5>1. [f \in FactIds |-> IF f = Special THEN u ELSE "none"] \in [FactIds -> Uids]
            BY <2>1
          <5>2. QED
            BY <2>2, <4>2, <5>1
        <4>3. QED
          BY <3>1, <4>1, <4>2
    <2>4. PICK s \in StartStores("pv") : store = [k \in Consumers |-> s]
      BY DEF Init
    <2>5. QED
      BY <2>3, <2>4
  <1>3. StoreTypes
    BY <1>1, <1>2 DEF Init, StoreTypes, SettingTypes
  <1>4. NameTypes
    <2>1. \A k \in Consumers, f \in FactIds : store[k].uids[f] \in Uids
      BY <1>2 DEF Stores
    <2>2. \A k \in Consumers, f \in FactIds : Used(store[k].uids[f]) \subseteq {"built", "legacy"}
      BY <2>1, UsedFacts
    <2>3. QED
      BY <2>2 DEF Init, NameTypes
  <1>5. DataTypes
    BY DefaultTypes DEF Init, DataTypes
  <1>6. ControlTypes
    <2>1. /\ phase = "off" /\ at = 1 /\ revision = 0 /\ saves = 0 /\ faults = 0
          /\ check = FALSE /\ reopen = TRUE /\ missed = FALSE
          /\ polling = {} /\ orphans = {} /\ unsaved = {}
      BY DEF Init
    <2>2. QED
      BY <2>1, LimitFacts DEF ControlTypes
  <1>7. QED
    BY <1>1, <1>3, <1>4, <1>5, <1>6 DEF TypeOK

\* What a refresh adds to the ids used.
LEMMA NamedTypes ==
    ASSUME NameTypes, NEW k \in Consumers, NEW a \in Assets, NEW uids \in [FactIds -> Uids]
    PROVE  [f \in FactIds |-> named[k][a][f] \cup Used(uids[f])]
               \in [FactIds -> SUBSET {"built", "legacy"}]
  <1>1. \A f \in FactIds : Used(uids[f]) \subseteq {"built", "legacy"}
    BY UsedFacts
  <1>2. \A f \in FactIds : named[k][a][f] \subseteq {"built", "legacy"}
    BY DEF NameTypes
  <1>3. QED
    BY <1>1, <1>2

LEMMA ForgetTypes ==
    ASSUME Forget
    PROVE  /\ at' \in 1 .. Len(Order) + 1 /\ revision' \in 0 .. MaxRevision
           /\ check' \in BOOLEAN /\ polling' \subseteq Kinds
           /\ running' \in [Consumers -> Settings] /\ applied' \in [Consumers -> Settings]
           /\ DataTypes'
  <1>1. at' = 1 /\ revision' = 0 /\ check' = FALSE /\ polling' = {}
    BY DEF Forget
  <1>2. running' \in [Consumers -> Settings] /\ applied' \in [Consumers -> Settings]
    BY DefaultTypes DEF Forget
  <1>3. DataTypes'
    BY DefaultTypes DEF Forget, DataTypes
  <1>4. QED
    BY <1>1, <1>2, <1>3, LimitFacts

LEMMA OpenBoundaryTypes == TypeOK /\ OpenBoundary => TypeOK'
  <1> SUFFICES ASSUME TypeOK, OpenBoundary PROVE TypeOK'
    OBVIOUS
  <1>0. ControlTypes /\ SettingTypes /\ StoreTypes /\ DataTypes /\ NameTypes
    BY DEF TypeOK
  <1>1. /\ Here \in Kinds /\ Here \in Consumers /\ options[Here] \in Settings
        /\ options[Here].asset \in Assets
    BY <1>0, OrderFacts DEF OpenBoundary, Here, ControlTypes, SettingTypes, Settings
  <1>2. Loaded(Here, options[Here].asset) \in [FactIds -> Uids]
    BY <1>1, LoadedTypes
  <1>3. ControlTypes'
    BY <1>0, <1>1, OrderFacts, LimitFacts DEF OpenBoundary, environment, ControlTypes
  <1>4. SettingTypes' /\ StoreTypes' /\ NameTypes'
    BY <1>0, <1>1 DEF OpenBoundary, environment, SettingTypes, StoreTypes, NameTypes
  <1>5. [NoData EXCEPT !.uids = Loaded(Here, options[Here].asset)]
            \in [uids : [FactIds -> Uids], available : BOOLEAN]
    BY <1>2, DefaultTypes
  <1>6. data' \in [Consumers -> [uids : [FactIds -> Uids], available : BOOLEAN]]
    BY <1>0, <1>1, <1>5, DefaultTypes DEF OpenBoundary, DataTypes
  <1>7. DataTypes'
    BY <1>0, <1>1, <1>6 DEF OpenBoundary, DataTypes
  <1>8. QED
    BY <1>3, <1>4, <1>7 DEF TypeOK

LEMMA ForwardPlatformsTypes == TypeOK /\ ForwardPlatforms => TypeOK'
  <1> SUFFICES ASSUME TypeOK, ForwardPlatforms PROVE TypeOK'
    OBVIOUS
  <1>0. ControlTypes /\ SettingTypes /\ StoreTypes /\ DataTypes /\ NameTypes
    BY DEF TypeOK
  <1>1. /\ phase' = "forwarding" /\ at' = 1 /\ check' = FALSE /\ applied' = options
        /\ UNCHANGED <<options, store, disk, running, client, polling, data, revision, reopen,
                       saves, faults, missed, orphans, unsaved>>
    BY DEF ForwardPlatforms
  <1>2. ControlTypes' /\ SettingTypes' /\ StoreTypes'
    BY <1>0, <1>1, LimitFacts DEF ControlTypes, SettingTypes, StoreTypes
  <1>3. DataTypes'
    BY <1>0, <1>1 DEF ForwardPlatforms, DataTypes, Known
  <1>4. NameTypes'
    <2>1. \A k \in Consumers : data[k].uids \in [FactIds -> Uids] /\ running[k].asset \in Assets
      BY <1>0 DEF DataTypes, SettingTypes, Settings
    <2>2. \A k \in Consumers :
              [f \in FactIds |-> named[k][running[k].asset][f] \cup Used(data[k].uids[f])]
              \in [FactIds -> SUBSET {"built", "legacy"}]
      BY <1>0, <2>1, NamedTypes
    <2>3. \A k \in Consumers :
              [named[k] EXCEPT ![running[k].asset] =
                  [f \in FactIds |-> named[k][running[k].asset][f] \cup Used(data[k].uids[f])]]
              \in [Assets -> [FactIds -> SUBSET {"built", "legacy"}]]
      BY <1>0, <2>1, <2>2 DEF NameTypes
    <2>4. QED
      BY <2>3 DEF ForwardPlatforms, NameTypes
  <1>5. QED
    BY <1>2, <1>3, <1>4 DEF TypeOK

\* An exception, after which the objects of the set-up are gone or kept.
LEMMA SetupFailsTypes == TypeOK /\ SetupFails => TypeOK'
  <1> SUFFICES ASSUME TypeOK, SetupFails PROVE TypeOK'
    OBVIOUS
  <1>0. ControlTypes /\ SettingTypes /\ StoreTypes /\ DataTypes /\ NameTypes
    BY DEF TypeOK
  <1>1. /\ faults' \in 0 .. MaxFaults /\ orphans' \subseteq Kinds
        /\ UNCHANGED <<options, store, disk, reopen, saves, missed, named, unsaved>>
    BY <1>0, LimitFacts DEF SetupFails, Faulty, OpenSessions, ControlTypes
  <1>2. CASE phase' = "off" /\ Forget
    <2>1. ControlTypes' /\ DataTypes'
      BY <1>0, <1>1, <1>2, ForgetTypes DEF ControlTypes
    <2>2. SettingTypes' /\ StoreTypes' /\ NameTypes'
      BY <1>0, <1>1, <1>2, ForgetTypes DEF SettingTypes, StoreTypes, NameTypes
    <2>3. QED
      BY <2>1, <2>2 DEF TypeOK
  <1>3. CASE /\ phase' = "stuck" /\ check' = FALSE
             /\ UNCHANGED <<at, running, applied, client, polling, data, revision, sensors>>
    BY <1>0, <1>1, <1>3
    DEF TypeOK, ControlTypes, SettingTypes, StoreTypes, DataTypes, NameTypes
  <1>4. QED
    BY <1>2, <1>3 DEF SetupFails

LEMMA RefreshedTypes ==
    ASSUME ControlTypes, NEW k \in Kinds, Refreshed(k), phase = "opening" => at <= Len(Order)
    PROVE  at' \in 1 .. Len(Order) + 1 /\ polling' \subseteq Kinds
  BY OrderFacts DEF Refreshed, ControlTypes

LEMMA RefreshFailsTypes ==
    ASSUME TypeOK, OpensOneByOne, NEW k \in Kinds, RefreshFails(k)
    PROVE  TypeOK'
  <1>0. ControlTypes /\ SettingTypes /\ StoreTypes /\ DataTypes /\ NameTypes
    BY DEF TypeOK
  <1>1. at' \in 1 .. Len(Order) + 1 /\ polling' \subseteq Kinds
    BY <1>0, RefreshedTypes DEF RefreshFails, OpensOneByOne
  <1>2. ControlTypes' /\ SettingTypes' /\ StoreTypes' /\ NameTypes'
    BY <1>0, <1>1
    DEF RefreshFails, environment, ControlTypes, SettingTypes, StoreTypes, NameTypes
  <1>3. DataTypes'
    BY <1>0, OrderFacts DEF RefreshFails, DataTypes
  <1>4. QED
    BY <1>2, <1>3 DEF TypeOK

LEMMA RefreshSucceedsTypes ==
    ASSUME TypeOK, OpensOneByOne, NEW k \in Kinds, NEW facts \in SUBSET FactsOf[k],
           NEW rev \in 1 .. MaxRevision, RefreshSucceeds(k, facts, rev)
    PROVE  TypeOK'
  <1>0. ControlTypes /\ SettingTypes /\ StoreTypes /\ DataTypes /\ NameTypes
    BY DEF TypeOK
  <1>1. at' \in 1 .. Len(Order) + 1 /\ polling' \subseteq Kinds
    BY <1>0, RefreshedTypes DEF RefreshSucceeds, OpensOneByOne
  <1>2. k \in Consumers /\ data[k].uids \in [FactIds -> Uids] /\ running[k].asset \in Assets
    BY <1>0, OrderFacts DEF DataTypes, SettingTypes, Settings
  <1>3. PICK uids \in Grown(data[k].uids, facts \ Known(data[k].uids)) :
            /\ store' = Persisted(k, uids)
            /\ check' = (check \/ (Listening /\ store' # store))
            /\ unsaved' = IF store'[k].asset # store[k].asset THEN unsaved \cup {k} ELSE unsaved
            /\ Publish(k, uids)
    BY DEF RefreshSucceeds
  <1>4. uids \in [FactIds -> Uids]
    BY <1>2, LimitFacts, GrownFacts
  <1>5. revision' \in 0 .. MaxRevision
    BY <1>0, LimitFacts DEF RefreshSucceeds, ControlTypes
  <1>6. check' \in BOOLEAN /\ unsaved' \subseteq Kinds
    BY <1>0, <1>3 DEF ControlTypes, Listening
  <1>7. ControlTypes' /\ SettingTypes'
    BY <1>0, <1>1, <1>5, <1>6 DEF RefreshSucceeds, ControlTypes, SettingTypes
  <1>8. StoreTypes'
    <2>1. [asset |-> running[k].asset, schema |-> "v1", uids |-> uids] \in Stores
      BY <1>2, <1>4 DEF Stores
    <2>2. QED
      BY <1>0, <1>2, <1>3, <2>1 DEF RefreshSucceeds, Persisted, StoreTypes
  <1>9. DataTypes'
    <2>1. /\ data' = [data EXCEPT ![k] = [uids |-> uids, available |-> TRUE]]
          /\ \/ sensors' = [sensors EXCEPT ![k] = @ \cup Known(uids)]
             \/ sensors' = sensors
          /\ client' = client
      BY <1>3 DEF Publish, RefreshSucceeds
    <2>2. Known(uids) \subseteq FactIds
      BY DEF Known
    <2>3. QED
      BY <1>0, <1>2, <1>4, <2>1, <2>2 DEF DataTypes
  <1>10. NameTypes'
    <2>1. [f \in FactIds |-> named[k][running[k].asset][f] \cup Used(uids[f])]
              \in [FactIds -> SUBSET {"built", "legacy"}]
      BY <1>0, <1>2, <1>4, NamedTypes
    <2>2. \/ named' = [named EXCEPT ![k] = [@ EXCEPT ![running[k].asset] =
                          [f \in FactIds |-> named[k][running[k].asset][f] \cup Used(uids[f])]]]
          \/ named' = named
      BY <1>0, <1>2, <1>3 DEF Publish, NameTypes
    <2>3. [named[k] EXCEPT ![running[k].asset] =
              [f \in FactIds |-> named[k][running[k].asset][f] \cup Used(uids[f])]]
              \in [Assets -> [FactIds -> SUBSET {"built", "legacy"}]]
      BY <1>0, <1>2, <2>1 DEF NameTypes
    <2>4. QED
      BY <1>0, <1>2, <2>2, <2>3 DEF NameTypes
  <1>11. QED
    BY <1>7, <1>8, <1>9, <1>10 DEF TypeOK

LEMMA PersistFailsTypes ==
    ASSUME TypeOK, NEW k \in Kinds, PersistFails(k)
    PROVE  TypeOK'
  <1>0. ControlTypes /\ SettingTypes /\ StoreTypes /\ DataTypes /\ NameTypes
    BY DEF TypeOK
  <1>1. StoreTypes' /\ NameTypes'
    BY <1>0 DEF PersistFails, StoreTypes, NameTypes
  <1>2. faults' \in 0 .. MaxFaults
    BY <1>0, LimitFacts DEF PersistFails, Faulty, ControlTypes
  <1>3. CASE phase = "opening"
    <2>1. Forget /\ phase' = "off" /\ orphans' \subseteq Kinds
          /\ UNCHANGED <<options, reopen, saves, missed, unsaved>>
      BY <1>0, <1>3 DEF PersistFails, OpenSessions, ControlTypes
    <2>2. ControlTypes' /\ SettingTypes' /\ DataTypes'
      BY <1>0, <1>2, <2>1, ForgetTypes DEF ControlTypes, SettingTypes
    <2>3. QED
      BY <1>1, <2>2 DEF TypeOK
  <1>4. CASE phase # "opening"
    <2>1. ControlTypes' /\ SettingTypes'
      BY <1>0, <1>2, <1>4 DEF PersistFails, ControlTypes, SettingTypes
    <2>2. data' = [data EXCEPT ![k].available = FALSE] /\ UNCHANGED <<client, sensors>>
      BY <1>4 DEF PersistFails
    <2>3. DataTypes'
      BY <1>0, <2>2, OrderFacts DEF DataTypes
    <2>4. QED
      BY <1>1, <2>1, <2>3 DEF TypeOK
  <1>5. QED
    BY <1>3, <1>4

LEMMA SaveOptionsTypes ==
    ASSUME TypeOK, NEW k \in Kinds, NEW enabled \in BOOLEAN, NEW asset \in Assets,
           SaveOptions(k, enabled, asset)
    PROVE  TypeOK'
  <1>0. ControlTypes /\ SettingTypes /\ StoreTypes /\ DataTypes /\ NameTypes
    BY DEF TypeOK
  <1>1. ControlTypes'
    BY <1>0, LimitFacts DEF SaveOptions, Listening, ControlTypes
  <1>2. SettingTypes' /\ StoreTypes' /\ DataTypes'
    BY <1>0, OrderFacts DEF SaveOptions, SettingTypes, Settings, StoreTypes, DataTypes
  <1>3. NameTypes'
    <2>1. NoNames \in [Assets -> [FactIds -> SUBSET {"built", "legacy"}]]
      BY DEF NoNames
    <2>2. named' = named \/ named' = [named EXCEPT ![k] = NoNames]
      BY DEF SaveOptions
    <2>3. QED
      BY <1>0, <2>1, <2>2 DEF NameTypes
  <1>4. QED
    BY <1>1, <1>2, <1>3 DEF TypeOK

LEMMA CrashTypes == TypeOK /\ Crash => TypeOK'
  <1> SUFFICES ASSUME TypeOK, Crash PROVE TypeOK'
    OBVIOUS
  <1>0. ControlTypes /\ SettingTypes /\ StoreTypes /\ DataTypes /\ NameTypes
    BY DEF TypeOK
  <1>1. /\ phase' = "off" /\ reopen' = TRUE /\ Forget /\ orphans' = {} /\ unsaved' = {}
        /\ options' = disk.options /\ store' = disk.store
        /\ UNCHANGED <<disk, saves, missed>>
    BY DEF Crash
  <1>2. faults' \in 0 .. MaxFaults
    BY <1>0, LimitFacts DEF Crash, Faulty, ControlTypes
  <1>3. ControlTypes'
    BY <1>0, <1>1, <1>2, ForgetTypes DEF ControlTypes
  <1>4. SettingTypes' /\ StoreTypes' /\ DataTypes'
    BY <1>0, <1>1, ForgetTypes DEF SettingTypes, StoreTypes
  <1>5. NameTypes'
    <2>1. NoNames \in [Assets -> [FactIds -> SUBSET {"built", "legacy"}]]
      BY DEF NoNames
    <2>2. named' = [k \in Consumers |-> IF k \in unsaved THEN NoNames ELSE named[k]]
      BY DEF Crash
    <2>3. QED
      BY <1>0, <2>1, <2>2 DEF NameTypes
  <1>6. QED
    BY <1>3, <1>4, <1>5 DEF TypeOK

LEMMA CloseTypes ==
    ASSUME TypeOK, CloseBoundary \/ CloseNotReached \/ CloseRaises \/ FinishClose
    PROVE  TypeOK'
  <1>0. ControlTypes /\ SettingTypes /\ StoreTypes /\ DataTypes /\ NameTypes
    BY DEF TypeOK
  <1>1. CASE CloseBoundary
    <2>1. ControlTypes'
      BY <1>0, <1>1, OrderFacts DEF CloseBoundary, environment, ControlTypes
    <2>2. SettingTypes' /\ StoreTypes' /\ NameTypes'
      BY <1>0, <1>1 DEF CloseBoundary, environment, SettingTypes, StoreTypes, NameTypes
    <2>3. DataTypes'
      BY <1>0, <1>1 DEF CloseBoundary, DataTypes
    <2>4. QED
      BY <2>1, <2>2, <2>3 DEF TypeOK
  <1>2. CASE CloseRaises
    <2>1. faults' \in 0 .. MaxFaults
      BY <1>0, <1>2, LimitFacts DEF CloseRaises, Faulty, ControlTypes
    <2>2. ControlTypes'
      BY <1>0, <1>2, <2>1 DEF CloseRaises, OpenSessions, ControlTypes
    <2>3. SettingTypes' /\ StoreTypes' /\ NameTypes'
      BY <1>0, <1>2 DEF CloseRaises, SettingTypes, StoreTypes, NameTypes
    <2>4. DataTypes'
      BY <1>0, <1>2 DEF CloseRaises, DataTypes
    <2>5. QED
      BY <2>2, <2>3, <2>4 DEF TypeOK
  <1>3. CASE FinishClose
    <2>1. /\ phase' = "off" /\ Forget /\ orphans' \subseteq Kinds
          /\ UNCHANGED <<options, store, disk, reopen, saves, faults, missed, named, unsaved>>
      BY <1>0, <1>3 DEF FinishClose, OpenSessions, ControlTypes
    <2>2. ControlTypes'
      BY <1>0, <2>1, ForgetTypes DEF ControlTypes
    <2>3. SettingTypes' /\ StoreTypes' /\ DataTypes' /\ NameTypes'
      BY <1>0, <2>1, ForgetTypes DEF SettingTypes, StoreTypes, NameTypes
    <2>4. QED
      BY <2>2, <2>3 DEF TypeOK
  <1>4. CASE CloseNotReached
    <2>1. faults' \in 0 .. MaxFaults
      BY <1>0, <1>4, LimitFacts DEF CloseNotReached, Faulty, ControlTypes
    <2>2. QED
      BY <1>0, <1>4, <2>1
      DEF CloseNotReached, OpenSessions, TypeOK, ControlTypes, SettingTypes, StoreTypes, DataTypes,
          NameTypes
  <1>5. QED
    BY <1>1, <1>2, <1>3, <1>4

LEMMA OtherTypes ==
    ASSUME TypeOK,
           \/ StartSetup \/ FinishSetup \/ UpdateListener \/ Unload \/ Enable \/ WriteDisk
           \/ \E k \in Kinds : Poll(k)
    PROVE  TypeOK'
  <1>0. ControlTypes /\ SettingTypes /\ StoreTypes /\ DataTypes /\ NameTypes
    BY DEF TypeOK
  <1>1. CASE StartSetup
    BY <1>0, <1>1, LimitFacts
    DEF StartSetup, TypeOK, ControlTypes, SettingTypes, StoreTypes, DataTypes, NameTypes
  <1>2. CASE UpdateListener
    BY <1>0, <1>2, LimitFacts
    DEF UpdateListener, StartClose, environment, TypeOK, ControlTypes, SettingTypes, StoreTypes,
        DataTypes, NameTypes
  <1>3. CASE Unload
    BY <1>0, <1>3, LimitFacts
    DEF Unload, StartClose, environment, TypeOK, ControlTypes, SettingTypes, StoreTypes,
        DataTypes, NameTypes
  <1>4. CASE Enable
    BY <1>0, <1>4
    DEF Enable, environment, TypeOK, ControlTypes, SettingTypes, StoreTypes, DataTypes, NameTypes
  <1>5. CASE WriteDisk
    BY <1>0, <1>5
    DEF WriteDisk, Saved, TypeOK, ControlTypes, SettingTypes, StoreTypes, DataTypes, NameTypes
  <1>6. CASE \E k \in Kinds : Poll(k)
    BY <1>0, <1>6
    DEF Poll, environment, TypeOK, ControlTypes, SettingTypes, StoreTypes, DataTypes, NameTypes
  <1>7. CASE FinishSetup
    BY <1>0, <1>7
    DEF FinishSetup, environment, TypeOK, ControlTypes, SettingTypes, StoreTypes, DataTypes, NameTypes
  <1>8. QED
    BY <1>1, <1>2, <1>3, <1>4, <1>5, <1>6, <1>7

LEMMA NextTypeOK == TypeOK /\ OpensOneByOne /\ [Next]_vars => TypeOK'
  <1> SUFFICES ASSUME TypeOK, OpensOneByOne, [Next]_vars PROVE TypeOK'
    OBVIOUS
  <1>1. CASE UNCHANGED vars
    BY <1>1
    DEF vars, environment, TypeOK, ControlTypes, SettingTypes, StoreTypes, DataTypes, NameTypes
  <1>2. CASE Next
    BY <1>2, OpenBoundaryTypes, ForwardPlatformsTypes, SetupFailsTypes, RefreshFailsTypes,
       RefreshSucceedsTypes, PersistFailsTypes, SaveOptionsTypes, CrashTypes, CloseTypes, OtherTypes
    DEF Next, RefreshStale
  <1>3. QED
    BY <1>1, <1>2

-----------------------------------------------------------------------------
(* The steps of a set-up and of a close *)

LifeParts ==
    /\ PollersRun /\ QuietWhenOff /\ OpensOneByOne
    /\ OpenedAsSaved /\ RunsApplied /\ ClosedBehind

LEMMA InitLife == Init => LifeParts
  BY DefaultTypes
  DEF Init, LifeParts, PollersRun, QuietWhenOff, OpensOneByOne, OpenedAsSaved, RunsApplied, Listening,
      ClosedBehind

LEMMA StartSetupLife == LifeInv /\ StartSetup => LifeParts'
  BY OrderFacts
  DEF LifeInv, StartSetup, LifeParts, PollersRun, QuietWhenOff, OpensOneByOne, OpenedAsSaved,
      RunsApplied, Listening, ClosedBehind

LEMMA OpenBoundaryLife == LifeInv /\ OpenBoundary => LifeParts'
  <1> SUFFICES ASSUME LifeInv, OpenBoundary PROVE LifeParts'
    OBVIOUS
  <1>1. /\ phase = "opening" /\ at \in 1 .. Len(Order) /\ Here \notin polling
        /\ running' = [running EXCEPT ![Here] = options[Here]]
        /\ \/ at' = at + 1 /\ polling' = polling /\ client' = [client EXCEPT ![Here] = "none"]
           \/ /\ at' = at /\ polling' = polling \cup {Here} /\ options[Here].enabled
              /\ client' = [client EXCEPT ![Here] = "open"]
        /\ UNCHANGED <<phase, options, missed>>
    BY DEF LifeInv, TypeOK, ControlTypes, OpenBoundary, environment
  <1>2. polling = {} /\ Here \in Consumers /\ \A i \in 1 .. Len(Order) : Order[i] \in Consumers
    BY <1>1, OrderFacts DEF LifeInv, OpensOneByOne, Here
  <1>3. /\ running'[Here] = options[Here]
        /\ \A k \in Consumers : k # Here => running'[k] = running[k] /\ client'[k] = client[k]
        /\ \/ at' = at + 1 /\ polling' = {} /\ client'[Here] = "none"
           \/ at' = at /\ polling' = {Here} /\ options[Here].enabled /\ client'[Here] = "open"
    BY <1>1, <1>2 DEF LifeInv, TypeOK, SettingTypes, DataTypes
  <1>4. PollersRun'
    BY <1>3 DEF PollersRun
  <1>5. OpensOneByOne'
    <2>1. \A k \in polling' : at' <= Len(Order) /\ k = Order[at']
      BY <1>1, <1>3 DEF Here
    <2>2. ASSUME NEW i \in 1 .. Len(Order), client'[Order[i]] = "open"
          PROVE  i < at' \/ Order[i] \in polling'
      <3>1. CASE Order[i] = Here
        BY <1>3, <2>2, <3>1
      <3>2. CASE Order[i] # Here
        <4>1. i < at
          BY <1>1, <1>2, <1>3, <2>2, <3>2 DEF LifeInv, OpensOneByOne
        <4>2. QED
          BY <1>1, <1>3, <4>1
      <3>3. QED
        BY <3>1, <3>2
    <2>3. QED
      BY <2>1, <2>2 DEF OpensOneByOne, Here
  <1>6. OpenedAsSaved'
    <2>1. SUFFICES ASSUME ~missed, NEW i \in 1 .. Len(Order), i < at' \/ Order[i] \in polling'
                   PROVE  running'[Order[i]] = options[Order[i]]
      BY <1>1 DEF OpenedAsSaved
    <2>2. CASE i = at
      BY <1>3, <2>2 DEF Here
    <2>3. CASE i # at
      <3>1. Order[i] # Here
        BY <1>1, <2>3, OrderFacts DEF Here
      <3>2. i < at
        BY <1>1, <1>3, <2>1, <2>3, <3>1
      <3>3. QED
        BY <1>1, <1>2, <1>3, <2>1, <3>1, <3>2 DEF LifeInv, OpenedAsSaved
    <2>4. QED
      BY <2>2, <2>3
  <1>7. QED
    BY <1>1, <1>4, <1>5, <1>6
    DEF LifeParts, QuietWhenOff, RunsApplied, Listening, ClosedBehind

LEMMA ForwardLife == LifeInv /\ ForwardPlatforms => LifeParts'
  <1> SUFFICES ASSUME LifeInv, ForwardPlatforms PROVE LifeParts'
    OBVIOUS
  <1>1. /\ phase = "opening" /\ at > Len(Order) /\ at \in Nat /\ phase' = "forwarding"
        /\ applied' = options
        /\ UNCHANGED <<options, running, client, polling, missed>>
    BY DEF ForwardPlatforms, LifeInv, TypeOK, ControlTypes
  <1>2. ~missed => \A k \in Kinds : running[k] = options[k]
    BY <1>1, OrderFacts DEF LifeInv, OpenedAsSaved
  <1>3. QED
    BY <1>1, <1>2
    DEF LifeInv, LifeParts, PollersRun, QuietWhenOff, OpensOneByOne, OpenedAsSaved, RunsApplied,
        Listening, ClosedBehind

\* The end of a set-up, well or not.
LEMMA SetupEndsLife == LifeInv /\ (FinishSetup \/ SetupFails) => LifeParts'
  <1> SUFFICES ASSUME LifeInv, FinishSetup \/ SetupFails PROVE LifeParts'
    OBVIOUS
  <1>1. CASE phase' = "off" /\ Forget
    BY <1>1, DefaultTypes
    DEF Forget, LifeParts, PollersRun, QuietWhenOff, OpensOneByOne, OpenedAsSaved, RunsApplied,
        Listening, ClosedBehind
  <1>2. CASE /\ phase = "forwarding"
             /\ phase' = "stuck" \/ (phase' = "loaded" /\ check' = check /\ missed' = missed)
             /\ UNCHANGED <<options, running, applied, client, polling>>
    BY <1>2
    DEF LifeInv, LifeParts, PollersRun, QuietWhenOff, OpensOneByOne, OpenedAsSaved, RunsApplied,
        Listening, ClosedBehind
  <1>3. QED
    BY <1>1, <1>2 DEF FinishSetup, SetupFails, environment

\* The end of a refresh, whatever it brought.
LEMMA RefreshedLife ==
    ASSUME LifeInv, NEW k \in polling, Refreshed(k), check => check',
           UNCHANGED <<phase, options, running, applied, client, missed>>
    PROVE  LifeParts'
  <1>1. polling' = polling \ {k} /\ at \in 1 .. Len(Order) + 1
        /\ (phase # "opening" => at' = at) /\ (phase = "opening" => at' = at + 1)
    BY DEF Refreshed, LifeInv, TypeOK, ControlTypes
  <1>2. PollersRun' /\ QuietWhenOff'
    BY <1>1 DEF LifeInv, PollersRun, QuietWhenOff
  <1>3. RunsApplied' /\ ClosedBehind'
    BY <1>1 DEF LifeInv, RunsApplied, Listening, ClosedBehind
  <1>4. CASE phase = "opening"
    <2>1. k = Here /\ polling = {Here} /\ polling' = {} /\ at \in 1 .. Len(Order)
      BY <1>1, <1>4 DEF LifeInv, OpensOneByOne
    <2>2. \A i \in 1 .. Len(Order) : i < at' => i < at \/ Order[i] \in polling
      BY <1>1, <1>4, <2>1 DEF Here
    <2>3. \A i \in 1 .. Len(Order) : client[Order[i]] = "open" => i < at'
      BY <1>1, <1>4, <2>1, OrderFacts DEF LifeInv, OpensOneByOne, Here
    <2>4. OpenedAsSaved' /\ OpensOneByOne'
      BY <1>4, <2>1, <2>2, <2>3 DEF LifeInv, OpenedAsSaved, OpensOneByOne
    <2>5. QED
      BY <1>2, <1>3, <2>4 DEF LifeParts
  <1>5. CASE phase # "opening"
    BY <1>2, <1>3, <1>5 DEF LifeParts, OpenedAsSaved, OpensOneByOne
  <1>6. QED
    BY <1>4, <1>5

LEMMA PersistFailsLife ==
    ASSUME LifeInv, NEW k \in Kinds, PersistFails(k)
    PROVE  LifeParts'
  <1>1. CASE phase = "opening"
    <2>1. phase' = "off" /\ Forget
      BY <1>1 DEF PersistFails
    <2>2. QED
      BY <2>1, DefaultTypes
      DEF Forget, LifeParts, PollersRun, QuietWhenOff, OpensOneByOne, OpenedAsSaved, RunsApplied,
          Listening, ClosedBehind
  <1>2. CASE phase # "opening"
    <2>1. /\ polling' = polling \ {k}
          /\ UNCHANGED <<phase, at, options, running, applied, client, check, missed>>
      BY <1>2 DEF PersistFails
    <2>2. QED
      BY <1>2, <2>1
      DEF LifeInv, LifeParts, PollersRun, QuietWhenOff, OpensOneByOne, OpenedAsSaved, RunsApplied,
          Listening, ClosedBehind
  <1>3. QED
    BY <1>1, <1>2

LEMMA CloseLife ==
    ASSUME LifeInv, CloseBoundary \/ CloseNotReached \/ CloseRaises \/ FinishClose
    PROVE  LifeParts'
  <1>1. CASE CloseBoundary
    <2>1. /\ phase = "closing" /\ at \in 1 .. Len(Order) /\ at' = at + 1
          /\ client' = [client EXCEPT ![Here] = IF @ = "open" THEN "closed" ELSE @]
          /\ UNCHANGED <<phase, options, running, applied, polling, check, missed>>
      BY <1>1 DEF CloseBoundary, environment, LifeInv, TypeOK, ControlTypes
    <2>2. /\ Here \in Consumers /\ client'[Here] # "open"
          /\ \A k \in Consumers : /\ client[k] # "open" => client'[k] # "open"
                                  /\ client[k] # "none" => client'[k] # "none"
      BY <2>1, OrderFacts DEF Here, LifeInv, TypeOK, DataTypes
    <2>3. ClosedBehind'
      BY <2>1, <2>2, OrderFacts DEF LifeInv, ClosedBehind, Here
    <2>4. PollersRun'
      BY <2>1, <2>2, OrderFacts DEF LifeInv, TypeOK, ControlTypes, PollersRun
    <2>5. QED
      BY <2>1, <2>3, <2>4
      DEF LifeParts, QuietWhenOff, OpensOneByOne, OpenedAsSaved, RunsApplied, Listening
  <1>2. CASE CloseNotReached \/ CloseRaises
    <2>1. phase' = "failed" /\ UNCHANGED <<polling, running, client>>
      BY <1>2 DEF CloseNotReached, CloseRaises
    <2>2. QED
      BY <2>1
      DEF LifeInv, LifeParts, PollersRun, QuietWhenOff, OpensOneByOne, OpenedAsSaved, RunsApplied,
          Listening, ClosedBehind
  <1>3. CASE FinishClose
    BY <1>3, DefaultTypes
    DEF FinishClose, Forget, LifeParts, PollersRun, QuietWhenOff, OpensOneByOne, OpenedAsSaved,
        RunsApplied, Listening, ClosedBehind
  <1>4. QED
    BY <1>1, <1>2, <1>3

LEMMA CrashLife == LifeInv /\ Crash => LifeParts'
  BY DefaultTypes
  DEF Crash, Forget, LifeParts, PollersRun, QuietWhenOff, OpensOneByOne, OpenedAsSaved, RunsApplied,
      Listening, ClosedBehind

LEMMA SaveOptionsLife ==
    ASSUME LifeInv, NEW k \in Kinds, NEW enabled \in BOOLEAN, NEW asset \in Assets,
           SaveOptions(k, enabled, asset)
    PROVE  LifeParts'
  <1>1. /\ check' = (check \/ Listening) /\ missed' = (missed \/ phase = "opening")
        /\ UNCHANGED <<phase, at, running, applied, client, polling>>
    BY DEF SaveOptions
  <1>2. QED
    BY <1>1
    DEF LifeInv, LifeParts, PollersRun, QuietWhenOff, OpensOneByOne, OpenedAsSaved, RunsApplied,
        Listening, ClosedBehind, Here

LEMMA ListenerLife == LifeInv /\ (UpdateListener \/ Unload) => LifeParts'
  <1> SUFFICES ASSUME LifeInv, UpdateListener \/ Unload PROVE LifeParts'
    OBVIOUS
  <1>1. /\ phase = "loaded"
        /\ UNCHANGED <<options, running, applied, client, polling, missed>>
        /\ \/ options = applied /\ UNCHANGED <<phase, at>>
           \/ phase' = "closing" /\ at' = 1
    BY DEF UpdateListener, Unload, StartClose, environment
  <1>2. QED
    BY <1>1
    DEF LifeInv, LifeParts, PollersRun, QuietWhenOff, OpensOneByOne, OpenedAsSaved, RunsApplied,
        Listening, ClosedBehind

LEMMA OtherLife ==
    ASSUME LifeInv,
           Enable \/ WriteDisk \/ UNCHANGED vars \/ \E k \in Kinds : Poll(k)
    PROVE  LifeParts'
  <1>1. /\ UNCHANGED <<phase, at, options, running, applied, client, check, missed>>
        /\ \/ polling' = polling
           \/ \E k \in Kinds : /\ phase \notin {"opening", "off"} /\ running[k].enabled
                               /\ client[k] = "open" /\ polling' = polling \cup {k}
    BY DEF Enable, WriteDisk, Poll, Live, vars, environment
  <1>2. QED
    BY <1>1
    DEF LifeInv, LifeParts, PollersRun, QuietWhenOff, OpensOneByOne, OpenedAsSaved, RunsApplied,
        Listening, ClosedBehind, Here

LEMMA InitLifeInv == Init => LifeInv
  BY InitTypeOK, InitLife DEF LifeInv, LifeParts

LEMMA NextLifeInv == LifeInv /\ [Next]_vars => LifeInv'
  <1> SUFFICES ASSUME LifeInv, [Next]_vars PROVE LifeInv'
    OBVIOUS
  <1>1. TypeOK'
    BY NextTypeOK DEF LifeInv
  <1>2. ASSUME NEW k \in Kinds, RefreshFails(k) \/ RefreshStale(k)
        PROVE  LifeParts'
    BY <1>2, RefreshedLife DEF RefreshFails, RefreshStale, environment
  <1>3. ASSUME NEW k \in Kinds, NEW facts \in SUBSET FactsOf[k], NEW rev \in 1 .. MaxRevision,
               RefreshSucceeds(k, facts, rev)
        PROVE  LifeParts'
    BY <1>3, RefreshedLife DEF RefreshSucceeds
  <1>4. LifeParts'
    BY <1>2, <1>3, StartSetupLife, OpenBoundaryLife, ForwardLife, SetupEndsLife, PersistFailsLife,
       CloseLife, CrashLife, SaveOptionsLife, ListenerLife, OtherLife
    DEF Next
  <1>5. QED
    BY <1>1, <1>4 DEF LifeInv, LifeParts

THEOREM LifeInvHolds == Spec => []LifeInv
  <1>1. LifeInv /\ [Next]_vars => LifeInv'
    BY NextLifeInv
  <1>2. QED
    BY <1>1, InitLifeInv, PTL DEF Spec

(* Once the update listener has run, the boundaries run the saved options, *)
(* unless these were saved while the boundaries were opened                *)
(* (entry_setup.py:1761-1807).                                             *)
THEOREM BoundariesRunSavedOptions == Spec => []RunsSavedOptions
  <1>1. LifeInv => RunsSavedOptions
    BY OrderFacts DEF LifeInv, RunsApplied, Listening, RunsSavedOptions
  <1>2. QED
    BY <1>1, LifeInvHolds, PTL

\* A step that leaves a session, by what it is.
LEMMA OrphansStep ==
    ASSUME LifeInv, [Next]_vars, NEW i \in 1 .. Len(Order), Order[i] \in orphans' \ orphans
    PROVE  /\ faults' = faults + 1
           /\ phase = "closing" => i >= at
           /\ phase = "opening" => i < at
  <1>1. client[Order[i]] = "open"
        /\ \/ SetupFails \/ CloseNotReached \/ CloseRaises \/ FinishClose
           \/ \E k \in Kinds : PersistFails(k) /\ phase = "opening" /\ Order[i] # k
    <2>1. \/ orphans' \subseteq orphans
          \/ orphans' = orphans \cup OpenSessions
             /\ (SetupFails \/ CloseNotReached \/ CloseRaises \/ FinishClose)
          \/ \E k \in Kinds : /\ PersistFails(k) /\ phase = "opening"
                              /\ orphans' = orphans \cup (OpenSessions \ {k})
      BY DEF Next, vars, environment, StartSetup, OpenBoundary, ForwardPlatforms, FinishSetup,
             SetupFails, RefreshFails, RefreshStale, RefreshSucceeds, UpdateListener, CloseBoundary,
             FinishClose, Poll, PersistFails, SaveOptions, Unload, CloseNotReached, CloseRaises,
             Enable, WriteDisk, Crash
    <2>2. QED
      BY <2>1 DEF OpenSessions
  <1>2. at \in Nat /\ phase = "closing" => i >= at
    BY <1>1 DEF LifeInv, TypeOK, ControlTypes, ClosedBehind
  <1>3. CASE FinishClose
    BY <1>1, <1>3 DEF FinishClose, LifeInv, TypeOK, ControlTypes, ClosedBehind
  <1>4. CASE SetupFails \/ CloseNotReached \/ CloseRaises
    BY <1>1, <1>2, <1>4 DEF SetupFails, CloseNotReached, CloseRaises, Faulty,
       LifeInv, TypeOK, ControlTypes, ClosedBehind
  <1>5. ASSUME NEW k \in Kinds, PersistFails(k), phase = "opening", Order[i] # k
        PROVE  faults' = faults + 1 /\ i < at
    <2>1. k = Here /\ polling \subseteq {k}
      BY <1>5 DEF PersistFails, LifeInv, OpensOneByOne
    <2>2. i < at
      BY <1>1, <1>5, <2>1 DEF LifeInv, OpensOneByOne
    <2>3. QED
      BY <1>5, <2>2 DEF PersistFails, Faulty
  <1>6. QED
    BY <1>1, <1>3, <1>4, <1>5 DEF PersistFails

(* A session is left only in the step of an exception, and in a close or a *)
(* set-up only those of the boundaries that it did not get past or that    *)
(* were open before it, for any order of consumers and any number of       *)
(* exceptions (entry_cleanup.py:38-47, pv_m2m.py:399-408).                 *)
THEOREM BoundarySessionsReleased == Spec => SessionsReleased
  <1>1. LifeInv /\ [Next]_vars =>
            \A i \in 1 .. Len(Order) : Order[i] \in orphans' \ orphans =>
                /\ faults' = faults + 1
                /\ phase = "closing" => i >= at
                /\ phase = "opening" => i < at
    BY OrphansStep
  <1>2. QED
    BY <1>1, LifeInvHolds, PTL DEF Spec, SessionsReleased

-----------------------------------------------------------------------------
(* The steps of the descriptors and their ids *)

LEMMA InitNames == Init => NameInv
  <1> SUFFICES ASSUME Init PROVE NameInv
    OBVIOUS
  <1>1. /\ phase = "off" /\ running = [k \in Consumers |-> Off]
        /\ data = [k \in Consumers |-> NoData] /\ sensors = [k \in Consumers |-> {}]
        /\ disk = [options |-> options, store |-> store]
        /\ named = [k \in Consumers |-> [a \in Assets |->
               [f \in FactIds |-> IF a # store[k].asset \/ k = "evse" \/ store[k].schema = "corrupt"
                                  THEN {} ELSE Used(store[k].uids[f])]]]
    BY DEF Init
  <1>2. SettingTypes /\ StoreTypes
    BY InitTypeOK DEF TypeOK
  <1>3. RunsStored /\ SensorsHaveData /\ ChosenUnused
    BY <1>1, DefaultTypes DEF RunsStored, SensorsHaveData, ChosenUnused
  <1>4. \A k \in Consumers, a \in Assets : Agree(named[k][a], ReadStore(store[k], k, a))
    <2> SUFFICES ASSUME NEW k \in Consumers, NEW a \in Assets, NEW f \in FactIds
                 PROVE  named[k][a][f] \subseteq {IdOf(ReadStore(store[k], k, a), f)}
      BY DEF Agree
    <2>1. CASE a # store[k].asset \/ k = "evse" \/ store[k].schema = "corrupt"
      BY <1>1, <2>1
    <2>2. CASE ~(a # store[k].asset \/ k = "evse" \/ store[k].schema = "corrupt")
      <3>1. named[k][a][f] = Used(store[k].uids[f]) /\ ReadStore(store[k], k, a) = store[k].uids
        BY <1>1, <2>2 DEF ReadStore
      <3>2. store[k].uids[f] \in Uids
        BY <1>2 DEF StoreTypes, Stores
      <3>3. QED
        BY <3>1, <3>2 DEF Used, IdOf, Uids
    <2>3. QED
      BY <2>1, <2>2
  <1>5. NamesAgree
    BY <1>2, <1>4 DEF NamesAgree, SettingTypes, Settings
  <1>6. OneName
    BY <1>4 DEF OneName, Agree, IdOf, Uids
  <1>7. DiskAgrees
    BY <1>1 DEF DiskAgrees
  <1>8. QED
    BY <1>3, <1>5, <1>6, <1>7 DEF NameInv

\* Steps that touch neither the stores nor the ids.
LEMMA NamesFrame ==
    ASSUME NameInv, UNCHANGED <<options, store, disk, running, named, unsaved>>,
           \A k \in Consumers : data'[k].uids = data[k].uids /\ (client[k] = "none" => client'[k] = "none"),
           \A k \in Consumers : sensors'[k] \subseteq IF Live' THEN Known(data[k].uids) ELSE {}
    PROVE  NameInv'
  <1>1. RunsStored'
    BY DEF NameInv, RunsStored
  <1>2. SensorsHaveData'
    BY DEF SensorsHaveData
  <1>3. NamesAgree' /\ OneName' /\ ChosenUnused' /\ DiskAgrees'
    BY DEF NameInv, NamesAgree, OneName, ChosenUnused, DiskAgrees
  <1>4. QED
    BY <1>1, <1>2, <1>3 DEF NameInv

LEMMA ForgetNames ==
    ASSUME NameInv, Forget, UNCHANGED <<options, store, disk, named, unsaved>>
    PROVE  NameInv'
  <1>1. \A k \in Consumers : /\ ~running'[k].enabled
                             /\ data'[k].uids = NoUids /\ sensors'[k] = {}
    BY DefaultTypes DEF Forget
  <1>2. RunsStored' /\ SensorsHaveData' /\ ChosenUnused'
    BY <1>1 DEF RunsStored, SensorsHaveData, ChosenUnused
  <1>3. NamesAgree' /\ OneName' /\ DiskAgrees'
    BY <1>1 DEF NameInv, NamesAgree, OneName, DiskAgrees
  <1>4. QED
    BY <1>2, <1>3 DEF NameInv

LEMMA OpenBoundaryNames == LifeInv /\ NameInv /\ OpenBoundary => NameInv'
  <1> SUFFICES ASSUME LifeInv, NameInv, OpenBoundary PROVE NameInv'
    OBVIOUS
  <1>1. /\ Here \in Consumers /\ phase = "opening"
        /\ UNCHANGED <<phase, options, store, disk, sensors, named, unsaved>>
    BY OrderFacts DEF OpenBoundary, environment, Here, LifeInv, TypeOK, ControlTypes
  <1>2. /\ running'[Here] = options[Here]
        /\ \A k \in Consumers : k # Here => /\ running'[k] = running[k] /\ data'[k] = data[k]
                                             /\ client'[k] = client[k]
    BY <1>1 DEF OpenBoundary, LifeInv, TypeOK, SettingTypes, DataTypes
  <1>3. \/ data'[Here].uids = NoUids /\ client'[Here] = "none"
        \/ /\ options[Here].enabled
           /\ data'[Here].uids = ReadStore(store[Here], Here, options[Here].asset)
    <2>1. CASE data' = [data EXCEPT ![Here] = NoData] /\ client' = [client EXCEPT ![Here] = "none"]
      BY <1>1, <2>1, DefaultTypes DEF LifeInv, TypeOK, DataTypes
    <2>2. CASE /\ options[Here].enabled
               /\ data' = [data EXCEPT ![Here] = [NoData EXCEPT !.uids = Loaded(Here, options[Here].asset)]]
      BY <1>1, <2>2, DefaultTypes DEF Loaded, LifeInv, TypeOK, DataTypes
    <2>3. QED
      BY <2>1, <2>2 DEF OpenBoundary
  <1>4. RunsStored'
    BY <1>1, <1>2, <1>3 DEF NameInv, RunsStored
  <1>5. SensorsHaveData' /\ OneName' /\ DiskAgrees'
    BY <1>1 DEF NameInv, SensorsHaveData, Live, OneName, DiskAgrees
  <1>6. NamesAgree' /\ ChosenUnused'
    BY <1>1, <1>2 DEF NameInv, NamesAgree, ChosenUnused
  <1>7. QED
    BY <1>4, <1>5, <1>6 DEF NameInv

\* A fact of a running boundary uses the id of its descriptor.
LEMMA UsedAgrees ==
    ASSUME NEW names \in [FactIds -> SUBSET {"built", "legacy"}],
           NEW uids \in [FactIds -> Uids], Agree(names, uids)
    PROVE  Agree([f \in FactIds |-> names[f] \cup Used(uids[f])], uids)
  BY UsedFacts DEF Agree, IdOf, Uids, Used

LEMMA ForwardNames == LifeInv /\ NameInv /\ ForwardPlatforms => NameInv'
  <1> SUFFICES ASSUME LifeInv, NameInv, ForwardPlatforms PROVE NameInv'
    OBVIOUS
  <1> DEFINE Now(k) == [f \in FactIds |-> named[k][running[k].asset][f] \cup Used(data[k].uids[f])]
  <1>1. /\ Live' /\ sensors' = [k \in Consumers |-> Known(data[k].uids)]
        /\ UNCHANGED <<options, store, disk, running, client, data, unsaved>>
    BY DEF ForwardPlatforms, Live
  <1>2. \A k \in Consumers : /\ named[k] \in [Assets -> [FactIds -> SUBSET {"built", "legacy"}]]
                             /\ data[k].uids \in [FactIds -> Uids]
                             /\ options[k].asset \in Assets /\ running[k].asset \in Assets
    BY DEF LifeInv, TypeOK, NameTypes, DataTypes, SettingTypes, Settings
  <1>3. \A k \in Consumers, a \in Assets :
            named'[k][a] = IF a = running[k].asset THEN Now(k) ELSE named[k][a]
    BY <1>2 DEF ForwardPlatforms
  <1>4. \A k \in Consumers : data[k].uids = NoUids => Now(k) = named[k][running[k].asset]
    <2> SUFFICES ASSUME NEW k \in Consumers, data[k].uids = NoUids
                 PROVE  Now(k) = named[k][running[k].asset]
      OBVIOUS
    <2>1. \A f \in FactIds : Used(data[k].uids[f]) = {}
      BY DefaultTypes, UsedFacts DEF Uids
    <2>2. named[k][running[k].asset] \in [FactIds -> SUBSET {"built", "legacy"}]
      BY <1>2
    <2>3. QED
      BY <2>1, <2>2
  <1>5. \A k \in Consumers : running[k].enabled => Agree(Now(k), ReadStore(store[k], k, running[k].asset))
    <2> SUFFICES ASSUME NEW k \in Consumers, running[k].enabled
                 PROVE  Agree(Now(k), ReadStore(store[k], k, running[k].asset))
      OBVIOUS
    <2>1. Agree(named[k][running[k].asset], ReadStore(store[k], k, running[k].asset))
      BY DEF NameInv, NamesAgree
    <2>2. CASE data[k].uids = NoUids
      BY <1>4, <2>1, <2>2
    <2>3. CASE data[k].uids = ReadStore(store[k], k, running[k].asset)
      <3>1. named[k][running[k].asset] \in [FactIds -> SUBSET {"built", "legacy"}]
        BY <1>2
      <3>2. QED
        BY <1>2, <2>1, <2>3, <3>1, UsedAgrees
    <2>4. QED
      BY <2>2, <2>3 DEF NameInv, RunsStored
  <1>6. RunsStored' /\ SensorsHaveData' /\ DiskAgrees'
    BY <1>1 DEF NameInv, RunsStored, SensorsHaveData, DiskAgrees
  <1>7. NamesAgree'
    <2> SUFFICES ASSUME NEW k \in Consumers
                 PROVE  /\ Agree(named'[k][options[k].asset], ReadStore(store[k], k, options[k].asset))
                        /\ running[k].enabled =>
                              Agree(named'[k][running[k].asset], ReadStore(store[k], k, running[k].asset))
      BY <1>1 DEF NamesAgree
    <2>1. QED
      <3>1. CASE running[k].enabled
        BY <1>2, <1>3, <1>5, <3>1 DEF NameInv, NamesAgree
      <3>2. CASE ~running[k].enabled
        <4>1. data[k].uids = NoUids
          BY <3>2 DEF NameInv, RunsStored
        <4>2. \A a \in Assets : named'[k][a] = named[k][a]
          BY <1>3, <1>4, <4>1
        <4>3. QED
          BY <1>2, <3>2, <4>2 DEF NameInv, NamesAgree
      <3>3. QED
        BY <3>1, <3>2
  <1>8. OneName'
    <2> SUFFICES ASSUME NEW k \in Consumers, NEW a \in Assets, NEW f \in FactIds
                 PROVE  \E uid \in Uids : named'[k][a][f] \subseteq {uid}
      BY DEF OneName
    <2>1. CASE a = running[k].asset /\ running[k].enabled
      BY <1>3, <1>5, <2>1 DEF Agree, IdOf, Uids
    <2>2. CASE ~(a = running[k].asset /\ running[k].enabled)
      <3>1. named'[k][a] = named[k][a]
        BY <1>3, <1>4, <2>2 DEF NameInv, RunsStored
      <3>2. QED
        BY <3>1 DEF NameInv, OneName
    <2>3. QED
      BY <2>1, <2>2
  <1>9. ChosenUnused'
    <2>1. \A k \in Consumers : running[k].asset # options[k].asset =>
              named'[k][options[k].asset] = named[k][options[k].asset]
      BY <1>2, <1>3
    <2>2. QED
      BY <1>1, <2>1 DEF NameInv, ChosenUnused
  <1>10. QED
    BY <1>6, <1>7, <1>8, <1>9 DEF NameInv

LEMMA SaveOptionsNames ==
    ASSUME LifeInv, NameInv, NEW k \in Kinds, NEW enabled \in BOOLEAN, NEW asset \in Assets,
           SaveOptions(k, enabled, asset)
    PROVE  NameInv'
  <1>1. /\ k \in Consumers
        /\ options' = [options EXCEPT ![k] = [enabled |-> enabled, asset |-> asset]]
        /\ IF asset = options[k].asset THEN UNCHANGED <<named, unsaved>>
           ELSE named' = [named EXCEPT ![k] = NoNames] /\ unsaved' = unsaved \cup {k}
        /\ UNCHANGED <<phase, store, disk, running, client, data, sensors>>
    BY OrderFacts DEF SaveOptions
  <1>2. RunsStored' /\ SensorsHaveData'
    BY <1>1 DEF NameInv, RunsStored, SensorsHaveData, Live
  <1>3. CASE asset = options[k].asset
    <2>1. \A c \in Consumers : options'[c].asset = options[c].asset
      BY <1>1, <1>3 DEF LifeInv, TypeOK, SettingTypes
    <2>2. UNCHANGED <<named, unsaved, store, disk, running>>
      BY <1>1, <1>3
    <2>3. NamesAgree' /\ OneName'
      BY <2>1, <2>2 DEF NameInv, NamesAgree, OneName
    <2>4. ChosenUnused'
      BY <2>1, <2>2 DEF NameInv, ChosenUnused
    <2>5. DiskAgrees'
      BY <2>1, <2>2 DEF NameInv, DiskAgrees
    <2>6. QED
      BY <1>2, <2>3, <2>4, <2>5 DEF NameInv
  <1>4. CASE asset # options[k].asset
    <2>1. /\ \A c \in Consumers : c # k => options'[c] = options[c] /\ named'[c] = named[c]
          /\ options'[k].asset = asset /\ named'[k] = NoNames /\ unsaved' = unsaved \cup {k}
      BY <1>1, <1>4 DEF LifeInv, TypeOK, SettingTypes, NameTypes
    <2>2. \A a \in Assets, f \in FactIds : NoNames[a][f] = {}
      BY DEF NoNames
    <2>3. \A c \in Consumers : running[c].asset \in Assets
      BY DEF LifeInv, TypeOK, SettingTypes, Settings
    <2>4. NamesAgree' /\ ChosenUnused'
      <3> SUFFICES ASSUME NEW c \in Consumers
                   PROVE  /\ Agree(named'[c][options'[c].asset],
                                   ReadStore(store[c], c, options'[c].asset))
                          /\ running[c].enabled =>
                                Agree(named'[c][running[c].asset],
                                      ReadStore(store[c], c, running[c].asset))
                          /\ running[c].enabled /\ running[c].asset # options'[c].asset =>
                                \A f \in FactIds : named'[c][options'[c].asset][f] = {}
        BY <1>1 DEF NamesAgree, ChosenUnused
      <3>1. CASE c = k
        BY <2>1, <2>2, <2>3, <3>1 DEF Agree
      <3>2. CASE c # k
        BY <2>1, <3>2 DEF NameInv, NamesAgree, ChosenUnused
      <3>3. QED
        BY <3>1, <3>2
    <2>5. OneName'
      BY <2>1, <2>2 DEF NameInv, OneName, Uids
    <2>6. DiskAgrees'
      BY <1>1, <2>1 DEF NameInv, DiskAgrees
    <2>7. QED
      BY <1>2, <2>4, <2>5, <2>6 DEF NameInv
  <1>5. QED
    BY <1>3, <1>4

LEMMA WriteDiskNames == NameInv /\ WriteDisk => NameInv'
  <1> SUFFICES ASSUME NameInv, WriteDisk PROVE NameInv'
    OBVIOUS
  <1>1. /\ disk'.options = options /\ disk'.store = store /\ unsaved' = {}
        /\ UNCHANGED <<phase, options, store, running, client, data, sensors, named>>
    BY DEF WriteDisk, Saved
  <1>2. RunsStored' /\ SensorsHaveData' /\ NamesAgree' /\ OneName' /\ ChosenUnused'
    BY <1>1 DEF NameInv, RunsStored, SensorsHaveData, Live, NamesAgree, OneName, ChosenUnused
  <1>3. DiskAgrees'
    BY <1>1 DEF DiskAgrees
  <1>4. QED
    BY <1>2, <1>3 DEF NameInv

LEMMA CrashNames == LifeInv /\ NameInv /\ Crash => NameInv'
  <1> SUFFICES ASSUME LifeInv, NameInv, Crash PROVE NameInv'
    OBVIOUS
  <1>1. /\ Forget /\ options' = disk.options /\ store' = disk.store /\ disk' = disk
        /\ named' = [k \in Consumers |-> IF k \in unsaved THEN NoNames ELSE named[k]]
        /\ unsaved' = {}
    BY DEF Crash
  <1>2. \A k \in Consumers : ~running'[k].enabled /\ data'[k].uids = NoUids /\ sensors'[k] = {}
    BY <1>1, DefaultTypes DEF Forget
  <1>3. RunsStored' /\ SensorsHaveData' /\ ChosenUnused'
    BY <1>2 DEF RunsStored, SensorsHaveData, ChosenUnused
  <1>4. DiskAgrees'
    BY <1>1 DEF DiskAgrees
  <1>5. \A a \in Assets, f \in FactIds : NoNames[a][f] = {}
    BY DEF NoNames
  <1>6. OneName'
    BY <1>1, <1>5 DEF NameInv, OneName, Uids
  <1>7. NamesAgree'
    <2> SUFFICES ASSUME NEW k \in Consumers, NEW f \in FactIds
                 PROVE  named'[k][disk.options[k].asset][f]
                            \subseteq {IdOf(ReadStore(disk.store[k], k, disk.options[k].asset), f)}
      BY <1>1, <1>2 DEF NamesAgree, Agree
    <2>1. CASE k \in unsaved
      <3>1. disk.options[k].asset \in Assets
        BY DEF LifeInv, TypeOK, StoreTypes, Settings
      <3>2. QED
        BY <1>1, <1>5, <2>1, <3>1
    <2>2. CASE k \notin unsaved
      <3>1. named'[k] = named[k] /\ disk.options[k].asset = options[k].asset
        BY <1>1, <2>2 DEF NameInv, DiskAgrees
      <3>2. IdOf(ReadStore(disk.store[k], k, options[k].asset), f)
                = IdOf(ReadStore(store[k], k, options[k].asset), f)
        BY <2>2 DEF NameInv, DiskAgrees, IdOf
      <3>3. QED
        BY <3>1, <3>2 DEF NameInv, NamesAgree, Agree
    <2>3. QED
      BY <2>1, <2>2
  <1>8. QED
    BY <1>3, <1>4, <1>6, <1>7 DEF NameInv

\* The store holds what the coordinator has, and a legacy id stays one: the
\* boundary's own asset reads the new descriptors, any other asset nothing.
LEMMA RefreshSucceedsNames ==
    ASSUME LifeInv, NameInv, NEW k \in Kinds, NEW facts \in SUBSET FactsOf[k],
           NEW rev \in 1 .. MaxRevision, RefreshSucceeds(k, facts, rev)
    PROVE  NameInv'
  <1> DEFINE own == running[k].asset
             old == data[k].uids
  <1>1. PICK uids \in Grown(old, facts \ Known(old)) :
            /\ store' = Persisted(k, uids)
            /\ unsaved' = IF store'[k].asset # store[k].asset THEN unsaved \cup {k} ELSE unsaved
            /\ Publish(k, uids)
    BY DEF RefreshSucceeds
  <1>2. UNCHANGED <<phase, options, disk, running, client>> /\ k \in polling
    BY DEF RefreshSucceeds
  <1>3. /\ k \in Consumers /\ running[k].enabled
        /\ old \in [FactIds -> Uids] /\ own \in Assets
        /\ \A c \in Consumers : options[c].asset \in Assets
    BY <1>2, OrderFacts
    DEF LifeInv, PollersRun, TypeOK, SettingTypes, DataTypes, Settings
  <1>4. /\ uids \in [FactIds -> Uids]
        /\ \A f \in FactIds : uids[f] = old[f] \/ (old[f] = "none" /\ uids[f] = "built")
    BY <1>3, LimitFacts, GrownFacts
  <1>5. \A f \in FactIds : /\ IdOf(uids, f) = IdOf(old, f)
                           /\ uids[f] = "legacy" <=> old[f] = "legacy"
    BY <1>4 DEF IdOf
  <1>6. old = ReadStore(store[k], k, own)
    BY <1>2, <1>3 DEF NameInv, RunsStored, LifeInv, PollersRun
  <1>7. \A c \in Consumers : c # k => store'[c] = store[c] /\ data'[c] = data[c]
    BY <1>1, <1>3 DEF Persisted, Publish, LifeInv, TypeOK, StoreTypes, DataTypes
  <1>8. data'[k].uids = uids
    BY <1>1, <1>3 DEF Publish, LifeInv, TypeOK, DataTypes
  <1>9. \/ uids = old /\ store' = store
        \/ uids # old /\ store'[k] = [asset |-> own, schema |-> "v1", uids |-> uids]
    BY <1>1, <1>3 DEF Persisted, LifeInv, TypeOK, StoreTypes
  <1>10. ReadStore(store'[k], k, own) = uids
    BY <1>6, <1>9 DEF ReadStore
  <1>11. \A a \in Assets : a # own => \/ store' = store
                                      \/ ReadStore(store'[k], k, a) = NoUids
    BY <1>9 DEF ReadStore
  <1>12. /\ \A c \in Consumers, a \in Assets : c # k \/ a # own => named'[c][a] = named[c][a]
         /\ \/ named'[k][own] = named[k][own]
            \/ named'[k][own] = [f \in FactIds |-> named[k][own][f] \cup Used(uids[f])]
    BY <1>1, <1>3 DEF Publish, LifeInv, TypeOK, NameTypes
  <1>13. Agree(named'[k][own], uids)
    <2>1. Agree(named[k][own], uids)
      BY <1>3, <1>5, <1>6 DEF NameInv, NamesAgree, Agree
    <2>2. named[k][own] \in [FactIds -> SUBSET {"built", "legacy"}]
      BY <1>3 DEF LifeInv, TypeOK, NameTypes
    <2>3. QED
      BY <1>4, <1>12, <2>1, <2>2, UsedAgrees
  <1>14. RunsStored'
    BY <1>2, <1>3, <1>7, <1>8, <1>10 DEF NameInv, RunsStored
  <1>15. SensorsHaveData'
    <2>1. Known(old) \subseteq Known(uids)
      BY <1>4 DEF Known
    <2>2. \A c \in Consumers : c # k => sensors'[c] = sensors[c]
      BY <1>1, <1>3 DEF Publish, LifeInv, TypeOK, DataTypes
    <2>3. sensors'[k] = IF Live THEN sensors[k] \cup Known(uids) ELSE sensors[k]
      BY <1>1, <1>3 DEF Publish, LifeInv, TypeOK, DataTypes
    <2>4. QED
      BY <1>2, <1>7, <1>8, <2>1, <2>2, <2>3 DEF NameInv, SensorsHaveData, Live
  <1>16. NamesAgree'
    <2> SUFFICES ASSUME NEW c \in Consumers
                 PROVE  /\ Agree(named'[c][options[c].asset], ReadStore(store'[c], c, options[c].asset))
                        /\ running[c].enabled =>
                              Agree(named'[c][running[c].asset],
                                    ReadStore(store'[c], c, running[c].asset))
      BY <1>2 DEF NamesAgree
    <2>1. CASE c # k
      <3>1. store'[c] = store[c] /\ \A a \in Assets : named'[c][a] = named[c][a]
        BY <1>7, <1>12, <2>1
      <3>2. running[c].asset \in Assets
        BY DEF LifeInv, TypeOK, SettingTypes, Settings
      <3>3. QED
        BY <1>3, <3>1, <3>2 DEF NameInv, NamesAgree
    <2>2. CASE c = k /\ options[k].asset = own
      BY <1>10, <1>13, <2>2
    <2>3. CASE c = k /\ options[k].asset # own
      <3>1. \A f \in FactIds : named'[k][options[k].asset][f] = {}
        BY <1>3, <1>12, <2>3 DEF NameInv, ChosenUnused
      <3>2. QED
        BY <1>10, <1>13, <2>3, <3>1 DEF Agree
    <2>4. QED
      BY <2>1, <2>2, <2>3
  <1>17. OneName'
    <2> SUFFICES ASSUME NEW c \in Consumers, NEW a \in Assets, NEW f \in FactIds
                 PROVE  \E uid \in Uids : named'[c][a][f] \subseteq {uid}
      BY DEF OneName
    <2>1. CASE c = k /\ a = own
      BY <1>13, <2>1 DEF Agree, IdOf, Uids
    <2>2. CASE c # k \/ a # own
      <3>1. named'[c][a] = named[c][a]
        BY <1>12, <2>2
      <3>2. QED
        BY <3>1 DEF NameInv, OneName
    <2>3. QED
      BY <2>1, <2>2
  <1>18. ChosenUnused'
    <2>1. \A c \in Consumers : running[c].asset # options[c].asset =>
              named'[c][options[c].asset] = named[c][options[c].asset]
      BY <1>3, <1>12
    <2>2. QED
      BY <1>2, <2>1 DEF NameInv, ChosenUnused
  <1>19. DiskAgrees'
    <2> SUFFICES ASSUME NEW c \in Consumers \ unsaved'
                 PROVE  /\ disk.options[c].asset = options[c].asset
                        /\ disk.store[c].asset = store'[c].asset
                        /\ \A f \in FactIds :
                              ReadStore(disk.store[c], c, options[c].asset)[f] = "legacy"
                                <=> ReadStore(store'[c], c, options[c].asset)[f] = "legacy"
      BY <1>2 DEF DiskAgrees
    <2>1. c \notin unsaved /\ disk.options[c].asset = options[c].asset
          /\ disk.store[c].asset = store[c].asset
          /\ \A f \in FactIds : ReadStore(disk.store[c], c, options[c].asset)[f] = "legacy"
                                  <=> ReadStore(store[c], c, options[c].asset)[f] = "legacy"
      BY <1>1 DEF NameInv, DiskAgrees
    <2>2. CASE c # k \/ store' = store
      BY <1>7, <2>1, <2>2
    <2>3. CASE c = k /\ store' # store
      <3>1. store'[k].asset = own /\ store[k].asset = own
        BY <1>1, <1>9, <2>3
      <3>2. CASE options[k].asset = own
        BY <1>5, <1>6, <1>10, <2>1, <2>3, <3>1, <3>2
      <3>3. CASE options[k].asset # own
        <4>1. /\ ReadStore(disk.store[k], k, options[k].asset) = NoUids
              /\ ReadStore(store'[k], k, options[k].asset) = NoUids
          BY <2>1, <2>3, <3>1, <3>3 DEF ReadStore
        <4>2. QED
          BY <2>1, <2>3, <3>1, <4>1
      <3>4. QED
        BY <3>2, <3>3
    <2>4. QED
      BY <2>2, <2>3
  <1>20. QED
    BY <1>14, <1>15, <1>16, <1>17, <1>18, <1>19 DEF NameInv

LEMMA NextNames == LifeInv /\ NameInv /\ [Next]_vars => NameInv'
  <1> SUFFICES ASSUME LifeInv, NameInv, [Next]_vars PROVE NameInv'
    OBVIOUS
  <1>1. \A k \in Consumers : sensors[k] \subseteq IF Live THEN Known(data[k].uids) ELSE {}
    BY DEF NameInv, SensorsHaveData
  <1>2. ASSUME NEW k \in Kinds, data' = [data EXCEPT ![k].available = FALSE]
        PROVE  \A c \in Consumers : data'[c].uids = data[c].uids
    BY <1>2, OrderFacts DEF LifeInv, TypeOK, DataTypes
  <1>3. CASE StartSetup
    BY <1>1, <1>3, NamesFrame DEF StartSetup, Live
  <1>4. CASE OpenBoundary
    BY <1>4, OpenBoundaryNames
  <1>5. CASE ForwardPlatforms
    BY <1>5, ForwardNames
  <1>6. CASE \E k \in Kinds : RefreshFails(k) \/ RefreshStale(k)
    BY <1>1, <1>2, <1>6, NamesFrame DEF RefreshFails, RefreshStale, environment, Live
  <1>7. CASE \E k \in Kinds : \E facts \in SUBSET FactsOf[k], rev \in 1 .. MaxRevision :
                RefreshSucceeds(k, facts, rev)
    BY <1>7, RefreshSucceedsNames
  <1>8. CASE UpdateListener \/ Unload
    BY <1>1, <1>8, NamesFrame DEF UpdateListener, Unload, StartClose, environment, Live
  <1>9. CASE CloseBoundary \/ CloseRaises
    <2>1. Here \in Kinds /\ phase = "closing" /\ phase' \in {"closing", "failed"}
          /\ data' = [data EXCEPT ![Here].available = FALSE]
          /\ \/ client' = [client EXCEPT ![Here] = IF @ = "open" THEN "closed" ELSE @]
             \/ client' = client
          /\ UNCHANGED <<options, store, disk, running, named, unsaved, sensors>>
      BY <1>9, OrderFacts
      DEF CloseBoundary, CloseRaises, environment, Here, LifeInv, TypeOK, ControlTypes
    <2>2. \A k \in Consumers : client[k] = "none" => client'[k] = "none"
      BY <2>1 DEF LifeInv, TypeOK, DataTypes
    <2>3. QED
      <3>1. \A c \in Consumers : data'[c].uids = data[c].uids
        BY <1>2, <2>1
      <3>2. \A c \in Consumers : sensors'[c] = {}
        BY <1>1, <2>1 DEF Live
      <3>3. QED
        BY <2>1, <2>2, <3>1, <3>2, NamesFrame
  <1>10. CASE FinishClose
    BY <1>10, ForgetNames DEF FinishClose
  <1>11. CASE \E k \in Kinds : Poll(k)
    BY <1>1, <1>11, NamesFrame DEF Poll, environment, Live
  <1>12. ASSUME NEW k \in Kinds, PersistFails(k)
         PROVE  NameInv'
    <2>1. UNCHANGED <<options, store, disk, named, unsaved>>
      BY <1>12 DEF PersistFails
    <2>2. CASE phase = "opening"
      BY <1>12, <2>1, <2>2, ForgetNames DEF PersistFails
    <2>3. CASE phase # "opening"
      BY <1>1, <1>2, <1>12, <2>1, <2>3, NamesFrame DEF PersistFails, Live
    <2>4. QED
      BY <2>2, <2>3
  <1>13. CASE \E k \in Kinds, enabled \in BOOLEAN, asset \in Assets : SaveOptions(k, enabled, asset)
    BY <1>13, SaveOptionsNames
  <1>14. CASE Enable \/ UNCHANGED vars
    BY <1>1, <1>14, NamesFrame DEF Enable, vars, environment, Live
  <1>15. CASE WriteDisk
    BY <1>15, WriteDiskNames
  <1>16. CASE Crash
    BY <1>16, CrashNames
  <1>17. CASE FinishSetup
    BY <1>1, <1>17, NamesFrame DEF FinishSetup, environment, Live
  <1>18. CASE SetupFails
    <2>1. UNCHANGED <<options, store, disk, named, unsaved>>
      BY <1>18 DEF SetupFails
    <2>2. CASE Forget
      BY <2>1, <2>2, ForgetNames
    <2>3. CASE ~Forget
      BY <1>1, <1>18, <2>1, <2>3, NamesFrame DEF SetupFails, Live
    <2>4. QED
      BY <2>2, <2>3
  <1>19. CASE CloseNotReached
    BY <1>1, <1>19, NamesFrame DEF CloseNotReached, Live
  <1>20. QED
    BY <1>3, <1>4, <1>5, <1>6, <1>7, <1>8, <1>9, <1>10, <1>11, <1>12, <1>13, <1>14, <1>15, <1>16,
       <1>17, <1>18, <1>19
    DEF Next

THEOREM BoundaryInvHolds == Spec => []BoundaryInv
  <1>1. Init => BoundaryInv
    BY InitLifeInv, InitNames DEF BoundaryInv
  <1>2. BoundaryInv /\ [Next]_vars => BoundaryInv'
    BY NextLifeInv, NextNames DEF BoundaryInv
  <1>3. QED
    BY <1>1, <1>2, PTL DEF Spec

(* A fact keeps its unique id, and a sensor has a descriptor in the saved  *)
(* store, for any number of facts, assets, saves and crashes               *)
(* (pv_m2m.py:314-354, 384-398).                                           *)
THEOREM DescriptorsAndIdsLast == Spec => []DescriptorsLast
  <1>1. BoundaryInv => DescriptorsLast
    <2> SUFFICES ASSUME BoundaryInv PROVE DescriptorsLast
      OBVIOUS
    <2>1. TypeOK /\ OneName /\ Kinds \subseteq Consumers
      BY OrderFacts DEF BoundaryInv, LifeInv, NameInv
    <2>2. ASSUME NEW k \in Kinds, sensors[k] # {}
          PROVE  /\ store[k].asset = running[k].asset
                 /\ sensors[k] \subseteq Known(store[k].uids)
      <3>1. k \in Consumers /\ sensors[k] \subseteq Known(data[k].uids)
        BY <2>1, <2>2 DEF BoundaryInv, NameInv, SensorsHaveData
      <3>2. data[k].uids # NoUids
        BY <2>2, <3>1, DefaultTypes DEF Known
      <3>3. data[k].uids = ReadStore(store[k], k, running[k].asset)
        BY <3>1, <3>2 DEF BoundaryInv, NameInv, RunsStored
      <3>4. QED
        BY <3>1, <3>2, <3>3 DEF ReadStore
    <2>3. QED
      BY <2>1, <2>2 DEF DescriptorsLast, OneName
  <1>2. QED
    BY <1>1, BoundaryInvHolds, PTL

-----------------------------------------------------------------------------
(* What the consumers accept *)

LEMMA ShownFact ==
    ASSUME NEW consumer \in Consumers, NEW answer \in [FactIds -> Entry], NEW loss \in BOOLEAN,
           Accepted(consumer, answer, loss), NEW f \in FactIds,
           Parsed(consumer, answer)[f] = "shown"
    PROVE  /\ f \in Published(consumer, answer) /\ f \in Present(answer)
           /\ ~CandidateRaises(consumer, answer[f]) /\ ~CandidateNone(consumer, answer[f])
           /\ Showable(consumer, answer[f]) /\ answer[f].disposition = "exact"
  <1>1. f \in Published(consumer, answer) /\ Showable(consumer, answer[f])
    BY DEF Parsed
  <1>2. f \in Present(answer) /\ ~CandidateNone(consumer, answer[f])
    BY <1>1 DEF Published
  <1>3. ~CandidateRaises(consumer, answer[f])
    BY <1>2 DEF Accepted
  <1>4. answer[f].disposition = "exact"
    <2>1. ProjectionHolds(consumer, answer, loss)
      BY DEF Accepted
    <2>2. CASE consumer = "pv"
      BY <1>1, <2>1, <2>2 DEF ProjectionHolds, PVProjection
    <2>3. CASE consumer = "storage"
      BY <1>1, <2>1, <2>3 DEF ProjectionHolds, StorageProjection, FactAccounted
    <2>4. CASE consumer = "evse"
      BY <1>1, <2>1, <2>4 DEF ProjectionHolds, EVSEProjection, FactAccounted
    <2>5. QED
      BY <2>2, <2>3, <2>4 DEF Consumers
  <1>5. QED
    BY <1>1, <1>2, <1>3, <1>4

(* Any accepted answer shows only what the gateway qualified and accounts  *)
(* for, whatever facts there are (pv_m2m.py:226-262,                       *)
(* storage_m2m.py:290-311, evse_m2m.py:288-321).                           *)
THEOREM AcceptedShowsOnlyBacked ==
    ASSUME NEW consumer \in Consumers, NEW answer \in [FactIds -> Entry], NEW loss \in BOOLEAN
    PROVE  ShowsOnlyBacked(consumer, answer, loss)
  <1> SUFFICES ASSUME Accepted(consumer, answer, loss)
               PROVE  /\ \A f \in FactIds : Parsed(consumer, answer)[f] = "shown" =>
                            /\ answer[f].flaw \in (IF consumer = "pv" THEN {"none", "past", "foreign"}
                                                   ELSE IF consumer = "storage" THEN {"none", "past"}
                                                   ELSE {"none"})
                            /\ answer[f].availability = "available" /\ answer[f].freshness # "expired"
                            /\ answer[f].disposition = "exact"
                            /\ consumer = "pv" => (answer[f].selected <=> answer[f].freshness = "fresh")
                      /\ consumer # "pv" =>
                            \A f \in FactIds \ {Special} : Parsed(consumer, answer)[f] # "none"
    BY DEF ShowsOnlyBacked
  <1>1. ASSUME NEW f \in FactIds, Parsed(consumer, answer)[f] = "shown"
        PROVE  /\ answer[f].flaw \in (IF consumer = "pv" THEN {"none", "past", "foreign"}
                                      ELSE IF consumer = "storage" THEN {"none", "past"}
                                      ELSE {"none"})
               /\ answer[f].availability = "available" /\ answer[f].freshness # "expired"
               /\ answer[f].disposition = "exact"
               /\ consumer = "pv" => (answer[f].selected <=> answer[f].freshness = "fresh")
    <2>1. /\ f \in Present(answer) /\ Showable(consumer, answer[f])
          /\ ~CandidateRaises(consumer, answer[f]) /\ ~CandidateNone(consumer, answer[f])
          /\ answer[f].disposition = "exact"
      BY <1>1, ShownFact
    <2>2. answer[f].availability = "available" /\ answer[f].freshness # "expired"
      BY <2>1 DEF Showable, PVShows, StorageShows, EVSEShows, Consumers
    <2>3. answer[f].flaw \in Flaws /\ answer[f].freshness \in {"fresh", "stale", "expired"}
          /\ answer[f].selected \in BOOLEAN
      BY DEF Entry
    <2>4. answer[f].flaw \in (IF consumer = "pv" THEN {"none", "past", "foreign"}
                              ELSE IF consumer = "storage" THEN {"none", "past"} ELSE {"none"})
      BY <2>1, <2>3 DEF Present, CandidateRaises, CandidateNone, Flaws, Consumers
    <2>5. consumer = "pv" => (answer[f].selected <=> answer[f].freshness = "fresh")
      BY <2>1, <2>2, <2>3 DEF Accepted, SelectionsHold, Current
    <2>6. QED
      BY <2>1, <2>2, <2>4, <2>5
  <1>2. ASSUME consumer # "pv", NEW f \in FactIds \ {Special}
        PROVE  Parsed(consumer, answer)[f] # "none"
    <2>1. FactAccounted(consumer, answer, f)
      BY <1>2 DEF Accepted, ProjectionHolds, StorageProjection, EVSEProjection, Consumers
    <2>2. f \in Published(consumer, answer)
      BY <1>2, <2>1 DEF FactAccounted
    <2>3. QED
      BY <2>2 DEF Parsed
  <1>3. QED
    BY <1>1, <1>2

(* The same of the answers that the run enumerates.                        *)
THEOREM AnswersAreBacked == MCSpec => []AnswersBacked
  <1> DEFINE CaseInv == subject = "answers" => IsAnswerCase(case)
  <1>1. MCInit => CaseInv
    BY DEF MCInit
  <1>2. CaseInv /\ [MCNext]_<<vars, subject, case>> => CaseInv'
    BY DEF MCNext, IsAnswerCase
  <1>3. CaseInv => AnswersBacked
    <2> SUFFICES ASSUME IsAnswerCase(case)
                 PROVE  ShowsOnlyBacked(case.consumer, case.answer, case.loss)
      BY DEF AnswersBacked
    <2>1. PICK one \in Entries, two \in FewEntries, consumer \in Consumers, loss \in BOOLEAN :
              case = [consumer |-> consumer, loss |-> loss,
                      answer |-> [f \in FactIds |-> IF f = Special THEN one ELSE two]]
      BY DEF IsAnswerCase
    <2>2. one \in Entry /\ two \in Entry
      <3>1. Absent \in Entry
        BY DEF Absent, Entry, Flaws
      <3>2. Entries \subseteq Entry
        BY <3>1 DEF Entries
      <3>3. QED
        BY <2>1, <3>2 DEF FewEntries
    <2>3. /\ case.consumer \in Consumers /\ case.answer \in [FactIds -> Entry]
          /\ case.loss \in BOOLEAN
      BY <2>1, <2>2
    <2>4. QED
      BY <2>3, AcceptedShowsOnlyBacked
  <1>4. QED
    BY <1>1, <1>2, <1>3, PTL DEF MCSpec
=============================================================================
