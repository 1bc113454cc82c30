---------------------------- MODULE GatewayProofs ----------------------------
(***************************************************************************)
(* Proofs about what MCGateway puts together: the coordinators' queries,   *)
(* for any cooldown, delays and readings; the start-up spot check, for any *)
(* sources and times; configuration entities, for any ranges and lengths;  *)
(* read-only entities and the calendar, over lists of any length.          *)
(***************************************************************************)
EXTENDS MCGateway, WellFoundedInduction, TLAPS

-----------------------------------------------------------------------------
(* The queries of the coordinators *)

LEMMA TimeFacts ==
    /\ Focuses \subseteq DOMAIN Root
    /\ BoundCooldown \in Nat /\ FirstDelay \in Nat /\ MaxDelay \in Nat /\ MaxReading \in Nat
    /\ FirstDelay > 0 /\ FirstDelay <= MaxDelay
  BY QueryConstants

LEMMA FocusNames ==
    DOMAIN Root = {"inventory", "status", "semantic", "circuits", "fm5", "system", "energy",
                   "boiler", "schedules", "adapter"}
  BY DEF Root

LEMMA PartsOf ==
    /\ Parts["inventory"] = {"devices", "addresses", "part_number", "names", "serial"}
    /\ Parts["status"] = {"daemon_status", "initiator_address", "bus_admission"}
    /\ Parts["semantic"] = {"zones", "promoted", "holiday", "quick_veto", "mapping"}
    /\ Parts["circuits"] = {"circuits"} /\ Parts["fm5"] = {"fm5_semantic_mode"}
    /\ Parts["system"] = {"system", "bound", "gateway", "installer", "sensitive"}
    /\ Parts["energy"] = {"energy_totals", "monthly"}
    /\ Parts["boiler"] = {"boiler_status", "installer", "sensitive"}
    /\ Parts["schedules"] = {"schedules"}
    /\ Parts["adapter"] = {"adapter_hardware_info", "details"}
  BY DEF Parts

\* Which coordinator sends which of the later queries
StageOfFocus ==
    /\ stage = "gateway" => focus = "system"
    /\ stage \in {"installer", "sensitive"} => focus \in {"system", "boiler"}

Stages == {"idle", "main", "legacy", "gateway", "installer", "sensitive", "fallback",
           "v3", "noPart", "v2", "base", "full", "noInitiator", "minimal",
           "promoted", "holiday", "noHoliday", "noQuickVeto"}

RefreshTypes ==
    /\ stage \in Stages /\ asOf \in 0 .. MaxReading /\ success \in BOOLEAN
    /\ asked \subseteq Parts[focus] /\ draft \subseteq Parts[focus] /\ shown \subseteq Parts[focus]

GatewayTypes ==
    /\ focus \in Focuses /\ schema \in Schemas(focus) /\ link \in {"up", "flaky"}
    /\ reading \in 0 .. MaxReading

MemoryTypes ==
    /\ off \subseteq Parts[focus] \cap Switchable
    /\ wait \in 0 .. (IF BoundCooldown > MaxDelay THEN BoundCooldown ELSE MaxDelay)
    /\ delay \in FirstDelay .. MaxDelay /\ due \in 0 .. 1

TotalTypes ==
    /\ total \in -1 .. MaxReading /\ lastValid \in -1 .. MaxReading /\ pushed \in BOOLEAN

\* What was polled last is as old as the query under way at most, and it is
\* what is shown unless an event came since.
TotalsKept ==
    /\ total <= reading /\ lastValid <= reading /\ asOf <= reading
    /\ ~pushed => total = lastValid
    /\ stage # "idle" => lastValid <= asOf

QueryInv ==
    RefreshTypes /\ GatewayTypes /\ MemoryTypes /\ TotalTypes /\ StageOfFocus /\ TotalsKept

LEMMA TypesSplit == TypeOK <=> RefreshTypes /\ GatewayTypes /\ MemoryTypes /\ TotalTypes
  BY DEF TypeOK, RefreshTypes, GatewayTypes, MemoryTypes, TotalTypes, Stages

LEMMA FocusFacts ==
    ASSUME GatewayTypes
    PROVE  focus \in {"inventory", "status", "semantic", "circuits", "fm5", "system", "energy",
                      "boiler", "schedules", "adapter"}
  BY TimeFacts, FocusNames DEF GatewayTypes

LEMMA GoneNotServed == Gone \cap schema = {}
  BY DEF Gone

\* What a refresh may move to
LEMMA SendTypes ==
    ASSUME QueryInv, NEW next \in Stages, NEW parts \in SUBSET Parts[focus], Send(next, parts),
           focus' = focus, draft' \subseteq Parts[focus],
           next = "gateway" => focus = "system",
           next \in {"installer", "sensitive"} => focus \in {"system", "boiler"}
    PROVE  (RefreshTypes /\ StageOfFocus)'
  BY DEF QueryInv, RefreshTypes, GatewayTypes, StageOfFocus, Send

LEMMA FinishTypes ==
    ASSUME QueryInv, NEW parts \in SUBSET Parts[focus], Finish(parts) \/ Fail, focus' = focus
    PROVE  (RefreshTypes /\ StageOfFocus)'
  <1>1. /\ stage' = "idle" /\ asked' = {} /\ asOf' = 0 /\ draft' = {}
        /\ success' \in BOOLEAN /\ shown' \in SUBSET Parts[focus]
    BY DEF QueryInv, RefreshTypes, Finish, Fail, Close
  <1>2. 0 \in 0 .. MaxReading /\ "idle" \in Stages
    BY TimeFacts DEF Stages
  <1>3. QED
    BY <1>1, <1>2 DEF RefreshTypes, StageOfFocus

LEMMA RefreshKept ==
    ASSUME QueryInv, Refresh
    PROVE  (RefreshTypes /\ StageOfFocus)'
  <1>0. /\ focus' = focus
        /\ focus \in {"inventory", "status", "semantic", "circuits", "fm5", "system", "energy",
                      "boiler", "schedules", "adapter"}
    BY FocusFacts DEF Refresh, QueryInv
  <1>1. CASE Silent
    BY <1>0, <1>1, FinishTypes DEF Refresh
  <1>2. CASE ~Silent
    <2>1. /\ FirstQuery[1] \in {"v3", "full", "promoted", "main"}
          /\ FirstQuery[2] \subseteq Parts[focus]
      BY <1>0, PartsOf DEF FirstQuery
    <2>2. Send(FirstQuery[1], FirstQuery[2]) /\ draft' = {}
      BY <1>2 DEF Refresh
    <2>3. FirstQuery[1] \in Stages /\ FirstQuery[1] \notin {"gateway", "installer", "sensitive"}
      BY <2>1 DEF Stages
    <2>4. QED
      BY <1>0, <2>1, <2>2, <2>3, SendTypes
  <1>3. QED
    BY <1>1, <1>2

LEMMA InventoryKept ==
    ASSUME QueryInv, NEW a \in Answers,
           InventoryAnswer(a) \/ StatusAnswer(a) \/ SemanticAnswer(a)
    PROVE  (RefreshTypes /\ StageOfFocus)'
  <1>0. /\ focus' = focus /\ stage \in Stages /\ asked \in SUBSET Parts[focus]
        /\ draft \subseteq Parts[focus] /\ shown \in SUBSET Parts[focus]
        /\ {} \in SUBSET Parts[focus]
        /\ stage \notin {"gateway", "installer", "sensitive"}
    BY DEF QueryInv, RefreshTypes, StageOfFocus, InventoryAnswer, StatusAnswer, SemanticAnswer,
           Receive
  <1>1. CASE InventoryAnswer(a)
    <2>1. CASE a # "missing"
      <3>1. Finish(asked) \/ Finish({}) \/ Fail
        BY <1>1, <2>1 DEF InventoryAnswer, Answers
      <3>2. QED
        BY <1>0, <3>1, FinishTypes
    <2>2. CASE a = "missing"
      <3>1. SmallerInventory /\ focus = "inventory"
        BY <1>1, <2>2 DEF InventoryAnswer
      <3>2. \/ Fail
            \/ \E next \in {stage, "noPart", "v2", "base"}, parts \in SUBSET Parts[focus] :
                  Send(next, parts) /\ draft' = draft
        BY <1>0, <3>1, PartsOf DEF SmallerInventory, Retry, TierParts
      <3>3. {"noPart", "v2", "base"} \subseteq Stages \ {"gateway", "installer", "sensitive"}
        BY DEF Stages
      <3>4. QED
        BY <1>0, <3>2, <3>3, SendTypes, FinishTypes
    <2>3. QED
      BY <2>1, <2>2
  <1>2. CASE StatusAnswer(a)
    <2>1. focus = "status"
      BY <1>2 DEF StatusAnswer
    <2>2. \/ Finish(asked) \/ Finish({}) \/ Fail
          \/ Send("noInitiator", {"daemon_status", "bus_admission"}) /\ draft' = draft
          \/ Send("minimal", {"daemon_status"}) /\ draft' = draft
      BY <1>2 DEF StatusAnswer, Answers, Retry
    <2>3. {"noInitiator", "minimal"} \subseteq Stages
      BY DEF Stages
    <2>4. {"daemon_status", "bus_admission"} \in SUBSET Parts[focus]
          /\ {"daemon_status"} \in SUBSET Parts[focus]
      BY <2>1, PartsOf
    <2>5. QED
      BY <1>0, <2>2, <2>3, <2>4, SendTypes, FinishTypes
  <1>3. CASE SemanticAnswer(a)
    <2>1. focus = "semantic"
      BY <1>3 DEF SemanticAnswer
    <2>2. \/ \E parts \in {asked, {}, shown} : Finish(parts)
          \/ Fail
          \/ Send(NextSemantic[1], NextSemantic[2]) /\ draft' = draft
      BY <1>3 DEF SemanticAnswer, Answers, Retry
    <2>3. /\ NextSemantic[1] \in {"holiday", "noHoliday", "noQuickVeto", "legacy"}
          /\ NextSemantic[2] \in SUBSET Parts[focus]
      BY <2>1, PartsOf DEF NextSemantic
    <2>4. NextSemantic[1] \in Stages \ {"gateway", "installer", "sensitive"}
      BY <2>3 DEF Stages
    <2>5. QED
      BY <1>0, <2>2, <2>3, <2>4, SendTypes, FinishTypes
  <1>4. QED
    BY <1>1, <1>2, <1>3

LEMMA OptionalKept ==
    ASSUME QueryInv, NEW a \in Answers,
           SystemAnswer(a) \/ MetadataAnswer(a) \/ OptionalAnswer(a) \/ BoilerAnswer(a)
    PROVE  (RefreshTypes /\ StageOfFocus)'
  <1>0. /\ focus' = focus /\ stage \in Stages /\ asked \in SUBSET Parts[focus]
        /\ draft \in SUBSET Parts[focus]
        /\ {} \in SUBSET Parts[focus]
        /\ focus \in {"system", "boiler"}
    BY DEF QueryInv, RefreshTypes, StageOfFocus, SystemAnswer, MetadataAnswer, OptionalAnswer,
           BoilerAnswer, Receive
  <1>1. {"installer"} \in SUBSET Parts[focus] /\ {"sensitive"} \in SUBSET Parts[focus]
    BY <1>0, PartsOf
  <1>2. ASSUME NEW parts \in SUBSET Parts[focus], NEW left, Continue(parts, left)
        PROVE  (RefreshTypes /\ StageOfFocus)'
    <2>1. \/ Finish(parts)
          \/ draft' = parts /\ Send("installer", {"installer"})
          \/ draft' = parts /\ Send("sensitive", {"sensitive"})
      BY <1>2 DEF Continue
    <2>2. {"installer", "sensitive"} \subseteq Stages
      BY DEF Stages
    <2>3. QED
      BY <1>0, <1>1, <2>1, <2>2, SendTypes, FinishTypes
  <1>3. CASE SystemAnswer(a)
    <2>1. focus = "system"
      BY <1>3 DEF SystemAnswer
    <2>2. \/ Finish({}) \/ Fail
          \/ Send("legacy", {"system"}) /\ draft' = draft
          \/ Send("gateway", {"gateway"}) /\ draft' = asked
      BY <1>3 DEF SystemAnswer, Answers, Retry
    <2>3. {"legacy", "gateway"} \subseteq Stages
      BY DEF Stages
    <2>4. {"system"} \in SUBSET Parts[focus] /\ {"gateway"} \in SUBSET Parts[focus]
      BY <2>1, PartsOf
    <2>5. QED
      BY <1>0, <2>1, <2>2, <2>3, <2>4, SendTypes, FinishTypes
  <1>4. CASE MetadataAnswer(a)
    <2>1. focus = "system"
      BY <1>4 DEF MetadataAnswer, QueryInv, StageOfFocus
    <2>2. Fail \/ Continue(IF a = "data" THEN draft \cup {"gateway"} ELSE draft,
                           {"installer", "sensitive"})
      BY <1>4 DEF MetadataAnswer
    <2>3. (IF a = "data" THEN draft \cup {"gateway"} ELSE draft) \in SUBSET Parts[focus]
      BY <1>0, <2>1, PartsOf
    <2>4. QED
      BY <1>0, <1>2, <2>2, <2>3, FinishTypes
  <1>5. CASE OptionalAnswer(a)
    <2>1. stage \in {"installer", "sensitive"}
          /\ Continue(IF a = "data" THEN draft \cup {stage} ELSE draft,
                      IF stage = "installer" THEN {"sensitive"} ELSE {})
      BY <1>5 DEF OptionalAnswer
    <2>2. (IF a = "data" THEN draft \cup {stage} ELSE draft) \in SUBSET Parts[focus]
      BY <1>0, <1>1, <2>1
    <2>3. QED
      BY <1>2, <2>1, <2>2
  <1>6. CASE BoilerAnswer(a)
    <2>1. focus = "boiler"
      BY <1>6 DEF BoilerAnswer
    <2>2. Continue({"boiler_status"}, {"installer", "sensitive"}) \/ Fail \/ Finish({})
      BY <1>6 DEF BoilerAnswer, Answers
    <2>3. {"boiler_status"} \in SUBSET Parts[focus]
      BY <2>1, PartsOf
    <2>4. QED
      BY <1>0, <1>2, <2>2, <2>3, FinishTypes
  <1>7. QED
    BY <1>3, <1>4, <1>5, <1>6

LEMMA OneQueryKept ==
    ASSUME QueryInv, NEW a \in Answers,
           OneQueryAnswer(a) \/ Fm5Answer(a) \/ AdapterAnswer(a) \/ FallbackAnswer(a)
             \/ EnergyAnswer(a)
    PROVE  (RefreshTypes /\ StageOfFocus)'
  <1>0. /\ focus' = focus /\ stage \in Stages /\ asked \in SUBSET Parts[focus]
        /\ draft \in SUBSET Parts[focus]
        /\ {} \in SUBSET Parts[focus]
    BY DEF QueryInv, RefreshTypes, OneQueryAnswer, Fm5Answer, AdapterAnswer, FallbackAnswer,
           EnergyAnswer, Receive
  <1>1. CASE OneQueryAnswer(a)
    <2>1. Finish(asked) \/ Finish({}) \/ Fail
      BY <1>1 DEF OneQueryAnswer, Answers
    <2>2. QED
      BY <1>0, <2>1, FinishTypes
  <1>2. CASE Fm5Answer(a)
    <2>1. Finish(asked) \/ Finish({}) \/ Fail
      BY <1>2 DEF Fm5Answer, Answers
    <2>2. QED
      BY <1>0, <2>1, FinishTypes
  <1>3. CASE AdapterAnswer(a)
    <2>1. \/ Finish(asked) \/ Finish({}) \/ Fail
          \/ Send("fallback", {"adapter_hardware_info"}) /\ draft' = draft
      BY <1>3 DEF AdapterAnswer, Answers, Retry
    <2>2. "fallback" \in Stages /\ {"adapter_hardware_info"} \in SUBSET Parts[focus]
      BY <1>3, PartsOf DEF AdapterAnswer, Stages
    <2>3. QED
      BY <1>0, <2>1, <2>2, FinishTypes, SendTypes
  <1>4. CASE FallbackAnswer(a)
    <2>1. Finish(asked) \/ Finish({})
      BY <1>4 DEF FallbackAnswer
    <2>2. QED
      BY <1>0, <2>1, FinishTypes
  <1>5. CASE EnergyAnswer(a)
    <2>1. \/ Finish({}) \/ Finish({"energy_totals"})
          \/ Send("main", {"energy_totals"}) /\ draft' = draft
      BY <1>5 DEF EnergyAnswer, ShownTotals, Retry
    <2>2. "main" \in Stages /\ {"energy_totals"} \in SUBSET Parts[focus]
      BY <1>5, PartsOf DEF EnergyAnswer, Stages
    <2>3. QED
      BY <1>0, <2>1, <2>2, FinishTypes, SendTypes
  <1>6. QED
    BY <1>1, <1>2, <1>3, <1>4, <1>5

LEMMA RefreshTypesKept ==
    ASSUME QueryInv, Next
    PROVE  (RefreshTypes /\ StageOfFocus)'
  <1>0. RefreshTypes /\ StageOfFocus /\ GatewayTypes
    BY DEF QueryInv
  <1>1. CASE Answer
    BY <1>1, InventoryKept, OptionalKept, OneQueryKept DEF Answer
  <1>2. CASE Refresh
    BY <1>2, RefreshKept
  <1>3. CASE EnergyEvent
    <2>1. {"energy_totals"} \subseteq Parts[focus]
      BY <1>3, PartsOf DEF EnergyEvent
    <2>2. QED
      BY <1>0, <1>3, <2>1 DEF EnergyEvent, query, RefreshTypes, StageOfFocus
  <1>4. CASE BoilerEvent
    <2>1. {"boiler_status"} \subseteq Parts[focus]
      BY <1>4, PartsOf DEF BoilerEvent
    <2>2. QED
      BY <1>0, <1>4, <2>1 DEF BoilerEvent, query, RefreshTypes, StageOfFocus
  <1>5. CASE SchemaChange \/ LinkChange \/ Grow \/ Tick
    BY <1>0, <1>5 DEF SchemaChange, LinkChange, Grow, Tick, query, RefreshTypes, StageOfFocus
  <1>6. QED
    BY <1>1, <1>2, <1>3, <1>4, <1>5 DEF Next

LEMMA GatewayTypesKept ==
    ASSUME QueryInv, Next
    PROVE  GatewayTypes'
  <1>0. GatewayTypes
    BY DEF QueryInv
  <1>1. CASE focus' = focus /\ schema' = schema /\ link' = link /\ reading' = reading
    BY <1>0, <1>1 DEF GatewayTypes
  <1>2. CASE SchemaChange
    BY <1>0, <1>2 DEF SchemaChange, GatewayTypes
  <1>3. CASE LinkChange
    BY <1>0, <1>3 DEF LinkChange, GatewayTypes
  <1>4. CASE Grow
    BY <1>0, <1>4, TimeFacts DEF Grow, GatewayTypes
  <1>5. QED
    BY <1>1, <1>2, <1>3, <1>4
    DEF Next, Refresh, Answer, InventoryAnswer, StatusAnswer, SemanticAnswer, OneQueryAnswer,
        Fm5Answer, SystemAnswer, MetadataAnswer, OptionalAnswer, BoilerAnswer, AdapterAnswer,
        FallbackAnswer, EnergyAnswer, Receive, EnergyEvent, BoilerEvent, Tick, gateway

\* What each answer may switch off, and what else a step does to the memory of
\* the coordinator.
LEMMA SwitchedOff ==
    ASSUME QueryInv, Next
    PROVE  /\ focus' = focus
           /\ \/ off' \subseteq off
              \/ \E p \in Gone \cap Parts[focus] \cap Switchable : off' \subseteq off \cup {p}
              \/ focus = "boiler" /\ off' \subseteq off \cup {"boiler_status"}
  <1>0. /\ asked \subseteq Parts[focus] /\ GatewayTypes /\ StageOfFocus
    BY DEF QueryInv, RefreshTypes
  <1>1. CASE \E a \in Answers : OneQueryAnswer(a)
    <2>1. PICK a \in Answers : OneQueryAnswer(a)
      BY <1>1
    <2>2. focus = "schedules" /\ a = "missing" => "schedules" \in Gone
      BY <1>0, <2>1, PartsOf DEF OneQueryAnswer, Receive, Possible, Gone, Root
    <2>3. focus = "schedules" => "schedules" \in Parts[focus] \cap Switchable
      BY PartsOf DEF Switchable
    <2>4. focus' = focus /\ (off' = off \/ (focus = "schedules" /\ a = "missing"
                                          /\ off' = off \cup {"schedules"}))
      BY <2>1 DEF OneQueryAnswer, Receive
    <2>5. QED
      BY <2>2, <2>3, <2>4
  <1>2. CASE \E a \in Answers : OptionalAnswer(a)
    <2>1. PICK a \in Answers : OptionalAnswer(a)
      BY <1>2
    <2>2. stage \in {"installer", "sensitive"} /\ focus \in {"system", "boiler"} /\ focus' = focus
      BY <1>0, <2>1 DEF OptionalAnswer, StageOfFocus, Receive
    <2>3. stage \in Parts[focus] \cap Switchable
      BY <2>2, PartsOf DEF Switchable
    <2>4. off' = off \/ (stage \in Gone /\ off' = off \cup {stage})
      BY <2>1 DEF OptionalAnswer, OffAfter
    <2>5. QED
      BY <2>2, <2>3, <2>4
  <1>3. CASE \E a \in Answers : BoilerAnswer(a)
    BY <1>3 DEF BoilerAnswer, Receive
  <1>4. CASE \E a \in Answers : AdapterAnswer(a)
    <2>1. focus = "adapter" /\ focus' = focus
          /\ (off' = off \/ ("details" \in Gone /\ off' = off \cup {"details"}))
      BY <1>4 DEF AdapterAnswer, Receive
    <2>2. "details" \in Parts[focus] \cap Switchable
      BY <2>1, PartsOf DEF Switchable
    <2>3. QED
      BY <2>1, <2>2
  <1>5. CASE \E a \in Answers : EnergyAnswer(a)
    <2>1. focus = "energy" /\ focus' = focus
          /\ (off' = off \/ ("monthly" \in Gone /\ off' = off \cup {"monthly"}))
      BY <1>5 DEF EnergyAnswer, Receive
    <2>2. "monthly" \in Parts[focus] \cap Switchable
      BY <2>1, PartsOf DEF Switchable
    <2>3. QED
      BY <2>1, <2>2
  <1>6. CASE focus' = focus /\ off' = off
    BY <1>6
  <1>7. QED
    BY <1>1, <1>2, <1>3, <1>4, <1>5, <1>6
    DEF Next, Refresh, Answer, InventoryAnswer, StatusAnswer, SemanticAnswer, Fm5Answer,
        SystemAnswer, MetadataAnswer, FallbackAnswer, Receive, EnergyEvent, BoilerEvent,
        SchemaChange, LinkChange, Grow, Tick, memory

LEMMA MemoryTypesKept ==
    ASSUME QueryInv, Next
    PROVE  MemoryTypes'
  <1> DEFINE longest == IF BoundCooldown > MaxDelay THEN BoundCooldown ELSE MaxDelay
  <1>0. /\ off \subseteq Parts[focus] \cap Switchable /\ wait \in 0 .. longest
        /\ delay \in FirstDelay .. MaxDelay /\ due \in 0 .. 1
    BY DEF QueryInv, MemoryTypes
  <1>1. off' \subseteq Parts[focus'] \cap Switchable
    <2>1. focus = "boiler" => "boiler_status" \in Parts[focus] \cap Switchable
      BY PartsOf DEF Switchable
    <2>2. QED
      BY <1>0, <2>1, SwitchedOff
  <1>2. /\ wait' \in {wait, 0, BoundCooldown, delay} \/ (wait > 0 /\ wait' = wait - 1)
        /\ delay' \in {delay, FirstDelay, NextDelay}
        /\ due' \in {due, 0, 1}
    BY DEF Next, Refresh, Answer, InventoryAnswer, StatusAnswer, SemanticAnswer, OneQueryAnswer,
        Fm5Answer, SystemAnswer, MetadataAnswer, OptionalAnswer, BoilerAnswer, AdapterAnswer,
        FallbackAnswer, EnergyAnswer, Receive, EnergyEvent, BoilerEvent, SchemaChange,
        LinkChange, Grow, Tick, memory, Reprobe, ResetReprobe
  <1>3. NextDelay \in FirstDelay .. MaxDelay
    BY <1>0, TimeFacts DEF NextDelay
  <1>4. wait' \in 0 .. longest /\ delay' \in FirstDelay .. MaxDelay /\ due' \in 0 .. 1
    BY <1>0, <1>2, <1>3, TimeFacts
  <1>5. QED
    BY <1>1, <1>4 DEF MemoryTypes

\* What a step does to the energy totals
LEMMA TotalsMove ==
    ASSUME QueryInv, Next
    PROVE  /\ \/ total' = total /\ lastValid' = lastValid /\ pushed' = pushed
              \/ /\ total' = lastValid /\ lastValid' = lastValid /\ pushed' = FALSE
                 /\ stage' = "idle" /\ asOf' = 0 /\ reading' = reading
              \/ /\ stage # "idle" /\ total' \in asOf .. reading /\ lastValid' = total'
                 /\ pushed' = FALSE
                 /\ stage' = "idle" /\ asOf' = 0 /\ reading' = reading
              \/ /\ total' = reading /\ lastValid' = lastValid /\ pushed' = TRUE
                 /\ stage' = stage /\ asOf' = asOf /\ reading' = reading
           /\ reading' = reading \/ (reading' = reading + 1 /\ stage' = stage /\ asOf' = asOf)
           /\ \/ stage' = stage /\ asOf' = asOf
              \/ stage' = "idle" /\ asOf' = 0
              \/ asOf' = reading
  <1>1. CASE \E a \in Answers : EnergyAnswer(a)
    BY <1>1 DEF EnergyAnswer, Receive, gateway, Valid, Held, Finish, Close, Retry, Send, energy
  <1>2. CASE EnergyEvent
    BY <1>2 DEF EnergyEvent, query, gateway
  <1>3. CASE BoilerEvent \/ SchemaChange \/ LinkChange \/ Grow \/ Tick
    BY <1>3 DEF BoilerEvent, SchemaChange, LinkChange, Grow, Tick, query, gateway, energy
  <1>4. CASE Refresh
    BY <1>4 DEF Refresh, Finish, Close, Send, energy, gateway
  <1>5. ASSUME NEW a \in Answers,
               \/ InventoryAnswer(a) \/ StatusAnswer(a) \/ SemanticAnswer(a)
               \/ OneQueryAnswer(a) \/ Fm5Answer(a)
               \/ SystemAnswer(a) \/ MetadataAnswer(a) \/ OptionalAnswer(a)
               \/ BoilerAnswer(a) \/ AdapterAnswer(a) \/ FallbackAnswer(a)
        PROVE  /\ total' = total /\ lastValid' = lastValid /\ pushed' = pushed
               /\ reading' = reading
               /\ (stage' = "idle" /\ asOf' = 0) \/ asOf' = reading
    BY <1>5
    DEF InventoryAnswer, StatusAnswer, SemanticAnswer, OneQueryAnswer,
        Fm5Answer, SystemAnswer, MetadataAnswer, OptionalAnswer, BoilerAnswer, AdapterAnswer,
        FallbackAnswer, Receive, energy, gateway, Finish, Fail, Close, Retry, Send, Continue,
        SmallerInventory, Answers
  <1>6. QED
    BY <1>1, <1>2, <1>3, <1>4, <1>5 DEF Next, Answer

LEMMA TotalsStay ==
    ASSUME QueryInv, Next
    PROVE  /\ TotalTypes' /\ TotalsKept'
           /\ total' < total => pushed
  <1>1. /\ total \in -1 .. MaxReading /\ lastValid \in -1 .. MaxReading /\ pushed \in BOOLEAN
        /\ reading \in 0 .. MaxReading /\ asOf \in 0 .. MaxReading
        /\ total <= reading /\ lastValid <= reading /\ asOf <= reading
        /\ ~pushed => total = lastValid
        /\ stage # "idle" => lastValid <= asOf
    BY DEF QueryInv, TotalTypes, TotalsKept, RefreshTypes, GatewayTypes
  <1> DEFINE Rest == /\ total' \in -1 .. MaxReading /\ lastValid' \in -1 .. MaxReading
                     /\ pushed' \in BOOLEAN
                     /\ total' <= reading' /\ lastValid' <= reading' /\ asOf' <= reading'
                     /\ ~pushed' => total' = lastValid'
                     /\ stage' # "idle" => lastValid' <= asOf'
                     /\ total' < total => pushed
  <1>2. CASE total' = total /\ lastValid' = lastValid /\ pushed' = pushed
    <2>1. /\ reading' = reading \/ (reading' = reading + 1 /\ stage' = stage /\ asOf' = asOf)
          /\ \/ stage' = stage /\ asOf' = asOf
             \/ stage' = "idle" /\ asOf' = 0
             \/ asOf' = reading
      BY TotalsMove
    <2>2. Rest
      BY <1>1, <1>2, <2>1
    <2>3. QED
      BY <2>2 DEF TotalTypes, TotalsKept
  <1>3. CASE /\ total' = lastValid /\ lastValid' = lastValid /\ pushed' = FALSE
             /\ stage' = "idle" /\ asOf' = 0 /\ reading' = reading
    <2>1. /\ total' \in -1 .. MaxReading /\ lastValid' \in -1 .. MaxReading
          /\ total' <= reading' /\ lastValid' <= reading' /\ asOf' <= reading'
          /\ total' = lastValid' /\ stage' = "idle"
          /\ total' < total => total # lastValid
      BY <1>1, <1>3
    <2>2. pushed' \in BOOLEAN /\ (total # lastValid => pushed)
      BY <1>1, <1>3
    <2>3. QED
      BY <2>1, <2>2 DEF TotalTypes, TotalsKept
  <1>4. CASE /\ stage # "idle" /\ total' \in asOf .. reading /\ lastValid' = total'
             /\ pushed' = FALSE
             /\ stage' = "idle" /\ asOf' = 0 /\ reading' = reading
    <2>1. /\ total' \in -1 .. MaxReading /\ lastValid' \in -1 .. MaxReading
          /\ total' <= reading' /\ lastValid' <= reading' /\ asOf' <= reading'
          /\ total' = lastValid' /\ stage' = "idle"
          /\ total' < total => total # lastValid
      <3>1. /\ total' \in Int /\ lastValid' = total' /\ asOf <= total' /\ total' <= reading
            /\ asOf \in Int /\ reading \in Int /\ total \in Int /\ lastValid \in Int
            /\ 0 <= asOf /\ reading <= MaxReading /\ lastValid <= asOf
        BY <1>1, <1>4, TimeFacts
      <3>2. QED
        BY <1>4, <3>1, TimeFacts
    <2>2. pushed' \in BOOLEAN /\ (total # lastValid => pushed)
      BY <1>1, <1>4
    <2>3. QED
      BY <2>1, <2>2 DEF TotalTypes, TotalsKept
  <1>5. CASE /\ total' = reading /\ lastValid' = lastValid /\ pushed' = TRUE
             /\ stage' = stage /\ asOf' = asOf /\ reading' = reading
    <2>1. Rest
      BY <1>1, <1>5, TimeFacts
    <2>2. QED
      BY <2>1 DEF TotalTypes, TotalsKept
  <1>6. QED
    BY <1>2, <1>3, <1>4, <1>5, TotalsMove

\* QueryInv is inductive: GatewayQueries.
LEMMA QueryInvHolds == Spec => []QueryInv
  <1>1. Init => QueryInv
    <2> SUFFICES ASSUME Init PROVE QueryInv
      OBVIOUS
    <2>1. GatewayTypes
      BY TimeFacts DEF Init, GatewayTypes
    <2>2. TotalTypes /\ TotalsKept
      <3>1. /\ total = -1 /\ lastValid = -1 /\ pushed \in BOOLEAN /\ reading = 0 /\ asOf = 0
            /\ stage = "idle"
        BY DEF Init
      <3>2. QED
        BY <3>1, TimeFacts DEF TotalTypes, TotalsKept
    <2>3. MemoryTypes
      BY TimeFacts DEF Init, MemoryTypes
    <2>4. RefreshTypes /\ StageOfFocus
      BY TimeFacts DEF Init, RefreshTypes, StageOfFocus, Stages
    <2>5. QED
      BY <2>1, <2>3, <2>4, <2>2 DEF QueryInv
  <1>2. QueryInv /\ Next => QueryInv'
    BY RefreshTypesKept, GatewayTypesKept, MemoryTypesKept, TotalsStay DEF QueryInv
  <1>3. QueryInv /\ UNCHANGED vars => QueryInv'
    BY DEF QueryInv, RefreshTypes, GatewayTypes, MemoryTypes, TotalTypes, StageOfFocus,
           TotalsKept, vars, gateway, query, memory, energy
  <1>4. QED
    BY <1>1, <1>2, <1>3, PTL DEF Spec

\* A coordinator stops asking for an optional part only when the gateway does
\* not have the field, whatever fails and in whatever order (coordinator.py).
THEOREM SupportIsLostOnEvidence == Spec => SupportLostOnEvidence
  <1>1. QueryInv /\ [Next]_vars
            => [\A p \in (off' \ off) \ {"boiler_status"} : p \notin schema]_vars
    <2> SUFFICES ASSUME QueryInv, Next, NEW p \in (off' \ off) \ {"boiler_status"}
                 PROVE  p \notin schema
      OBVIOUS
    <2>1. p \in Gone
      BY SwitchedOff
    <2>2. QED
      BY <2>1, GoneNotServed
  <1>2. QED
    BY <1>1, QueryInvHolds, PTL DEF Spec, SupportLostOnEvidence

\* Whatever fails, the energy totals never go back, but from those that an
\* event brought to the last that were polled (coordinator.py, energy.py).
THEOREM TotalsNeverFallBehindPolls == Spec => TotalsFallOnlyBehindEvents
  <1>1. QueryInv /\ [Next]_vars => [total' < total => pushed]_vars
    BY TotalsStay
  <1>2. QED
    BY <1>1, QueryInvHolds, PTL DEF Spec, TotalsFallOnlyBehindEvents

-----------------------------------------------------------------------------
(* The start-up spot check *)

PhaseASteps == {"connection", "inventory", "status", "semantic", "dual"}
PhaseBSteps == {"loop", "request", "pause"}
LaterChecklistSteps == {"v1_subscriptions", "v1_entities", "v1_dual"}

\* Only the checklist makes checks, only a run that has ended has a verdict,
\* and only a request has a worker.
StepOf ==
    /\ step \in PhaseASteps \cup PhaseBSteps \cup {"v1_connection"} => checks = <<>>
    /\ step \in LaterChecklistSteps => checks # <<>>
    /\ step # "done" => verdict = ""
    /\ step # "request" => worker = Startup!NoWorker

\* What was seen is remembered until it is an outcome.
SeenIsKept ==
    /\ "failed" \in seen => observed.transport
    /\ "unhealthy" \in seen => observed.service
    /\ "schema" \in seen => step = "done" /\ "SCHEMA_ERROR" \in outcomes
    /\ seen \subseteq {"failed", "unhealthy", "schema", "trusted", "untrusted"}

VerdictOfOutcomes ==
    step = "done" /\ checks = <<>> =>
        /\ verdict = Startup!VerdictOf(outcomes)
        /\ observed.transport => "TRANSPORT_ERROR" \in outcomes
        /\ observed.service => "SERVICE_ERROR" \in outcomes

Samples == [at : Nat, source : Sources]

\* The window began with a trusted sample of its source, and there were only
\* such samples since.
WindowIsTrace ==
    /\ trace \in Seq(Samples)
    /\ step # "done" /\ stable.source # NoSource =>
          \E i \in 1 .. Len(trace) :
              /\ trace[i].at = stable.since
              /\ \A j \in i .. Len(trace) : trace[j].source = stable.source

SpotInv ==
    /\ Startup!TypeOK /\ StepOf /\ SeenIsKept /\ VerdictOfOutcomes /\ WindowIsTrace
    /\ Startup!OkIsEarned

LEMMA SpotTimes ==
    /\ Target \in Nat /\ Absolute \in Nat /\ Interval \in Nat /\ OpTimeout \in Nat
    /\ Target > 0 /\ Absolute > 0 /\ Interval > 0 /\ OpTimeout > 0
    /\ NoSource \notin Sources
  BY StartupTimes DEF Startup!SpotcheckTimes

LEMMA Appended ==
    ASSUME NEW S, NEW s \in Seq(S), NEW x \in S
    PROVE  /\ Append(s, x) \in Seq(S) /\ Append(s, x) # <<>>
           /\ Len(Append(s, x)) = Len(s) + 1 /\ Append(s, x)[Len(s) + 1] = x
           /\ \A i \in 1 .. Len(s) : Append(s, x)[i] = s[i]
  OBVIOUS

LEMMA ReadingFacts ==
    ASSUME NEW w \in Startup!Readings
    PROVE  /\ w.kind \in {"failed", "schema", "unhealthy", "untrusted", "trusted"}
           /\ w.kind = "trusted" => w.source \in Sources
  BY DEF Startup!Readings, Startup!Reading, Startup!TrustedStartupAdmission

LEMMA StartupTypes ==
    ASSUME Startup!TypeOK
    PROVE  /\ outcomes \subseteq Startup!Outcomes /\ regulator \in Startup!Regulators
           /\ statusQuery \in {"full", "legacy"}
           /\ clock \in 0 .. Absolute /\ budget \in 0 .. Absolute
           /\ stable \in [since : Int, source : Sources \cup {NoSource}]
           /\ observed \in [service : BOOLEAN, transport : BOOLEAN]
           /\ worker \in Startup!Readings
                  \cup {Startup!NoWorker, Startup!Reading("running", NoSource)}
           /\ checks \in Seq(BOOLEAN)
           /\ verdict \in Startup!Verdicts \cup {"", "FAIL"}
  BY DEF Startup!TypeOK

\* The single checks of Phase A have outcomes.
LEMMA PhaseAKept ==
    ASSUME SpotInv, Startup!PhaseA
    PROVE  SpotInv'
  <1>0. /\ Startup!TypeOK /\ StepOf /\ SeenIsKept /\ WindowIsTrace
    BY DEF SpotInv
  <1>1. /\ step \in PhaseASteps
        /\ step' \in {"inventory", "status", "semantic", "dual", "loop"}
        /\ clock' = clock /\ stable' = stable /\ observed' = observed /\ worker' = worker
        /\ budget' = budget /\ checks' = checks /\ verdict' = verdict /\ seen' = seen
        /\ trace' = trace
    BY DEF Startup!PhaseA, Startup!StartupConnection, Startup!StartupInventory,
           Startup!StartupStatus, Startup!StartupSemantic, Startup!DualTopology,
           Startup!phaseB, Startup!history, PhaseASteps
  <1>2. outcomes \subseteq outcomes' /\ outcomes' \subseteq Startup!Outcomes
    <2>1. outcomes \subseteq Startup!Outcomes
      BY <1>0, StartupTypes
    <2>2. \A answer, broken : Startup!Failed(answer, broken) \in {"TRANSPORT_ERROR", broken}
      BY DEF Startup!Failed
    <2>3. \A answer : /\ Startup!ConnectionOutcome(answer) \in Startup!Outcomes
                      /\ Startup!InventoryOutcome(answer) \in Startup!Outcomes
                      /\ Startup!ServiceOutcome(answer) \in Startup!Outcomes
      BY <2>2 DEF Startup!ConnectionOutcome, Startup!InventoryOutcome, Startup!ServiceOutcome,
                  Startup!Outcomes
    <2>4. \A answer, again : Startup!SemanticOutcome(answer, again) \in Startup!Outcomes
      BY <2>2 DEF Startup!SemanticOutcome, Startup!Outcomes
    <2>5. {"PASS", "SKIPPED", "TRANSPORT_ERROR", "UNKNOWN_REGULATOR"} \subseteq Startup!Outcomes
      BY DEF Startup!Outcomes
    <2>6. QED
      BY <2>1, <2>3, <2>4, <2>5
      DEF Startup!PhaseA, Startup!StartupConnection, Startup!StartupInventory,
          Startup!StartupStatus, Startup!StartupSemantic, Startup!DualTopology
  <1>3. regulator' \in Startup!Regulators /\ statusQuery' \in {"full", "legacy"}
    BY <1>0, StartupTypes
    DEF Startup!PhaseA, Startup!StartupConnection, Startup!StartupInventory,
        Startup!StartupStatus, Startup!StartupSemantic, Startup!DualTopology,
        Startup!Capability, Startup!Regulators
  <1>4. Startup!TypeOK'
    BY <1>0, <1>1, <1>2, <1>3 DEF Startup!TypeOK
  <1>5. verdict = "" /\ checks = <<>>
    BY <1>0, <1>1 DEF StepOf, PhaseASteps
  <1>6. StepOf'
    BY <1>0, <1>1, <1>5 DEF StepOf, PhaseASteps, PhaseBSteps, LaterChecklistSteps
  <1>7. SeenIsKept'
    BY <1>0, <1>1, <1>2 DEF SeenIsKept, PhaseASteps
  <1>8. VerdictOfOutcomes' /\ Startup!OkIsEarned'
    BY <1>1, <1>5 DEF VerdictOfOutcomes, Startup!OkIsEarned
  <1>9. WindowIsTrace'
    BY <1>0, <1>1 DEF WindowIsTrace, PhaseASteps
  <1>10. QED
    BY <1>4, <1>6, <1>7, <1>8, <1>9 DEF SpotInv

LEMMA ChecklistKept ==
    ASSUME SpotInv, Startup!Checklist
    PROVE  SpotInv'
  <1>0. Startup!TypeOK /\ StepOf /\ SeenIsKept /\ WindowIsTrace
    BY DEF SpotInv
  <1>1. PICK ok \in BOOLEAN,
             next \in {"v1_subscriptions", "v1_entities", "v1_dual", "done"} :
                Startup!Checked(ok, next) /\ UNCHANGED Startup!history
    BY DEF Startup!Checklist, Startup!ChecklistConnection, Startup!ChecklistSubscriptions,
           Startup!ChecklistEntities, Startup!ChecklistDual, Startup!EntityCreationOk
  <1>2. step \in {"v1_connection", "v1_subscriptions", "v1_entities", "v1_dual"}
    BY DEF Startup!Checklist, Startup!ChecklistConnection, Startup!ChecklistSubscriptions,
           Startup!ChecklistEntities, Startup!ChecklistDual
  <1>3. /\ checks' = Append(checks, ok) /\ step' = next
        /\ verdict' \in {"", "OK", "FAIL"} /\ (step' # "done" => verdict' = "")
        /\ outcomes' = outcomes /\ regulator' = regulator /\ statusQuery' = statusQuery
        /\ clock' = clock /\ stable' = stable /\ observed' = observed /\ worker' = worker
        /\ budget' = budget /\ seen' = seen /\ trace' = trace
    BY <1>1 DEF Startup!Checked, Startup!phaseB, Startup!history
  <1>4. checks' \in Seq(BOOLEAN) /\ checks' # <<>>
    <2>1. checks \in Seq(BOOLEAN)
      BY <1>0, StartupTypes
    <2>2. QED
      BY <1>3, <2>1, Appended
  <1>5. Startup!TypeOK'
    BY <1>0, <1>3, <1>4 DEF Startup!TypeOK, Startup!Verdicts
  <1>6. StepOf'
    BY <1>0, <1>2, <1>3, <1>4 DEF StepOf, PhaseASteps, PhaseBSteps, LaterChecklistSteps
  <1>7. SeenIsKept'
    BY <1>0, <1>2, <1>3 DEF SeenIsKept
  <1>8. VerdictOfOutcomes' /\ Startup!OkIsEarned'
    BY <1>4 DEF VerdictOfOutcomes, Startup!OkIsEarned
  <1>9. WindowIsTrace'
    BY <1>0, <1>2, <1>3 DEF WindowIsTrace
  <1>10. QED
    BY <1>5, <1>6, <1>7, <1>8, <1>9 DEF SpotInv

\* A run that finishes has the verdict of all its outcomes, and no worker.
LEMMA Finished ==
    ASSUME SpotInv, NEW found \in SUBSET Startup!Outcomes, Startup!Finish(found),
           step \in PhaseBSteps, checks' = checks, regulator' = regulator,
           worker' = Startup!NoWorker,
           observed' = observed, Startup!Latched \subseteq found
    PROVE  /\ outcomes' \subseteq Startup!Outcomes /\ outcomes \cup found = outcomes'
           /\ verdict' \in Startup!Verdicts /\ step' = "done"
           /\ StepOf' /\ VerdictOfOutcomes'
  <1>0. /\ outcomes \subseteq Startup!Outcomes
        /\ StepOf
    BY StartupTypes DEF SpotInv
  <1>1. /\ outcomes' = outcomes \cup found /\ verdict' = Startup!VerdictOf(outcomes')
        /\ step' = "done"
    BY DEF Startup!Finish
  <1>2. /\ observed.transport => "TRANSPORT_ERROR" \in outcomes'
        /\ observed.service => "SERVICE_ERROR" \in outcomes'
    BY <1>1 DEF Startup!Latched
  <1>3. verdict' \in Startup!Verdicts
    BY <1>1 DEF Startup!VerdictOf, Startup!Verdicts
  <1>4. StepOf'
    BY <1>0, <1>1 DEF StepOf, PhaseASteps, PhaseBSteps, LaterChecklistSteps
  <1>5. VerdictOfOutcomes'
    BY <1>1, <1>2 DEF VerdictOfOutcomes, Startup!VerdictOf
  <1>6. QED
    BY <1>0, <1>1, <1>3, <1>4, <1>5

LEMMA LatchedOutcomes == Startup!Latched \subseteq {"SERVICE_ERROR", "TRANSPORT_ERROR"}
  BY DEF Startup!Latched

\* A run that goes on
LEMMA GoesOn ==
    ASSUME SpotInv, step \in PhaseBSteps, step' \in PhaseBSteps, checks' = checks,
           verdict' = verdict, step' # "request" => worker' = Startup!NoWorker
    PROVE  StepOf' /\ VerdictOfOutcomes' /\ Startup!OkIsEarned'
  <1>1. StepOf /\ verdict = ""
    BY DEF SpotInv, StepOf, PhaseBSteps
  <1>2. QED
    BY <1>1
    DEF StepOf, VerdictOfOutcomes, Startup!OkIsEarned, PhaseASteps, PhaseBSteps,
        LaterChecklistSteps

\* What an observation does to what was seen and to the trace
LEMMA Observed ==
    ASSUME SpotInv, step = "request",
           NEW kind \in {"failed", "unhealthy", "untrusted"}, NEW source,
           Startup!Observe(kind, source), stable' = Startup!NoWindow,
           observed' \in [service : BOOLEAN, transport : BOOLEAN],
           observed.transport \/ kind = "failed" => observed'.transport,
           observed.service \/ kind = "unhealthy" => observed'.service
    PROVE  SeenIsKept' /\ WindowIsTrace' /\ stable' \in [since : Int, source : Sources \cup {NoSource}]
  <1>1. seen' = seen \cup {kind} /\ trace' = <<>>
    BY DEF Startup!Observe
  <1>2. SeenIsKept'
    <2>1. SeenIsKept /\ "schema" \notin seen'
      BY <1>1 DEF SpotInv, SeenIsKept
    <2>2. QED
      BY <1>1, <2>1 DEF SeenIsKept
  <1>3. WindowIsTrace'
    BY <1>1 DEF WindowIsTrace, Startup!NoWindow
  <1>4. QED
    BY <1>2, <1>3 DEF Startup!NoWindow

\* Steps that see nothing
LEMMA UnseenKept ==
    ASSUME SpotInv,
           \/ Startup!BeginSample \/ Startup!RequestTick \/ Startup!WorkerSends \/ Startup!Sleep
    PROVE  SpotInv'
  <1>0. /\ Startup!TypeOK /\ StepOf /\ SeenIsKept /\ WindowIsTrace
        /\ clock \in 0 .. Absolute /\ budget \in 0 .. Absolute
    BY StartupTypes DEF SpotInv
  <1>1. /\ step \in PhaseBSteps /\ step' \in PhaseBSteps
        /\ outcomes' = outcomes /\ regulator' = regulator /\ statusQuery' = statusQuery
        /\ stable' = stable /\ observed' = observed /\ checks' = checks /\ verdict' = verdict
        /\ seen' = seen /\ trace' = trace
    BY DEF Startup!BeginSample, Startup!RequestTick, Startup!WorkerSends, Startup!Sleep,
           Startup!phaseA, Startup!history, PhaseBSteps
  <1>2. clock' \in 0 .. Absolute /\ budget' \in 0 .. Absolute
    BY <1>0, SpotTimes
    DEF Startup!BeginSample, Startup!RequestTick, Startup!WorkerSends, Startup!Sleep,
        Startup!SleepFor
  <1>3. /\ worker' \in Startup!Readings
             \cup {Startup!NoWorker, Startup!Reading("running", NoSource)}
        /\ step' # "request" => worker' = Startup!NoWorker
    BY <1>0, StartupTypes
    DEF Startup!BeginSample, Startup!RequestTick, Startup!WorkerSends, Startup!Sleep, StepOf
  <1>4. Startup!TypeOK'
    BY <1>0, <1>1, <1>2, <1>3 DEF Startup!TypeOK, PhaseBSteps
  <1>5. SeenIsKept' /\ WindowIsTrace'
    BY <1>0, <1>1 DEF SeenIsKept, WindowIsTrace, PhaseBSteps
  <1>6. QED
    BY <1>1, <1>3, <1>4, <1>5, GoesOn DEF SpotInv

LEMMA FailedKept ==
    ASSUME SpotInv,
           \/ Startup!RequestFailed \/ (Startup!RequestTimedOut /\ clock # Absolute)
           \/ Startup!UnhealthySample \/ Startup!UntrustedSample
    PROVE  SpotInv'
  <1>0. Startup!TypeOK /\ observed \in [service : BOOLEAN, transport : BOOLEAN]
    BY StartupTypes DEF SpotInv
  <1>1. /\ step = "request" /\ step' = "pause" /\ worker' = Startup!NoWorker
        /\ outcomes' = outcomes /\ regulator' = regulator /\ statusQuery' = statusQuery
        /\ clock' = clock /\ budget' = budget /\ checks' = checks /\ verdict' = verdict
        /\ stable' = Startup!NoWindow
    BY DEF Startup!RequestFailed, Startup!RequestTimedOut, Startup!UnhealthySample,
           Startup!UntrustedSample, Startup!Receive, Startup!TransportFailed, Startup!Continue
  <1>2. PICK kind \in {"failed", "unhealthy", "untrusted"}, source \in {worker.source, NoSource} :
              /\ Startup!Observe(kind, source)
              /\ observed' = CASE kind = "failed" -> [observed EXCEPT !.transport = TRUE]
                               [] kind = "unhealthy" -> [observed EXCEPT !.service = TRUE]
                               [] OTHER -> observed
    BY DEF Startup!RequestFailed, Startup!RequestTimedOut, Startup!UnhealthySample,
           Startup!UntrustedSample, Startup!Receive, Startup!TransportFailed
  <1>3. /\ observed' \in [service : BOOLEAN, transport : BOOLEAN]
        /\ observed.transport \/ kind = "failed" => observed'.transport
        /\ observed.service \/ kind = "unhealthy" => observed'.service
    BY <1>0, <1>2
  <1>4. /\ SeenIsKept' /\ WindowIsTrace'
        /\ stable' \in [since : Int, source : Sources \cup {NoSource}]
    BY <1>1, <1>2, <1>3, Observed
  <1>5. Startup!TypeOK'
    BY <1>0, <1>1, <1>3, <1>4 DEF Startup!TypeOK
  <1>6. step \in PhaseBSteps /\ step' \in PhaseBSteps
    BY <1>1 DEF PhaseBSteps
  <1>7. QED
    BY <1>1, <1>4, <1>5, <1>6, GoesOn DEF SpotInv

LEMMA DeadlineKept ==
    ASSUME SpotInv, Startup!OutOfTime \/ (Startup!RequestTimedOut /\ clock = Absolute)
    PROVE  SpotInv'
  <1>0. Startup!TypeOK /\ StepOf /\ SeenIsKept /\ WindowIsTrace
    BY DEF SpotInv
  <1>1. /\ step \in {"loop", "request"} /\ worker' = Startup!NoWorker
        /\ Startup!Finish(Startup!Deadline)
        /\ regulator' = regulator /\ statusQuery' = statusQuery
        /\ clock' = clock /\ budget' = budget /\ checks' = checks
        /\ stable' = stable /\ observed' = observed /\ seen' = seen /\ trace' = trace
    BY <1>0 DEF Startup!OutOfTime, Startup!RequestTimedOut, Startup!history, StepOf
  <1>2. /\ Startup!Deadline \in SUBSET Startup!Outcomes /\ Startup!Latched \subseteq Startup!Deadline
        /\ "TRANSPORT_ERROR" \in Startup!Deadline
    BY LatchedOutcomes DEF Startup!Deadline, Startup!Outcomes
  <1>3. /\ outcomes' \subseteq Startup!Outcomes /\ outcomes \cup Startup!Deadline = outcomes'
        /\ verdict' \in Startup!Verdicts /\ step' = "done" /\ StepOf' /\ VerdictOfOutcomes'
    BY <1>1, <1>2, Finished DEF PhaseBSteps
  <1>4. Startup!TypeOK'
    BY <1>0, <1>1, <1>3 DEF Startup!TypeOK
  <1>5. SeenIsKept' /\ WindowIsTrace'
    BY <1>0, <1>1, <1>3 DEF SeenIsKept, WindowIsTrace
  <1>6. Startup!OkIsEarned'
    <2>1. checks' = <<>> => verdict' = "DEGRADED_TRANSPORT"
      BY <1>2, <1>3 DEF VerdictOfOutcomes, Startup!VerdictOf
    <2>2. QED
      BY <2>1 DEF Startup!OkIsEarned
  <1>7. QED
    BY <1>3, <1>4, <1>5, <1>6 DEF SpotInv

LEMMA SchemaKept ==
    ASSUME SpotInv, Startup!SchemaFailure
    PROVE  SpotInv'
  <1> DEFINE found == Startup!Latched \cup {"SCHEMA_ERROR"}
  <1>0. Startup!TypeOK /\ StepOf /\ SeenIsKept /\ WindowIsTrace
    BY DEF SpotInv
  <1>1. /\ step = "request" /\ worker' = Startup!NoWorker /\ Startup!Finish(found)
        /\ regulator' = regulator /\ statusQuery' = statusQuery
        /\ clock' = clock /\ budget' = budget /\ checks' = checks
        /\ stable' = stable /\ observed' = observed
        /\ seen' = seen \cup {"schema"} /\ trace' = <<>>
    BY DEF Startup!SchemaFailure, Startup!Receive, Startup!Observe
  <1>2. found \in SUBSET Startup!Outcomes
    BY LatchedOutcomes DEF Startup!Outcomes
  <1>3. /\ outcomes' \subseteq Startup!Outcomes /\ outcomes \cup found = outcomes'
        /\ verdict' \in Startup!Verdicts /\ step' = "done" /\ StepOf' /\ VerdictOfOutcomes'
    BY <1>1, <1>2, Finished DEF PhaseBSteps
  <1>4. Startup!TypeOK'
    BY <1>0, <1>1, <1>3 DEF Startup!TypeOK
  <1>5. SeenIsKept'
    BY <1>0, <1>1, <1>3 DEF SeenIsKept
  <1>6. Startup!OkIsEarned'
    <2>1. checks' = <<>> => verdict' # "OK"
      BY <1>3 DEF VerdictOfOutcomes, Startup!VerdictOf
    <2>2. QED
      BY <2>1 DEF Startup!OkIsEarned
  <1>7. WindowIsTrace'
    BY <1>1, <1>3 DEF WindowIsTrace
  <1>8. QED
    BY <1>3, <1>4, <1>5, <1>6, <1>7 DEF SpotInv

\* A trusted sample continues the window that the trace shows, or begins one.
LEMMA TrustedWindow ==
    ASSUME SpotInv, Startup!TrustedSample
    PROVE  /\ trace' \in Seq(Samples) /\ Len(trace') > 0
           /\ trace'[Len(trace')] = [at |-> clock, source |-> worker.source]
           /\ stable' \in [since : Int, source : Sources]
           /\ stable.source = worker.source => stable'.since = stable.since
           /\ \E i \in 1 .. Len(trace') :
                 /\ trace'[i].at = stable'.since
                 /\ \A j \in i .. Len(trace') : trace'[j].source = stable'.source
  <1> DEFINE sample == [at |-> clock, source |-> worker.source]
  <1>1. /\ step = "request" /\ worker.kind = "trusted" /\ trace' = Append(trace, sample)
        /\ stable' = IF stable.source = worker.source THEN stable
                     ELSE [since |-> clock, source |-> worker.source]
    BY DEF Startup!TrustedSample, Startup!Receive, Startup!Observe, Startup!WindowAfter
  <1>2. /\ worker.source \in Sources /\ clock \in Nat
        /\ stable \in [since : Int, source : Sources \cup {NoSource}]
        /\ trace \in Seq(Samples)
        /\ stable.source # NoSource =>
              \E i \in 1 .. Len(trace) :
                 /\ trace[i].at = stable.since
                 /\ \A j \in i .. Len(trace) : trace[j].source = stable.source
    <2>1. Startup!TypeOK /\ WindowIsTrace /\ step # "done"
      BY <1>1 DEF SpotInv
    <2>2. Startup!NoWorker.kind = "none" /\ Startup!Reading("running", NoSource).kind = "running"
      BY DEF Startup!NoWorker, Startup!Reading
    <2>3. worker \in Startup!Readings
      BY <1>1, <2>1, <2>2, StartupTypes
    <2>4. worker.source \in Sources
      BY <1>1, <2>3, ReadingFacts
    <2>5. clock \in 0 .. Absolute /\ stable \in [since : Int, source : Sources \cup {NoSource}]
      BY <2>1, StartupTypes
    <2>6. clock \in Nat
      BY <2>5, SpotTimes
    <2>7. QED
      BY <2>1, <2>4, <2>5, <2>6 DEF WindowIsTrace
  <1>3. sample \in Samples
    BY <1>2 DEF Samples
  <1>4. /\ trace' \in Seq(Samples) /\ Len(trace') = Len(trace) + 1 /\ Len(trace) \in Nat
        /\ trace'[Len(trace) + 1] = sample
        /\ \A i \in 1 .. Len(trace) : trace'[i] = trace[i]
    BY <1>1, <1>2, <1>3, Appended
  <1>5. CASE stable.source = worker.source
    <2>1. PICK i \in 1 .. Len(trace) :
              /\ trace[i].at = stable.since
              /\ \A j \in i .. Len(trace) : trace[j].source = stable.source
      BY <1>2, <1>5, SpotTimes
    <2>2. \A j \in i .. Len(trace') : trace'[j].source = stable.source
      <3> SUFFICES ASSUME NEW j \in i .. Len(trace') PROVE trace'[j].source = stable.source
        OBVIOUS
      <3>1. CASE j = Len(trace) + 1
        BY <1>4, <1>5, <3>1
      <3>2. CASE j # Len(trace) + 1
        <4>1. j \in i .. Len(trace) /\ j \in 1 .. Len(trace)
          BY <1>4, <3>2
        <4>2. QED
          BY <1>4, <2>1, <4>1
      <3>3. QED
        BY <3>1, <3>2
    <2>3. i \in 1 .. Len(trace') /\ trace'[i].at = stable.since /\ stable' = stable
      BY <1>1, <1>4, <1>5, <2>1
    <2>4. stable' \in [since : Int, source : Sources]
      <3>1. stable = [since |-> stable.since, source |-> stable.source]
            /\ stable.since \in Int /\ stable.source \in Sources
        BY <1>2, <1>5
      <3>2. QED
        BY <2>3, <3>1
    <2>5. Len(trace') > 0 /\ trace'[Len(trace')] = sample
      BY <1>4
    <2>6. \E k \in 1 .. Len(trace') :
              /\ trace'[k].at = stable'.since
              /\ \A j \in k .. Len(trace') : trace'[j].source = stable'.source
      BY <2>2, <2>3
    <2>7. QED
      BY <1>4, <2>3, <2>4, <2>5, <2>6
  <1>6. CASE stable.source # worker.source
    <2>1. stable' = sample' \/ stable' = [since |-> clock, source |-> worker.source]
      BY <1>1, <1>6
    <2>2. /\ stable' \in [since : Int, source : Sources] /\ stable'.since = clock
          /\ stable'.source = worker.source
      BY <1>1, <1>2, <1>6
    <2>3. /\ Len(trace) + 1 \in 1 .. Len(trace') /\ trace'[Len(trace) + 1].at = clock
          /\ \A j \in Len(trace) + 1 .. Len(trace') : trace'[j].source = worker.source
      BY <1>4
    <2>4. QED
      BY <1>4, <1>6, <2>2, <2>3
  <1>7. QED
    BY <1>5, <1>6

LEMMA TrustedKept ==
    ASSUME SpotInv, Startup!TrustedSample
    PROVE  SpotInv'
  <1>0. /\ Startup!TypeOK /\ StepOf /\ SeenIsKept /\ clock \in 0 .. Absolute
        /\ budget \in 0 .. Absolute
        /\ observed \in [service : BOOLEAN, transport : BOOLEAN]
    BY StartupTypes DEF SpotInv
  <1>1. /\ step = "request" /\ clock < budget /\ worker' = Startup!NoWorker
        /\ regulator' = regulator /\ statusQuery' = statusQuery
        /\ clock' = clock /\ budget' = budget /\ checks' = checks
        /\ observed' = observed /\ seen' = seen \cup {"trusted"}
    BY DEF Startup!TrustedSample, Startup!Receive, Startup!Observe
  <1>2. SeenIsKept'
    <2>1. "schema" \notin seen
      BY <1>0, <1>1 DEF SeenIsKept
    <2>2. QED
      BY <1>0, <1>1, <2>1 DEF SeenIsKept
  <1>3. WindowIsTrace' /\ stable' \in [since : Int, source : Sources \cup {NoSource}]
    BY TrustedWindow DEF WindowIsTrace
  <1>4. CASE Startup!Continue
    <2>1. step' = "pause" /\ outcomes' = outcomes /\ verdict' = verdict
      BY <1>4 DEF Startup!Continue
    <2>2. Startup!TypeOK'
      BY <1>0, <1>1, <1>3, <2>1 DEF Startup!TypeOK
    <2>3. QED
      BY <1>1, <1>2, <1>3, <2>1, <2>2, GoesOn DEF SpotInv, PhaseBSteps
  <1> DEFINE found == IF Startup!Latched = {} THEN {"PASS"} ELSE Startup!Latched
  <1>5. CASE /\ stable.source = worker.source /\ clock - stable.since >= Target
             /\ Startup!Finish(found)
    <2>1. found \in SUBSET Startup!Outcomes /\ Startup!Latched \subseteq found
      BY LatchedOutcomes DEF Startup!Outcomes
    <2>2. /\ outcomes' \subseteq Startup!Outcomes /\ outcomes \cup found = outcomes'
          /\ verdict' \in Startup!Verdicts /\ step' = "done" /\ StepOf' /\ VerdictOfOutcomes'
      BY <1>1, <1>5, <2>1, Finished DEF PhaseBSteps
    <2>3. Startup!TypeOK'
      BY <1>0, <1>1, <1>3, <2>2 DEF Startup!TypeOK
    <2>4. Startup!OkIsEarned'
      <3> SUFFICES ASSUME verdict' = "OK", checks' = <<>>
                   PROVE  /\ regulator' = "PRESENT"
                          /\ \E i \in 1 .. Len(trace') :
                                /\ \A j \in i .. Len(trace') : trace'[j].source = trace'[i].source
                                /\ trace'[Len(trace')].at - trace'[i].at >= Target
                          /\ trace'[Len(trace')].at < Absolute
                          /\ seen' \subseteq {"trusted", "untrusted"}
        BY DEF Startup!OkIsEarned, Startup!Last
      <3>1. /\ regulator' = "PRESENT"
            /\ outcomes' \cap {"TRANSPORT_ERROR", "SCHEMA_ERROR", "SERVICE_ERROR"} = {}
        BY <2>2 DEF VerdictOfOutcomes, Startup!VerdictOf
      <3>2. ~observed'.transport /\ ~observed'.service
        BY <2>2, <3>1 DEF VerdictOfOutcomes
      <3>3. seen' \subseteq {"trusted", "untrusted"}
        BY <1>2, <3>1, <3>2 DEF SeenIsKept
      <3>4. PICK i \in 1 .. Len(trace') :
                /\ trace'[i].at = stable'.since
                /\ \A j \in i .. Len(trace') : trace'[j].source = stable'.source
        BY TrustedWindow
      <3>5. /\ trace' \in Seq(Samples) /\ Len(trace') > 0
            /\ trace'[Len(trace')].at = clock /\ stable'.since = stable.since
        BY <1>5, TrustedWindow
      <3>6. i \in i .. Len(trace')
        BY <3>4, <3>5
      <3>7. \A j \in i .. Len(trace') : trace'[j].source = trace'[i].source
        BY <3>4, <3>6
      <3>8. trace'[Len(trace')].at - trace'[i].at >= Target
        BY <1>5, <3>4, <3>5
      <3>9. trace'[Len(trace')].at < Absolute
        BY <1>0, <1>1, <3>5, SpotTimes
      <3>10. QED
        BY <3>1, <3>3, <3>7, <3>8, <3>9
    <2>5. QED
      BY <1>2, <1>3, <2>2, <2>3, <2>4 DEF SpotInv
  <1>6. QED
    BY <1>4, <1>5 DEF Startup!TrustedSample

\* SpotInv is inductive: StartupSpotcheck.
LEMMA SpotInvHolds == Startup!Spec => []SpotInv
  <1>1. Startup!Init => SpotInv
    <2> SUFFICES ASSUME Startup!Init PROVE SpotInv
      OBVIOUS
    <2>1. /\ step \in {"connection", "v1_connection"} /\ outcomes = {}
          /\ regulator = "UNKNOWN" /\ statusQuery = "full" /\ clock = 0 /\ budget = 0
          /\ worker = Startup!NoWorker
          /\ checks = <<>> /\ verdict = "" /\ seen = {} /\ trace = <<>>
      BY DEF Startup!Init
    <2>2. stable.source = NoSource /\ stable \in [since : Int, source : Sources \cup {NoSource}]
      <3>1. stable = [since |-> -1, source |-> NoSource]
        BY DEF Startup!Init, Startup!NoWindow
      <3>2. QED
        BY <3>1
    <2>3. observed \in [service : BOOLEAN, transport : BOOLEAN]
      BY DEF Startup!Init
    <2>4. checks \in Seq(BOOLEAN)
      <3>1. checks = <<>>
        BY <2>1
      <3>2. QED
        BY <3>1
    <2>5. clock \in 0 .. Absolute /\ budget \in 0 .. Absolute
      <3>1. clock = 0 /\ budget = 0
        BY <2>1
      <3>2. QED
        BY <3>1, SpotTimes
    <2>6. Startup!TypeOK
      BY <2>1, <2>2, <2>5, <2>3, <2>4 DEF Startup!TypeOK, Startup!Regulators
    <2>7. StepOf /\ SeenIsKept /\ VerdictOfOutcomes /\ Startup!OkIsEarned
      BY <2>1
      DEF StepOf, SeenIsKept, VerdictOfOutcomes, Startup!OkIsEarned, PhaseASteps, PhaseBSteps,
          LaterChecklistSteps
    <2>8. WindowIsTrace
      <3>1. trace = <<>>
        BY <2>1
      <3>2. QED
        BY <2>2, <3>1 DEF WindowIsTrace
    <2>9. QED
      BY <2>6, <2>7, <2>8 DEF SpotInv
  <1>2. SpotInv /\ Startup!Next => SpotInv'
    BY PhaseAKept, ChecklistKept, UnseenKept, FailedKept, DeadlineKept, SchemaKept, TrustedKept
    DEF Startup!Next, Startup!PhaseB
  <1>3. SpotInv /\ UNCHANGED Startup!vars => SpotInv'
    <2> SUFFICES ASSUME SpotInv, UNCHANGED Startup!vars PROVE SpotInv'
      OBVIOUS
    <2>1. /\ step' = step /\ outcomes' = outcomes /\ regulator' = regulator
          /\ statusQuery' = statusQuery /\ clock' = clock /\ stable' = stable
          /\ observed' = observed /\ worker' = worker /\ budget' = budget
          /\ checks' = checks /\ verdict' = verdict /\ seen' = seen /\ trace' = trace
      BY DEF Startup!vars
    <2>2. Startup!TypeOK'
      BY <2>1 DEF SpotInv, Startup!TypeOK
    <2>3. StepOf' /\ SeenIsKept' /\ VerdictOfOutcomes' /\ WindowIsTrace'
      BY <2>1 DEF SpotInv, StepOf, SeenIsKept, VerdictOfOutcomes, Startup!VerdictOf, WindowIsTrace
    <2>4. Startup!OkIsEarned'
      BY <2>1 DEF SpotInv, Startup!OkIsEarned
    <2>5. QED
      BY <2>2, <2>3, <2>4 DEF SpotInv
  <1>4. QED
    BY <1>1, <1>2, <1>3, PTL DEF Startup!Spec

\* An outcome that a run ends with is in its verdict.
LEMMA FailuresKept == SpotInv => Startup!FailuresAreKept
  <1> SUFFICES ASSUME SpotInv, step = "done", checks = <<>>
               PROVE  /\ "failed" \in seen => verdict = "DEGRADED_TRANSPORT"
                      /\ seen \cap {"schema", "unhealthy"} # {}
                            => verdict \in {"DEGRADED_TRANSPORT", "FAIL_SEMANTIC"}
                      /\ outcomes \cap {"SCHEMA_ERROR", "SEMANTIC_MISMATCH", "TRANSPORT_ERROR"} # {}
                            => verdict \in {"DEGRADED_TRANSPORT", "FAIL_SEMANTIC"}
                      /\ worker = Startup!NoWorker
    BY DEF Startup!FailuresAreKept
  <1>1. StepOf /\ SeenIsKept /\ VerdictOfOutcomes
    BY DEF SpotInv
  <1>2. worker = Startup!NoWorker
    BY <1>1 DEF StepOf
  <1>3. /\ "failed" \in seen => "TRANSPORT_ERROR" \in outcomes
        /\ "unhealthy" \in seen => "SERVICE_ERROR" \in outcomes
        /\ "schema" \in seen => "SCHEMA_ERROR" \in outcomes
    BY <1>1 DEF SeenIsKept, VerdictOfOutcomes
  <1>4. /\ "TRANSPORT_ERROR" \in outcomes => verdict = "DEGRADED_TRANSPORT"
        /\ outcomes \cap {"SCHEMA_ERROR", "SEMANTIC_MISMATCH", "SERVICE_ERROR"} # {}
              => verdict \in {"DEGRADED_TRANSPORT", "FAIL_SEMANTIC"}
    BY <1>1 DEF VerdictOfOutcomes, Startup!VerdictOf
  <1>5. QED
    BY <1>2, <1>3, <1>4

-----------------------------------------------------------------------------
(* The configuration entities *)

LEMMA CellFields ==
    ASSUME NEW kind, NEW at
    PROVE  Cell(kind, at).kind = kind /\ Cell(kind, at).at = at
  BY DEF Cell

LEMMA NoneIsNothing == None.kind = "none"
  BY DEF None, Cell

LEMMA AskedNumberFacts ==
    ASSUME NEW v \in AskedNumbers
    PROVE  /\ v.kind \in {"finite", "nan", "inf"} /\ v.at \in Int
           /\ v.kind = "finite" => v = Finite(v.at)
  BY ConfigRanges DEF AskedNumbers, Finite, Cell

\* A number that is in range is posted as it is, shown as it is, and posted
\* again when it is asked for.
LEMMA NumberSettles ==
    ASSUME NEW v \in AskedNumbers, NEW low, NEW high, InRange(v, low, high) # None
    PROVE  /\ InRange(v, low, high) = v /\ AsFloat(v) = v
           /\ v.kind = "nan" \/ (v.kind = "finite" /\ v.at \in low .. high)
  BY AskedNumberFacts DEF InRange, AsFloat

LEMMA HalfOf ==
    ASSUME NEW n \in Int
    PROVE  /\ n \div 2 \in Int
           /\ n % 2 # 0 => n = 2 * (n \div 2) + 1
  OBVIOUS

\* Rounding to whole steps stays within a range of whole steps.
LEMMA RoundedSettles ==
    ASSUME NEW v \in AskedNumbers, InRange(v, Lowest, Highest) # None, Rounded(v) # None
    PROVE  /\ v.kind = "finite" /\ Rounded(v) = Finite(Rounded(v).at)
           /\ Rounded(v).kind = "finite" /\ Rounded(v).at \in Lowest .. Highest
           /\ Rounded(v).at - v.at \in {-1, 0, 1}
           /\ Rounded(v).at % 2 = 0
  <1>1. v.kind = "finite"
    BY DEF Rounded
  <1>2. v.at \in Int /\ v.at \in Lowest .. Highest /\ v = Finite(v.at)
    BY <1>1, AskedNumberFacts, NumberSettles
  <1>3. PICK n \in {v.at, 2 * (v.at \div 2), 2 * (v.at \div 2) + 2} :
            /\ Rounded(v) = Finite(n)
            /\ n = v.at => v.at % 2 = 0
            /\ n # v.at => v.at % 2 # 0
    <2>1. CASE v.at % 2 = 0
      <3>1. Rounded(v) = v
        BY <1>1, <2>1 DEF Rounded
      <3>2. QED
        BY <1>2, <2>1, <3>1
    <2>2. CASE v.at % 2 # 0
      <3>1. \/ Rounded(v) = Finite(2 * (v.at \div 2))
            \/ Rounded(v) = Finite(2 * (v.at \div 2) + 2)
        BY <1>1, <2>2 DEF Rounded
      <3>2. 2 * (v.at \div 2) # v.at /\ 2 * (v.at \div 2) + 2 # v.at
        BY <1>2, <2>2, HalfOf
      <3>3. QED
        BY <2>2, <3>1, <3>2
    <2>3. QED
      BY <2>1, <2>2
  <1>4. n \in Int /\ n % 2 = 0 /\ n - v.at \in {-1, 0, 1} /\ n \in Lowest .. Highest
    <2> DEFINE at == v.at
    <2> HIDE DEF at
    <2>1. /\ at \in Int /\ Lowest <= at /\ at <= Highest /\ Lowest \in Int /\ Highest \in Int
          /\ Lowest % 2 = 0 /\ Highest % 2 = 0
      BY <1>2, ConfigRanges DEF at
    <2>2. /\ n \in {at, 2 * (at \div 2), 2 * (at \div 2) + 2}
          /\ n = at => at % 2 = 0
          /\ n # at => at % 2 # 0
      BY <1>3 DEF at
    <2>3. n \in Int /\ n % 2 = 0 /\ n - at \in {-1, 0, 1} /\ n \in Lowest .. Highest
      BY <2>1, <2>2
    <2>4. QED
      BY <2>3 DEF at
  <1>5. Rounded(v).kind = "finite" /\ Rounded(v).at = n
    BY <1>3, CellFields DEF Finite
  <1>6. QED
    BY <1>1, <1>3, <1>4, <1>5

LEMMA ViewFields ==
    ASSUME NEW ready, NEW state, NEW range, NEW value
    PROVE  /\ View(ready, state, range, value).shown = state
           /\ View(ready, state, range, value).bounds = range
           /\ View(ready, state, range, value).posts = value
  BY DEF View

\* Which entity each case is about
LEMMA EntityIs ==
    ASSUME NEW c
    PROVE  /\ c.entity = "boiler_number" => Entity(c) = BoilerNumber(c)
           /\ c.entity = "circuit_number" => Entity(c) = CircuitNumber(c)
           /\ c.entity \in {"system_number", "bivalence", "humidity"} => Entity(c) = SystemNumber(c)
           /\ c.entity \in {"installer_name", "installer_phone"} => Entity(c) = SystemText(c)
           /\ c.entity = "boiler_phone" => Entity(c) = BoilerText(c)
           /\ c.entity \in {"system_code", "boiler_code"} => Entity(c) = MenuCode(c)
           /\ c.entity = "maintenance_date" => Entity(c) = MaintenanceDate(c)
           /\ c.entity = "room_control" => Entity(c) = RoomTempControl(c)
  BY DEF Entity

\* A case c whose call posts something; d, after the gateway took it; and f,
\* where what is shown then is asked for.
Taken(c, d, f) ==
    /\ c.entity \in Entities /\ d.entity = c.entity /\ f.entity = c.entity
    /\ c.asked \in Asked(c.entity)
    /\ d.bound = c.bound /\ f.bound = c.bound
    /\ Entity(c).posts # None
    /\ d.value = Entity(c).posts
    /\ f.asked = Entity(d).shown

Settled(c, d, f) ==
    /\ SaysTheSame(Entity(d).shown, c.asked, c.entity)
    /\ c.entity \in Numbers =>
          \/ Entity(d).shown.at \in Entity(d).bounds.min .. Entity(d).bounds.max
          \/ Entity(d).shown.kind = "nan" /\ c.entity \notin {"bivalence", "humidity"}
    /\ Entity(f).posts = Entity(c).posts

LEMMA FieldsSettle ==
    ASSUME NEW c, NEW d, NEW f, Taken(c, d, f),
           c.entity \in {"boiler_number", "circuit_number", "system_number"}
    PROVE  Settled(c, d, f)
  <1>1. c.asked \in AskedNumbers /\ c.entity \in Numbers
    <2>1. c.entity \in Numbers /\ c.entity \notin Texts
      BY DEF Numbers, Texts
    <2>2. QED
      BY <2>1 DEF Taken, Asked
  <1>2. \A x \in {c, d, f} :
            /\ Entity(x).posts = InRange(x.asked, Lowest, Highest)
            /\ Entity(x).shown = AsFloat(x.value)
            /\ Entity(x).bounds = FieldRange
    BY EntityIs, ViewFields DEF Taken, BoilerNumber, CircuitNumber, SystemNumber, FieldRange
  <1>3. InRange(c.asked, Lowest, Highest) # None
    BY <1>2 DEF Taken
  <1>4. /\ d.value = c.asked /\ Entity(d).shown = c.asked /\ f.asked = c.asked
        /\ c.asked.kind = "nan" \/ (c.asked.kind = "finite" /\ c.asked.at \in Lowest .. Highest)
    BY <1>1, <1>2, <1>3, NumberSettles DEF Taken
  <1>5. c.asked.at - c.asked.at \in {-1, 0, 1}
    BY <1>1, AskedNumberFacts
  <1>6. FieldRange.min = Lowest /\ FieldRange.max = Highest
    BY DEF FieldRange
  <1>7. QED
    BY <1>1, <1>2, <1>4, <1>5, <1>6 DEF Settled, SaysTheSame

\* The DHW bivalence point: within the bounds the controller gives, and never
\* NaN
LEMMA BivalenceSettles ==
    ASSUME NEW c, NEW d, NEW f, Taken(c, d, f), c.entity = "bivalence"
    PROVE  Settled(c, d, f)
  <1>1. c.asked \in AskedNumbers /\ c.entity \in Numbers
    <2>1. c.entity \in Numbers /\ c.entity \notin Texts
      BY DEF Numbers, Texts
    <2>2. QED
      BY <2>1 DEF Taken, Asked
  <1>2. \A x \in {c, d, f} :
            /\ Entity(x).posts = IF x.asked.kind = "nan" THEN None
                                 ELSE InRange(x.asked, Bounds(c).min, Bounds(c).max)
            /\ Entity(x).shown = AsFloat(x.value)
            /\ Entity(x).bounds = Bounds(c)
    BY EntityIs, ViewFields DEF Taken, SystemNumber, Bounds
  <1>3. InRange(c.asked, Bounds(c).min, Bounds(c).max) # None /\ c.asked.kind # "nan"
    BY <1>2 DEF Taken
  <1>4. /\ d.value = c.asked /\ Entity(d).shown = c.asked /\ f.asked = c.asked
        /\ c.asked.at \in Bounds(c).min .. Bounds(c).max
    BY <1>1, <1>2, <1>3, NumberSettles DEF Taken
  <1>5. c.asked.at - c.asked.at \in {-1, 0, 1}
    BY <1>1, AskedNumberFacts
  <1>6. QED
    BY <1>1, <1>2, <1>4, <1>5 DEF Settled, SaysTheSame

\* The humidity point is rounded before it is posted.
LEMMA HumiditySettles ==
    ASSUME NEW c, NEW d, NEW f, Taken(c, d, f), c.entity = "humidity"
    PROVE  Settled(c, d, f)
  <1>1. c.asked \in AskedNumbers /\ c.entity \in Numbers
    <2>1. c.entity \in Numbers /\ c.entity \notin Texts
      BY DEF Numbers, Texts
    <2>2. QED
      BY <2>1 DEF Taken, Asked
  <1>2. \A x \in {c, d, f} :
            /\ Entity(x).posts = Rounded(InRange(x.asked, Lowest, Highest))
            /\ Entity(x).shown = AsFloat(x.value)
            /\ Entity(x).bounds = FieldRange
    BY EntityIs, ViewFields DEF Taken, SystemNumber, FieldRange
  <1>3. InRange(c.asked, Lowest, Highest) # None
    <2>1. Rounded(None) = None
      BY NoneIsNothing DEF Rounded
    <2>2. QED
      BY <1>2, <2>1 DEF Taken
  <1>4. InRange(c.asked, Lowest, Highest) = c.asked /\ Rounded(c.asked) # None
    BY <1>1, <1>2, <1>3, NumberSettles DEF Taken
  <1> DEFINE whole == Rounded(c.asked)
  <1>5. /\ whole = Finite(whole.at) /\ c.asked.kind = "finite" /\ whole.kind = "finite"
        /\ whole.at \in Lowest .. Highest /\ whole.at - c.asked.at \in {-1, 0, 1}
        /\ whole.at % 2 = 0
    BY <1>1, <1>3, <1>4, RoundedSettles
  <1>6. AsFloat(whole) = whole /\ InRange(whole, Lowest, Highest) = whole /\ Rounded(whole) = whole
    BY <1>5 DEF AsFloat, InRange, Rounded
  <1>7. Entity(d).shown = whole /\ Entity(f).posts = whole /\ Entity(c).posts = whole
    BY <1>2, <1>4, <1>6 DEF Taken
  <1>8. FieldRange.min = Lowest /\ FieldRange.max = Highest
    BY DEF FieldRange
  <1>9. QED
    BY <1>1, <1>2, <1>5, <1>7, <1>8 DEF Settled, SaysTheSame

\* Texts are posted as they are, or not at all.
LEMMA SystemTextsSettle ==
    ASSUME NEW c, NEW d, NEW f, Taken(c, d, f), c.entity \in {"installer_name", "installer_phone"}
    PROVE  Settled(c, d, f)
  <1> DEFINE allowed == IF c.entity = "installer_phone" THEN {"sign", "space"}
                        ELSE {"sign", "space", "letter"}
             Posts(t) == Short(WithMarks(t, allowed))
  <1>1. \A x \in {c, d, f} : Entity(x).posts = Posts(x.asked) /\ Entity(x).shown = x.value
    BY EntityIs, ViewFields DEF Taken, SystemText
  <1>2. Posts(c.asked) # None => Posts(c.asked) = c.asked
    BY DEF Short, WithMarks
  <1>3. Entity(d).shown = c.asked /\ f.asked = c.asked
    BY <1>1, <1>2 DEF Taken
  <1>4. Entity(f).posts = Entity(c).posts
    BY <1>1, <1>3
  <1>5. QED
    BY <1>3, <1>4 DEF Settled, SaysTheSame, Numbers

\* A text without marks, and what is left of it without white space
Plain(n, number) == Text(n, {}, FALSE, number)

LEMMA PlainFields ==
    ASSUME NEW n, NEW number
    PROVE  /\ Plain(n, number).kind = "text" /\ Plain(n, number).digits = n
           /\ Plain(n, number).marks = {} /\ Plain(n, number).at = number
           /\ Stripped(Plain(n, number)).digits = n /\ Stripped(Plain(n, number)).marks = {}
           /\ Stripped(Plain(n, number)).at = number
  BY DEF Plain, Text, Stripped

LEMMA PostedTexts ==
    ASSUME NEW t
    PROVE  /\ t.marks = {} /\ t.digits <= MaxLength => Digits(t) = Plain(t.digits, t.at)
           /\ t.marks = {} /\ t.digits > 0 /\ t.at <= MaxCode => Code(t) = Plain(1, t.at)
           /\ t.kind = "text" /\ t.digits > 0 => AsCode(t) = Plain(3, t.at)
  BY DEF Digits, Code, AsCode, Plain

\* Of a phone number the boiler gets the digits, of a code its number.
LEMMA BoilerTextsSettle ==
    ASSUME NEW c, NEW d, NEW f, Taken(c, d, f), c.entity = "boiler_phone"
    PROVE  Settled(c, d, f)
  <1> DEFINE t == Stripped(c.asked)
             posted == Plain(t.digits, t.at)
  <1>1. \A x \in {c, d, f} : Entity(x).posts = Digits(Stripped(x.asked)) /\ Entity(x).shown = x.value
    BY EntityIs, ViewFields DEF Taken, BoilerText
  <1>2. t.digits = c.asked.digits /\ t.at = c.asked.at
    BY DEF Taken, Asked, Numbers, Texts, AskedTexts, SomeTexts, Text, Stripped
  <1>3. t.digits <= MaxLength /\ Entity(c).posts = posted
    BY <1>1 DEF Taken, Digits, Plain
  <1>4. Entity(d).shown = posted /\ f.asked = posted
    BY <1>1, <1>3 DEF Taken
  <1>5. Digits(Stripped(posted)) = posted
    BY <1>3, PlainFields, PostedTexts
  <1>6. posted.digits = c.asked.digits /\ posted.at = c.asked.at
    BY <1>2, PlainFields
  <1>7. QED
    BY <1>1, <1>3, <1>4, <1>5, <1>6 DEF Settled, SaysTheSame, Numbers

LEMMA CodesSettle ==
    ASSUME NEW c, NEW d, NEW f, Taken(c, d, f), c.entity \in {"system_code", "boiler_code"}
    PROVE  Settled(c, d, f)
  <1> DEFINE t == Stripped(c.asked)
             posted == Plain(1, t.at)
             full == Plain(3, t.at)
  <1>1. \A x \in {c, d, f} : /\ Entity(x).posts = Code(Stripped(x.asked))
                             /\ Entity(x).shown = AsCode(x.value)
    BY EntityIs, ViewFields DEF Taken, MenuCode
  <1>2. t.at = c.asked.at
    BY DEF Taken, Asked, Numbers, Texts, AskedTexts, SomeTexts, Text, Stripped
  <1>3. t.at <= MaxCode /\ Entity(c).posts = posted
    BY <1>1 DEF Taken, Code, Plain
  <1>4. AsCode(posted) = full
    BY PlainFields, PostedTexts
  <1>5. Entity(d).shown = full /\ f.asked = full
    BY <1>1, <1>3, <1>4 DEF Taken
  <1>6. Code(Stripped(full)) = posted
    BY <1>3, PlainFields, PostedTexts
  <1>7. full.at = c.asked.at
    BY <1>2, PlainFields
  <1>8. QED
    BY <1>1, <1>3, <1>5, <1>6, <1>7 DEF Settled, SaysTheSame, Numbers

\* Dates and options
LEMMA ChoicesSettle ==
    ASSUME NEW c, NEW d, NEW f, Taken(c, d, f),
           c.entity \in {"maintenance_date", "room_control"}
    PROVE  Settled(c, d, f)
  <1>1. CASE c.entity = "maintenance_date"
    <2>1. \A x \in {c, d, f} : /\ Entity(x).posts = IF x.asked.at = 0 THEN None ELSE x.asked
                               /\ Entity(x).shown = Only("date", x.value)
      BY <1>1, EntityIs, ViewFields DEF Taken, MaintenanceDate
    <2>2. c.asked.kind = "date"
      BY <1>1, CellFields DEF Taken, Asked, Numbers, Texts
    <2>3. Entity(c).posts = c.asked /\ Entity(d).shown = c.asked /\ f.asked = c.asked
      BY <2>1, <2>2 DEF Taken, Only
    <2>4. QED
      BY <1>1, <2>1, <2>3 DEF Settled, SaysTheSame, Numbers
  <1>2. CASE c.entity = "room_control"
    <2>1. \A x \in {c, d, f} : /\ Entity(x).posts = AsOption(x.asked)
                               /\ Entity(x).shown = AsOption(x.value)
      BY <1>2, EntityIs, ViewFields DEF Taken, RoomTempControl
    <2>2. Entity(c).posts = Cell("option", c.asked.at)
      BY <2>1 DEF Taken, AsOption
    <2>3. AsOption(Cell("option", c.asked.at)) = Cell("option", c.asked.at)
      BY CellFields DEF AsOption
    <2>4. Entity(d).shown = Cell("option", c.asked.at) /\ f.asked = Cell("option", c.asked.at)
      BY <2>1, <2>2, <2>3 DEF Taken
    <2>5. QED
      BY <1>2, <2>1, <2>2, <2>3, <2>4, CellFields DEF Settled, SaysTheSame, Numbers
  <1>3. QED
    BY <1>1, <1>2

\* Whatever is asked for of whichever entity
LEMMA EverythingSettles ==
    ASSUME NEW c, NEW d, NEW f, Taken(c, d, f)
    PROVE  Settled(c, d, f)
  BY FieldsSettle, BivalenceSettles, HumiditySettles, SystemTextsSettle, BoilerTextsSettle,
     CodesSettle, ChoicesSettle
  DEF Taken, Entities, Numbers, Texts

LEMMA ConfigSettles ==
    ASSUME NEW c, IsConfigCase(c)
    PROVE  ConfigWritesSettle(c)
  <1> SUFFICES ASSUME Returns(c)
               PROVE  LET after == Entity(Took(c))
                          again == [Took(c) EXCEPT !.asked = after.shown]
                      IN /\ c.trusted /\ c.client
                         /\ SaysTheSame(after.shown, c.asked, c.entity)
                         /\ c.entity \in Numbers =>
                               \/ after.shown.at \in after.bounds.min .. after.bounds.max
                               \/ after.shown.kind = "nan" /\ c.entity \notin {"bivalence", "humidity"}
                         /\ Posted(again) = Posted(c)
    BY DEF ConfigWritesSettle
  <1> DEFINE d == Took(c)
             f == [d EXCEPT !.asked = Entity(d).shown]
  <1>1. PICK e \in Entities : \E value \in Asked(e), bound \in BoundsFor(e), gates \in Gates,
                                 answer \in {"success", "failure"} :
                c = ConfigCase(e, value, bound, gates, answer)
    BY DEF IsConfigCase
  <1>2. PICK value \in Asked(e), bound \in BoundsFor(e), gates \in Gates,
             answer \in {"success", "failure"} :
                c = ConfigCase(e, value, bound, gates, answer)
    BY <1>1
  <1>3. c = [entity |-> e, value |-> None, asked |-> value, bound |-> bound,
             success |-> gates.success, trusted |-> gates.trusted, client |-> gates.client,
             served |-> gates.served, answer |-> answer]
    BY <1>2 DEF ConfigCase
  <1>4. c.trusted /\ c.client /\ Posted(c) = Entity(c).posts /\ Entity(c).posts # None
    BY DEF Returns, Posted
  <1>5. /\ d.entity = e /\ d.bound = bound /\ d.value = Entity(c).posts
        /\ d.trusted = c.trusted /\ d.client = c.client
    BY <1>3, <1>4 DEF Took
  <1>6. /\ f.entity = e /\ f.bound = bound /\ f.asked = Entity(d).shown
        /\ f.trusted = c.trusted /\ f.client = c.client
    BY <1>3 DEF Took
  <1>7. Taken(c, d, f)
    BY <1>3, <1>4, <1>5, <1>6 DEF Taken
  <1>8. Settled(c, d, f)
    BY <1>7, EverythingSettles
  <1>9. Posted(f) = Posted(c)
    BY <1>4, <1>6, <1>8 DEF Posted, Settled
  <1>10. QED
    BY <1>4, <1>8, <1>9 DEF Settled

-----------------------------------------------------------------------------
(* Read-only entities, for lists of items of any length *)

CellKinds == {"none", "finite", "nan", "inf", "digits", "text", "flag", "object"}
Cells == {v \in [kind : CellKinds, at : Int] : v.kind = "flag" => v.at \in {0, 2}}
Items == [id : Ids, cell : Cells, cycles : Nat]

\* An entity of either spelling, over any data
AnyView ==
    [class : Views, target : {"plain", "alias"}, items : Seq(Items),
     rule : {"raw", "int", "float"}, success : BOOLEAN, interpreted : BOOLEAN,
     served : BOOLEAN, stale : SUBSET Ids, fallback : Cells]

LEMMA FirstIsFound ==
    ASSUME NEW S, S \subseteq Nat, S # {}
    PROVE  First(S) \in S /\ \A y \in S : First(S) <= y
  <1>1. PICK x \in S : \A y \in S : ~(<<y, x>> \in OpToRel(<, Nat))
    BY NatLessThanWellFounded, WFMin
  <1>2. ASSUME NEW y \in Nat, NEW n \in Nat, y < n
        PROVE  <<y, n>> \in OpToRel(<, Nat)
    BY <1>2 DEF OpToRel
  <1>3. ASSUME NEW y \in S PROVE x <= y
    <2>1. x \in Nat /\ y \in Nat
      OBVIOUS
    <2>2. ~(y < x)
      BY <1>1, <1>2, <2>1
    <2>3. QED
      BY <2>1, <2>2
  <1>4. QED
    BY <1>3 DEF First

LEMMA FirstOfOne == First({1}) = 1
  BY DEF First

LEMMA NoneIsCell == None \in Cells
  BY DEF None, Cell, Cells, CellKinds

LEMMA ViewFacts ==
    ASSUME NEW c \in AnyView
    PROVE  /\ c.items \in Seq(Items) /\ DOMAIN c.items \subseteq Nat
           /\ \A i \in DOMAIN c.items : c.items[i] \in Items
           /\ Named(c) \subseteq DOMAIN c.items /\ Same(c) \subseteq DOMAIN c.items
           /\ c.target \in {"plain", "alias"} /\ c.class \in Views
           /\ c.success \in BOOLEAN /\ c.served \in BOOLEAN
           /\ Dhw(c) \in Cells
  <1>1. c.items \in Seq(Items) /\ DOMAIN c.items = 1 .. Len(c.items) /\ Len(c.items) \in Nat
    BY DEF AnyView
  <1>2. \A i \in DOMAIN c.items : c.items[i] \in Items
    BY <1>1
  <1>3. Dhw(c) \in Cells
    <2>1. CASE c.items = <<>>
      BY <2>1, NoneIsCell DEF Dhw
    <2>2. CASE c.items # <<>>
      <3>1. c.items[1] \in Items
        BY <1>1, <2>2
      <3>2. QED
        BY <2>2, <3>1 DEF Dhw, Items
    <2>3. QED
      BY <2>1, <2>2
  <1>4. QED
    BY <1>1, <1>2, <1>3 DEF Named, Same, AnyView

\* An item under any spelling of the entity's target
LEMMA SameIsOwn ==
    ASSUME NEW c \in AnyView, NEW i \in Same(c)
    PROVE  c.items[i].id \in {"plain", "alias"}
  <1>1. c.items[i].id \in Ids /\ c.target \in {"plain", "alias"} /\ i \in DOMAIN c.items
    BY ViewFacts DEF Items
  <1>2. QED
    BY <1>1 DEF Same, Ids, Norm

LEMMA ValueIsCell ==
    ASSUME NEW c \in AnyView, NEW found, found \subseteq DOMAIN c.items
    PROVE  Value(c, found) \in Cells
  <1>1. CASE found = {}
    BY <1>1, NoneIsCell DEF Value
  <1>2. CASE found # {}
    <2>1. First(found) \in DOMAIN c.items
      BY <1>2, ViewFacts, FirstIsFound
    <2>2. c.items[First(found)] \in Items
      BY <2>1, ViewFacts
    <2>3. QED
      BY <1>2, <2>2 DEF Value, Items
  <1>3. QED
    BY <1>1, <1>2

\* The same entity over one of its items
Alone(c, i) == [c EXCEPT !.items = <<c.items[i]>>]

LEMMA AloneFacts ==
    ASSUME NEW c \in AnyView, NEW i \in DOMAIN c.items
    PROVE  /\ Alone(c, i).class = c.class /\ Alone(c, i).target = c.target
           /\ Alone(c, i).rule = c.rule
           /\ DOMAIN Alone(c, i).items = {1} /\ Alone(c, i).items[1] = c.items[i]
  <1>1. Alone(c, i).items = <<c.items[i]>>
    BY DEF Alone, AnyView
  <1>2. DOMAIN <<c.items[i]>> = {1} /\ <<c.items[i]>>[1] = c.items[i]
    OBVIOUS
  <1>3. QED
    BY <1>1, <1>2 DEF Alone, AnyView

\* The first item of the target's very name, or of any of its spellings,
\* tells the same alone.
LEMMA AloneTellsTheSame ==
    ASSUME NEW c \in AnyView, NEW i \in DOMAIN c.items
    PROVE  /\ Named(c) # {} /\ i = First(Named(c)) =>
                 /\ Named(Alone(c, i)) # {}
                 /\ Value(Alone(c, i), Named(Alone(c, i))) = Value(c, Named(c))
           /\ Named(c) = {} =>
                 /\ Named(Alone(c, i)) = {}
                 /\ Value(Alone(c, i), Named(Alone(c, i))) = Value(c, Named(c))
           /\ Same(c) # {} /\ i = First(Same(c)) =>
                 Value(Alone(c, i), Same(Alone(c, i))) = Value(c, Same(c))
  <1> DEFINE d == Alone(c, i)
  <1>0. /\ d.target = c.target /\ DOMAIN d.items = {1} /\ d.items[1] = c.items[i]
    BY AloneFacts
  <1>1. i \in Named(c) => Named(d) = {1}
    BY <1>0 DEF Named
  <1>2. i \in Same(c) => Same(d) = {1}
    BY <1>0 DEF Same
  <1>3. i \notin Named(c) => Named(d) = {}
    BY <1>0 DEF Named
  <1>4. Value(d, {1}) = c.items[i].cell
    BY <1>0, FirstOfOne DEF Value
  <1>5. Value(d, {}) = None /\ Value(c, {}) = None
    BY DEF Value
  <1>6. /\ Named(c) # {} => First(Named(c)) \in Named(c)
        /\ Same(c) # {} => First(Same(c)) \in Same(c)
    <2>1. Named(c) \subseteq Nat /\ Same(c) \subseteq Nat
      BY ViewFacts
    <2>2. QED
      BY <2>1, FirstIsFound
  <1>7. /\ Named(c) # {} => Value(c, Named(c)) = c.items[First(Named(c))].cell
        /\ Same(c) # {} => Value(c, Same(c)) = c.items[First(Same(c))].cell
    BY DEF Value
  <1> HIDE DEF d
  <1>8. QED
    BY <1>1, <1>2, <1>3, <1>4, <1>5, <1>6, <1>7 DEF d

\* Which view each class has
LEMMA ViewIs ==
    ASSUME NEW c
    PROVE  /\ c.class = "bus_address" => ViewOf(c) = BusAddressSensor(c)
           /\ c.class = "status" => ViewOf(c) = StatusSensor(c)
           /\ c.class = "eebus_admin" => ViewOf(c) = EEBusAdminSensor(c)
           /\ c.class = "boiler" => ViewOf(c) = BoilerSensor(c)
           /\ c.class = "circuit" => ViewOf(c) = CircuitSensor(c)
           /\ c.class = "system" => ViewOf(c) = SystemSensor(c)
           /\ c.class = "radio" => ViewOf(c) = RadioSensor(c)
           /\ c.class = "fm5_mode" => ViewOf(c) = FM5ModeSensor(c)
           /\ c.class = "solar" => ViewOf(c) = SolarSensor(c)
           /\ c.class = "zone" => ViewOf(c) = ZoneSensor(c)
           /\ c.class = "dhw" => ViewOf(c) = DhwStatusSensor(c)
           /\ c.class = "energy" => ViewOf(c) = EnergySensor(c)
           /\ c.class = "adapter" => ViewOf(c) = AdapterInfoSensor(c)
           /\ c.class = "boiler_hours" => ViewOf(c) = BoilerHoursSensor(c)
           /\ c.class = "schedule_flag" => ViewOf(c) = ScheduleBinarySensor(c)
           /\ c.class = "dhw_flag" => ViewOf(c) = DhwOverrun(c)
           /\ c.class = "boiler_flag" => ViewOf(c) = BoilerFlag(c)
           /\ c.class = "circuit_flag" => ViewOf(c) = CircuitPumpFlag(c)
           /\ c.class = "radio_flag" => ViewOf(c) = RadioConnected(c)
           /\ c.class = "zone_flag" => ViewOf(c) = ZoneValveFlag(c)
           /\ c.class = "thermostat" => ViewOf(c) = Thermostat(c)
           /\ c.class = "water_heater" => ViewOf(c) = WaterHeater(c)
  BY DEF ViewOf

LEMMA ShowsFields ==
    ASSUME NEW ready, NEW state
    PROVE  Shows(ready, state).available = ready /\ Shows(ready, state).shown = state
  BY DEF Shows

LEMMA ZoneShowsFields ==
    ASSUME NEW c, NEW state
    PROVE  /\ ZoneShows(c, state).available = ZoneAvailable(c)
           /\ ZoneShows(c, state).shown = state
           /\ ZoneShows(c, state).marked = ZoneMarked(c)
           /\ DhwShows(c, state).available = (c.success /\ c.items # <<>>)
           /\ DhwShows(c, state).shown = state
  BY DEF ZoneShows, DhwShows

LEMMA ThermostatFields ==
    ASSUME NEW c
    PROVE  /\ Thermostat(c).available = (ZoneAvailable(c) /\ c.served)
           /\ Thermostat(c).shown = Temperature(Value(c, Same(c)))
           /\ Thermostat(c).marked = ZoneMarked(c)
           /\ WaterHeater(c).available = (c.success /\ c.items # <<>> /\ c.served)
  BY DEF Thermostat, WaterHeater, ZoneShows, DhwShows

LEMMA ReadyShows ==
    ASSUME NEW c \in AnyView, NEW state, NEW v, v.available,
           \/ v = Shows(c.success, state) \/ v = Shows(c.success /\ c.served, state)
           \/ v = ZoneShows(c, state) \/ v = DhwShows(c, state)
    PROVE  c.success
  <1>1. c.success \in BOOLEAN /\ c.served \in BOOLEAN
    BY ViewFacts
  <1>2. CASE v = Shows(c.success, state)
    BY <1>1, <1>2 DEF Shows
  <1>3. CASE v = Shows(c.success /\ c.served, state)
    BY <1>1, <1>3 DEF Shows
  <1>4. CASE v = ZoneShows(c, state)
    BY <1>1, <1>4 DEF ZoneShows, ZoneAvailable
  <1>5. CASE v = DhwShows(c, state)
    BY <1>1, <1>5 DEF DhwShows
  <1>6. QED
    BY <1>2, <1>3, <1>4, <1>5

\* After a failed poll only what looks at the payload alone is available.
LEMMA ReadyAfterSuccess ==
    ASSUME NEW c \in AnyView, c.class \in Views \ (Interpreted \cup FromRadio), ViewOf(c).available
    PROVE  c.success
  <1>1. CASE c.class \in {"bus_address", "status", "boiler", "circuit", "system", "energy",
                          "adapter", "boiler_hours", "boiler_flag", "circuit_flag", "fm5_mode"}
    <2>1. \E state : ViewOf(c) = Shows(c.success, state) \/ ViewOf(c) = Shows(c.success /\ c.served, state)
      BY <1>1, ViewIs DEF BusAddressSensor, StatusSensor, BoilerSensor, CircuitSensor, SystemSensor,
         EnergySensor, AdapterInfoSensor, BoilerHoursSensor, BoilerFlag, CircuitPumpFlag,
         FM5ModeSensor
    <2>2. QED
      BY <2>1, ReadyShows
  <1>2. CASE c.class \in {"zone", "schedule_flag", "zone_flag"}
    <2>1. \E state : ViewOf(c) = ZoneShows(c, state)
      BY <1>2, ViewIs DEF ZoneSensor, ScheduleBinarySensor, ZoneValveFlag
    <2>2. QED
      BY <2>1, ReadyShows
  <1>3. CASE c.class \in {"dhw", "dhw_flag"}
    <2>1. \E state : ViewOf(c) = DhwShows(c, state)
      BY <1>3, ViewIs DEF DhwStatusSensor, DhwOverrun
    <2>2. QED
      BY <2>1, ReadyShows
  <1>4. CASE c.class \in {"thermostat", "water_heater"}
    BY <1>4, ViewIs, ThermostatFields DEF ZoneAvailable
  <1>5. CASE c.class = "eebus_admin"
    BY <1>5, ViewIs DEF EEBusAdminSensor
  <1>6. QED
    BY <1>1, <1>2, <1>3, <1>4, <1>5
    DEF Views, ZoneClasses, Interpreted, FromRadio, Controls

\* A zone's view: its own item, alone, shows the same.
LEMMA ZoneTellsItsOwn ==
    ASSUME NEW c \in AnyView, c.class \in ZoneClasses, ViewOf(c).available
    PROVE  /\ \E i \in DOMAIN c.items : /\ c.items[i].id \in {"plain", "alias"}
                                        /\ ViewOf(Alone(c, i)).shown = ViewOf(c).shown
           /\ ViewOf(c).marked = (c.target \in c.stale)
           /\ c.class \in {"zone", "zone_flag"} /\ Named(c) # {} =>
                 \E i \in Named(c) : ViewOf(Alone(c, i)).shown = ViewOf(c).shown
  <1> DEFINE Shown(x) ==
                 CASE x.class = "zone" -> IF x.rule = "float" THEN AsFloat(Value(x, Named(x)))
                                          ELSE Value(x, Named(x))
                   [] x.class = "schedule_flag" ->
                        IF Named(x) = {} THEN None
                        ELSE Cell("flag", IF Value(x, Named(x)).kind = "text" THEN 2 ELSE 0)
                   [] x.class = "zone_flag" -> Moving(Value(x, Named(x)))
                   [] OTHER -> Temperature(Value(x, Same(x)))
  <1>1. ASSUME NEW x, x.class \in ZoneClasses
        PROVE  /\ ViewOf(x).shown = Shown(x) /\ ViewOf(x).marked = ZoneMarked(x)
               /\ ViewOf(x).available => ZoneAvailable(x)
    <2>1. CASE x.class = "thermostat"
      BY <2>1, ViewIs, ThermostatFields
    <2>2. CASE x.class # "thermostat"
      <3>1. ViewOf(x) = ZoneShows(x, Shown(x))
        BY <1>1, <2>2, ViewIs DEF ZoneClasses, ZoneSensor, ScheduleBinarySensor, ZoneValveFlag
      <3>2. QED
        BY <3>1, ZoneShowsFields
    <2>3. QED
      BY <2>1, <2>2
  <1>2. c.success /\ Same(c) # {}
    BY <1>1 DEF ZoneAvailable
  <1>3. ViewOf(c).marked = (c.target \in c.stale)
    BY <1>1, <1>2 DEF ZoneMarked
  <1>4. First(Same(c)) \in Same(c) /\ (Named(c) # {} => First(Named(c)) \in Named(c))
    BY <1>2, ViewFacts, FirstIsFound
  <1>5. \A i \in DOMAIN c.items : Alone(c, i).class = c.class /\ Alone(c, i).rule = c.rule
    BY AloneFacts
  <1>6. ASSUME NEW i \in DOMAIN c.items, Named(c) # {} => i = First(Named(c)),
               c.class \in {"zone", "schedule_flag", "zone_flag"}
        PROVE  ViewOf(Alone(c, i)).shown = ViewOf(c).shown
    <2> DEFINE d == Alone(c, i)
    <2>1. Value(d, Named(d)) = Value(c, Named(c)) /\ (Named(d) = {} <=> Named(c) = {})
      BY <1>6, AloneTellsTheSame
    <2>2. d.class = c.class /\ d.rule = c.rule
      BY <1>5
    <2>3. ViewOf(d).shown = Shown(d) /\ ViewOf(c).shown = Shown(c)
      BY <1>1, <2>2
    <2> HIDE DEF d
    <2>4. QED
      BY <1>6, <2>1, <2>2, <2>3 DEF d
  <1>7. ASSUME NEW i \in DOMAIN c.items, i = First(Same(c)), c.class = "thermostat"
        PROVE  ViewOf(Alone(c, i)).shown = ViewOf(c).shown
    <2> DEFINE d == Alone(c, i)
    <2>1. Value(d, Same(d)) = Value(c, Same(c))
      BY <1>2, <1>7, AloneTellsTheSame
    <2>2. d.class = c.class /\ d.rule = c.rule
      BY <1>5
    <2>3. ViewOf(d).shown = Shown(d) /\ ViewOf(c).shown = Shown(c)
      BY <1>1, <2>2
    <2> HIDE DEF d
    <2>4. QED
      BY <1>7, <2>1, <2>2, <2>3 DEF d
  <1>8. \A i \in Named(c) : i \in DOMAIN c.items /\ c.items[i].id \in {"plain", "alias"}
    BY ViewFacts DEF Named
  <1>9. \A i \in Same(c) : i \in DOMAIN c.items /\ c.items[i].id \in {"plain", "alias"}
    BY ViewFacts, SameIsOwn
  <1>10. CASE c.class = "thermostat"
    BY <1>3, <1>4, <1>7, <1>9, <1>10
  <1>11. CASE c.class \in {"zone", "schedule_flag", "zone_flag"} /\ Named(c) # {}
    BY <1>3, <1>4, <1>6, <1>8, <1>11
  <1>12. CASE c.class \in {"zone", "schedule_flag", "zone_flag"} /\ Named(c) = {}
    BY <1>3, <1>4, <1>6, <1>9, <1>12
  <1>13. QED
    BY <1>10, <1>11, <1>12 DEF ZoneClasses

\* A slot that is available was seen within the grace.
LEMMA SlotWithinGrace ==
    ASSUME NEW c \in AnyView, c.class \in FromRadio, ViewOf(c).available
    PROVE  \E i \in DOMAIN c.items : c.items[i].id \in {"plain", "alias"} /\ c.items[i].cycles < Grace
  <1>1. SlotAvailable(c)
    BY ViewIs, ShowsFields DEF FromRadio, RadioSensor, RadioConnected
  <1>2. Same(c) # {} /\ c.items[First(Same(c))].cycles < Grace
    BY <1>1 DEF SlotAvailable
  <1>3. First(Same(c)) \in Same(c) /\ Same(c) \subseteq DOMAIN c.items
    BY <1>2, ViewFacts, FirstIsFound
  <1>4. QED
    BY <1>2, <1>3, SameIsOwn

\* Scalars are never objects.
LEMMA ScalarsShown ==
    ASSUME NEW c \in AnyView, c.class \in {"circuit", "system", "radio", "fm5_mode", "solar"}
    PROVE  ViewOf(c).shown.kind # "object"
  <1>1. ViewOf(c).shown \in {AsInt(Dhw(c)), Scalar(Dhw(c)), AsInt(Value(c, Same(c))),
                             Scalar(Value(c, Same(c)))}
        \/ ViewOf(c).shown.kind = "text"
    BY ViewIs, ShowsFields, CellFields
    DEF CircuitSensor, SystemSensor, RadioSensor, FM5ModeSensor, SolarSensor
  <1>2. ASSUME NEW v PROVE AsInt(v).kind # "object" /\ Scalar(v).kind # "object"
    <2>1. AsInt(v) = None \/ \E n : AsInt(v) = Finite(n)
      BY DEF AsInt
    <2>2. AsInt(v).kind # "object"
      BY <2>1, CellFields DEF None, Finite
    <2>3. Scalar(v).kind # "object"
      BY NoneIsNothing DEF Scalar
    <2>4. QED
      BY <2>2, <2>3
  <1>3. QED
    BY <1>1, <1>2

LEMMA ViewsAreHonest ==
    ASSUME NEW c \in AnyView
    PROVE  ViewsHonest(c)
  <1> DEFINE v == ViewOf(c)
             Own == {i \in DOMAIN c.items : c.items[i].id = c.target}
  <1>1. v.available /\ ~c.success => c.class \in Interpreted \cup FromRadio
    BY ReadyAfterSuccess, ViewFacts
  <1>2. v.available /\ c.class \in FromRadio =>
          \E i \in DOMAIN c.items : c.items[i].id \in {"plain", "alias"} /\ c.items[i].cycles < Grace
    BY SlotWithinGrace
  <1>3. v.available /\ c.class \in Controls => c.served
    BY ViewIs, ThermostatFields DEF Controls
  <1>4. Own = Named(c)
    BY DEF Named
  <1>5. v.available /\ c.class \in ZoneClasses =>
           /\ \E i \in DOMAIN c.items : /\ c.items[i].id \in {"plain", "alias"}
                                        /\ ViewOf(Alone(c, i)).shown = v.shown
           /\ v.marked = (c.target \in c.stale)
    BY ZoneTellsItsOwn
  <1>6. v.available /\ c.class \in {"zone", "zone_flag"} /\ Own # {} =>
           \E i \in Own : ViewOf(Alone(c, i)).shown = v.shown
    BY <1>4, ZoneTellsItsOwn DEF ZoneClasses
  <1>7. c.class \in {"circuit", "system", "radio", "fm5_mode", "solar"} => v.shown.kind # "object"
    BY ScalarsShown
  <1> HIDE DEF v, Own
  <1>8. QED
    BY <1>1, <1>2, <1>3, <1>5, <1>6, <1>7 DEF ViewsHonest, Alone, v, Own

\* The run's cases are such views.
LEMMA ViewCasesAreViews ==
    ASSUME NEW c, IsViewCase(c)
    PROVE  c \in AnyView
  <1>0. PICK class \in Views :
            \E items \in ItemLists(class),
               rule \in {"raw", "int", "float"}, ok \in BOOLEAN, other \in BOOLEAN,
               stale \in {{}, {"plain"}} :
            c = [class |-> class, target |-> "plain", items |-> items, rule |-> rule,
                 success |-> ok, interpreted |-> other, served |-> other,
                 stale |-> stale, fallback |-> Cell("text", 0)]
    BY DEF IsViewCase
  <1>1. PICK items \in ItemLists(class), rule \in {"raw", "int", "float"},
             ok \in BOOLEAN, other \in BOOLEAN, stale \in {{}, {"plain"}} :
            c = [class |-> class, target |-> "plain", items |-> items, rule |-> rule,
                 success |-> ok, interpreted |-> other, served |-> other,
                 stale |-> stale, fallback |-> Cell("text", 0)]
    BY <1>0
  <1>2. ViewCells \subseteq Cells /\ Cell("text", 0) \in Cells /\ Finite(1) \in Cells
    BY DEF ViewCells, Cells, CellKinds, None, Finite, Cell
  <1>3. \A id \in Ids, cell \in Cells, n \in Nat : Item(id, cell, n) \in Items
    BY DEF Item, Items
  <1>4. items \in Seq(Items)
    <2>1. CASE items = <<>>
      BY <2>1
    <2>2. CASE items \in {<<Item(id, cell, n)>> : id \in Ids, cell \in ViewCells,
                              n \in IF class \in FromRadio THEN 0 .. Grace ELSE {0}}
      <3>1. PICK id \in Ids, cell \in ViewCells, n \in IF class \in FromRadio THEN 0 .. Grace ELSE {0} :
                items = <<Item(id, cell, n)>>
        BY <2>2
      <3>2. n \in Nat
        BY GraceAssumption
      <3>3. Item(id, cell, n) \in Items
        BY <1>2, <1>3, <3>2
      <3>4. QED
        BY <3>1, <3>3
    <2>3. CASE items \in {<<Item(i, Finite(1), 0), Item(j, cell, 0)>> :
                              i \in Ids, j \in {"plain", "other"}, cell \in ViewCells}
      <3>1. PICK i \in Ids, j \in {"plain", "other"}, cell \in ViewCells :
                items = <<Item(i, Finite(1), 0), Item(j, cell, 0)>>
        BY <2>3
      <3>2. Item(i, Finite(1), 0) \in Items /\ Item(j, cell, 0) \in Items
        BY <1>2, <1>3 DEF Ids
      <3>3. QED
        BY <3>1, <3>2
    <2>4. QED
      BY <1>1, <2>1, <2>2, <2>3 DEF ItemLists
  <1>5. stale \in SUBSET Ids
    BY DEF Ids
  <1>6. QED
    BY <1>1, <1>2, <1>4, <1>5 DEF AnyView

LEMMA HasFirst ==
    ASSUME NEW S, NEW s \in Seq(S), s # <<>>
    PROVE  /\ DOMAIN s \subseteq Nat \ {0} /\ 1 \in DOMAIN s
           /\ \A i \in DOMAIN s : s[i] \in S
  <1>1. DOMAIN s = 1 .. Len(s) /\ Len(s) \in Nat
    OBVIOUS
  <1>2. Len(s) # 0
    OBVIOUS
  <1>3. QED
    BY <1>1, <1>2

\* What becomes of a slot
LEMMA EventHours ==
    ASSUME NEW slot, slot.start \in Nat, slot.end \in Nat, NEW hour \in 0 .. 23,
           NEW start, NEW end,
           start = IF slot.start > 23 THEN 23 ELSE slot.start,
           end = IF slot.end > 24 THEN 24 ELSE slot.end
    PROVE  /\ start \in Nat /\ end \in Nat
           /\ slot.start <= hour /\ hour < slot.end =>
                 start = slot.start /\ start < end /\ start <= hour /\ hour < end
  OBVIOUS

\* The calendar, for any list of slots and any hour
AnyDay(c) ==
    c.hour \in 0 .. 23 /\ c.slots \in Seq([start : Nat, end : Nat]) /\ c.slots # <<>>

LEMMA CalendarIsHonest ==
    ASSUME NEW c, AnyDay(c)
    PROVE  CalendarHonest(c)
  <1> DEFINE event == [i \in DOMAIN c.slots |-> MakeEvent(c.slots[i])]
             now == {i \in DOMAIN c.slots : /\ Lasts(event[i])
                                            /\ event[i].start <= c.hour /\ c.hour < event[i].end}
             e == ActiveEvent(c.slots, c.hour)
  <1>1. 1 \in DOMAIN c.slots /\ DOMAIN c.slots \subseteq Nat \ {0}
    BY HasFirst DEF AnyDay
  <1>2. \A i \in DOMAIN c.slots : c.slots[i].start \in Nat /\ c.slots[i].end \in Nat
    <2>1. \A i \in DOMAIN c.slots : c.slots[i] \in [start : Nat, end : Nat]
      BY HasFirst DEF AnyDay
    <2>2. QED
      BY <2>1
  <1>3. e = IF now = {} THEN [start |-> 0, end |-> 0] ELSE event[First(now)]
    BY DEF ActiveEvent
  <1>4. \A i \in DOMAIN c.slots :
            /\ event[i].start = IF c.slots[i].start > 23 THEN 23 ELSE c.slots[i].start
            /\ event[i].end = IF c.slots[i].end > 24 THEN 24 ELSE c.slots[i].end
    BY DEF MakeEvent, SlotEnd
  <1>5. \A i \in DOMAIN c.slots :
            i \in now <=> /\ event[i].start < event[i].end
                          /\ event[i].start <= c.hour /\ c.hour < event[i].end
    BY DEF Lasts
  <1>6. now \subseteq DOMAIN c.slots
    OBVIOUS
  <1> HIDE DEF event, now, e
  <1>7. ASSUME NEW i \in DOMAIN c.slots
         PROVE  /\ event[i].start \in Nat /\ event[i].end \in Nat
                /\ c.slots[i].start <= c.hour /\ c.hour < c.slots[i].end =>
                      i \in now /\ event[i].start = c.slots[i].start
    <2> DEFINE slot == c.slots[i]
               start == event[i].start
               end == event[i].end
    <2>1. slot.start \in Nat /\ slot.end \in Nat
      BY <1>2
    <2>2. /\ start = IF slot.start > 23 THEN 23 ELSE slot.start
          /\ end = IF slot.end > 24 THEN 24 ELSE slot.end
      BY <1>4
    <2>3. i \in now <=> start < end /\ start <= c.hour /\ c.hour < end
      BY <1>5
    <2>4. c.hour \in 0 .. 23
      BY DEF AnyDay
    <2> HIDE DEF slot, start, end
    <2>5. /\ start \in Nat /\ end \in Nat
          /\ slot.start <= c.hour /\ c.hour < slot.end =>
                start = slot.start /\ start < end /\ start <= c.hour /\ c.hour < end
      BY <2>1, <2>2, <2>4, EventHours
    <2>6. QED
      BY <2>3, <2>5 DEF slot, start, end
  <1>8. now # {} => First(now) \in now /\ \A y \in now : First(now) <= y
    BY <1>1, <1>6, FirstIsFound
  <1>9. CASE now = {}
    <2>1. e.start = 0 /\ e.end = 0
      BY <1>3, <1>9
    <2>2. ASSUME NEW i \in DOMAIN c.slots
          PROVE  ~(c.slots[i].start <= c.hour /\ c.hour < c.slots[i].end)
      BY <1>9, <1>7
    <2>3. QED
      BY <1>1, <2>1, <2>2 DEF CalendarHonest, e
  <1>10. CASE now # {}
    <2> DEFINE first == First(now)
    <2>1. first \in now /\ first \in DOMAIN c.slots /\ e = event[first]
      BY <1>3, <1>6, <1>8, <1>10
    <2>2. e.start <= c.hour /\ c.hour < e.end /\ e.end \in Nat /\ c.hour \in 0 .. 23
      <3> HIDE DEF first
      <3>1. QED
        BY <1>5, <1>7, <2>1 DEF AnyDay
    <2>3. e.end > 0
      BY <2>2
    <2>4. c.slots[1].start <= c.hour /\ c.hour < c.slots[1].end => e.start = c.slots[1].start
      <3> SUFFICES ASSUME c.slots[1].start <= c.hour, c.hour < c.slots[1].end
                   PROVE  e.start = c.slots[1].start
        OBVIOUS
      <3>1. 1 \in now /\ event[1].start = c.slots[1].start
        BY <1>1, <1>7
      <3>2. first = 1
        BY <1>1, <1>8, <2>1, <3>1
      <3>3. QED
        BY <2>1, <3>1, <3>2
    <2>5. QED
      BY <2>2, <2>3, <2>4 DEF CalendarHonest, e
  <1>11. QED
    BY <1>9, <1>10

-----------------------------------------------------------------------------
(* All of them in one specification *)

\* Every behaviour of MCSpec is one of the coordinators and one of the check.
LEMMA BehavesAsBoth == MCSpec => Spec /\ Startup!Spec
  <1>1. MCInit => Init /\ Startup!Init
    BY DEF MCInit, QueriesAtRest, StartupAtRest
  <1>2. [MCNext]_allVars => [Next]_vars /\ [Startup!Next]_(Startup!vars)
    BY DEF MCNext, allVars, startup, Startup!vars
  <1>3. QED
    BY <1>1, <1>2, PTL DEF MCSpec, Spec, Startup!Spec

\* A spot check that says OK earned it, whatever failed is in its verdict, and
\* no worker outlives the run (smoke_profile.py); the types of both.
THEOREM VerdictsAreEarned == MCSpec => []VerdictEarned
  <1>1. QueryInv /\ SpotInv => VerdictEarned
    BY TypesSplit, FailuresKept DEF QueryInv, SpotInv, VerdictEarned
  <1>2. QED
    BY <1>1, BehavesAsBoth, QueryInvHolds, SpotInvHolds, PTL

\* A configuration entity's call that returns was posted under a trusted
\* admission, and then the entity shows, within its bounds, what was asked for
\* (number.py, text.py, date.py and select.py), for any range.
THEOREM ConfigurationsSettle == MCSpec => []WritesSettle
  <1> DEFINE Inv == subject = "config" => IsConfigCase(case)
  <1>1. MCInit => Inv
    BY DEF MCInit
  <1>2. Inv /\ [MCNext]_allVars => Inv'
    BY DEF MCNext, allVars, IsConfigCase
  <1>3. Inv => WritesSettle
    BY ConfigSettles DEF WritesSettle
  <1>4. QED
    BY <1>1, <1>2, <1>3, PTL DEF MCSpec

\* An entity is available only when it may be, and an available one shows its
\* own target's data, whatever else the payload holds (sensor.py,
\* binary_sensor.py, climate.py, water_heater.py); the
\* calendar shows the first event that holds the hour (calendar.py).
THEOREM EntitiesShowTheirTargets == MCSpec => []ShowsItsTarget
  <1> DEFINE Inv == /\ subject = "views" => IsViewCase(case)
                    /\ subject = "calendar" => IsCalendarCase(case)
  <1>1. MCInit => Inv
    BY DEF MCInit
  <1>2. Inv /\ [MCNext]_allVars => Inv'
    BY DEF MCNext, allVars, IsViewCase, IsCalendarCase
  <1>3. ASSUME IsCalendarCase(case) PROVE CalendarHonest(case)
    <2>1. PICK one \in Slots, two \in Slots, hour \in {0, 5, 6, 22, 23} :
              case = [class |-> "calendar", slots |-> <<one, two>>, hour |-> hour]
      BY <1>3 DEF IsCalendarCase
    <2>2. one \in [start : Nat, end : Nat] /\ two \in [start : Nat, end : Nat]
      BY DEF Slots
    <2>3. case.hour \in 0 .. 23 /\ case.slots = <<one, two>>
      BY <2>1
    <2>4. case.slots \in Seq([start : Nat, end : Nat]) /\ case.slots # <<>>
      BY <2>2, <2>3
    <2>5. QED
      BY <2>3, <2>4, CalendarIsHonest DEF AnyDay
  <1>4. Inv => ShowsItsTarget
    BY <1>3, ViewCasesAreViews, ViewsAreHonest DEF ShowsItsTarget
  <1>5. QED
    BY <1>1, <1>2, <1>4, PTL DEF MCSpec
=============================================================================
