---------------------------- MODULE EntryIdentity ----------------------------
(***************************************************************************)
(* Which config entry stands for which gateway: the set-up asks the        *)
(* gateway for its instance GUID and binds, rebinds or gives up its entry  *)
(* (entry_setup.py, __init__.py, identity.py); a config flow that finds a  *)
(* gateway repairs an entry or creates one (config_flow.py).  Set-ups of   *)
(* several entries and a flow run on one event loop and interleave at      *)
(* their requests, any of which may time out.                              *)
(***************************************************************************)
EXTENDS Integers, FiniteSets, FiniteSetsExt

CONSTANTS Entries,   \* entry ids, in the order of _config_entry_sort_key
          Guids, None,
          Hosts,     \* endpoints
          Fallback,  \* entry -> hosts tried after its own
          MaxChanges \* bound: gateways moved, entries disabled by the user

IdentityConstants ==
    /\ Entries \subseteq Nat /\ None \notin Guids \cup Hosts \cup Entries
    /\ Fallback \in [Entries -> SUBSET Hosts] /\ MaxChanges \in Nat

VARIABLES
    stored,    \* config entries that Home Assistant holds
    enabled,   \* entries the user has not disabled
    guid,      \* entry -> configured instance GUID
    host,      \* entry -> configured endpoint
    options,   \* entry -> options that are set, <<option, entry that set it>>
    live,      \* endpoint -> GUID of the gateway there, or None
    setup,     \* entry -> its set-up
    refused,   \* refused entry whose removal is scheduled -> the gateway it found
    flow,      \* the config flow
    changes,
    lost,      \* history: the options that were handed to an entry that was itself
               \* refused, and those of an entry that a flow replaced
    strayed    \* history: entries that found another gateway than theirs at
               \* another endpoint than their own

config == <<stored, enabled, guid, host, options>>
vars == <<config, live, setup, refused, flow, changes, lost, strayed>>

-----------------------------------------------------------------------------
Removing == {e \in Entries : refused[e] # None}

Off == [at |-> "off"]
Loaded == [at |-> "loaded"]
Idle == [at |-> "idle"]

\* What the user has set in an entry: an option that only this entry has, and
\* one that every entry has
Own(e) == {<<e, e>>, <<None, e>>}
Names(set) == {o[1] : o \in set}

\* An endpoint that verify_gateway_identity may settle on, whichever of the
\* hosts before it time out; the entry's own is the one it had at the start
Reached(e) == {h \in {setup[e].host} \cup Fallback[e] : live[h] # None}

\* The next entry that a search for the gateway g asks: of those it has not
\* come to yet, the first that is configured for g now
Asked(rest, g) == {d \in rest : d \in enabled /\ guid[d] = g}

Bind(e, g, h) == guid' = [guid EXCEPT ![e] = g] /\ host' = [host EXCEPT ![e] = h]

Ends(e, how) == setup' = [setup EXCEPT ![e] = how]

Changes == changes < MaxChanges /\ changes' = changes + 1

Init ==
    /\ stored \in SUBSET Entries \ {{}} /\ enabled = stored
    /\ guid \in [Entries -> Guids \cup {None}] /\ host \in [Entries -> Hosts]
    /\ options = [e \in Entries |-> IF e \in stored THEN Own(e) ELSE {}]
    /\ live \in [Hosts -> Guids \cup {None}]
    /\ setup = [e \in Entries |-> Off]
    /\ refused = [e \in Entries |-> None] /\ flow = Idle /\ changes = 0
    /\ lost = {} /\ strayed = {}
    \* entries that are not stored yet
    /\ \A e \in Entries \ stored :
          guid[e] = None /\ host[e] = CHOOSE h \in Hosts : TRUE

-----------------------------------------------------------------------------
(* The set-up of an entry *)

StartSetup(e) ==
    /\ e \in (stored \cap enabled) \ Removing /\ setup[e] = Off
    /\ Ends(e, [at |-> "verifying", own |-> guid[e], host |-> host[e]])
    /\ UNCHANGED <<config, live, refused, flow, changes, lost, strayed>>

\* An entry that could not be verified is set up as it is; the GUID that it
\* had at the start is written again
Unverified(e) ==
    /\ setup[e].at = "verifying"
    /\ guid' = [guid EXCEPT ![e] = IF setup[e].own = None THEN guid[e] ELSE setup[e].own]
    /\ Ends(e, Loaded)
    /\ UNCHANGED <<stored, enabled, host, options, live, refused, flow, changes, lost, strayed>>

\* An entry from before instance GUIDs takes the one it is shown
Migrates(e) ==
    /\ setup[e].at = "verifying" /\ setup[e].own = None
    /\ \E h \in Reached(e) : Bind(e, live[h], h)
    /\ Ends(e, Loaded)
    /\ UNCHANGED <<stored, enabled, options, live, refused, flow, changes, lost, strayed>>

\* The other entries listed now are searched for an owner of what was found
Verified(e) ==
    /\ setup[e].at = "verifying" /\ setup[e].own # None
    /\ \E h \in Reached(e) :
          /\ Ends(e, [at |-> "searching", own |-> setup[e].own, guid |-> live[h],
                      host |-> h, rest |-> stored \ {e}, asked |-> None, via |-> None,
                      best |-> None])
          /\ strayed' = strayed \cup {d \in {e} : h # setup[e].host /\ live[h] # setup[e].own}
    /\ UNCHANGED <<config, live, refused, flow, changes, lost>>

Pending(e) == Asked(setup[e].rest, setup[e].guid)

\* It is asked at the endpoint that it has now
Ask(e) ==
    /\ setup[e].at = "searching" /\ setup[e].asked = None /\ Pending(e) # {}
    /\ LET d == Min(Pending(e))
       IN  Ends(e, [setup[e] EXCEPT !.asked = d, !.via = host[d], !.rest = {r \in @ : r > d}])
    /\ UNCHANGED <<config, live, refused, flow, changes, lost, strayed>>

Better(best, d) == IF best = None \/ d < best THEN d ELSE best

\* The entry asked proves to own the gateway, or it does not in time
Answer(e) ==
    /\ setup[e].at = "searching" /\ setup[e].asked # None
    /\ \E proves \in {FALSE} \cup {live[setup[e].via] = setup[e].guid} :
          Ends(e, [setup[e] EXCEPT !.asked = None, !.via = None,
                        !.best = IF proves THEN Better(@, setup[e].asked) ELSE @])
    /\ UNCHANGED <<config, live, refused, flow, changes, lost, strayed>>

Searched(e) == setup[e].at = "searching" /\ setup[e].asked = None /\ Pending(e) = {}

\* Mutant: any owner, also one that gives way to this entry
GivesWayToAny(e) == setup[e].best # None

\* To the owner of another gateway than its own, or to an earlier entry
GivesWay(e) ==
    /\ setup[e].best # None
    /\ setup[e].own # setup[e].guid \/ setup[e].best < e

\* What set has and the options over do not set
Besides(set, over) == {o \in set : o[1] \notin Names(over)}

\* Mutant: of two values for an option, the duplicate's is kept
MergedOver(owner, e) ==
    [options EXCEPT ![owner] = options[e] \cup Besides(options[owner], options[e])]

\* _merge_duplicate_config_entry_options: of two values the owner's is kept
Merged(owner, e) ==
    [options EXCEPT ![owner] = options[owner] \cup Besides(options[e], options[owner])]

\* refuse_duplicate_setup; Home Assistant does not update an entry that it has
\* removed, and the set-up fails
Refuse(e) ==
    /\ Searched(e) /\ GivesWay(e)
    /\ IF setup[e].best \in stored \/ Merged(setup[e].best, e) = options
       THEN /\ options' = Merged(setup[e].best, e)
            /\ refused' = [refused EXCEPT ![e] = setup[e].guid]
            /\ lost' = lost \cup IF setup[e].best \in stored \ Removing THEN {} ELSE Names(options[e])
       ELSE UNCHANGED <<options, refused, lost>>
    /\ Ends(e, Off)
    /\ UNCHANGED <<stored, enabled, guid, host, live, flow, changes, strayed>>

\* The entry is bound to the gateway it found, at the endpoint it found
Keep(e) ==
    /\ Searched(e) /\ ~GivesWay(e)
    /\ Bind(e, setup[e].guid, setup[e].host)
    /\ Ends(e, Loaded)
    /\ UNCHANGED <<stored, enabled, options, live, refused, flow, changes, lost, strayed>>

Unload(e) ==
    /\ setup[e] = Loaded
    /\ Ends(e, Off)
    /\ UNCHANGED <<config, live, refused, flow, changes, lost, strayed>>

Remove(e) ==
    /\ e \in Removing /\ setup[e] = Off
    /\ stored' = stored \ {e} /\ refused' = [refused EXCEPT ![e] = None]
    /\ UNCHANGED <<enabled, guid, host, options, live, setup, flow, changes, lost, strayed>>

-----------------------------------------------------------------------------
(* A config flow that has found the gateway at an endpoint *)

FlowEnds == flow' = Idle

Configured(g) == {e \in stored : guid[e] = g}

Find(h) ==
    /\ flow = Idle /\ live[h] # None
    /\ LET g == live[h]
       IN  IF Configured(g) # {}
           THEN IF host[Min(Configured(g))] = h THEN FlowEnds
                ELSE flow' = [at |-> "known", guid |-> g, host |-> h, asked |-> Min(Configured(g)),
                              via |-> host[Min(Configured(g))]]
           ELSE flow' = [at |-> "unknown", guid |-> g, host |-> h, rest |-> stored,
                         asked |-> None, via |-> None]
    /\ UNCHANGED <<config, live, setup, refused, changes, lost, strayed>>

\* async_reload, of an entry that is set up
Reloads(e) == Ends(e, IF setup[e] = Loaded THEN Off ELSE setup[e])

\* The entry known by that GUID: it still proves its own endpoint, or moves
FlowMoves ==
    /\ flow.at = "known" /\ FlowEnds
    /\ \/ /\ live[flow.via] = flow.guid
          /\ UNCHANGED <<guid, host, setup, changes>>
       \/ /\ Changes
          /\ IF flow.asked \in stored
             THEN Bind(flow.asked, flow.guid, flow.host) /\ Reloads(flow.asked)
             ELSE UNCHANGED <<guid, host, setup>>
    /\ UNCHANGED <<stored, enabled, options, live, refused, lost, strayed>>

\* The next entry whose endpoint may be that gateway's: one that is not known
\* by the GUID when it is looked at
FlowAsks == {d \in flow.rest : guid[d] # flow.guid}

FlowTries ==
    /\ flow.at = "unknown" /\ flow.asked = None /\ FlowAsks # {}
    /\ LET d == Min(FlowAsks)
       IN  flow' = [flow EXCEPT !.asked = d, !.via = host[d], !.rest = {r \in @ : r > d}]
    /\ UNCHANGED <<config, live, setup, refused, changes, lost, strayed>>

\* It does not prove to be that gateway's in time, or it becomes its entry
FlowAdopts ==
    /\ flow.at = "unknown" /\ flow.asked # None
    /\ \/ /\ flow' = [flow EXCEPT !.asked = None, !.via = None]
          /\ UNCHANGED <<guid, host, setup, changes>>
       \/ /\ live[flow.via] = flow.guid /\ FlowEnds /\ Changes
          /\ IF flow.asked \in stored
             THEN Bind(flow.asked, flow.guid, flow.via) /\ Reloads(flow.asked)
             ELSE UNCHANGED <<guid, host, setup>>
    /\ UNCHANGED <<stored, enabled, options, live, refused, lost, strayed>>

\* A new entry; Home Assistant removes one that has got the GUID meanwhile
FlowCreates ==
    /\ flow.at = "unknown" /\ flow.asked = None /\ FlowAsks = {} /\ FlowEnds /\ Changes
    /\ \E e \in Entries :
          /\ \A d \in stored : e > d
          /\ setup[e] = Off /\ options[e] = {}
          /\ stored' = (stored \ Configured(flow.guid)) \cup {e}
          /\ Bind(e, flow.guid, flow.host)
          /\ options' = [options EXCEPT ![e] = Own(e)]
          /\ enabled' = enabled \cup {e}
    /\ setup' = [d \in Entries |-> IF d \in Configured(flow.guid) THEN Off ELSE setup[d]]
    /\ refused' = [d \in Entries |-> IF d \in Configured(flow.guid) THEN None ELSE refused[d]]
    /\ lost' = lost \cup UNION {Names(options[d]) : d \in Configured(flow.guid)}
    /\ UNCHANGED <<live, strayed>>

-----------------------------------------------------------------------------
(* The surroundings *)

\* A gateway appears, disappears or is replaced
GatewayMoves ==
    /\ Changes
    /\ \E h \in Hosts, g \in Guids \cup {None} : live[h] # g /\ live' = [live EXCEPT ![h] = g]
    /\ UNCHANGED <<config, setup, refused, flow, lost, strayed>>

Disable(e) ==
    /\ Changes
    /\ e \in stored \cap enabled /\ setup[e] \in {Off, Loaded}
    /\ enabled' = enabled \ {e} /\ Ends(e, Off)
    /\ UNCHANGED <<stored, guid, host, options, live, refused, flow, lost, strayed>>

SetUp(e) ==
    \/ StartSetup(e) \/ Unverified(e) \/ Migrates(e) \/ Verified(e) \/ Ask(e) \/ Answer(e)
    \/ Refuse(e) \/ Keep(e) \/ Unload(e) \/ Remove(e)

Next ==
    \/ \E e \in Entries : SetUp(e) \/ Disable(e)
    \/ \E h \in Hosts : Find(h)
    \/ FlowMoves \/ FlowTries \/ FlowAdopts \/ FlowCreates
    \/ GatewayMoves

Spec == Init /\ [][Next]_vars

-----------------------------------------------------------------------------
(* Properties *)

Held == UNION {options[e] : e \in stored}

(* An option that was set stays set: a duplicate that is removed leaves    *)
(* what only it had to the entry that it gave way to, unless that one was  *)
(* refused as well or replaced by a config flow.  No value that an entry   *)
(* has is ever overwritten by a duplicate's (__init__.py:653-685,          *)
(* entry_setup.py:279-305).                                                *)
OptionsSurvive ==
    [][/\ Names(Held) \ Names(Held') \subseteq lost'
       /\ \A e \in stored \cap stored' : options[e] \subseteq options'[e]]_vars

(* Set-ups never give way to each other until nobody is left: while        *)
(* gateways stay where they are, an entry is refused only for one that is  *)
(* configured with the gateway's endpoint and is not refused itself,       *)
(* whichever requests time out, unless an entry whose own endpoint timed   *)
(* out found another gateway at one of its other endpoints                 *)
(* (entry_setup.py:404-450, identity.py:151-190).                          *)
RefusedHaveOwner ==
    (changes = 0 /\ strayed = {}) =>
        \A e \in Removing : \E o \in stored \ Removing : live[host[o]] = refused[e]
=============================================================================
