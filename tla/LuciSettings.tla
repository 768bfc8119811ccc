---------------------------- MODULE LuciSettings ----------------------------
(***************************************************************************)
(* The settings cards of the LuCI page: the seven tunnel switches, gateway *)
(* independence, mixnet tuning, custom DNS, ad blocking and the inbound    *)
(* exemptions.  Every save is a bridge process of its own, which talks to  *)
(* the daemon in several calls and stops at the first that fails; the      *)
(* processes of two saves interleave, and their replies come in any order. *)
(***************************************************************************)
EXTENDS Naturals, Sequences, SequencesExt, FiniteSets

CONSTANTS
    SetSlots,    \* bridge processes in flight
    SetSaves,    \* bound: changes the user makes
    SetFaults,   \* bound: daemon calls that fail
    Touched,     \* bound: the switches the user moves
    Resolvers,   \* DNS servers the user may add
    MAX_CUSTOM_DNS_SERVERS,   \* DNS servers the daemon takes
    Ports        \* ports the user may exempt

VARIABLES
    form,        \* what the cards show
    saves,       \* the bridge processes in flight
    conf,        \* the daemon's configuration
    edits        \* saves and faults so far

setVars == <<form, saves, conf, edits>>

\* tunnel_set works through the switches in this order.
TunnelOrder == <<"killswitch", "legacy_split_tunnel", "two_hop", "ipv6", "circumvention",
                 "stealth_api", "always_on">>
TunnelSwitches == ToSet(TunnelOrder)
Independence == {"enabled", "notifications"}
MixnetKnobs == {"disable_poisson", "disable_cover", "packet_delay"}

NoSave == [kind |-> "idle", todo |-> <<>>, res |-> "none", key |-> "", on |-> FALSE, at |-> 0,
         seen |-> {}, sole |-> TRUE]
ToDaemon(op, val) == [op |-> op, val |-> val]

-----------------------------------------------------------------------------
\* The bridge: the calls a method makes, in the order it makes them.

tunnel_set(payload) == [i \in 1..Len(TunnelOrder) |-> ToDaemon(TunnelOrder[i], payload[TunnelOrder[i]])]

\* Only the key that changed is sent, so the other is left alone.
independence_set(key, on) == <<ToDaemon(key, on)>>

\* ReadBack, change what was given, write back the whole.
mixnet_set(given) == <<ToDaemon("get_config", 0), ToDaemon("set_mixnet_traffic_config", given)>>

\* Enabled first, then the whole list of servers.
dns_set(on, servers) == <<ToDaemon("set_enable_custom_dns", on), ToDaemon("set_custom_dns", servers)>>

ad_block_set(on) == <<ToDaemon("set_enable_ad_blocking", on)>>

inbound_add(port) == <<ToDaemon("get_inbound_exemptions", 0), ToDaemon("push", port)>>
inbound_del(port) == <<ToDaemon("get_inbound_exemptions", 0), ToDaemon("retain", port)>>

\* The daemon takes the first servers of a list that is too long.
FirstDns(servers) ==
    IF Len(servers) > MAX_CUSTOM_DNS_SERVERS THEN SubSeq(servers, 1, MAX_CUSTOM_DNS_SERVERS) ELSE servers

\* What a call leaves of the daemon's configuration.
ConfAfter(call, item) ==
    CASE item.op \in TunnelSwitches -> [conf EXCEPT !.sw[item.op] = item.val]
      [] item.op \in Independence -> [conf EXCEPT !.ind[item.op] = item.val]
      [] item.op = "set_mixnet_traffic_config" ->
           [conf EXCEPT !.mixnet = [k \in MixnetKnobs |->
               IF k \in DOMAIN item.val THEN item.val[k] ELSE call.seen[k]]]
      [] item.op = "set_enable_custom_dns" -> [conf EXCEPT !.dnsOn = item.val]
      [] item.op = "set_custom_dns" -> [conf EXCEPT !.dns = FirstDns(item.val)]
      [] item.op = "set_enable_ad_blocking" -> [conf EXCEPT !.ad = item.val]
      [] item.op = "push" -> [conf EXCEPT !.inbound = call.seen \cup {item.val}]
      [] item.op = "retain" -> [conf EXCEPT !.inbound = call.seen \ {item.val}]
      [] OTHER -> conf

ReadBack(call, item) == CASE item.op = "get_config" -> conf.mixnet
                      [] item.op = "get_inbound_exemptions" -> conf.inbound
                      [] OTHER -> call.seen

\* An exemption that is there already, or is not there to remove.
BridgeRefuses(call, item) ==
    \/ item.op = "push" /\ item.val \in call.seen
    \/ item.op = "retain" /\ item.val \notin call.seen

\* One call to the daemon.
BridgeStep(c) ==
    LET call == saves[c]
        item == Head(call.todo)
    IN
    /\ call.todo # <<>>
    /\ IF BridgeRefuses(call, item)
       THEN saves' = [saves EXCEPT ![c].todo = <<>>, ![c].res = "fail"] /\ UNCHANGED conf
       ELSE /\ conf' = ConfAfter(call, item)
            /\ saves' = [saves EXCEPT ![c].todo = Tail(@), ![c].seen = ReadBack(call, item),
                                      ![c].res = IF Len(call.todo) = 1 THEN "ok" ELSE @]
    /\ UNCHANGED <<form, edits>>

\* A call that fails ends the process: the daemon was out of reach, or it
\* applied the setting and could not save it.
BridgeFails(c) ==
    LET call == saves[c] IN
    /\ call.todo # <<>> /\ edits.faults < SetFaults
    /\ saves' = [saves EXCEPT ![c].todo = <<>>, ![c].res = "fail"]
    /\ edits' = [edits EXCEPT !.faults = @ + 1]
    /\ conf' \in {conf} \cup (IF BridgeRefuses(call, Head(call.todo)) THEN {}
                              ELSE {ConfAfter(call, Head(call.todo))})
    /\ UNCHANGED form

-----------------------------------------------------------------------------
\* The cards.

FreeSlots == {c \in SetSlots: saves[c].kind = "idle" /\ \A d \in SetSlots: d < c => saves[d].kind # "idle"}
StartSave(kind, todo, key, on, at) ==
    /\ edits.saves < SetSaves
    /\ edits' = [edits EXCEPT !.saves = @ + 1]
    /\ \E c \in FreeSlots:
         LET others == {d \in SetSlots: saves[d].kind = kind} IN
         saves' = [d \in SetSlots |->
            IF d = c THEN [kind |-> kind, todo |-> todo, res |-> "none", key |-> key, on |-> on,
                           at |-> at, seen |-> {}, sole |-> others = {}]
            ELSE [saves[d] EXCEPT !.sole = @ /\ d \notin others]]
    /\ UNCHANGED conf

\* Legacy split tunnelling on forces the kill-switch off.
setTunnelSwitch(key, on) ==
    IF key = "legacy_split_tunnel" /\ on
    THEN [form.sw EXCEPT ![key] = on, !["killswitch"] = FALSE]
    ELSE [form.sw EXCEPT ![key] = on]

tunnelSetPayload(sw) == [sw EXCEPT !["killswitch"] = @ /\ ~sw["legacy_split_tunnel"]]

\* The kill-switch row is greyed, and off, while legacy is on.
syncProtection == [disabled |-> form.sw["legacy_split_tunnel"],
                   checked |-> form.sw["killswitch"] /\ ~form.sw["legacy_split_tunnel"]]

\* One switch is moved and the whole set is sent.
setSwitch(key) ==
    LET sw == setTunnelSwitch(key, ~form.sw[key]) IN
    /\ key = "killswitch" => ~syncProtection.disabled
    /\ form' = [form EXCEPT !.sw = sw]
    /\ StartSave("tunnel", tunnel_set(tunnelSetPayload(sw)), key, ~form.sw[key], 0)

independenceSaver(key) ==
    /\ form' = [form EXCEPT !.ind[key] = ~@]
    /\ StartSave("independence", independence_set(key, ~form.ind[key]), key, ~form.ind[key], 0)

\* The two switches are always sent, a delay only when its field is filled.
saveMixnet(given) ==
    /\ form' = [form EXCEPT !.mixnet = given]
    /\ StartSave("mixnet", mixnet_set(given), "", FALSE, 0)

persist(servers, on, key, at) == StartSave("dns", dns_set(on, servers), key, on, at)

\* The button waits for the reply, the Enter key does not.
addServer(ip) ==
    /\ ip \notin ToSet(form.dns)
    /\ form' = [form EXCEPT !.dns = Append(@, ip)]
    /\ persist(Append(form.dns, ip), form.dnsOn, "add", 0)

\* Only a server that has been drawn has a button to press.
deleteServer(i) ==
    /\ form.dns[i] \in form.rows
    /\ form' = [form EXCEPT !.dns = RemoveAt(@, i)]
    /\ persist(RemoveAt(form.dns, i), form.dnsOn, form.dns[i], i)

dnsToggle == /\ form' = [form EXCEPT !.dnsOn = ~@]
             /\ persist(form.dns, ~form.dnsOn, "toggle", 0)

adblockToggle == /\ form' = [form EXCEPT !.ad = ~@]
                 /\ StartSave("adblock", ad_block_set(~form.ad), "", ~form.ad, 0)

\* The list changes when the reply is in.
addExemption(port) ==
    /\ port \notin form.inbound
    /\ StartSave("inbound_add", inbound_add(port), port, FALSE, 0)
    /\ UNCHANGED form

deleteExemption(port) ==
    /\ port \in form.inbound
    /\ StartSave("inbound_del", inbound_del(port), port, FALSE, 0)
    /\ UNCHANGED form

-----------------------------------------------------------------------------
\* The replies.

SaveDone(c, kind) == /\ saves[c].kind = kind /\ saves[c].res # "none"
                 /\ saves' = [saves EXCEPT ![c] = NoSave]
                 /\ UNCHANGED <<conf, edits>>
Accepted(c) == saves[c].res = "ok"

\* A failed save leaves the switch where the user put it.
TunnelSaved(c) == /\ SaveDone(c, "tunnel")
                  /\ form' = [form EXCEPT !.ok["switches"] = Accepted(c), !.sole["switches"] = saves[c].sole]

\* A failed save turns the switch back to the opposite of what was clicked.
saver(c) ==
    \/ /\ SaveDone(c, "independence")
       /\ form' = [form EXCEPT !.ind[saves[c].key] = IF Accepted(c) THEN @ ELSE ~saves[c].on]
    \/ /\ SaveDone(c, "adblock")
       /\ form' = [form EXCEPT !.ad = IF Accepted(c) THEN saves[c].on ELSE ~saves[c].on]

MixnetSaved(c) == SaveDone(c, "mixnet") /\ UNCHANGED form

\* A failed add takes the last server off the list; a failed delete puts the
\* server back where it was; a failed toggle is turned back.
DnsSaved(c) ==
    LET call == saves[c] IN
    /\ SaveDone(c, "dns")
    /\ form' =
         IF Accepted(c)
         THEN [form EXCEPT !.ok["dns"] = TRUE, !.sole["dns"] = call.sole,
                           !.rows = IF call.key = "toggle" THEN @ ELSE ToSet(form.dns)]
         ELSE [form EXCEPT
                 !.ok["dns"] = FALSE,
                 !.dnsOn = IF call.key = "toggle" THEN ~call.on ELSE @,
                 !.dns = CASE call.key = "add" -> IF @ = <<>> THEN @ ELSE Front(@)
                           [] call.key = "toggle" -> @
                           [] OTHER -> IF call.at > Len(@) THEN Append(@, call.key)
                                       ELSE InsertAt(@, call.at, call.key)]

InboundSaved(c) ==
    \/ /\ SaveDone(c, "inbound_add")
       /\ form' = [form EXCEPT !.inbound = IF Accepted(c) THEN @ \cup {saves[c].key} ELSE @]
    \/ /\ SaveDone(c, "inbound_del")
       /\ form' = [form EXCEPT !.inbound = IF Accepted(c) THEN @ \ {saves[c].key} ELSE @]

-----------------------------------------------------------------------------
\* The page loaded from the init batch, or from one the daemon did not answer:
\* then the kill-switch reads on, everything else off, and the lists empty.

tunnel_flags_json == conf.sw
dns_json == [enabled |-> conf.dnsOn, servers |-> conf.dns]
exemptions_json == conf.inbound
init_batch == [sw |-> tunnel_flags_json, dns |-> dns_json, inbound |-> exemptions_json, ad |-> conf.ad]
insert_degraded_config_members ==
    [sw |-> [s \in TunnelSwitches |-> s = "killswitch"], dns |-> [enabled |-> FALSE, servers |-> <<>>],
     inbound |-> {}, ad |-> FALSE]

FormOf(loaded) ==
    [sw |-> loaded.sw, ind |-> conf.ind, mixnet |-> [k \in {} |-> 0], dns |-> loaded.dns.servers,
     dnsOn |-> loaded.dns.enabled, inbound |-> loaded.inbound, ad |-> loaded.ad,
     rows |-> ToSet(loaded.dns.servers),
     ok |-> [g \in {"switches", "dns"} |-> FALSE],
     sole |-> [g \in {"switches", "dns"} |-> FALSE]]

SettingsInit ==
    /\ conf = [sw |-> [s \in TunnelSwitches |-> s \in {"killswitch", "always_on"}],
               ind |-> [k \in Independence |-> TRUE],
               mixnet |-> [k \in MixnetKnobs |-> 0],
               dnsOn |-> FALSE, dns |-> <<>>, inbound |-> {}, ad |-> FALSE]
    /\ \E loaded \in {init_batch, insert_degraded_config_members}: form = FormOf(loaded)
    /\ saves = [c \in SetSlots |-> NoSave]
    /\ edits = [saves |-> 0, faults |-> 0]

SettingsNext ==
    \/ \E key \in Touched: setSwitch(key)
    \/ \E key \in Independence: independenceSaver(key)
    \/ \E delay \in {{}, {"packet_delay"}}, on \in {0, 1}:
         saveMixnet([k \in {"disable_poisson", "disable_cover"} \cup delay |-> on])
    \/ \E ip \in Resolvers: addServer(ip)
    \/ \E i \in 1..Len(form.dns): deleteServer(i)
    \/ dnsToggle \/ adblockToggle
    \/ \E port \in Ports: addExemption(port) \/ deleteExemption(port)
    \/ \E c \in SetSlots: \/ BridgeStep(c) \/ BridgeFails(c)
                          \/ TunnelSaved(c) \/ saver(c) \/ MixnetSaved(c) \/ DnsSaved(c) \/ InboundSaved(c)

SettingsSpec == SettingsInit /\ [][SettingsNext]_setVars

-----------------------------------------------------------------------------
\* Properties.

\* The cards and the configuration hold only values the code can put there.
SettingsTypeOK ==
    /\ form.sw \in [TunnelSwitches -> BOOLEAN] /\ conf.sw \in [TunnelSwitches -> BOOLEAN]
    /\ ToSet(form.dns) \subseteq Resolvers /\ ToSet(conf.dns) \subseteq Resolvers
    /\ Len(conf.dns) <= MAX_CUSTOM_DNS_SERVERS
    /\ form.inbound \subseteq Ports /\ conf.inbound \subseteq Ports

NothingSaving == \A c \in SetSlots: saves[c].kind = "idle"

\* "Every switch change sends the whole set, so the daemon config never drifts
\* from what the page shows" (store.js tunnelSetPayload).  It does drift while
\* saves cross; but a save that overlapped no other brings the daemon in step
\* with the switches, whatever failed or crossed before it and even when the
\* page was loaded without an answer (flows/tunnel.js: "the next change
\* re-sends the lot").
SwitchesHeal ==
    NothingSaving /\ form.ok["switches"] /\ form.sole["switches"] => conf.sw = tunnelSetPayload(form.sw)

\* The same of the DNS card, whose every change sends its switch and its list
\* (cards/dns.js persist), after the roll-backs of the saves that failed, one
\* of which may take off the list what another put there.
DnsHeals ==
    NothingSaving /\ form.ok["dns"] /\ form.sole["dns"]
        => conf.dns = FirstDns(form.dns) /\ conf.dnsOn = form.dnsOn

=============================================================================
