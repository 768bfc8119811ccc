--------------------------- MODULE FirewallRules ----------------------------
(***************************************************************************)
(* What the kill-switch's rules do to a packet: policy.rs compiles a       *)
(* policy to a backend-neutral rule set, render_iptables.rs (fw3) and      *)
(* render_nft.rs (fw4) print it, boot_rules.rs holds the block that stands *)
(* in before the first policy.  Rules are records whose matches are a      *)
(* function of the fields that are set; a packet is judged by the first    *)
(* rule of its chain that matches.  The state is the router's settings,    *)
(* the remembered uplink probe, the applied policy and one packet with     *)
(* what each backend says of it.                                           *)
(***************************************************************************)
EXTENDS Integers, Sequences, FiniteSets, SequencesExt

CONSTANTS
    UciConfigs,     \* names of the firewall configurations the user may have
    RulePolicies,   \* policies as records: kind, tunnel, lan, exempt, dns
    RuleChanges     \* how often the settings may change

VARIABLE rules

rulesVars == <<rules>>

TUNNEL == "0x14d"
EXEMPT == "0x14e"

(***************************************************************************)
(* The uplink: `uci show firewall` and `ubus call network.interface dump`. *)
(***************************************************************************)
Zone(name, snat, nets) == [type |-> "zone", name |-> name, masq |-> snat, networks |-> nets, src |-> "", dest |-> ""]
Forwarding(src, dest) == [type |-> "forwarding", name |-> "", masq |-> FALSE, networks |-> <<>>, src |-> src, dest |-> dest]

NymSections == <<Zone("nym", TRUE, <<"tun">>), Forwarding("lan", "nym")>>

\* The configurations the runs try: stock, a guest zone that masquerades and
\* forwards, one that masquerades and does not, and a second uplink.
Uci(name) ==
    LET stock == <<Zone("lan", FALSE, <<"lan">>), Zone("wan", TRUE, <<"wan">>), Forwarding("lan", "wan")>> \o NymSections IN
    CASE name = "stock" -> stock
      [] name = "guest" -> stock \o <<Zone("guest", TRUE, <<"guest">>), Forwarding("guest", "wan")>>
      [] name = "island" -> stock \o <<Zone("guest", TRUE, <<"guest">>)>>
      [] name = "dual" -> stock \o <<Zone("wanb", TRUE, <<"wanb">>), Forwarding("lan", "wanb")>>
      [] name = "broken" -> <<>>

\* The networks of the uplink zones: named wan or masquerading, but neither
\* ours nor a zone that forwards into one of them.
wan_zone_members(sections) ==
    LET zones == {s \in Range(sections) : s.type = "zone"}
        masq_zones == {z.name : z \in {y \in zones : y.masq /\ y.name # "nym"}}
        clients == {s.src : s \in {t \in Range(sections) :
                       t.type = "forwarding" /\ (t.dest \in {"wan", "nym"} \cup masq_zones)}}
    IN  UNION {Range(z.networks) : z \in {y \in zones :
                   y.name # "nym" /\ (y.name = "wan" \/ (y.masq /\ y.name \notin clients))}}

\* Members that are up resolve to their l3_device, which has the same name here.
resolve_wan_devices(name) == wan_zone_members(Uci(name))

ZoneOf(name, dev) == {z.name : z \in {y \in Range(Uci(name)) : y.type = "zone" /\ dev \in Range(y.networks)}}

\* What the framework's own zones forward.
ZonesForward(name, iif, oif) ==
    \E s \in Range(Uci(name)) : s.type = "forwarding" /\ s.src \in ZoneOf(name, iif) /\ s.dest \in ZoneOf(name, oif)

(***************************************************************************)
(* rules.rs: a rule, and the chains of a rule set.                         *)
(***************************************************************************)
Rule(family, verdict, matches) == [family |-> family, verdict |-> verdict, m |-> matches]
accept(family, matches) == Rule(family, "accept", matches)
Everything == <<>>
Dns(proto) == [proto |-> proto, dport |-> 53]

RuleSet(in, out, onward) == [input |-> in, output |-> out, forward |-> onward]
NoRulesHere == RuleSet(<<>>, <<>>, <<>>)
a \odot b == RuleSet(a.input \o b.input, a.output \o b.output, a.forward \o b.forward)
Out(s) == RuleSet(<<>>, s, <<>>)
Fwd(s) == RuleSet(<<>>, <<>>, s)

\* The rules of each device of a set.
Devices == <<"wan", "wanb", "guest", "lan", "tun">>
ForEach(S, Op(_)) ==
    LET devs == SelectSeq(Devices, LAMBDA d : d \in S) IN FlattenSeq([i \in DOMAIN devs |-> Op(devs[i])])

(***************************************************************************)
(* policy.rs: one operator per function that pushes rules.                 *)
(***************************************************************************)
LanNets == {"private", "pihole"}
Multicast == {"mcast"}
is_private_dns(server) == server = "pihole"

DhcpRules ==
    <<accept(4, [proto |-> "udp", sport |-> 68, dport |-> 67]), accept(4, [proto |-> "udp", sport |-> 67, dport |-> 68]),
      accept(6, [proto |-> "udp", sport |-> 546, dport |-> 547]), accept(6, [proto |-> "udp", sport |-> 547, dport |-> 546])>>

\* What mwan3 pings to learn whether an uplink works.
get_mwan3_track_ips == {"track"}

base_rules ==
    RuleSet(<<accept(0, [iif |-> "lo"])>>,
            <<accept(0, [oif |-> "lo"])>> \o DhcpRules
              \o <<accept(6, [proto |-> "icmpv6", icmp |-> "solicit"]),
                   accept(4, [proto |-> "icmp", icmp |-> "echo", daddr |-> get_mwan3_track_ips])>>,
            <<>>)

exemption_filter_accepts(exempt) ==
    LET marked == <<accept(0, [mark |-> EXEMPT])>> IN
    IF exempt THEN RuleSet(marked, marked, <<>>) ELSE NoRulesHere

bypass_mark_forward_accept == Fwd(<<accept(0, [mark |-> EXEMPT])>>)

tunnel_interfaces(policy) == IF policy.tunnel THEN {"tun"} ELSE {}

\* Whatever leaves through an uplink is never inbound; other arrivals from
\* outside are the zones' to judge.
untrusted_ingress_returns(wan, tunnels) ==
    Fwd(ForEach(wan \cup tunnels, LAMBDA d : ForEach(wan, LAMBDA w : <<Rule(0, "reject", [iif |-> d, oif |-> w])>>))
        \o ForEach(wan \cup tunnels, LAMBDA d : <<Rule(0, "return", [iif |-> d])>>))

allow_endpoint(clients) ==
    LET to == [proto |-> "udp", daddr |-> {"peer"}, dport |-> 443] IN
    Out(<<accept(4, IF clients = "root" THEN to @@ [skuid |-> 0] ELSE to)>>)

DnsPairs == <<<<"udp", 53>>, <<"tcp", 53>>, <<"tcp", 853>>, <<"tcp", 443>>>>

DnsAccepts(server, pairs, extra) ==
    [i \in DOMAIN pairs |-> accept(4, [proto |-> pairs[i][1], daddr |-> {server}, dport |-> pairs[i][2]] @@ extra)]

\* Faulty variant: any route will do.
private_dns_device_routed(wan, tunnels, route) == IF wan = {} \/ route \in tunnels THEN "none" ELSE route

\* The device a private resolver is pinned to, if it is neither an uplink nor
\* the tunnel; "none" where the zones or the route are not known.
private_dns_device(wan, tunnels, route) ==
    IF wan = {} \/ route = "none" \/ route \in wan \/ route \in tunnels THEN "none" ELSE route

allow_private_dns_server(server, wan, tunnels, route) ==
    LET dev == private_dns_device(wan, tunnels, route) IN
    IF ~is_private_dns(server) \/ dev = "none" THEN <<>>
    ELSE <<RuleSet(<<>>, DnsAccepts(server, DnsPairs, [oif |-> dev]),
                   DnsAccepts(server, SubSeq(DnsPairs, 1, 2), [oif |-> dev]))>>

allow_dns_server_inner(server, iface, clients) ==
    RuleSet(<<>>,
            DnsAccepts(server, DnsPairs, (IF iface = "any" THEN Everything ELSE [oif |-> iface])
                                       @@ (IF clients = "daemon" THEN [skuid |-> 0] ELSE Everything)),
            IF clients = "lan" /\ iface = "any" THEN DnsAccepts(server, SubSeq(DnsPairs, 1, 2), Everything) ELSE <<>>)

allow_tunnel(dev) == RuleSet(<<>>, <<accept(0, [oif |-> dev])>>, <<accept(0, [oif |-> dev])>>)

cve_2019_14899_protection(dev) == RuleSet(<<Rule(4, "drop", [iif_not |-> dev, daddr |-> {"tunip"}])>>, <<>>, <<>>)

block_dns ==
    LET s == <<Rule(0, "reject", Dns("udp")), Rule(0, "reject", Dns("tcp"))>> IN RuleSet(<<>>, s, s)

ntp_escape_hatch == Out(<<accept(0, [proto |-> "udp", dport |-> 123, rate |-> "ntp"])>>)

dns_escape_hatch ==
    Out(<<accept(0, Dns("udp") @@ [rate |-> "dns", skuid |-> 0]), accept(0, Dns("tcp") @@ [rate |-> "dns", skuid |-> 0])>>)

probe_escape_hatch ==
    Out(<<accept(4, [proto |-> "icmp", icmp |-> "echo", mark |-> TUNNEL, rate |-> "probe"]),
          accept(6, [proto |-> "icmpv6", icmp |-> "echo", mark |-> TUNNEL, rate |-> "probe"])>>)

allow_lan_traffic(lan) ==
    IF ~lan THEN NoRulesHere
    ELSE RuleSet(<<>>,
                 <<accept(4, [daddr |-> LanNets]), accept(6, [daddr |-> LanNets]),
                   accept(4, [daddr |-> Multicast]), accept(6, [daddr |-> Multicast])>>,
                 <<Rule(4, "return", [daddr |-> LanNets]), Rule(6, "return", [daddr |-> LanNets])>>)

final_reject == RuleSet(<<>>, <<Rule(0, "reject", Everything)>>, <<Rule(0, "reject", Everything)>>)

\* A private resolver that cannot be pinned falls back to the state's own rule.
DnsRules(policy, wan, route) ==
    LET tunnels == tunnel_interfaces(policy)
        pinned(d) == allow_private_dns_server(d, wan, tunnels, route)
        one(d) ==
            IF pinned(d) # <<>> THEN pinned(d)[1]
            ELSE IF policy.kind # "connected" THEN allow_dns_server_inner(d, "any", "daemon")
            ELSE IF is_private_dns(d) THEN allow_dns_server_inner(d, "tun", "lan")
            ELSE allow_dns_server_inner(d, "any", "lan")
        pick(d) == IF d \in policy.dns THEN one(d) ELSE NoRulesHere
    IN  pick("pihole") \odot pick("quad9")

compile_with(policy, wan, route) ==
    LET tunnels == tunnel_interfaces(policy)
        endpoints == allow_endpoint(IF policy.kind = "connected" THEN "all" ELSE "root")
        tunnelDns == IF policy.kind = "connected" THEN allow_dns_server_inner("resolver", "tun", "lan")
                     ELSE NoRulesHere
        tunnel == IF tunnels = {} THEN NoRulesHere
                  ELSE allow_tunnel("tun") \odot (IF policy.kind = "connected" /\ policy.lan
                                                 THEN cve_2019_14899_protection("tun") ELSE NoRulesHere)
        hatch(h) == IF policy.kind = "connected" THEN NoRulesHere ELSE h
    IN  base_rules \odot untrusted_ingress_returns(wan, tunnels) \odot bypass_mark_forward_accept
          \odot endpoints \odot tunnelDns \odot DnsRules(policy, wan, route) \odot tunnel
          \odot exemption_filter_accepts(policy.exempt) \odot hatch(dns_escape_hatch) \odot block_dns
          \odot hatch(ntp_escape_hatch) \odot probe_escape_hatch \odot allow_lan_traffic(policy.lan) \odot final_reject

\* One set rule per uplink and exempt port, between two restores that only a
\* flow carrying the exempt mark takes.
exemption_mangle(policy, wan) ==
    LET again == Rule(0, "restore", [ct_mark |-> EXEMPT])
        set(d) == <<Rule(0, "set", [iif |-> d, proto |-> "tcp", dport |-> 22, ct_new |-> TRUE])>>
    IN  IF ~policy.exempt \/ wan = {} THEN [prerouting |-> <<>>, output |-> <<>>]
        ELSE [prerouting |-> <<again>> \o ForEach(wan, set) \o <<again>>, output |-> <<again>>]

without_skuid_rules(rs) ==
    LET keep(r) == "skuid" \notin DOMAIN r.m IN
    RuleSet(SelectSeq(rs.input, keep), SelectSeq(rs.output, keep), SelectSeq(rs.forward, keep))

without_mangle_rules == [prerouting |-> <<>>, output |-> <<>>]

(***************************************************************************)
(* The renderers, as the tests they print for a rule, and the kernel's     *)
(* reading of them.  A packet's dport, icmp type and so on are its own.    *)
(***************************************************************************)

\* nft: the family qualifier only where no address or ICMP type implies it;
\* ports only under a protocol that has them.
render_rule_nft(r) ==
    LET implied == {"daddr", "icmp"} \cap DOMAIN r.m # {}
        ported == "proto" \in DOMAIN r.m /\ r.m.proto \in {"tcp", "udp"}
        fields == DOMAIN r.m \ (IF ported THEN {} ELSE {"sport", "dport", "proto"})
    IN  {<<k, r.m[k]>> : k \in fields \ {"daddr", "icmp"}}
          \cup (IF "daddr" \in fields THEN {<<"daddr", r.m.daddr>>, <<"nfproto", IF r.family = 6 THEN 6 ELSE 4>>} ELSE {})
          \cup (IF "icmp" \in fields THEN {<<"proto", r.m.proto>>, <<"icmp", r.m.icmp>>} ELSE {})
          \cup (IF implied \/ r.family = 0 THEN {} ELSE {<<"nfproto", r.family>>})

\* iptables: one file per family, every field as it is.
family_matches(r, family) == r.family \in {0, family}
render_rule_iptables(r) == {<<k, r.m[k]>> : k \in DOMAIN r.m}

Passes(p, test) ==
    CASE test[1] = "nfproto" -> p.family = test[2]
      [] test[1] = "iif_not" -> p.iif # test[2]
      [] test[1] = "daddr" -> p.dst \in test[2]
      [] test[1] = "rate" -> ~p.over
      [] OTHER -> p[test[1]] = test[2]

MatchesNft(p, r) == \A t \in render_rule_nft(r) : Passes(p, t)
MatchesIptables(p, r) == family_matches(r, p.family) /\ \A t \in render_rule_iptables(r) : Passes(p, t)
Matches(backend, p, r) == IF backend = "nft" THEN MatchesNft(p, r) ELSE MatchesIptables(p, r)

\* The first rule that matches decides; a packet no rule decides goes on to the zones.
Verdict(backend, chain, p) ==
    LET hits == SelectSeq(chain, LAMBDA r : Matches(backend, p, r)) IN IF hits = <<>> THEN "return" ELSE Head(hits).verdict

\* Mangle rules do not end the chain: each one that matches is applied.
Mangled(backend, chain, p) ==
    FoldLeft(LAMBDA q, r : IF ~Matches(backend, q, r) THEN q
                           ELSE IF r.verdict = "set" THEN [q EXCEPT !.ct_mark = EXEMPT] ELSE [q EXCEPT !.mark = q.ct_mark],
             p, chain)

\* What fw3.rs loads: the fallbacks where an extension is missing.
Fw3Rules(router, rs) == IF router.owner THEN rs ELSE without_skuid_rules(rs)
Fw3Mangle(router, mg) == IF router.connmark THEN mg ELSE without_mangle_rules

Chain(rs, hook) == IF hook = "input" THEN rs.input ELSE IF hook = "output" THEN rs.output ELSE rs.forward

\* Prerouting or output mangle first, then the filter chain.
Through(backend, rs, mg, p) ==
    LET q == Mangled(backend, IF p.hook = "output" THEN mg.output ELSE mg.prerouting, p) IN
    [packet |-> q, verdict |-> Verdict(backend, Chain(rs, p.hook), q)]

(***************************************************************************)
(* boot_rules.rs: the block before the first policy.                       *)
(***************************************************************************)
BootNets == LanNets \cup {"apipa"}
NdRules(types) == [i \in DOMAIN types |-> accept(6, [proto |-> "icmpv6", icmp |-> types[i]])]
DnsRejects == <<Rule(0, "reject", Dns("udp")), Rule(0, "reject", Dns("tcp"))>>

iptables_emergency_rules(mode) ==
    LET boot(s) == IF mode = "boot" THEN s ELSE <<>> IN
    RuleSet(<<>>,
            <<accept(0, [reply |-> TRUE])>> \o boot(<<accept(0, [oif |-> "lo"])>> \o DhcpRules)
              \o NdRules(<<"solicit">>) \o boot(DnsRejects)
              \o boot(<<accept(0, [daddr |-> Multicast]), accept(0, [daddr |-> BootNets])>>) \o <<Rule(0, "drop", Everything)>>,
            boot(DnsRejects) \o boot(<<Rule(0, "return", [daddr |-> BootNets])>>) \o <<Rule(0, "drop", Everything)>>)

nft_boot_block ==
    RuleSet(<<>>,
            <<accept(0, [oif |-> "lo"]), accept(0, [reply |-> TRUE])>> \o DhcpRules \o NdRules(<<"solicit">>) \o DnsRejects
              \o <<accept(4, [daddr |-> BootNets \cup Multicast]), accept(6, [daddr |-> BootNets \cup Multicast]),
                   Rule(0, "drop", Everything)>>,
            DnsRejects \o <<accept(4, [daddr |-> BootNets]), accept(6, [daddr |-> BootNets]), Rule(0, "drop", Everything)>>)

(***************************************************************************)
(* detect.rs and nym_fw_backend of fw-boot-guard.sh: which framework runs. *)
(* A router is described by what both look at.                             *)
(***************************************************************************)
Facts == [fw4_live : BOOLEAN, fw3_live : BOOLEAN, script : SUBSET {"fw3", "fw4"}, files : SUBSET {"fw3", "fw4"}]

detect_with(f) ==
    CASE f.fw4_live -> "fw4"
      [] ~f.fw4_live /\ f.fw3_live -> "fw3"
      [] ~f.fw4_live /\ ~f.fw3_live /\ f.script # {} -> IF "fw4" \in f.script THEN "fw4" ELSE "fw3"
      [] OTHER -> IF "fw4" \in f.files THEN "fw4" ELSE IF "fw3" \in f.files THEN "fw3" ELSE "unknown"

nym_fw_backend(f) ==
    IF f.fw4_live THEN "fw4"
    ELSE IF f.fw3_live THEN "fw3"
    ELSE IF "fw4" \in f.script THEN "fw4"
    ELSE IF "fw3" \in f.script THEN "fw3"
    ELSE IF "fw4" \in f.files THEN "fw4" ELSE "fw3"

(***************************************************************************)
(* Packets: what the router and its clients send, and a flow from outside. *)
(***************************************************************************)
Services ==
    {[proto |-> "udp", sport |-> 1, dport |-> 53, icmp |-> "none"], [proto |-> "tcp", sport |-> 1, dport |-> 853, icmp |-> "none"],
     [proto |-> "udp", sport |-> 1, dport |-> 443, icmp |-> "none"], [proto |-> "udp", sport |-> 1, dport |-> 123, icmp |-> "none"],
     [proto |-> "udp", sport |-> 68, dport |-> 67, icmp |-> "none"], [proto |-> "icmp", sport |-> 0, dport |-> 0, icmp |-> "echo"],
     [proto |-> "icmpv6", sport |-> 0, dport |-> 0, icmp |-> "solicit"], [proto |-> "icmpv6", sport |-> 0, dport |-> 0, icmp |-> "echo"]}

\* The addresses that are named one by one are IPv4.
Dst(family) == {"public", "private"} \cup (IF family = 4 THEN {"peer", "pihole", "quad9", "track"} ELSE {})

Packet(svc, family, hook, iif, oif, dst, mark, skuid) ==
    svc @@ [family |-> family, hook |-> hook, iif |-> iif, oif |-> oif, dst |-> dst, mark |-> mark, ct_mark |-> "0",
                ct_new |-> TRUE, reply |-> FALSE, skuid |-> skuid, over |-> FALSE]

LanSide == {"lan", "guest"}
Uplinks == {"wan", "wanb"}

RouterSends ==
    {Packet(s, f, "output", "none", oif, d, mark, uid) :
        s \in Services, f \in {4, 6}, oif \in {"lan", "wan", "tun"}, d \in Dst(4), mark \in {"0", TUNNEL}, uid \in {0, 453}}

ClientsSend ==
    {Packet(s, f, "forward", iif, oif, d, "0", -1) :
        s \in Services, f \in {4, 6}, iif \in LanSide \cup {"wan", "tun"}, oif \in {"lan", "wan", "wanb", "tun"}, d \in Dst(4)}

\* Each named address is sent what it serves.
Sane(p) ==
    /\ p.dst = "track" => p.icmp = "echo"
    /\ p.dst = "peer" => p.dport = 443
    /\ p.dst \in {"pihole", "quad9"} => p.dport \in {53, 853}
    /\ p.dst \in Dst(p.family) /\ p.iif # p.oif
    /\ (p.proto = "icmpv6" => p.family = 6) /\ (p.proto = "icmp" => p.family = 4)
    /\ p.mark = TUNNEL => p.skuid = 0

Packets == {p \in RouterSends \cup ClientsSend : Sane(p)}

(***************************************************************************)
(* The state machine.                                                      *)
(***************************************************************************)
NoPolicy == [kind |-> "boot", tunnel |-> FALSE, lan |-> FALSE, exempt |-> FALSE, dns |-> {}]

\* The two iptables extension packages are both installed or both missing.
RulesAtBoot(uci, packages) ==
    [uci |-> uci, changes |-> RuleChanges, memo |-> {}, policy |-> NoPolicy, wan |-> {}, route |-> "none",
     set |-> <<>>, mangle |-> <<>>, owner |-> packages, connmark |-> packages,
     packet |-> <<>>, flow |-> "none", facts |-> <<>>]

RulesInit == \E uci \in UciConfigs, packages \in BOOLEAN : rules = RulesAtBoot(uci, packages)

\* Memo::get_at: an answer is kept for PROBE_TTL, an empty one never.
wan_zone_devices == IF rules.memo # {} THEN rules.memo ELSE resolve_wan_devices(rules.uci)

\* No packet and no detection is being looked at.
RulesIdle == rules.packet = <<>> /\ rules.facts = <<>>

\* Where `ip route get` may say the private resolver is.
route_device(policy) == {"none", "lan", "wan"} \cup tunnel_interfaces(policy)

compile(policy) ==
    \E route \in route_device(policy) :
        /\ policy.dns # {"pihole"} => route = "none"
        /\ rules' = [rules EXCEPT !.policy = policy, !.wan = wan_zone_devices, !.memo = wan_zone_devices, !.route = route,
                                  !.set = compile_with(policy, wan_zone_devices, route),
                                  !.mangle = exemption_mangle(policy, wan_zone_devices), !.flow = "none"]

MemoExpires == rules.memo # {} /\ rules' = [rules EXCEPT !.memo = {}, !.packet = <<>>]

\* The user reconfigures the zones, or the tools stop answering.
UciChanges(name) ==
    /\ rules.changes > 0 /\ name # rules.uci
    /\ rules' = [rules EXCEPT !.changes = @ - 1, !.uci = name, !.packet = <<>>]

Judged(p) ==
    IF rules.policy.kind = "boot"
    THEN LET mg == without_mangle_rules IN
         [fw3 |-> Through("iptables", iptables_emergency_rules("boot"), mg, p),
          fw4 |-> Through("nft", nft_boot_block, mg, p)]
    ELSE [fw3 |-> Through("iptables", Fw3Rules(rules, rules.set), Fw3Mangle(rules, rules.mangle), p),
          fw4 |-> Through("nft", rules.set, rules.mangle, p)]

\* A packet does not look at the memory, so only states without one send.
PacketSent(p) == rules.memo = {} /\ rules' = [rules EXCEPT !.packet = <<p, Judged(p)>>]

\* A connection from outside to the exempt port, for the router or, through a
\* port forward, for a LAN host; then its answer.
PacketArrives(hook) ==
    LET p == [Packet([proto |-> "tcp", sport |-> 1, dport |-> 22, icmp |-> "none"], 4, hook, "wan",
                     IF hook = "input" THEN "none" ELSE "lan", "private", "0", -1) EXCEPT !.dst = "private"]
    IN  /\ rules.packet = <<>> /\ rules.policy.exempt
        /\ rules' = [rules EXCEPT !.packet = <<p, Judged(p)>>, !.flow = hook]

AnswerLeaves ==
    /\ rules.flow # "none" /\ rules.packet # <<>>
    /\ \E b \in {"fw3", "fw4"} :
        LET ct == rules.packet[2][b].packet.ct_mark
            p == [Packet([proto |-> "tcp", sport |-> 22, dport |-> 1, icmp |-> "none"], 4,
                         IF rules.flow = "input" THEN "output" ELSE "forward", IF rules.flow = "input" THEN "none" ELSE "lan",
                         "wan", "public", "0", IF rules.flow = "input" THEN 0 ELSE -1)
                    EXCEPT !.ct_mark = ct, !.ct_new = FALSE, !.reply = TRUE]
        IN  rules' = [rules EXCEPT !.packet = <<p, Judged(p)>>, !.flow = "answered"]

Detect(f) == rules.policy = NoPolicy /\ rules' = [rules EXCEPT !.facts = f]

RulesNext ==
    \/ /\ RulesIdle
       /\ \/ \E policy \in RulePolicies : compile(policy)
          \/ MemoExpires \/ \E name \in UciConfigs : UciChanges(name)
          \/ \E p \in Packets : PacketSent(p)
          \/ \E hook \in {"input", "forward"} : PacketArrives(hook)
          \/ \E f \in Facts : Detect(f)
    \/ AnswerLeaves

RulesSpec == RulesInit /\ [][RulesNext]_rulesVars

(***************************************************************************)
(* Properties.                                                             *)
(***************************************************************************)
\* Types; whatever the policy, both egress chains end in a reject of everything.
RulesTypeOK ==
    /\ rules.uci \in UciConfigs /\ rules.changes \in 0..RuleChanges
    /\ rules.policy \in RulePolicies \cup {NoPolicy}
    /\ rules.policy # NoPolicy => {Last(rules.set.output), Last(rules.set.forward)} = {Rule(0, "reject", Everything)}
    /\ rules.packet = <<>> \/ rules.packet[2].fw3.verdict \in {"accept", "return", "drop", "reject"}

Through3 == rules.packet[2].fw3.verdict
Through4 == rules.packet[2].fw4.verdict
Pkt == rules.packet[1]

Blocks(v) == v \in {"reject", "drop"}

\* What the zones do with a packet that is handed to them.
ZonesPass == Pkt.hook = "output" \/ Pkt.reply \/ ZonesForward(rules.uci, Pkt.iif, Pkt.oif)

\* An accept of ours is final on fw3; on fw4 the zones' own table comes next.
Escapes3 == Through3 = "accept" \/ (Through3 = "return" /\ ZonesPass)
Escapes4 == ~Blocks(Through4) /\ ZonesPass

\* The two renderings of a rule set block the same packets, and a fw3 without
\* an extension only ever blocks more.
BackendsAgree ==
    rules.packet # <<>> =>
        /\ Blocks(Through4) => Blocks(Through3)
        /\ ((rules.owner /\ rules.connmark) \/ rules.policy.kind = "boot") => (Blocks(Through3) => Blocks(Through4))

\* No client's packet reaches the internet past the tunnel: through an uplink,
\* whatever the zones were when the policy was compiled and are now.
NoLanEgress ==
    (rules.packet # <<>> /\ rules.flow = "none" /\ Pkt.hook = "forward" /\ Pkt.iif \in LanSide /\ Pkt.oif \in Uplinks
        /\ Pkt.dst = "public") => ~Escapes3 /\ ~Escapes4

\* Plain lookups leave through an uplink only as the daemon's own, or to a resolver
\* the user chose and the code could not keep inside.
NoDnsLeak ==
    (rules.packet # <<>> /\ rules.flow = "none" /\ Pkt.dport = 53 /\ Pkt.oif \in Uplinks
        /\ Pkt.skuid # 0 /\ "quad9" \notin rules.policy.dns) => ~Escapes3 /\ ~Escapes4

\* The answer of an exempt service goes back out of the uplink it came in by,
\* and only because its flow was marked.
ExemptAnswered ==
    (rules.packet # <<>> /\ rules.flow = "answered" /\ Pkt.ct_mark = EXEMPT) =>
        Through4 = "accept" /\ (rules.connmark => Through3 = "accept")

\* The daemon's own mark survives the mangle chains: its sockets stay on its routes.
SocketMarkKept ==
    (rules.packet # <<>> /\ Pkt.mark = TUNNEL) =>
        rules.packet[2].fw3.packet.mark = TUNNEL /\ rules.packet[2].fw4.packet.mark = TUNNEL

\* The daemon and the include never write to different frameworks.
DetectionAgrees ==
    rules.facts # <<>> => detect_with(rules.facts) \in {nym_fw_backend(rules.facts), "unknown"}

\* The rules mean what the policy says, on both backends: the facts above.
RulesCorrect ==
    /\ RulesTypeOK /\ BackendsAgree /\ NoLanEgress /\ NoDnsLeak
    /\ ExemptAnswered /\ SocketMarkKept /\ DetectionAgrees
=============================================================================
