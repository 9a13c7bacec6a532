------------------------------ MODULE SingBox ------------------------------
(***************************************************************************)
(* The sing-box configuration of a candidate (client/singbox_config.go,    *)
(* singbox_split_tunnel.go), and what sing-box makes of it: which traffic  *)
(* its inbound captures, where a flow goes, and who answers a lookup.      *)
(*                                                                         *)
(* A flow or a lookup is the set of what rules can tell of it: "dns", "53",*)
(* "tcp", "udp", "443", "private", "probe" for the hosts that connectivity *)
(* probes ask for, and the countries whose rule sets contain it.           *)
(***************************************************************************)
EXTENDS Env, Functions, FiniteSetsExt

-----------------------------------------------------------------------------
(* What is asked for *)

\* A country's resolver, None where none can be relied on.
splitTunnelDirectResolvers == [ir |-> None, cn |-> "alidns"]
Countries == DOMAIN splitTunnelDirectResolvers

\* The resolvers with a pinned TLS name.  "name" is not an IP literal.
dohTLSServerNames == {"cloudflare", "google"}
DNSServers(in) == IF in.dns = <<>> THEN <<"cloudflare", "google">> ELSE in.dns

validateDoHDNSServers(servers) == Range(servers) \subseteq dohTLSServerNames

validateSplitTunnel(in) ==
    /\ in.apps => in.mode = "tun"
    /\ in.countries # <<>> =>
         /\ in.shape = "doh" /\ in.ruleSets
         /\ Range(in.countries) \subseteq Countries /\ IsInjective(in.countries)

validateRelayForConfig(relay) == relay.vision /\ relay.exit = "direct" /\ relay.complete

\* The parameters of a candidate on the desktop: nothing is split off, and lookups
\* go through the proxy over TCP.
candidateConfigInput(relay, mode) ==
    [relay |-> relay, mode |-> mode, port |-> 1, shape |-> "tcp", dns |-> <<>>,
     lan |-> FALSE, countries |-> <<>>, apps |-> FALSE, ruleSets |-> FALSE,
     bridge |-> None, peers |-> {}, owns |-> FALSE]

-----------------------------------------------------------------------------
(* What is built *)

\* Only an IP literal can be kept out of the tunnel.
relayRouteExcludeAddress(host) == IF host.literal THEN {host.addr} ELSE {}

\* Mutant: only the relay's own address is kept out of the tunnel.
buildInboundRelayOnly(in) ==
    [type |-> IF in.mode = "proxy" THEN "mixed" ELSE "tun",
     exclude |-> relayRouteExcludeAddress(in.relay.host)]

\* The outer sockets are kept out of a tunnel that takes the whole device, unless
\* the platform does that.
buildInbound(in) ==
    IF in.mode = "proxy" THEN [type |-> "mixed", exclude |-> {}]
    ELSE [type |-> "tun",
          exclude |-> IF in.owns /\ in.bridge # None THEN {}
                      ELSE relayRouteExcludeAddress(in.relay.host) \cup
                           UNION {relayRouteExcludeAddress(p) : p \in in.peers}]

Proxied(i) == <<"proxied", i>>
Direct(c)  == <<"direct", c>>

\* The lists one after the other.
Chained(lists) ==
    LET upTo[i \in 0 .. Len(lists)] == IF i = 0 THEN <<>> ELSE upTo[i - 1] \o lists[i]
    IN  upTo[Len(lists)]

\* Ask one resolver after the other, and return the first real answer; the last
\* one's whatever it is.
Evaluate(scope, fresh, server) ==
    <<[on |-> scope, do |-> "evaluate", server |-> server, fresh |-> fresh],
      [on |-> scope, do |-> "respond", rcode |-> "NOERROR"],
      [on |-> scope, do |-> "respond", rcode |-> "NXDOMAIN"]>>
dnsFailoverRules(n, scope, fresh) ==
    Chained([i \in 1 .. n - 1 |-> Evaluate(scope, fresh, Proxied(i))])
      \o <<[on |-> scope, do |-> "route", server |-> Proxied(n), fresh |-> fresh]>>

\* For a bypassed domain its country's resolver comes before them.
countryDNSRules(c) ==
    IF splitTunnelDirectResolvers[c] = None THEN <<>> ELSE Evaluate({c}, FALSE, Direct(c))

buildDNSConfig(in) ==
    LET n == Len(DNSServers(in)) IN
    IF in.shape = "tcp" THEN [rules |-> <<>>, final |-> Proxied(1)]
    ELSE [rules |-> dnsFailoverRules(n, {"probe"}, TRUE)
                      \o Chained([i \in DOMAIN in.countries |->
                                       countryDNSRules(in.countries[i])])
                      \o dnsFailoverRules(n, {}, FALSE),
          final |-> Proxied(n)]

Rule(on, to) == [on |-> on, to |-> to]
Hijacks   == <<Rule({"dns"}, "hijack"), Rule({"53"}, "hijack")>>
Sniff     == Rule({}, "sniff")
Pins(in)  == IF in.countries = <<>> THEN <<>> ELSE <<Sniff, Rule({"tcp", "probe"}, "proxy")>>
Bypass(in) ==
    (IF in.lan THEN <<Rule({"private"}, "direct")>> ELSE <<>>)
      \o [i \in DOMAIN in.countries |-> Rule({in.countries[i]}, "direct")]
NoQUIC == <<Rule({"udp", "443"}, "reject")>>

\* Mutant: what is bypassed is decided before the probes are pinned.
buildRouteConfigBypassFirst(in) == Hijacks \o Bypass(in) \o Pins(in) \o NoQUIC

buildRouteConfig(in) == Hijacks \o Pins(in) \o Bypass(in) \o NoQUIC

Acceptable(in) ==
    /\ validateRelayForConfig(in.relay) /\ validateSplitTunnel(in)
    /\ in.shape = "doh" => validateDoHDNSServers(DNSServers(in))
    /\ in.mode = "proxy" => in.port > 0

BuildSingBoxConfig(in) ==
    [inbound |-> buildInbound(in), dns |-> buildDNSConfig(in),
     route |-> buildRouteConfig(in),
     server |-> IF in.bridge # None THEN in.bridge ELSE in.relay.host.addr]

-----------------------------------------------------------------------------
(* What sing-box does with it *)

Matches(rules, traits) == {i \in DOMAIN rules : rules[i].on \subseteq traits}

\* The first rule that matches; without one, the proxy.  The host a flow is for is
\* known once it has been sniffed, which ends nothing.
Routed(cfg, flow) ==
    LET rules   == cfg.route
        Seen(i) == IF \E j \in 1 .. i - 1 : rules[j] = Sniff THEN flow ELSE flow \ {"probe"}
        hits    == {i \in DOMAIN rules : rules[i] # Sniff /\ rules[i].on \subseteq Seen(i)}
    IN  IF hits = {} THEN "proxy" ELSE rules[Min(hits)].to

\* A lookup that rcode says how each resolver answers: who answers it in the end,
\* and whether past any cache.
Resolved(cfg, lookup, rcode) ==
    LET rules    == cfg.dns.rules
        hits     == Matches(rules, lookup)
        Asked(i) == Max({j \in hits : j < i /\ rules[j].do = "evaluate"})
        Ends(i)  == \/ rules[i].do = "route"
                    \/ /\ rules[i].do = "respond"
                       /\ rcode[rules[Asked(i)].server] = rules[i].rcode
        ends     == {i \in hits : Ends(i)}
    IN  IF ends = {} THEN [by |-> cfg.dns.final, fresh |-> FALSE]
        ELSE LET i == Min(ends)
                 j == IF rules[i].do = "route" THEN i ELSE Asked(i)
             IN  [by |-> rules[j].server, fresh |-> rules[j].fresh]

\* An outer socket of the client's own that the inbound takes in: its traffic
\* goes round in circles.
Captures(cfg, host) == cfg.inbound.type = "tun" /\ host.addr \notin cfg.inbound.exclude

-----------------------------------------------------------------------------
(* All there is to ask for, with resolvers of every kind *)

ConfigInputs ==
    LET host  == [literal |-> TRUE, addr |-> "relay"]
        relay == [vision |-> TRUE, exit |-> "direct", complete |-> TRUE, host |-> host]
    IN  {in \in [relay : {relay}, mode : {"proxy", "tun"}, port : {0, 1},
                 shape : {"tcp", "doh"},
                 dns : {<<>>, <<"google">>, <<"google", "cloudflare">>, <<"name">>},
                 lan : BOOLEAN, apps : BOOLEAN, ruleSets : BOOLEAN,
                 countries : {<<>>, <<"ir">>, <<"cn">>, <<"ir", "cn">>, <<"cn", "cn">>},
                 bridge : {None}, peers : {{}}, owns : {FALSE}] : Acceptable(in)}
Flows   == {{network} \cup traits : network \in {"tcp", "udp"},
             traits \in SUBSET {"dns", "53", "443", "private", "probe", "ir", "cn"}}
Lookups == SUBSET {"probe", "ir", "cn"}
Rcodes  == {"NOERROR", "NXDOMAIN", "SERVFAIL"}
Resolvers == {Proxied(1), Proxied(2), Direct("cn")}
=============================================================================
