---------------------------- MODULE UrlPrefetch ----------------------------
(* url_prefetch.rs of the Bedrock and Ollama crates, which are copies but for the    *)
(* base64 encoder, and the builders' knobs. What a URL leads to is a site: its scheme,  *)
(* its host as labels, the addresses the host has, the hosts it redirects to one after   *)
(* the other, and how the last of them answers.                                           *)
EXTENDS Integers, Sequences, SequencesExt

(* Of an address the parts that ranges look at: two octets, or a segment, of which 0 stands *)
(* for :: and ::1.                                                                            *)
V4(a, b) == [v |-> "4", a |-> a, b |-> b]
V6(segment) == [v |-> "6", a |-> segment, b |-> 0]
Mapped(a, b) == [v |-> "mapped", a |-> a, b |-> b]

Blocked4(a, b) ==
  \/ a \in {10, 127} \/ (a = 172 /\ b \in 16 .. 31) \/ (a = 192 /\ b = 168) \/ (a = 169 /\ b = 254)
  \/ a >= 224 \/ (a = 0 /\ b = 0)
Blocked6(s) == s = 0 \/ s \div 512 = 126 \/ s \div 64 = 1018 \/ s >= 65280
IsBlockedIp(ip) == IF ip.v = "6" THEN Blocked6(ip.a) ELSE Blocked4(ip.a, ip.b)

-----------------------------------------------------------------------------
(* The builder: knobs of which some turn the fetching on and others do not.                *)

NoOpts == [enabled |-> FALSE, http |-> FALSE, private |-> FALSE, hosts |-> {}, cidrs |-> {}]
With(opts, knob) ==
  CASE knob.set = "enabled" -> [opts EXCEPT !.enabled = TRUE]
    [] knob.set = "http" -> [opts EXCEPT !.enabled = TRUE, !.http = TRUE]
    [] knob.set = "private" -> [opts EXCEPT !.private = TRUE]
    [] knob.set = "host" -> [opts EXCEPT !.hosts = @ \union {knob.value}]
    [] knob.set = "cidr" -> [opts EXCEPT !.cidrs = @ \union {knob.value}]
Built(knobs) == FoldLeft(With, NoOpts, knobs)

(* "*.X" admits what ends in ".X"; any other entry itself. A net is one of V4 addresses.    *)
AllowsHost(opts, host) == \E h \in opts.hosts :
  IF h[1] = "*" THEN Len(host) >= Len(h) /\ IsSuffix(Tail(h), host) ELSE host = h
AllowsIp(opts, ip) == \E a \in opts.cidrs : ip.v = "4" /\ ip.a = a

AllAdmitted_Some(opts, site) ==  \* mutant: one good address is enough
  opts.private \/ AllowsHost(opts, site.host)
    \/ \E ip \in site.ips : AllowsIp(opts, ip) \/ ~IsBlockedIp(ip)
AllAdmitted(opts, site) ==
  opts.private \/ AllowsHost(opts, site.host)
    \/ \A ip \in site.ips : AllowsIp(opts, ip) \/ ~IsBlockedIp(ip)

(* The URL itself is looked at before the request: its scheme, and its address if it has    *)
(* one. Then every name that is connected to is looked at by the resolver, also those that     *)
(* the client is redirected to, while an address or a scheme of a redirection is not. The       *)
(* resolver's refusal is an error of the transport.                                             *)
UrlAdmitted(opts, site) ==
  /\ site.scheme = "https" \/ (opts.http /\ site.scheme = "http")
  /\ site.literal => AllAdmitted(opts, site)

MaxRedirects == 10 \* reqwest's default policy
Hops(site) == {site} \union Range(site.next)
Reached(opts, site) ==
  /\ site.answers # "lost" /\ Len(site.next) <= MaxRedirects
  /\ \A hop \in Hops(site) : hop.literal \/ AllAdmitted(opts, hop)

SentMimes == {"jpeg", "png", "gif", "webp"}
(* The status, the length that is declared, the type, the body, its length: in this order.   *)
FetchOne(opts, site) ==
  IF ~UrlAdmitted(opts, site) THEN "Invalid"
  ELSE IF ~Reached(opts, site) THEN "Transport"
  ELSE IF site.answers \in {"refused", "declared"} \/ site.mime \notin SentMimes THEN "Invalid"
  ELSE IF site.answers = "unread" THEN "Transport"
  ELSE IF site.answers = "longer" THEN "Invalid"
  ELSE "image"

-----------------------------------------------------------------------------
(* Ollama's copy.                                                                            *)
OlWith(opts, knob) == With(opts, knob)
OlBuilt(knobs) == FoldLeft(OlWith, NoOpts, knobs)
OlFetchOne(opts, site) == FetchOne(opts, site)
=============================================================================
