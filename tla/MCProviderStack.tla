--------------------------- MODULE MCProviderStack ---------------------------
(* Two callers and a fallback; every vendor is the one or the other. One of the    *)
(* callers has an image in its request.                                            *)
EXTENDS ProviderStack

MCChain == <<"p", "q">>
MCVendors == {"openai", "mistral", "anthropic", "bedrock", "vertex", "ollama", "sse", "ndjson", "python"}
MCDeployments == {[p |-> v[1], q |-> v[2]] :
  v \in {<<"openai", "azure">>, <<"mistral", "vertex">>, <<"anthropic", "sse">>, <<"bedrock", "ndjson">>,
         <<"ollama", "python">>, <<"sse", "openai">>}}

Set(knob) == [set |-> knob, value |-> "none"]
Of(knob, v) == [set |-> knob, value |-> v]
MCKnobLists == {
  <<Set("http"), Of("host", <<"*", "corp">>), Of("cidr", 10)>>,
  <<Of("host", <<"corp">>), Set("private"), Set("enabled")>>}
MCInside == {V4(10, 0), V4(172, 31), Mapped(127, 0), V6(65215)}
Ips == {{ip} : ip \in MCInside \union {V4(172, 32), V6(65151)}} \union {{V4(8, 8), V4(10, 0)}}
Hop(host, ip, literal) == [host |-> host, ips |-> {ip}, literal |-> literal]
Site(scheme, host, ips, literal, answers, mime) ==
  [scheme |-> scheme, host |-> host, ips |-> ips, literal |-> literal, next |-> <<>>, answers |-> answers, mime |-> mime]
Redirecting(hops) ==
  [Site("https", <<"net">>, {V4(172, 32)}, FALSE, "image", "png") EXCEPT !.next = hops]
MCSites ==
  {Site("https", <<"net">>, ips, FALSE, "image", "png") : ips \in Ips}
  \union {Site("https", h, {V4(172, 31), V4(8, 8)}, FALSE, "image", "png") : h \in {<<"x", "corp">>, <<"corp">>}}
  \union {Site("https", <<"address">>, {ip}, TRUE, "image", "png") : ip \in {V4(10, 0), Mapped(127, 0)}}
  \union {Site("http", <<"net">>, {V4(172, 32)}, FALSE, "image", "png")}
  \union {Site("https", <<"net">>, {V4(172, 32)}, FALSE, a, m) :
            a \in {"lost", "refused", "declared", "unread", "longer", "image"}, m \in {"webp", "tiff"}}
  \union {Redirecting(<<Hop(<<"net">>, V4(8, 8), FALSE), hop>>) :
            hop \in {Hop(h, V4(10, 0), l) : h \in {<<"net">>, <<"x", "corp">>}, l \in BOOLEAN}}
  \union {Redirecting([n \in 1 .. k |-> Hop(<<"net">>, V4(8, 8), FALSE)]) : k \in {MaxRedirects, MaxRedirects + 1}}
=============================================================================
