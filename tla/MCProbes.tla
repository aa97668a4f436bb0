------------------------------ MODULE MCProbes ------------------------------
(* An instance of Probes: two exits, two probe models, two exit IPs; one    *)
(* echo is slow (it passes for a pinned exit only), one geo-blocked.        *)
EXTENDS Probes

CONSTANTS e1, e2, m1, m2

SmokeOrder == <<m1, m2>>

SomeEchoes == {[ip |-> "ip1", latency |-> 400, country |-> "US"],
               [ip |-> "ip2", latency |-> 4000, country |-> "US"],
               [ip |-> "ip2", latency |-> 400, country |-> "CN"]}

SomeTrusted == {[source |-> "subscription", exitIP |-> "ip1"], [source |-> "manual", exitIP |-> NoIP]}

BlockedCountries == {"CN"}
=============================================================================
