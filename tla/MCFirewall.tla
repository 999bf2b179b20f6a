----------------------------- MODULE MCFirewall -----------------------------
\* A rule that changes in every way, and one that stands in the way.
EXTENDS Firewall

CONSTANTS web, ssh, b1, b2

Rule4(backend, family, chain, body) ==
    [backend |-> backend, family |-> family, chain |-> chain, body |-> body]

MCConfigs == [r \in {web, ssh} |->
    IF r = ssh THEN {Rule4("auto", "ipv4", "input", b1)}
    ELSE {Rule4("auto", "inet", "input", b1), Rule4("iptables", "inet", "input", b2),
          Rule4("nftables", "ipv4", "forward", b1)}]
=============================================================================
