---------------------------- MODULE MCDnsShield ----------------------------
(* One adapter of each sort: a physical one, a virtual one that its name gives *)
(* away and a virtual one that only its description gives away.                *)
EXTENDS DnsShield

MCProviders == <<"cloudflare", "google">>
MCLatencies == {20, 1100}
=============================================================================
