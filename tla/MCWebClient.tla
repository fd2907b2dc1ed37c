----------------------------- MODULE MCWebClient -----------------------------
EXTENDS WebClientProperties

MCCounts == {1, -1}
MCTours == {ProbePages, {"keygen", "dns"}, {"memq", "env"}, {"mem", "request"}}
=============================================================================
