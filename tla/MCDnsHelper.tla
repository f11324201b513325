---------------------------- MODULE MCDnsHelper ----------------------------
(* Small instances of DnsHelper for TLC.                                   *)
EXTENDS DnsHelper

CONSTANTS s1, s2, h1, h2
=============================================================================
