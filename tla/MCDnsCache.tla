----------------------------- MODULE MCDnsCache -----------------------------
(***************************************************************************)
(* DnsCache on a small instance: a record with two values in turn.       *)
(***************************************************************************)
EXTENDS DnsCache

CONSTANTS www, api, A, old, new

MCWanted == [name : {www}, type : {A}, value : {old, new}]
MCPresent == [name : {www}, type : {A}, value : {old}]
MCOthers == [name : {www, api}, type : {A}, value : {old}]
=============================================================================
