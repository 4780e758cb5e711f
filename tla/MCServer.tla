------------------------------ MODULE MCServer ------------------------------
(* An instance of Server for TLC: settings at and beyond their limits.     *)
EXTENDS Server

MCPorts == {-1, 0, 65535, 65536, Absent}
MCThreadNumbers == {-1, 0, 2, Absent}
MCCores == {0, 4}
=============================================================================
