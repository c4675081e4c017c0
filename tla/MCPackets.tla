---- MODULE MCPackets ----
EXTENDS Packets
====
