---------------------------- MODULE MCPcSession ----------------------------
\* Two Bluetooth transport objects and a serial one, up to the first crossing of two
\* attempts to connect.
EXTENDS PcSession, TLC

Uncrossed == ~crossed
=============================================================================
