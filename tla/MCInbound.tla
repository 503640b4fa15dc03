----------------------------- MODULE MCInbound -----------------------------
(* Two payloads of one contact, the first with two messages. Meta delivers a
   payload again as a second event, so the same messages meet themselves; which
   senders are no phone number is the configuration's to say. *)
EXTENDS Inbound

CONSTANTS h1, h2, m1, m2, m3, c1

MCContent == [h \in Hooks |-> IF h = h1 THEN <<m1, m2>> ELSE <<m3>>]
MCSender == [m \in Messages |-> c1]
=============================================================================
