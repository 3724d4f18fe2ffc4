---------------------------- MODULE MCRingBuffer ----------------------------
(* The ring buffer on an instance that wraps, grows and overflows. *)
EXTENDS RingBuffer
=============================================================================
