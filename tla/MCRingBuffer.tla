---------------------------- MODULE MCRingBuffer ----------------------------
(* The least index width ringbuffer.hpp allows: it holds twice the size. *)
EXTENDS RingBuffer

MCModulus == 2 * Size
=============================================================================
