------------------------------- MODULE MCWire -------------------------------
(***************************************************************************)
(* A connection for TLC: the cipher below the framing and the relaying of  *)
(* packets above it, each with the other one at rest.                      *)
(*                                                                         *)
(* CFB8 has one-bit bytes and a register of two in an array of four, so    *)
(* that the window is copied back after every third byte; every key and    *)
(* every initial register.  Relay's bytes have a digit of 0..3, so lengths *)
(* of 4 need two of them; packets are shorter than, as long as and longer  *)
(* than the threshold, and one is too big; id 1 is parsed by the proxy.    *)
(***************************************************************************)
EXTENDS CFB8, Relay, TLC

VARIABLE part

MCXor(a, b) == (a + b) % 2
MCPackets == {<<1>>, <<1, 5, 0>>, <<2>>, <<2, 4, 7, 0>>, <<2, 0, 0, 0, 0, 0>>}
MCSymmetry == Permutations(Buffers)

MCInit ==
    /\ CipherInit /\ Init
    /\ \/ part = "cipher" /\ upstream.thr = CompressThreshold
       \/ part = "relay" /\ key = [iv \in Registers |-> Zero] /\ stream = <<Zero, Zero>>

MCNext ==
    /\ \/ part = "cipher" /\ CipherNext /\ UNCHANGED vars
       \/ part = "relay" /\ Next /\ UNCHANGED cipherVars
    /\ UNCHANGED part

MCSpec == MCInit /\ [][MCNext]_<<part, cipherVars, vars>>
=============================================================================
