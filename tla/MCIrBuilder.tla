----------------------------- MODULE MCIrBuilder -----------------------------
(***************************************************************************)
(* IrBuilder on every stream of up to three instructions, and on longer    *)
(* ones without jumps.                                                     *)
(***************************************************************************)
EXTENDS IrBuilder

CONSTANTS MaxAny,    \* bound: the length of a stream
          MaxPlain   \* bound: the length of a stream without jumps

MCStreams == UNION {[1 .. n -> Insns(n)] : n \in 0 .. MaxAny}
             \cup UNION {[1 .. n -> {x \in Insns(0) : ~IsBranch(x.op)}] :
                           n \in MaxAny + 1 .. MaxPlain}
=============================================================================
