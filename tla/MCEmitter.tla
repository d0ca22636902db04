------------------------------ MODULE MCEmitter ------------------------------
(* Registers with something about them: those numbered 0 and 3, rsp and    *)
(* rbp, the first that need REX and those that share rsp's and rbp's low   *)
(* bits; the boundaries of signed and unsigned bytes; one impossible scale. *)
EXTENDS Emitter

High(family) == [family |-> family, size |-> 1, high |-> TRUE]
MCRegisters ==
    {r \in Register : r.family \in {0, 3, 4, 5, 8, 12, 13} /\ ~r.high}
    \cup {High(0), High(3), InvalidRegister}
MCIndexRegisters == {r \in MCRegisters : r.size = 8 /\ r.family \in {0, 4, 5, 12}}
                    \cup {r \in MCRegisters : r.family = 0 /\ r.size = 4}
MCScales == {0, 1, 2, 4, 8}
MCBytes1 == {<<1>>, <<128>>, <<255>>}
MCBytes2 == {<<1, 0>>, <<255, 128>>}
MCBytes4 == {<<1, 0, 0, 0>>, <<255, 0, 0, 0>>, <<0, 1, 0, 0>>, <<255, 255, 255, 255>>}
=============================================================================
