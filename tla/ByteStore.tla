----------------------------- MODULE ByteStore ------------------------------
(***************************************************************************)
(* What a Buffer promises (buffer.h): a sequence of bytes with a position  *)
(* at which one reads and writes.  Writing at the end makes it longer;     *)
(* what lies between the old end and a position set after it is anything.  *)
(***************************************************************************)
EXTENDS Integers, Sequences

CONSTANT Bytes

VARIABLES bytes, position, result

storeVars == <<bytes, position, result>>

StoreInit == bytes = <<>> /\ position = 0 /\ result = <<>>

Overwritten(s) ==
    [i \in 1 .. (IF position + Len(s) > Len(bytes) THEN position + Len(s) ELSE Len(bytes)) |->
        IF i \in position + 1 .. position + Len(s) THEN s[i - position] ELSE bytes[i]]

Put ==
    /\ position' > position
    /\ \E s \in [1 .. position' - position -> Bytes] : bytes' = Overwritten(s)
    /\ result' = <<>>

Take ==
    /\ position' \in position .. Len(bytes)
    /\ result' = SubSeq(bytes, position + 1, position')
    /\ UNCHANGED bytes

Peek ==
    /\ result' = SubSeq(bytes, position + 1, Len(bytes))
    /\ UNCHANGED <<bytes, position>>

Seek ==
    /\ position' \in Nat
    /\ Len(bytes') = IF position' > Len(bytes) THEN position' ELSE Len(bytes)
    /\ \A i \in 1 .. Len(bytes) : bytes'[i] = bytes[i]
    /\ result' = <<>>

Empty == bytes' = <<>> /\ position' = 0 /\ result' = <<>>

StoreNext == Put \/ Take \/ Peek \/ Seek \/ Empty
StoreSpec == StoreInit /\ [][StoreNext]_storeVars
=============================================================================
