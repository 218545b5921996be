------------------------------- MODULE Sha256 -------------------------------
(* How src/sha256.rs cuts what it hashes into blocks: Sha256::update, which *)
(* takes the input in slices of any length, and the padding of finish.  The *)
(* compression function is left out: a digest is a function of the blocks   *)
(* handed to compress, so two inputs have one digest exactly when their     *)
(* blocks are the same.                                                     *)
EXTENDS Naturals, Sequences

CONSTANTS
    BlockLen,    \* bytes of a block: 64
    LengthLen,   \* bytes of the length at the end of the last block: 8
    Messages     \* inputs, sequences of bytes

ASSUME BlockAssumption ==
    BlockLen \in Nat /\ LengthLen \in Nat \ {0} /\ LengthLen < BlockLen
ASSUME MessagesAssumption == Messages \subseteq Seq(Nat)

VARIABLES
    message,     \* what the callers of update pass, all slices together
    total,       \* bytes passed to update so far
    data,        \* what update has not consumed of its slice
    buf,         \* the bytes kept for the next block
    compressed,  \* the blocks given to compress, one after the other
    bits,        \* the length finish will append
    stage        \* what comes next

shaVars == <<message, total, data, buf, compressed, bits, stage>>

ShaInit ==
    /\ message \in Messages
    /\ total = 0 /\ bits = 0
    /\ data = << >> /\ buf = << >> /\ compressed = << >>
    /\ stage = <<"slices", "idle">>

(* A call of update with n more bytes of s. *)
Pass(s, phase) ==
    /\ data' = s
    /\ total' = total + Len(s)
    /\ stage' = <<phase, "fill">>

Update ==
    /\ stage = <<"slices", "idle">>
    /\ \E n \in 0 .. Len(message) - total :
         Pass(SubSeq(message, total + 1, total + n), "slices")
    /\ UNCHANGED <<message, buf, compressed, bits>>

(* First a partly filled buffer is topped up, and compressed when full. *)
Fill ==
    /\ stage[2] = "fill"
    /\ LET room == BlockLen - Len(buf)
           take == IF Len(data) < room THEN Len(data) ELSE room
           full == buf \o SubSeq(data, 1, take)
       IN  IF buf = << >> THEN UNCHANGED <<data, buf, compressed>>
           ELSE /\ data' = SubSeq(data, take + 1, Len(data))
                /\ buf' = IF Len(full) = BlockLen THEN << >> ELSE full
                /\ compressed' = IF Len(full) = BlockLen THEN compressed \o full
                                 ELSE compressed
    /\ stage' = <<stage[1], "blocks">>
    /\ UNCHANGED <<message, total, bits>>

(* Then whole blocks pass the buffer by. *)
Block ==
    /\ stage[2] = "blocks" /\ Len(data) >= BlockLen
    /\ compressed' = compressed \o SubSeq(data, 1, BlockLen)
    /\ data' = SubSeq(data, BlockLen + 1, Len(data))
    /\ UNCHANGED <<message, total, buf, bits, stage>>

(* The rest is kept; if anything is left here the buffer was empty. *)
Keep ==
    /\ stage[2] = "blocks" /\ Len(data) < BlockLen
    /\ buf' = IF data = << >> THEN buf ELSE data
    /\ data' = << >>
    /\ stage' = <<stage[1], "idle">>
    /\ UNCHANGED <<message, total, compressed, bits>>

(* Mutant: the length counts the first byte of the padding. *)
BugFinishOne ==
    /\ stage = <<"slices", "idle">> /\ total = Len(message)
    /\ bits' = 8 * (total + 1)
    /\ Pass(<<128>>, "padding")
    /\ UNCHANGED <<message, buf, compressed>>

(* finish: the length is taken before the padding counts, then 0x80 and     *)
(* zeros go through update one byte at a time.                              *)
FinishOne ==
    /\ stage = <<"slices", "idle">> /\ total = Len(message)
    /\ bits' = 8 * total
    /\ Pass(<<128>>, "padding")
    /\ UNCHANGED <<message, buf, compressed>>

FinishZero ==
    /\ stage = <<"padding", "idle">> /\ Len(buf) # BlockLen - LengthLen
    /\ Pass(<<0>>, "padding")
    /\ UNCHANGED <<message, buf, compressed, bits>>

(* u64::to_be_bytes, at the width of the length field. *)
BigEndian(n) == [i \in 1 .. LengthLen |-> (n \div 256 ^ (LengthLen - i)) % 256]

FinishLength ==
    /\ stage = <<"padding", "idle">> /\ Len(buf) = BlockLen - LengthLen
    /\ compressed' = compressed \o buf \o BigEndian(bits)
    /\ stage' = <<"done", "idle">>
    /\ UNCHANGED <<message, total, data, buf, bits>>

ShaNext ==
    \/ Update \/ Fill \/ Block \/ Keep
    \/ FinishOne \/ FinishZero \/ FinishLength

ShaSpec == ShaInit /\ [][ShaNext]_shaVars

---------------------------------------------------------------------------
(* The padding of FIPS 180-4: a one, as few zeros as reach the length field *)
(* of a block, and the length.                                              *)
Zeros(n) == (2 * BlockLen - 1 - LengthLen - (n % BlockLen)) % BlockLen

Padding(n) == <<128>> \o [i \in 1 .. Zeros(n) |-> 0] \o BigEndian(8 * n)

Padded(m) == m \o Padding(Len(m))

(* However the input was cut, the digest is that of the padded input: what  *)
(* was compressed, kept and not yet consumed is the beginning of it, all    *)
(* the time, so that nothing is lost, repeated or out of order and the      *)
(* padding loop goes no further than the length field.                      *)
DigestOfWhole ==
    LET whole == Padded(message)
        taken == compressed \o buf \o data
    IN  IF stage[1] = "done" THEN compressed = whole
        ELSE taken = SubSeq(whole, 1, Len(taken))
=============================================================================
