----------------------------- MODULE ByteOrder -----------------------------
(***************************************************************************)
(* endianconv.c: memrev32 swaps the four bytes of a 32-bit word in memory, *)
(* intrev32 returns the word read back after the swap.  The word's bytes   *)
(* lie in memory in the host's order, so the model stores the integer on a *)
(* little- or a big-endian host, swaps the memory, and loads it again.     *)
(* The result is checked against the byte reversal written with shifts and *)
(* masks (Bitwise), over words built from edge-case bytes.  TLC's integers *)
(* are 32-bit signed, so a uint32_t is kept as its two 16-bit halves.      *)
(***************************************************************************)
EXTENDS Naturals, Bitwise

CONSTANT ByteSample     \* byte values the sample words are built from

ASSUME ByteSample \subseteq 0..255

Hosts == {"little", "big"}

\* Offsets 0..3 of the word in memory; a uint32_t as [hi, lo] halves.
Offsets == 0..3
Half == 0..65535
Word == [hi : Half, lo : Half]

\* The byte of significance i (0 = least significant) of w.
ByteOf(w, i) == IF i < 2 THEN (w.lo \div 256^i) % 256 ELSE (w.hi \div 256^(i - 2)) % 256

\* The memory image of v: x[0..3] as unsigned char *x = p sees them.
Store(v, host) ==
    [o \in Offsets |-> IF host = "little" THEN ByteOf(v, o) ELSE ByteOf(v, 3 - o)]

\* The uint32_t the memory x[0..3] holds.
Load(x, host) ==
    LET at(i) == IF host = "little" THEN x[i] ELSE x[3 - i]
    IN  [hi |-> at(2) + at(3) * 256, lo |-> at(0) + at(1) * 256]

\* memrev32 (endianconv.c:11-19), without its inner swap of x[1] and x[2].
MemRev32OuterOnly(x) == [x EXCEPT ![0] = x[3], ![3] = x[0]]

\* memrev32 (endianconv.c:11-19): t = x[0]; x[0] = x[3]; x[3] = t;
\* t = x[1]; x[1] = x[2]; x[2] = t.
MemRev32(x) == [x EXCEPT ![0] = x[3], ![3] = x[0], ![1] = x[2], ![2] = x[1]]

\* intrev32 (endianconv.c:3-6): memrev32 applied to the argument's storage.
IntRev32(v, host) == Load(MemRev32(Store(v, host)), host)

\* The byte reversal of a 32-bit word, with masks and shifts: the halves
\* change places and each has its two bytes swapped.
Swap16(h) == ((h & 255) * 256) | shiftR(h, 8)
ReversedBytes(w) == [hi |-> Swap16(w.lo), lo |-> Swap16(w.hi)]

Samples == {[hi |-> b2 + b3 * 256, lo |-> b0 + b1 * 256] :
                b0 \in ByteSample, b1 \in ByteSample,
                b2 \in ByteSample, b3 \in ByteSample}

VARIABLES v, host

Init == v \in Samples /\ host \in Hosts

\* The next call of intrev32, on any sample word and host.
NextCall == v' \in Samples /\ host' \in Hosts

Spec == Init /\ [][NextCall]_<<v, host>>

TypeOK == v \in Word /\ host \in Hosts

\* intrev32 reverses the byte order of its argument, on either host: the
\* four assignments of memrev32 exchange the outer and the inner pair.
IntRev32Reverses == IntRev32(v, host) = ReversedBytes(v)

=============================================================================
