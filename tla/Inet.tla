-------------------------------- MODULE Inet --------------------------------
(***************************************************************************)
(* inet.c: prefixes, route checks and shifts of addresses, and the         *)
(* Internet checksum.  An address is the number its bytes spell, most      *)
(* significant first; its bytes and words are taken out of the number.     *)
(* The widths are parameters, so that all addresses can be enumerated: the *)
(* program has bytes of 8 bits and words of 32, an IPv4 address is one     *)
(* word and an IPv6 address four.  The checksum is at its real width.      *)
(***************************************************************************)
EXTENDS Integers

CONSTANTS ByteBits, WordBits

ASSUME WidthAssumption == /\ ByteBits \in Nat \ {0}
                          /\ WordBits \in Nat \ {0}
                          /\ WordBits % ByteBits = 0

\* Powers up to the width of an IPv6 address, of which the provers know no law.
ASSUME PowerAssumption == /\ 2 ^ 0 = 1
                          /\ \A n \in 0 .. 4 * WordBits - 1 : 2 ^ (n + 1) = 2 * 2 ^ n

-----------------------------------------------------------------------------
(* Addresses *)

inet_size(v6) == IF v6 THEN 4 * WordBits ELSE WordBits

Addrs(v6) == 0 .. 2 ^ inet_size(v6) - 1

\* The unit of w bits at offset k of an address of size bits.
Unit(addr, k, w, size) == (addr \div 2 ^ (size - w * (k + 1))) % 2 ^ w

\* Mutant of membcmpEq: the bits of the last byte are not compared.
membcmpBytes(s1, s2, n, size) ==
  \A k \in 0 .. n \div ByteBits - 1 :
    Unit(s1, k, ByteBits, size) = Unit(s2, k, ByteBits, size)

\* membcmp(s1, s2, n) == 0: whole bytes by memcmp, then the first bits of the
\* next byte under a mask.
membcmpEq(s1, s2, n, size) ==
  LET bytes == n \div ByteBits
      bits  == n % ByteBits
      masked(s) == Unit(s, bytes, ByteBits, size) \div 2 ^ (ByteBits - bits)
  IN  /\ \A k \in 0 .. bytes - 1 :
           Unit(s1, k, ByteBits, size) = Unit(s2, k, ByteBits, size)
      /\ bits # 0 => masked(s1) = masked(s2)

\* What network & ~_inet_tomask(prefix) == 0 may evaluate to.  A prefix of 0
\* shifts a 32-bit word by 32, which is undefined: the shift may do nothing
\* (the mask is all ones and any network passes) or clear the word.
isnetwork4(word, prefix) ==
  IF prefix = 0 THEN {TRUE, word = 0} ELSE {word % 2 ^ (WordBits - prefix) = 0}

isnetwork6(network, prefix) ==
  LET word(k) == Unit(network, k, WordBits, 4 * WordBits)
      full    == prefix \div WordBits
      rem     == prefix % WordBits
  IN  IF \E k \in 0 .. 3 : k > full - (IF rem = 0 THEN 1 ELSE 0) /\ word(k) # 0
      THEN {FALSE}
      ELSE IF rem = 0 THEN {TRUE} ELSE isnetwork4(word(full), rem)

inet_isnetwork(v6, network, prefix) ==
  IF v6 THEN isnetwork6(network, prefix) ELSE isnetwork4(network, prefix)

\* Mutant of inet_shift: blocks of an IPv6 prefix are counted in its last word.
inet_shift_word(v6, addr, offset, prefix) ==
  (addr + offset * 2 ^ (WordBits - (prefix % WordBits))) % 2 ^ inet_size(v6)

\* The address moved by offset blocks of the given prefix, modulo the width.
\* (A prefix longer than the address is refused; no caller has one.)
inet_shift(v6, addr, offset, prefix) ==
  (addr + offset * 2 ^ (inet_size(v6) - prefix)) % 2 ^ inet_size(v6)

-----------------------------------------------------------------------------
(* Checksums.  All a checksum sees of a buffer is the sum of its 16-bit      *)
(* words, as the CPU reads them and an odd last byte by itself: here that    *)
(* sum stands for the buffer.  A packet is shorter than 2^16 bytes, so the   *)
(* 32-bit sum of its words does not wrap.                                    *)

inet_cksum_continue(sum, words) == sum + words

\* The high half of the sum is added to the low one, and what that carries once
\* more; the complement is cut to 16 bits.
inet_cksum_finish(sum) ==
  LET once  == (sum \div 65536) + (sum % 65536)
      twice == once + (once \div 65536)
  IN  65535 - (twice % 65536)

\* The field itself counts as 0, which _inet_cksum sees to.
inet_cksum(words) == inet_cksum_finish(inet_cksum_continue(0, words))

\* With "append" the sum starts at 0xffff.
inet_cksum_header(words) == inet_cksum_finish(65535 + inet_cksum_continue(0, words))

\* The receiver's test: the words sum to 0xffff in ones' complement, which no
\* sum of zeros does.
Verifies(sum) == sum > 0 /\ sum % 65535 = 0
=============================================================================
