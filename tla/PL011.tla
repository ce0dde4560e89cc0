------------------------------- MODULE PL011 --------------------------------
(***************************************************************************)
(* The hexadecimal side of device/PL011.c: a byte crosses the UART as two  *)
(* characters.  A character is its ASCII code.  The server's side is       *)
(* Python's binascii, which writes small letters and reads both.           *)
(***************************************************************************)
EXTENDS Integers, Sequences

Byte == 0 .. 255

\* What neither accepts is -1, which as an unsigned char is 255.
xtoi(c) ==
  CASE c \in 48 .. 57  -> c - 48
    [] c \in 97 .. 102 -> 10 + (c - 97)
    [] c \in 65 .. 70  -> 10 + (c - 65)
    [] OTHER           -> -1

itox(d) ==
  CASE d \in 0 .. 9   -> 48 + d
    [] d \in 10 .. 15 -> 65 + (d - 10)
    [] OTHER          -> 255

PL011_puth(b) == <<itox(b \div 16), itox(b % 16)>>

\* The two digits are or-ed together, so a bad second one gives 0xFF and a bad
\* first one 0xF0 or more; neither can be taken for 0x00.
PL011_geth(c, d) ==
  IF xtoi(d) = -1 THEN 255 ELSE ((xtoi(c) * 16) % 256) + xtoi(d)

\* binascii.hexlify of one byte.
hexlify(b) ==
  LET digit(d) == IF d <= 9 THEN 48 + d ELSE 97 + (d - 10)
  IN  <<digit(b \div 16), digit(b % 16)>>

-----------------------------------------------------------------------------
(***************************************************************************)
(* Several bytes: two characters for each, in the same order.              *)
(***************************************************************************)
Digits(two, x) ==
  [k \in 1 .. 2 * Len(x) |-> two[x[(k + 1) \div 2]][2 - (k % 2)]]

data_puth(x) == Digits([b \in Byte |-> PL011_puth(b)], x)

data_geth(s, n) == [k \in 1 .. n |-> PL011_geth(s[2 * k - 1], s[2 * k])]

\* binascii.unhexlify; its characters always come from data_puth.
unhexlify(s) == [k \in 1 .. Len(s) \div 2 |-> 16 * xtoi(s[2 * k - 1]) + xtoi(s[2 * k])]
=============================================================================
