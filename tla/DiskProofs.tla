----------------------------- MODULE DiskProofs -----------------------------
(***************************************************************************)
(* The disk driver and its server, for words, blocks, disks, addresses and *)
(* data of every size: what the line carries at each moment, and that the  *)
(* two together are an array of blocks.                                    *)
(***************************************************************************)
EXTENDS Disk, SequenceTheorems, WellFoundedInduction, TLAPS

-----------------------------------------------------------------------------
(***************************************************************************)
(* Words.  A recursive function is only a CHOOSE to the provers: what it   *)
(* is has to be shown, one argument after the other.                       *)
(***************************************************************************)

\* Induction over a set of numbers up to N.
LEMMA Induction ==
  ASSUME NEW N \in Nat, NEW S, 0 \in S, \A n \in 0 .. N - 1 : n \in S => n + 1 \in S
  PROVE  \A n \in 0 .. N : n \in S
<1> SUFFICES ASSUME NEW n \in 0 .. N, n \notin S PROVE FALSE
  OBVIOUS
<1> DEFINE Bad == {k \in Nat : k \in 0 .. N /\ k \notin S}
<1>1. n \in Bad /\ Bad \subseteq Nat
  OBVIOUS
<1>2. \E m \in Bad : \A k \in Bad : ~ (<<k, m>> \in OpToRel(<, Nat))
  <2> HIDE DEF Bad
  <2> QED BY <1>1, WFMin, NatLessThanWellFounded
<1>3. PICK m \in Bad : \A k \in Bad : ~ (k < m)
  BY <1>1, <1>2 DEF OpToRel
<1>4. m \in 1 .. N /\ m - 1 \in 0 .. N - 1
  BY <1>3
<1>5. m - 1 \in S
  BY <1>3, <1>4
<1>6. m - 1 + 1 \in S
  BY <1>4, <1>5
<1> QED BY <1>3, <1>4, <1>6

\* There is a function such as Place.
LEMMA PlaceExists ==
  \E g : g = [k \in 0 .. WORD |-> IF k = 0 THEN 1 ELSE 256 * g[k - 1]] 
<1> DEFINE Upto(m) == \E g \in [0 .. m -> Nat] : g[0] = 1 /\ \A k \in 1 .. m : g[k] = 256 * g[k - 1]
           S == {m \in Nat : Upto(m)}
<1>1. 0 \in S
  <2> DEFINE g == [k \in 0 .. 0 |-> 1]
  <2>1. g \in [0 .. 0 -> Nat] /\ g[0] = 1 /\ \A k \in 1 .. 0 : g[k] = 256 * g[k - 1]
    OBVIOUS
  <2> HIDE DEF g
  <2>2. Upto(0)
    BY <2>1
  <2> QED BY <2>2
<1>2. ASSUME NEW m \in 0 .. WORD - 1, m \in S
      PROVE  m + 1 \in S
  <2>1. PICK g \in [0 .. m -> Nat] : g[0] = 1 /\ \A k \in 1 .. m : g[k] = 256 * g[k - 1]
    BY <1>2
  <2> DEFINE h == [k \in 0 .. m + 1 |-> IF k = m + 1 THEN 256 * g[m] ELSE g[k]]
  <2>2. h \in [0 .. m + 1 -> Nat] /\ h[0] = 1
    BY <2>1, DiskAssumption
  <2>3. \A k \in 1 .. m + 1 : h[k] = 256 * h[k - 1]
    BY <2>1, DiskAssumption
  <2> HIDE DEF h
  <2>4. Upto(m + 1)
    BY <2>2, <2>3
  <2> HIDE DEF Upto
  <2> QED BY <2>4
<1>3. WORD \in S
  <2>1. \A m \in 0 .. WORD - 1 : m \in S => m + 1 \in S
    BY <1>2
  <2> HIDE DEF S
  <2>2. WORD \in Nat /\ WORD \in 0 .. WORD
    BY DiskAssumption
  <2>3. \A n \in 0 .. WORD : n \in S
    BY <1>1, <2>1, <2>2, Induction
  <2> QED BY <2>2, <2>3
<1>4. PICK g \in [0 .. WORD -> Nat] : g[0] = 1 /\ \A k \in 1 .. WORD : g[k] = 256 * g[k - 1]
  BY <1>3
<1>5. g = [k \in 0 .. WORD |-> IF k = 0 THEN 1 ELSE 256 * g[k - 1]]
  BY <1>4, DiskAssumption
<1> QED BY <1>5

\* Each byte of a word counts for 256 times what the one before it does.
LEMMA PlaceDef == Place = [k \in 0 .. WORD |-> IF k = 0 THEN 1 ELSE 256 * Place[k - 1]]
BY PlaceExists DEF Place

LEMMA PlaceStep ==
  /\ Place[0] = 1
  /\ \A k \in 1 .. WORD : Place[k] = 256 * Place[k - 1]
  /\ \A k \in 0 .. WORD : Place[k] \in Nat \ {0}
<1>1. Place[0] = 1 /\ \A k \in 1 .. WORD : Place[k] = 256 * Place[k - 1]
  BY PlaceDef, DiskAssumption
<1> DEFINE S == {m \in 0 .. WORD : Place[m] \in Nat \ {0}}
<1>2. 0 \in S
  BY <1>1, DiskAssumption
<1>3. ASSUME NEW m \in 0 .. WORD - 1, m \in S
      PROVE  m + 1 \in S
  BY <1>1, <1>3, DiskAssumption
<1>4. \A m \in 0 .. WORD : m \in S
  <2> HIDE DEF S
  <2> QED BY <1>2, <1>3, Induction, DiskAssumption
<1> QED BY <1>1, <1>4

\* A byte more of a number, at the place that counts for p.
NextByte(a, p) == a % (256 * p) = (a % p) + ((a \div p) % 256) * p

LEMMA NextDigit ==
  ASSUME NEW a \in Nat, NEW p \in Nat \ {0}
  PROVE  NextByte(a, p)
<1> DEFINE q == a \div p
           r == a % p
           t == q \div 256
           d == q % 256
<1>1. a = p * q + r /\ r \in 0 .. p - 1 /\ q \in Nat
  OBVIOUS
<1>2. q = 256 * t + d /\ d \in 0 .. 255 /\ t \in Nat
  BY <1>1
<1> HIDE DEF q, r, t, d
<1>3. a = (256 * p) * t + (d * p + r)
  BY <1>1, <1>2
<1>4. d * p + r \in 0 .. 256 * p - 1
  BY <1>1, <1>2
<1>5. a % (256 * p) = d * p + r
  <2> DEFINE n == 256 * p
             e == d * p + r
  <2>1. n \in Nat \ {0} /\ e \in 0 .. n - 1 /\ a = n * t + e
    BY <1>3, <1>4
  <2> HIDE DEF n, e
  <2>2. a % n = e
    BY <2>1, <1>2
  <2> QED BY <2>2 DEF n, e
<1> QED BY <1>5, <1>1, <1>2 DEF NextByte, q, r, t, d

LEMMA NextPlace ==
  ASSUME NEW a \in Nat, NEW k \in 1 .. WORD
  PROVE  a % Place[k] = (a % Place[k - 1]) + ((a \div Place[k - 1]) % 256) * Place[k - 1]
<1>1. Place[k - 1] \in Nat \ {0} /\ Place[k] = 256 * Place[k - 1]
  BY PlaceStep, DiskAssumption
<1>2. NextByte(a, Place[k - 1])
  BY <1>1, NextDigit
<1>3. a % (256 * Place[k - 1]) = (a % Place[k - 1]) + ((a \div Place[k - 1]) % 256) * Place[k - 1]
  BY <1>2, Zenon DEF NextByte
<1> QED BY <1>1, <1>3, Zenon

LEMMA ModulusIsNat ==
  Modulus \in Nat /\ Modulus \div 2 \in 1 .. Modulus
<1>1. Place[WORD] = 256 * Place[WORD - 1] /\ Place[WORD - 1] \in Nat \ {0}
  BY PlaceStep, DiskAssumption
<1> QED BY <1>1 DEF Modulus

\* What Unsigned adds up are the bytes seen so far.
LEMMA UnsignedSum ==
  ASSUME NEW a \in Nat
  PROVE  Unsigned(Bytes(a)) = a % Modulus
<1> DEFINE b == Bytes(a)
           g == [k \in 0 .. WORD |-> a % Place[k]]
           v == CHOOSE v : v = [k \in 0 .. WORD |-> IF k = 0 THEN 0 ELSE v[k - 1] + b[k] * Place[k - 1]]
<1>1. \A k \in 1 .. WORD : b[k] = (a \div Place[k - 1]) % 256
  BY DEF Bytes
<1>2. a % Place[0] = 0
  BY PlaceStep
<1>3. ASSUME NEW k \in 1 .. WORD
      PROVE  a % Place[k] = (a % Place[k - 1]) + b[k] * Place[k - 1]
  <2>1. a % Place[k] = (a % Place[k - 1]) + ((a \div Place[k - 1]) % 256) * Place[k - 1]
    BY NextPlace
  <2>2. b[k] = (a \div Place[k - 1]) % 256
    BY <1>1
  <2> QED BY <2>1, <2>2
<1> HIDE DEF b
<1>4. g = [k \in 0 .. WORD |-> IF k = 0 THEN 0 ELSE g[k - 1] + b[k] * Place[k - 1]]
  <2>1. ASSUME NEW k \in 0 .. WORD
        PROVE  g[k] = IF k = 0 THEN 0 ELSE g[k - 1] + b[k] * Place[k - 1]
    <3>1. CASE k = 0
      BY <3>1, <1>2
    <3>2. CASE k # 0
      <4>1. k \in 1 .. WORD /\ k - 1 \in 0 .. WORD
        BY <3>2, DiskAssumption
      <4> QED BY <3>2, <4>1, <1>3
    <3> QED BY <3>1, <3>2
  <2> QED BY <2>1
<1> HIDE DEF g
<1>5. v = [k \in 0 .. WORD |-> IF k = 0 THEN 0 ELSE v[k - 1] + b[k] * Place[k - 1]]
  BY <1>4
<1>6. Unsigned(Bytes(a)) = v[WORD]
  BY DEF Unsigned, b
<1> HIDE DEF v
<1> DEFINE S == {k \in 0 .. WORD : v[k] = a % Place[k]}
<1>7. 0 \in S
  BY <1>2, <1>5, DiskAssumption
<1>8. ASSUME NEW k \in 0 .. WORD - 1, k \in S
      PROVE  k + 1 \in S
  <2>1. k + 1 \in 1 .. WORD /\ k + 1 - 1 = k /\ k + 1 \in 0 .. WORD
    BY DiskAssumption
  <2>2. \A n \in 1 .. WORD : v[n] = v[n - 1] + b[n] * Place[n - 1]
    <3>1. ASSUME NEW n \in 1 .. WORD PROVE v[n] = v[n - 1] + b[n] * Place[n - 1]
      <4>1. n \in 0 .. WORD /\ n # 0
        BY DiskAssumption
      <4> QED BY <1>5, <4>1
    <3> QED BY <3>1
  <2> QED BY <1>3, <1>8, <2>1, <2>2
<1>9. WORD \in S
  <2>1. WORD \in Nat /\ WORD \in 0 .. WORD
    BY DiskAssumption
  <2>2. \A k \in 0 .. WORD - 1 : k \in S => k + 1 \in S
    BY <1>8
  <2> HIDE DEF S
  <2>3. \A k \in 0 .. WORD : k \in S
    BY <1>7, <2>1, <2>2, Induction
  <2> QED BY <2>1, <2>3
<1> QED BY <1>6, <1>9 DEF Modulus

\* A word that has crossed the line is the word that was sent, read as an
\* unsigned number; read as a signed one it is when it is small enough, and
\* negative when it is not.
LEMMA WordArrives ==
  ASSUME NEW a \in 0 .. Modulus - 1
  PROVE  /\ Bytes(a) \in Seq(Byte) /\ Len(Bytes(a)) = WORD
         /\ Unsigned(Bytes(a)) = a
         /\ Signed(Bytes(a)) = IF a < Modulus \div 2 THEN a ELSE a - Modulus
<1>1. a \in Nat /\ a % Modulus = a
  BY ModulusIsNat
<1>2. Unsigned(Bytes(a)) = a
  BY <1>1, UnsignedSum
<1>3. \A k \in 1 .. WORD : (a \div Place[k - 1]) % 256 \in Byte
  <2>1. ASSUME NEW k \in 1 .. WORD PROVE (a \div Place[k - 1]) % 256 \in Byte
    <3>1. Place[k - 1] \in Nat \ {0}
      BY PlaceStep, DiskAssumption
    <3>2. a \div Place[k - 1] \in Int
      BY <1>1, <3>1
    <3> QED BY <3>2 DEF Byte
  <2> QED BY <2>1
<1>4. Bytes(a) \in Seq(Byte) /\ Len(Bytes(a)) = WORD
  BY <1>3, DiskAssumption DEF Bytes
<1> QED BY <1>2, <1>4 DEF Signed

-----------------------------------------------------------------------------
(***************************************************************************)
(* Hexadecimal digits.                                                     *)
(***************************************************************************)

\* What the server writes for a byte, the driver reads as that byte.
LEMMA ServerToDriver ==
  ASSUME NEW b \in Byte
  PROVE  /\ hexlify(b) \in Seq(Byte) /\ Len(hexlify(b)) = 2
         /\ PL011_geth(hexlify(b)[1], hexlify(b)[2]) = b
<1>1. b \div 16 \in 0 .. 15 /\ b % 16 \in 0 .. 15 /\ b = 16 * (b \div 16) + (b % 16)
  BY DEF Byte
<1> QED BY <1>1 DEF Byte, hexlify, PL011_geth, xtoi

\* What the driver writes for a byte, the server reads as that byte.
LEMMA DriverToServer ==
  ASSUME NEW b \in Byte
  PROVE  /\ PL011_puth(b) \in Seq(Byte) /\ Len(PL011_puth(b)) = 2
         /\ 16 * xtoi(PL011_puth(b)[1]) + xtoi(PL011_puth(b)[2]) = b
<1>1. b \div 16 \in 0 .. 15 /\ b % 16 \in 0 .. 15 /\ b = 16 * (b \div 16) + (b % 16)
  BY DEF Byte
<1> QED BY <1>1 DEF Byte, PL011_puth, itox, xtoi

\* Two digits for each byte, in the order of the bytes.
LEMMA DigitsOf ==
  ASSUME NEW two \in [Byte -> Seq(Byte)], \A b \in Byte : Len(two[b]) = 2,
         NEW x \in Seq(Byte)
  PROVE  /\ Digits(two, x) \in Seq(Byte) /\ Len(Digits(two, x)) = 2 * Len(x)
         /\ \A k \in 1 .. Len(x) : /\ 2 * k - 1 \in 1 .. 2 * Len(x) /\ 2 * k \in 1 .. 2 * Len(x)
                                   /\ Digits(two, x)[2 * k - 1] = two[x[k]][1]
                                   /\ Digits(two, x)[2 * k] = two[x[k]][2]
<1> DEFINE d == Digits(two, x)
<1>1. ASSUME NEW k \in 1 .. 2 * Len(x)
      PROVE  two[x[(k + 1) \div 2]][2 - (k % 2)] \in Byte
  <2>1. (k + 1) \div 2 \in 1 .. Len(x) /\ 2 - (k % 2) \in 1 .. 2
    OBVIOUS
  <2>2. x[(k + 1) \div 2] \in Byte
    BY <2>1
  <2> QED BY <2>1, <2>2
<1>2. d \in [1 .. 2 * Len(x) -> Byte]
  BY <1>1 DEF Digits
<1>3. d \in Seq(Byte) /\ Len(d) = 2 * Len(x)
  <2> DEFINE n == 2 * Len(x)
  <2>1. n \in Nat
    OBVIOUS
  <2> HIDE DEF d, n
  <2>2. d \in [1 .. n -> Byte]
    BY <1>2 DEF n
  <2>3. d \in Seq(Byte)
    BY <2>1, <2>2, SeqDef
  <2>4. Len(d) = n
    BY <2>1, <2>2, <2>3
  <2> QED BY <2>3, <2>4 DEF n
<1>4. ASSUME NEW k \in 1 .. Len(x)
      PROVE  /\ 2 * k - 1 \in 1 .. 2 * Len(x) /\ 2 * k \in 1 .. 2 * Len(x)
             /\ d[2 * k - 1] = two[x[k]][1] /\ d[2 * k] = two[x[k]][2]
  <2>1. /\ 2 * k - 1 \in 1 .. 2 * Len(x) /\ 2 * k \in 1 .. 2 * Len(x)
        /\ (2 * k - 1 + 1) \div 2 = k /\ (2 * k + 1) \div 2 = k
        /\ 2 - ((2 * k - 1) % 2) = 1 /\ 2 - ((2 * k) % 2) = 2
    OBVIOUS
  <2>2. d[2 * k - 1] = two[x[(2 * k - 1 + 1) \div 2]][2 - ((2 * k - 1) % 2)]
    BY <2>1 DEF Digits
  <2>3. d[2 * k] = two[x[(2 * k + 1) \div 2]][2 - ((2 * k) % 2)]
    BY <2>1 DEF Digits
  <2> QED BY <2>1, <2>2, <2>3
<1> QED BY <1>3, <1>4

\* The server gets the bytes the driver sends.
LEMMA RequestArrives ==
  ASSUME NEW x \in Seq(Byte)
  PROVE  /\ data_puth(x) \in Seq(Byte)
         /\ unhexlify(data_puth(x)) = x
         /\ data_puth(x) = <<>> <=> x = <<>>
<1> DEFINE two == [b \in Byte |-> PL011_puth(b)]
           d == Digits(two, x)
<1>1. two \in [Byte -> Seq(Byte)] /\ \A b \in Byte : two[b] = PL011_puth(b) /\ Len(two[b]) = 2
  BY DriverToServer
<1> HIDE DEF two
<1>2. /\ d \in Seq(Byte) /\ Len(d) = 2 * Len(x)
      /\ \A k \in 1 .. Len(x) : d[2 * k - 1] = two[x[k]][1] /\ d[2 * k] = two[x[k]][2]
  BY <1>1, DigitsOf
<1>3. data_puth(x) = d
  BY DEF data_puth, two
<1> HIDE DEF d
<1>4. Len(d) \div 2 = Len(x)
  BY <1>2
<1>5. ASSUME NEW k \in 1 .. Len(x)
      PROVE  16 * xtoi(d[2 * k - 1]) + xtoi(d[2 * k]) = x[k]
  <2>1. x[k] \in Byte
    OBVIOUS
  <2> QED BY <1>1, <1>2, <2>1, DriverToServer
<1>6. unhexlify(d) = x
  BY <1>4, <1>5 DEF unhexlify
<1>7. d = <<>> <=> x = <<>>
  BY <1>2
<1> QED BY <1>2, <1>3, <1>6, <1>7

\* A separator before, an end of line behind.
LEMMA Framed ==
  ASSUME NEW d \in Seq(Byte)
  PROVE  LET s == <<Separator>> \o d \o <<EOL>>
         IN  /\ <<Separator>> \o d \in Seq(Byte)
             /\ s \in Seq(Byte) /\ Len(s) = 1 + Len(d) + 1
             /\ \A k \in 1 .. Len(d) : Tail(s)[k] = d[k]
<1>1. PICK c \in Byte, e \in Byte : c = Separator /\ e = EOL
  BY DEF Byte, Separator, EOL
<1>2. <<c>> \o d \in Seq(Byte) /\ Len(<<c>> \o d) = 1 + Len(d)
  OBVIOUS
<1> QED BY <1>1, <1>2

\* The driver gets the bytes the server sends, whatever comes behind them.
LEMMA AnswerArrives ==
  ASSUME NEW x \in Seq(Byte), x # <<>>
  PROVE  LET s == Fields(x) \o <<EOL>>
         IN  /\ Fields(x) \in Seq(Byte)
             /\ s \in Seq(Byte) /\ Len(s) = 1 + 2 * Len(x) + 1
             /\ data_geth(Tail(s), Len(x)) = x
<1> DEFINE two == [b \in Byte |-> hexlify(b)]
           d == Digits(two, x)
           s == <<Separator>> \o d \o <<EOL>>
<1>1. two \in [Byte -> Seq(Byte)] /\ \A b \in Byte : two[b] = hexlify(b) /\ Len(two[b]) = 2
  BY ServerToDriver
<1> HIDE DEF two
<1>2. /\ d \in Seq(Byte) /\ Len(d) = 2 * Len(x)
      /\ \A k \in 1 .. Len(x) : /\ 2 * k - 1 \in 1 .. 2 * Len(x) /\ 2 * k \in 1 .. 2 * Len(x)
                                /\ d[2 * k - 1] = two[x[k]][1] /\ d[2 * k] = two[x[k]][2]
  BY <1>1, DigitsOf
<1>3. Fields(x) = <<Separator>> \o d /\ Fields(x) \o <<EOL>> = s
  BY DEF Fields, two
<1> HIDE DEF d
<1>4. <<Separator>> \o d \in Seq(Byte) /\ s \in Seq(Byte) /\ Len(s) = 1 + 2 * Len(x) + 1
  BY <1>2, Framed
<1>5. \A k \in 1 .. 2 * Len(x) : Tail(s)[k] = d[k]
  BY <1>2, Framed
<1>6. ASSUME NEW k \in 1 .. Len(x)
      PROVE  PL011_geth(Tail(s)[2 * k - 1], Tail(s)[2 * k]) = x[k]
  <2>1. x[k] \in Byte
    OBVIOUS
  <2>2. Tail(s)[2 * k - 1] = hexlify(x[k])[1] /\ Tail(s)[2 * k] = hexlify(x[k])[2]
    BY <1>1, <1>2, <1>5, <2>1
  <2> QED BY <2>1, <2>2, ServerToDriver
<1>7. data_geth(Tail(s), Len(x)) = x
  <2> DEFINE t == Tail(s)
  <2>1. \A k \in 1 .. Len(x) : PL011_geth(t[2 * k - 1], t[2 * k]) = x[k]
    BY <1>6
  <2> HIDE DEF t
  <2>2. data_geth(t, Len(x)) = x
    BY <2>1 DEF data_geth
  <2> QED BY <2>2 DEF t
<1> HIDE DEF s
<1> QED BY <1>3, <1>4, <1>7

-----------------------------------------------------------------------------
(***************************************************************************)
(* Requests and answers.                                                   *)
(***************************************************************************)

LEMMA CallIs ==
  ASSUME NEW c \in Calls
  PROVE  /\ c.op \in {"num", "len", "wr", "rd"}
         /\ c.op \in {"num", "len"} => c.x = <<>> /\ c.n = 2 * WORD
         /\ c.op = "wr" => c.n = Len(c.x)
         /\ c.op = "rd" => c.x = <<>> /\ c.n = BLOCK_LEN
         /\ c.a \in 0 .. Modulus - 1 /\ c.x \in Seq(Byte) /\ c.n \in Nat
         /\ c # Store!NoCall
<1>1. /\ 0 \in 0 .. Modulus - 1 /\ <<>> \in Seq(Byte)
      /\ 2 * WORD \in Nat /\ BLOCK_LEN \in Nat
  BY ModulusIsNat, DiskAssumption
<1>2. ASSUME c \in [op : {"num", "len"}, a : {0}, x : {<<>>}, n : {2 * WORD}]
      PROVE  c.op \in {"num", "len"} /\ c.a = 0 /\ c.x = <<>> /\ c.n = 2 * WORD
  BY <1>2
<1>3. ASSUME NEW a \in Addresses, NEW x \in Data, c = [op |-> "wr", a |-> a, x |-> x, n |-> Len(x)]
      PROVE  /\ c.op = "wr" /\ c.a \in 0 .. Modulus - 1
             /\ c.x \in Seq(Byte) /\ c.n = Len(c.x) /\ c.n \in Nat
  BY <1>3, DiskAssumption
<1>4. ASSUME c \in [op : {"rd"}, a : Addresses, x : {<<>>}, n : {BLOCK_LEN}]
      PROVE  c.op = "rd" /\ c.a \in 0 .. Modulus - 1 /\ c.x = <<>> /\ c.n = BLOCK_LEN
  BY <1>4, DiskAssumption
<1>5. Store!NoCall.op = "none"
  BY DEF Store!NoCall
<1>6. \/ c \in [op : {"num", "len"}, a : {0}, x : {<<>>}, n : {2 * WORD}]
      \/ \E a \in Addresses, x \in Data : c = [op |-> "wr", a |-> a, x |-> x, n |-> Len(x)]
      \/ c \in [op : {"rd"}, a : Addresses, x : {<<>>}, n : {BLOCK_LEN}]
  BY DEF Calls
<1>7. CASE c \in [op : {"num", "len"}, a : {0}, x : {<<>>}, n : {2 * WORD}]
  BY <1>1, <1>2, <1>5, <1>7
<1>8. CASE \E a \in Addresses, x \in Data : c = [op |-> "wr", a |-> a, x |-> x, n |-> Len(x)]
  BY <1>3, <1>5, <1>8
<1>9. CASE c \in [op : {"rd"}, a : Addresses, x : {<<>>}, n : {BLOCK_LEN}]
  BY <1>1, <1>4, <1>5, <1>9
<1> QED BY <1>6, <1>7, <1>8, <1>9

\* The server knows from a request which call it is about: it carries out the
\* possible ones, stops on some that are fatal and refuses the others.
LEMMA RequestIs ==
  ASSUME call \in Calls, tx = Request
  PROVE  /\ tx # NoRequest
         /\ tx.cmd = REQ_CONF <=> call.op \in {"num", "len"}
         /\ tx.cmd = REQ_WR <=> call.op = "wr"
         /\ tx.cmd = REQ_RD <=> call.op = "rd"
         /\ unhexlify(tx.data) = call.x
         /\ call.op \in {"wr", "rd"} /\ Accepted /\ Address >= 0
              => Store!Possible(call) /\ Address = call.a
         /\ call.op \in {"wr", "rd"} /\ ~NoDatum /\ ~Accepted => ~Store!Possible(call)
         /\ call.op \in {"wr", "rd"} /\ (NoDatum \/ (Accepted /\ Address < 0)) => Fatal(call)
<1>1. /\ call.op \in {"num", "len", "wr", "rd"}
      /\ call.op = "wr" => call.n = Len(call.x)
      /\ call.op = "rd" => call.n = BLOCK_LEN
      /\ call.a \in 0 .. Modulus - 1 /\ call.x \in Seq(Byte)
  BY CallIs
<1>2. /\ tx.cmd = CASE call.op = "wr" -> REQ_WR [] call.op = "rd" -> REQ_RD [] OTHER -> REQ_CONF
      /\ call.op \in {"wr", "rd"} => tx.addr = data_puth(Bytes(call.a))
      /\ tx.data = data_puth(call.x)
  BY DEF Request
<1>3. /\ tx.cmd = REQ_CONF <=> call.op \in {"num", "len"}
      /\ tx.cmd = REQ_WR <=> call.op = "wr"
      /\ tx.cmd = REQ_RD <=> call.op = "rd"
      /\ tx.cmd # -1
  BY <1>1, <1>2 DEF REQ_CONF, REQ_WR, REQ_RD
<1>4. unhexlify(tx.data) = call.x /\ (tx.data = <<>> <=> call.x = <<>>)
  BY <1>1, <1>2, RequestArrives
<1>5. CASE call.op \in {"wr", "rd"}
  <2>1. unhexlify(tx.addr) = Bytes(call.a)
    BY <1>1, <1>2, <1>5, WordArrives, RequestArrives
  <2>2. Address = IF call.a < Modulus \div 2 THEN call.a ELSE call.a - Modulus
    BY <1>1, <2>1, WordArrives DEF Address
  <2>3. BLOCK_NUM \in 1 .. Modulus \div 2 - 1 /\ BLOCK_LEN \in Nat \ {0} /\ Modulus \div 2 \in 1 .. Modulus
    BY ModulusIsNat, DiskAssumption
  <2>4. NoDatum <=> call.op = "wr" /\ call.n = 0
    BY <1>1, <1>3, <1>4 DEF NoDatum
  <2>5. Accepted <=> call.n # 0 /\ Address < BLOCK_NUM /\ call.n = BLOCK_LEN
    BY <1>1, <1>3, <1>4, <1>5, <2>3, <2>4 DEF Accepted
  <2>6. Signed(Bytes(call.a)) = Address
    BY <2>1 DEF Address
  <2>7. Address < BLOCK_NUM /\ Address >= 0 => call.a = Address /\ call.a \in 0 .. BLOCK_NUM - 1
    BY <1>1, <2>2, <2>3, ModulusIsNat
  <2>8. call.a \in 0 .. BLOCK_NUM - 1 => Address = call.a
    BY <1>1, <2>2, <2>3, ModulusIsNat
  <2>9. Store!Possible(call) <=> call.a \in 0 .. BLOCK_NUM - 1 /\ call.n = BLOCK_LEN
    BY <1>5 DEF Store!Possible
  <2>10. Fatal(call) <=> call.n \in {0, BLOCK_LEN} /\ (call.n = 0 \/ Address < 0)
    BY <1>5, <2>6 DEF Fatal
  <2>11. Accepted /\ Address >= 0 => Store!Possible(call) /\ Address = call.a
    BY <2>5, <2>7, <2>9
  <2>12. ~NoDatum /\ ~Accepted => ~Store!Possible(call)
    BY <1>1, <2>3, <2>4, <2>5, <2>8, <2>9
  <2>13. NoDatum \/ (Accepted /\ Address < 0) => Fatal(call)
    BY <2>4, <2>5, <2>10
  <2> QED BY <1>3, <1>4, <2>11, <2>12, <2>13 DEF NoRequest
<1>6. CASE call.op \notin {"wr", "rd"}
  BY <1>3, <1>4, <1>6 DEF NoRequest
<1> QED BY <1>5, <1>6

LEMMA ImageIs ==
  ASSUME NEW x \in Seq(Byte), Len(x) = BLOCK_LEN
  PROVE  x \in Image
BY DEF Image

\* What the server answers to a call it has carried out is as long as the driver
\* expects, and the driver reads it as it was sent.
LEMMA AnswerIs ==
  ASSUME call \in Calls, Store!Possible(call), blocks \in [0 .. BLOCK_NUM - 1 -> Image]
  PROVE  /\ Fields(Answer) \in Seq(Byte)
         /\ Fields(Answer) \o <<EOL>> \in Seq(Byte)
         /\ Len(Fields(Answer) \o <<EOL>>) = Rest /\ Rest \in Nat
         /\ call.op # "wr" => data_geth(Tail(Fields(Answer) \o <<EOL>>), call.n) = Answer
         /\ call.op = "rd" => Answer = blocks[call.a] /\ Answer \in Image
         /\ call.op \in {"num", "len"} => Answer = Bytes(BLOCK_NUM) \o Bytes(BLOCK_LEN)
<1>1. CASE call.op = "wr"
  <2>1. Answer = <<>>
    BY <1>1 DEF Answer
  <2>2. Fields(Answer) = <<>> /\ Fields(Answer) \o <<EOL>> = <<EOL>>
    BY <2>1 DEF Fields
  <2>3. <<EOL>> \in Seq(Byte) /\ Len(<<EOL>>) = 1
    BY DEF EOL, Byte
  <2>4. Rest = 1
    BY <1>1 DEF Rest
  <2>5. Fields(Answer) \in Seq(Byte)
    BY <2>2
  <2>6. /\ Fields(Answer) \o <<EOL>> \in Seq(Byte)
        /\ Len(Fields(Answer) \o <<EOL>>) = Rest /\ Rest \in Nat
    BY <2>2, <2>3, <2>4
  <2> QED BY <1>1, <2>5, <2>6
<1>2. ASSUME NEW x \in Seq(Byte), x = Answer, call.op # "wr", Len(x) = call.n, call.n \in Nat \ {0}
      PROVE  /\ Fields(Answer) \in Seq(Byte)
             /\ Fields(Answer) \o <<EOL>> \in Seq(Byte)
             /\ Len(Fields(Answer) \o <<EOL>>) = Rest /\ Rest \in Nat
             /\ data_geth(Tail(Fields(Answer) \o <<EOL>>), call.n) = Answer
  <2>1. x # <<>>
    BY <1>2
  <2>2. /\ Fields(x) \in Seq(Byte)
        /\ Fields(x) \o <<EOL>> \in Seq(Byte)
        /\ Len(Fields(x) \o <<EOL>>) = 1 + 2 * Len(x) + 1
        /\ data_geth(Tail(Fields(x) \o <<EOL>>), Len(x)) = x
    BY <2>1, AnswerArrives
  <2>3. Rest = 1 + 2 * call.n + 1 /\ Rest \in Nat
    BY <1>2 DEF Rest
  <2> QED BY <1>2, <2>2, <2>3
<1>3. CASE call.op = "rd"
  <2>1. call.n = BLOCK_LEN /\ call.a \in 0 .. BLOCK_NUM - 1 /\ Answer = blocks[call.a]
    BY <1>3 DEF Store!Possible, Answer
  <2>2. Answer \in [1 .. BLOCK_LEN -> Byte] /\ BLOCK_LEN \in Nat \ {0}
    BY <2>1, ModulusIsNat, DiskAssumption DEF Image
  <2>3. Answer \in Seq(Byte) /\ Len(Answer) = BLOCK_LEN
    <3> HIDE DEF Answer
    <3>1. Answer \in Seq(Byte)
      BY <2>2, SeqDef
    <3> QED BY <2>2, <3>1
  <2> QED BY <1>2, <1>3, <2>1, <2>2, <2>3 DEF Image
<1>4. CASE call.op \in {"num", "len"}
  <2>1. call.n = 2 * WORD /\ Answer = Bytes(BLOCK_NUM) \o Bytes(BLOCK_LEN)
    BY <1>4, CallIs DEF Answer
  <2>2. BLOCK_NUM \in 0 .. Modulus - 1 /\ BLOCK_LEN \in 0 .. Modulus - 1
    BY ModulusIsNat, DiskAssumption
  <2>3. /\ Bytes(BLOCK_NUM) \in Seq(Byte) /\ Len(Bytes(BLOCK_NUM)) = WORD
        /\ Bytes(BLOCK_LEN) \in Seq(Byte) /\ Len(Bytes(BLOCK_LEN)) = WORD
    BY <2>2, WordArrives
  <2>4. Answer \in Seq(Byte) /\ Len(Answer) = 2 * WORD /\ 2 * WORD \in Nat \ {0}
    <3>1. Len(Bytes(BLOCK_NUM) \o Bytes(BLOCK_LEN)) = WORD + WORD
      BY <2>3
    <3>2. Bytes(BLOCK_NUM) \o Bytes(BLOCK_LEN) \in Seq(Byte)
      BY <2>3
    <3> QED BY <2>1, <3>1, <3>2, DiskAssumption
  <2> QED BY <1>2, <1>4, <2>1, <2>4
<1> QED BY <1>1, <1>3, <1>4, CallIs

\* An acknowledgement of two digits and f: the driver reads the digits, and
\* then has f and the end of line before it.
LEMMA AcknowledgementIs ==
  ASSUME NEW status \in Byte, NEW f \in Seq(Byte)
  PROVE  LET s == hexlify(status) \o f \o <<EOL>>
         IN  /\ s \in Seq(Byte) /\ Len(s) >= 2
             /\ <<>> \o hexlify(status) \o f \o <<EOL>> = s
             /\ PL011_geth(s[1], s[2]) = status
             /\ SubSeq(s, 3, Len(s)) = f \o <<EOL>>
<1>1. PICK h \in Seq(Byte) : h = hexlify(status) /\ Len(h) = 2 /\ PL011_geth(h[1], h[2]) = status
  BY ServerToDriver
<1>2. PICK e \in Byte : e = EOL
  BY DEF EOL, Byte
<1> DEFINE t == f \o <<e>>
           s == h \o t
<1>3. t \in Seq(Byte)
  OBVIOUS
<1>4. h \o f \o <<e>> = s /\ <<>> \o h = h
  BY <1>1, ConcatAssociative, ConcatEmptySeq
<1> HIDE DEF t
<1>5. /\ s \in Seq(Byte) /\ Len(s) = Len(h) + Len(t)
      /\ \A k \in 1 .. Len(h) + Len(t) : s[k] = IF k <= Len(h) THEN h[k] ELSE t[k - Len(h)]
  BY <1>1, <1>3, ConcatProperties
<1> HIDE DEF s
<1>6. Len(t) \in Nat /\ Len(s) = 2 + Len(t) /\ s[1] = h[1] /\ s[2] = h[2]
  BY <1>1, <1>3, <1>5
<1>7. SubSeq(s, 3, Len(s)) = t
  <2> DEFINE u == SubSeq(s, 3, Len(s))
  <2>1. u \in Seq(Byte) /\ Len(u) = Len(t) /\ \A k \in 1 .. Len(t) : u[k] = s[k + 2]
    BY <1>3, <1>5, <1>6
  <2>2. \A k \in 1 .. Len(t) : s[k + 2] = t[k]
    BY <1>1, <1>5, <1>6
  <2> HIDE DEF u
  <2>3. u = t
    BY <1>3, <2>1, <2>2, SeqEqual
  <2> QED BY <2>3 DEF u
<1> QED BY <1>1, <1>2, <1>3, <1>4, <1>5, <1>6, <1>7 DEF t, s

-----------------------------------------------------------------------------
(***************************************************************************)
(* The inductive invariant: the types and the line.                        *)
(***************************************************************************)
DiskInv == TypeOK /\ Line

LEMMA DiskInit == Init => DiskInv
<1> SUFFICES ASSUME Init PROVE DiskInv
  OBVIOUS
<1>1. /\ call = Store!NoCall /\ result = [r |-> -1, x |-> <<>>]
      /\ at = "idle" /\ i = 0 /\ tx = NoRequest /\ rx = <<>> /\ up = TRUE /\ shorts = 0
  BY DEF Init, Store!Init, Store!Failure
<1>2. blocks \in [0 .. BLOCK_NUM - 1 -> Image]
  <2>1. {x \in Data : Len(x) = BLOCK_LEN} \subseteq Image
    BY ImageIs, DiskAssumption
  <2> QED BY <2>1 DEF Init
<1>3. TypeOK
  BY <1>1, <1>2, DiskAssumption DEF TypeOK
<1>4. Line
  BY <1>1 DEF Line
<1> QED BY <1>3, <1>4 DEF DiskInv

LEMMA CallInv ==
  ASSUME DiskInv, NEW c \in Calls, Call(c)
  PROVE  DiskInv'
<1>1. /\ at = "idle" /\ tx = NoRequest /\ rx = <<>> /\ up
      /\ call' = c /\ at' = "request" /\ i' = 0 /\ shorts' = 0
      /\ UNCHANGED <<result, tx, rx, up, blocks>>
  BY DEF DiskInv, Line, Call
<1>2. TypeOK'
  BY <1>1, DiskAssumption DEF DiskInv, TypeOK
<1>3. Line'
  BY <1>1 DEF Line, Tried
<1> QED BY <1>2, <1>3 DEF DiskInv

LEMMA SendRequestInv ==
  ASSUME DiskInv, SendRequest
  PROVE  DiskInv'
<1>1. /\ at = "request" /\ call \in Calls /\ rx = <<>> /\ up /\ Tried(i)
      /\ at' = "ack" /\ tx' = Request
      /\ UNCHANGED <<call, i, result, rx, up, blocks, shorts>>
  BY DEF DiskInv, Line, SendRequest
<1>2. Request' = Request /\ Tried(i)'
  BY <1>1 DEF Request, Tried
<1>3. TypeOK'
  BY <1>1, <1>2 DEF DiskInv, TypeOK
<1>4. Line'
  BY <1>1, <1>2 DEF Line
<1> QED BY <1>3, <1>4 DEF DiskInv

\* The driver takes an acknowledgement for what it is.
LEMMA ReadCommandInv ==
  ASSUME DiskInv, ReadCommand
  PROVE  DiskInv'
<1>1. /\ at = "ack" /\ call \in Calls /\ Len(rx) >= 2 /\ rx' = SubSeq(rx, 3, Len(rx))
      /\ at' = IF PL011_geth(rx[1], rx[2]) = ACK_OKAY THEN "okay" ELSE "fail"
      /\ UNCHANGED <<call, i, result, tx, up, blocks, shorts>>
      /\ blocks \in [0 .. BLOCK_NUM - 1 -> Image]
  BY DEF DiskInv, TypeOK, Line, ReadCommand, Read
<1>2. \/ tx = NoRequest /\ up /\ Carried /\ rx = hexlify(ACK_OKAY) \o Fields(Answer) \o <<EOL>>
      \/ tx = NoRequest /\ up /\ Failed /\ rx = hexlify(ACK_FAIL) \o <<EOL>>
  <2>1. rx # <<>>
    BY <1>1
  <2> QED BY <1>1, <2>1, Zenon DEF DiskInv, Line
<1>3. Answer' = Answer /\ (Carried => Carried') /\ (Failed => Failed') /\ Request' = Request
  BY <1>1 DEF Answer, Carried, Failed, Tried, Request
<1>4. CASE tx = NoRequest /\ up /\ Carried /\ rx = hexlify(ACK_OKAY) \o Fields(Answer) \o <<EOL>>
  <2>1. Fields(Answer) \in Seq(Byte) /\ Fields(Answer) \o <<EOL>> \in Seq(Byte) /\ ACK_OKAY \in Byte
    BY <1>1, <1>4, AnswerIs DEF Carried, ACK_OKAY, Byte
  <2>2. at' = "okay" /\ rx' = Fields(Answer) \o <<EOL>>
    BY <1>1, <1>4, <2>1, AcknowledgementIs
  <2>3. TypeOK'
    BY <1>1, <1>3, <2>1, <2>2 DEF DiskInv, TypeOK
  <2>4. Line'
    BY <1>1, <1>3, <1>4, <2>2 DEF Line
  <2> QED BY <2>3, <2>4 DEF DiskInv
<1>5. CASE tx = NoRequest /\ up /\ Failed /\ rx = hexlify(ACK_FAIL) \o <<EOL>>
  <2>1. hexlify(ACK_FAIL) \o <<EOL>> = hexlify(ACK_FAIL) \o <<>> \o <<EOL>> /\ <<>> \o <<EOL>> = <<EOL>>
    BY ServerToDriver, ConcatEmptySeq DEF ACK_FAIL, EOL, Byte
  <2>2. ACK_FAIL \in Byte /\ ACK_FAIL # ACK_OKAY /\ <<>> \in Seq(Byte)
    BY DEF ACK_FAIL, ACK_OKAY, Byte
  <2>3. at' = "fail" /\ rx' = <<EOL>>
    BY <1>1, <1>5, <2>1, <2>2, AcknowledgementIs
  <2>4. <<EOL>> \in Seq(Byte)
    BY DEF EOL, Byte
  <2>5. TypeOK'
    BY <1>1, <1>3, <2>3, <2>4 DEF DiskInv, TypeOK
  <2>6. Line'
    BY <1>1, <1>3, <1>5, <2>3 DEF Line
  <2> QED BY <2>5, <2>6 DEF DiskInv
<1> QED BY <1>2, <1>4, <1>5

\* What the driver reads after an okay is the answer, and all of it.
LEMMA OkayReads ==
  ASSUME DiskInv, Okay
  PROVE  /\ call \in Calls /\ Carried /\ tx = NoRequest /\ up /\ rx' = <<>>
         /\ \/ call.op = "num" /\ Return(BLOCK_NUM, <<>>)
            \/ call.op = "len" /\ Return(BLOCK_LEN, <<>>)
            \/ call.op = "wr" /\ Return(0, <<>>)
            \/ call.op = "rd" /\ Return(0, blocks[call.a]) /\ blocks[call.a] \in Image
<1> DEFINE x == data_geth(Tail(rx), call.n)
<1>1. /\ at = "okay" /\ call \in Calls /\ tx = NoRequest /\ up /\ Carried
      /\ rx = Fields(Answer) \o <<EOL>>
      /\ rx' = SubSeq(rx, Rest + 1, Len(rx))
      /\ blocks \in [0 .. BLOCK_NUM - 1 -> Image]
  BY DEF DiskInv, TypeOK, Line, Okay, Read
<1>2. /\ rx \in Seq(Byte) /\ Len(rx) = Rest /\ Rest \in Nat
      /\ call.op # "wr" => x = Answer
      /\ call.op = "rd" => Answer = blocks[call.a] /\ Answer \in Image
      /\ call.op \in {"num", "len"} => Answer = Bytes(BLOCK_NUM) \o Bytes(BLOCK_LEN)
  BY <1>1, AnswerIs DEF Carried
<1>3. rx' = <<>>
  BY <1>1, <1>2
<1>4. CASE call.op \in {"num", "len"}
  <2>1. BLOCK_NUM \in 0 .. Modulus - 1 /\ BLOCK_LEN \in 0 .. Modulus - 1
    BY ModulusIsNat, DiskAssumption
  <2> DEFINE b == Bytes(BLOCK_NUM)
             c == Bytes(BLOCK_LEN)
  <2>2. /\ b \in Seq(Byte) /\ Len(b) = WORD /\ Unsigned(b) = BLOCK_NUM
        /\ c \in Seq(Byte) /\ Len(c) = WORD /\ Unsigned(c) = BLOCK_LEN
    BY <2>1, WordArrives
  <2>3. x = b \o c
    BY <1>2, <1>4
  <2> HIDE DEF b, c
  <2>4. SubSeq(b \o c, 1, WORD) = b /\ SubSeq(b \o c, WORD + 1, 2 * WORD) = c
    BY <2>2, DiskAssumption
  <2> QED BY <1>1, <1>3, <1>4, <2>2, <2>3, <2>4 DEF Okay
<1>5. CASE call.op \in {"wr", "rd"}
  BY <1>1, <1>2, <1>3, <1>5 DEF Okay
<1> QED BY <1>1, <1>4, <1>5, CallIs

LEMMA OkayInv ==
  ASSUME DiskInv, Okay
  PROVE  DiskInv'
<1>1. \E r \in {0, BLOCK_NUM, BLOCK_LEN}, x \in {<<>>} \cup Image : Return(r, x)
  BY OkayReads
<1>2. /\ tx = NoRequest /\ up /\ rx' = <<>>
      /\ at' = "idle" /\ call' = Store!NoCall
      /\ result'.r \in {-1, 0, BLOCK_NUM, BLOCK_LEN} /\ result'.x \in {<<>>} \cup Image
      /\ UNCHANGED <<i, tx, up, blocks, shorts>>
  BY <1>1, OkayReads DEF Return
<1>3. TypeOK'
  BY <1>2 DEF DiskInv, TypeOK
<1>4. Line'
  BY <1>2 DEF Line
<1> QED BY <1>3, <1>4 DEF DiskInv

LEMMA RetryInv ==
  ASSUME DiskInv, Retry
  PROVE  DiskInv'
<1>1. /\ at = "fail" /\ call \in Calls /\ tx = NoRequest /\ up /\ Failed
      /\ rx = <<EOL>> /\ rx' = SubSeq(rx, 2, Len(rx))
      /\ i \in 0 .. DISK_RETRY - 1
  BY DEF DiskInv, TypeOK, Line, Retry, Read
<1>2. rx' = <<>>
  BY <1>1
<1>3. CASE ~LastTry /\ i' = i + 1 /\ at' = "request" /\ UNCHANGED <<call, result, tx, up, blocks, shorts>>
  <2>1. i' \in 0 .. DISK_RETRY - 1
    BY <1>1, <1>3, DiskAssumption DEF LastTry
  <2>2. Tried(i)'
    BY <1>1, <1>3 DEF Failed, Tried
  <2>3. Request' = Request
    BY <1>3 DEF Request
  <2>4. TypeOK'
    BY <1>2, <1>3, <2>1, <2>3 DEF DiskInv, TypeOK
  <2>5. Line'
    BY <1>1, <1>2, <1>3, <2>2 DEF Line
  <2> QED BY <2>4, <2>5 DEF DiskInv
<1>4. CASE LastTry /\ Return(-1, <<>>)
  <2>1. /\ at' = "idle" /\ call' = Store!NoCall /\ result' = [r |-> -1, x |-> <<>>]
        /\ UNCHANGED <<i, tx, up, blocks, shorts>>
    BY <1>4 DEF Return
  <2>2. TypeOK'
    BY <1>1, <1>2, <2>1 DEF DiskInv, TypeOK
  <2>3. Line'
    BY <1>1, <1>2, <2>1 DEF Line
  <2> QED BY <2>2, <2>3 DEF DiskInv
<1> QED BY <1>3, <1>4 DEF Retry

-----------------------------------------------------------------------------
(***************************************************************************)
(* The server's steps.                                                     *)
(***************************************************************************)

\* The server reads a request only while the driver waits for the answer to it.
LEMMA ServedAt ==
  ASSUME DiskInv, NEW cmd, cmd \in {REQ_CONF, REQ_WR, REQ_RD}, Served(cmd)
  PROVE  /\ at = "ack" /\ call \in Calls /\ tx = Request /\ rx = <<>> /\ up = TRUE /\ Tried(i)
         /\ tx' = NoRequest /\ UNCHANGED <<call, at, i, result>>
         /\ Request' = Request /\ (Fatal(call) => Fatal(call)')
<1>1. tx # NoRequest
  BY DEF Served, NoRequest, REQ_CONF, REQ_WR, REQ_RD
<1> QED BY <1>1 DEF DiskInv, TypeOK, Line, Served, driver, Request, Fatal

\* An acknowledgement leaves the line as the driver expects it.
LEMMA OkaySent ==
  ASSUME DiskInv, NEW cmd, cmd \in {REQ_CONF, REQ_WR, REQ_RD}, Served(cmd),
         blocks' \in [0 .. BLOCK_NUM - 1 -> Image], call.op # "wr" => blocks' = blocks,
         Store!Possible(call), call.op = "wr" => blocks'[call.a] = call.x,
         Acknowledge(ACK_OKAY, Answer), UNCHANGED <<up, shorts>>
  PROVE  DiskInv'
<1>1. /\ at = "ack" /\ call \in Calls /\ tx = Request /\ rx = <<>> /\ up = TRUE /\ Tried(i)
      /\ tx' = NoRequest /\ UNCHANGED <<call, at, i, result>> /\ Request' = Request
  BY ServedAt
<1>2. Fields(Answer) \in Seq(Byte) /\ ACK_OKAY \in Byte
  <2>1. blocks \in [0 .. BLOCK_NUM - 1 -> Image]
    BY DEF DiskInv, TypeOK
  <2> QED BY <1>1, <2>1, AnswerIs DEF ACK_OKAY, Byte
<1>3. rx' = hexlify(ACK_OKAY) \o Fields(Answer) \o <<EOL>> /\ rx' \in Seq(Byte)
  BY <1>1, <1>2, AcknowledgementIs DEF Acknowledge
<1>4. Carried' /\ Answer' = Answer
  BY <1>1, CallIs DEF Carried, Tried, Answer
<1>5. TypeOK'
  BY <1>1, <1>3 DEF DiskInv, TypeOK
<1>6. Line'
  BY <1>1, <1>3, <1>4 DEF Line
<1> QED BY <1>5, <1>6 DEF DiskInv

LEMMA FailSent ==
  ASSUME DiskInv, NEW cmd, cmd \in {REQ_CONF, REQ_WR, REQ_RD}, Served(cmd),
         call.op \in {"wr", "rd"},
         blocks' \in [0 .. BLOCK_NUM - 1 -> Image],
         shorts' = IF Store!Possible(call) THEN shorts + 1 ELSE shorts,
         Acknowledge(ACK_FAIL, <<>>), UNCHANGED up
  PROVE  DiskInv'
<1>1. /\ at = "ack" /\ call \in Calls /\ tx = Request /\ rx = <<>> /\ up = TRUE /\ Tried(i)
      /\ tx' = NoRequest /\ UNCHANGED <<call, at, i, result>> /\ Request' = Request
  BY ServedAt
<1>2. rx' = hexlify(ACK_FAIL) \o <<EOL>> /\ rx' \in Seq(Byte)
  <2>1. Fields(<<>>) = <<>> /\ <<>> \in Seq(Byte) /\ ACK_FAIL \in Byte
    BY DEF Fields, ACK_FAIL, Byte
  <2>2. hexlify(ACK_FAIL) \o <<>> = hexlify(ACK_FAIL)
    BY <2>1, ServerToDriver, ConcatEmptySeq
  <2>3. rx' = hexlify(ACK_FAIL) \o <<>> \o <<EOL>> /\ rx' \in Seq(Byte)
    <3>1. rx' = <<>> \o hexlify(ACK_FAIL) \o <<>> \o <<EOL>>
      BY <1>1, <2>1 DEF Acknowledge
    <3> QED BY <2>1, <3>1, AcknowledgementIs
  <2> QED BY <2>2, <2>3
<1>3. Failed' /\ shorts' \in 0 .. DISK_RETRY
  <2>1. i \in 0 .. DISK_RETRY - 1 /\ DISK_RETRY \in Nat
    BY DiskAssumption DEF DiskInv, TypeOK
  <2> QED BY <1>1, <2>1 DEF Failed, Tried
<1>4. TypeOK'
  BY <1>1, <1>2, <1>3 DEF DiskInv, TypeOK
<1>5. Line'
  BY <1>1, <1>2, <1>3 DEF Line
<1> QED BY <1>4, <1>5 DEF DiskInv

LEMMA ConfInv ==
  ASSUME DiskInv, Conf
  PROVE  DiskInv'
<1>1. Served(REQ_CONF) /\ UNCHANGED <<up, blocks, shorts>>
  BY DEF Conf
<1>2. call \in Calls /\ call.op \in {"num", "len"}
  BY <1>1, ServedAt, RequestIs DEF Served
<1>3. Store!Possible(call) /\ Acknowledge(ACK_OKAY, Answer)
  BY <1>2 DEF Store!Possible, Conf, Answer
<1> QED BY <1>1, <1>2, <1>3, OkaySent DEF DiskInv, TypeOK

LEMMA RefuseInv ==
  ASSUME DiskInv, NEW cmd \in {REQ_WR, REQ_RD}, Refuse(cmd)
  PROVE  DiskInv'
<1>1. Served(cmd) /\ ~NoDatum /\ ~Accepted /\ Acknowledge(ACK_FAIL, <<>>) /\ UNCHANGED <<up, blocks, shorts>>
  BY DEF Refuse
<1>2. call.op \in {"wr", "rd"} /\ ~Store!Possible(call)
  BY <1>1, ServedAt, RequestIs DEF Served
<1> QED BY <1>1, <1>2, FailSent DEF DiskInv, TypeOK

LEMMA DieInv ==
  ASSUME DiskInv, NEW cmd \in {REQ_WR, REQ_RD}, Die(cmd)
  PROVE  DiskInv'
<1>1. Served(cmd) /\ (NoDatum \/ (Accepted /\ Address < 0)) /\ up' = FALSE /\ UNCHANGED <<rx, blocks, shorts>>
  BY DEF Die
<1>2. /\ at = "ack" /\ call \in Calls /\ tx = Request /\ rx = <<>> /\ tx.cmd = cmd
      /\ tx' = NoRequest /\ UNCHANGED <<call, at, i, result>>
      /\ Request' = Request /\ (Fatal(call) => Fatal(call)')
  BY <1>1, ServedAt DEF Served
<1>3. Fatal(call)
  BY <1>1, <1>2, RequestIs
<1>4. TypeOK'
  BY <1>1, <1>2 DEF DiskInv, TypeOK
<1>5. Line'
  BY <1>1, <1>2, <1>3 DEF Line
<1> QED BY <1>4, <1>5 DEF DiskInv

\* The server writes the first n bytes of what the driver was asked to write to
\* the block the driver was asked to write, and to no other.
LEMMA WrWrites ==
  ASSUME DiskInv, Wr
  PROVE  /\ call \in Calls /\ call.op = "wr" /\ Store!Possible(call) /\ UNCHANGED <<call, result>>
         /\ \E n \in 0 .. BLOCK_LEN :
              /\ blocks' = [blocks EXCEPT ![call.a] =
                              [k \in 1 .. BLOCK_LEN |-> IF k <= n THEN call.x[k] ELSE @[k]]]
              /\ \/ n # BLOCK_LEN /\ Acknowledge(ACK_FAIL, <<>>) /\ Short
                 \/ n = BLOCK_LEN /\ Acknowledge(ACK_OKAY, <<>>) /\ UNCHANGED shorts
<1>1. Served(REQ_WR) /\ Accepted /\ Address >= 0
  BY DEF Wr
<1>2. call \in Calls /\ tx = Request /\ tx.cmd = REQ_WR /\ UNCHANGED <<call, result>>
  BY <1>1, ServedAt DEF Served
<1>3. call.op = "wr" /\ Store!Possible(call) /\ Address = call.a /\ unhexlify(tx.data) = call.x
  BY <1>1, <1>2, RequestIs
<1> QED BY <1>2, <1>3 DEF Wr, Complete

LEMMA WrInv ==
  ASSUME DiskInv, Wr
  PROVE  DiskInv'
<1>1. Served(REQ_WR) /\ UNCHANGED up
  BY DEF Wr
<1>2. /\ call \in Calls /\ call.op = "wr" /\ Store!Possible(call)
      /\ blocks \in [0 .. BLOCK_NUM - 1 -> Image]
  BY WrWrites DEF DiskInv, TypeOK
<1>3. PICK n \in 0 .. BLOCK_LEN :
        /\ blocks' = [blocks EXCEPT ![call.a] =
                        [k \in 1 .. BLOCK_LEN |-> IF k <= n THEN call.x[k] ELSE @[k]]]
        /\ \/ n # BLOCK_LEN /\ Acknowledge(ACK_FAIL, <<>>) /\ Short
           \/ n = BLOCK_LEN /\ Acknowledge(ACK_OKAY, <<>>) /\ UNCHANGED shorts
  BY WrWrites
<1>4. call.a \in 0 .. BLOCK_NUM - 1 /\ call.x \in Seq(Byte) /\ Len(call.x) = BLOCK_LEN
  BY <1>2, CallIs DEF Store!Possible
<1>5. call.x \in [1 .. BLOCK_LEN -> Byte] /\ blocks[call.a] \in [1 .. BLOCK_LEN -> Byte]
  BY <1>2, <1>4 DEF Image
<1> DEFINE b == [k \in 1 .. BLOCK_LEN |-> IF k <= n THEN call.x[k] ELSE blocks[call.a][k]]
<1>6. b \in Image /\ blocks' = [blocks EXCEPT ![call.a] = b] /\ (n = BLOCK_LEN => b = call.x)
  BY <1>3, <1>5, DiskAssumption DEF Image
<1> HIDE DEF b
<1>7. blocks' \in [0 .. BLOCK_NUM - 1 -> Image] /\ (n = BLOCK_LEN => blocks'[call.a] = call.x)
  BY <1>2, <1>4, <1>6
<1>8. CASE Acknowledge(ACK_FAIL, <<>>) /\ Short
  BY <1>1, <1>2, <1>7, <1>8, FailSent DEF Short
<1>9. CASE n = BLOCK_LEN /\ Acknowledge(ACK_OKAY, <<>>) /\ UNCHANGED shorts
  <2>1. Answer = <<>>
    BY <1>2 DEF Answer
  <2> QED BY <1>1, <1>2, <1>7, <1>9, <2>1, OkaySent
<1> QED BY <1>3, <1>8, <1>9

LEMMA RdInv ==
  ASSUME DiskInv, Rd
  PROVE  DiskInv'
<1>1. /\ Served(REQ_RD) /\ Accepted /\ Address >= 0 /\ UNCHANGED <<up, blocks>>
      /\ blocks \in [0 .. BLOCK_NUM - 1 -> Image]
  BY DEF Rd, DiskInv, TypeOK
<1>2. call \in Calls /\ tx = Request /\ tx.cmd = REQ_RD
  BY <1>1, ServedAt DEF Served
<1>3. call.op = "rd" /\ Store!Possible(call) /\ Address = call.a
  BY <1>1, <1>2, RequestIs
<1>4. CASE Acknowledge(ACK_OKAY, blocks[Address]) /\ UNCHANGED shorts
  <2>1. Answer = blocks[Address]
    BY <1>3 DEF Answer
  <2> QED BY <1>1, <1>3, <1>4, <2>1, OkaySent
<1>5. CASE Acknowledge(ACK_FAIL, <<>>) /\ Short
  BY <1>1, <1>3, <1>5, FailSent DEF Short
<1> QED BY <1>4, <1>5 DEF Rd

LEMMA DiskNext == DiskInv /\ [Next]_vars => DiskInv'
<1> SUFFICES ASSUME DiskInv, [Next]_vars PROVE DiskInv'
  OBVIOUS
<1>1. CASE \E c \in Calls : Call(c)
  BY <1>1, CallInv
<1>2. CASE Driver
  BY <1>2, SendRequestInv, ReadCommandInv, OkayInv, RetryInv DEF Driver
<1>3. CASE Server
  BY <1>3, ConfInv, WrInv, RdInv, RefuseInv, DieInv DEF Server
<1>4. CASE UNCHANGED vars
  <2>1. UNCHANGED <<call, at, i, result, tx, rx, up, blocks, shorts>>
    BY <1>4 DEF vars, driver
  <2>2. TypeOK'
    BY <2>1 DEF DiskInv, TypeOK, Request
  <2>3. Line'
    BY <2>1 DEF DiskInv, Line, Tried, Carried, Failed, Answer, Request, Fatal
  <2> QED BY <2>2, <2>3 DEF DiskInv
<1> QED BY <1>1, <1>2, <1>3, <1>4 DEF Next

-----------------------------------------------------------------------------
(***************************************************************************)
(* The theorems.                                                           *)
(***************************************************************************)

\* However big words, blocks and the disk are, and whatever callers ask for and
\* write, the state stays within its types: no more attempts than DISK_RETRY, no
\* block longer or shorter than a block (disk.c:80, disk.py:105).
THEOREM DiskTypeOK == Spec => []TypeOK
<1>1. DiskInv => TypeOK
  BY DEF DiskInv
<1> QED BY <1>1, DiskInit, DiskNext, PTL DEF Spec

\* The line carries what the two sides think it does, so the answer the driver
\* reads is the answer to the request it sent (disk.c:79-121, disk.py:31-101).
THEOREM DiskLine == Spec => []Line
<1>1. DiskInv => Line
  BY DEF DiskInv
<1> QED BY <1>1, DiskInit, DiskNext, PTL DEF Spec

\* A step in which a call returns -1 is its last retry.
LEMMA FailsLast ==
  ASSUME DiskInv, [Next]_vars, at # "idle", at' = "idle", result'.r = -1
  PROVE  Retry /\ LastTry /\ Return(-1, <<>>)
<1>1. CASE Okay
  <2>1. BLOCK_NUM # -1 /\ BLOCK_LEN # -1
    BY ModulusIsNat, DiskAssumption
  <2>2. \E r \in {0, BLOCK_NUM, BLOCK_LEN}, x \in {<<>>} \cup Image : Return(r, x)
    BY <1>1, OkayReads
  <2> QED BY <2>1, <2>2 DEF Return
<1>2. CASE Retry
  BY <1>2 DEF Retry
<1>3. CASE SendRequest \/ ReadCommand \/ \E c \in Calls : Call(c)
  BY <1>3 DEF SendRequest, ReadCommand, Call
<1>4. CASE Server
  BY <1>4 DEF Server, Conf, Wr, Rd, Refuse, Die, Served, driver
<1>5. CASE UNCHANGED vars
  BY <1>5 DEF vars, driver
<1> QED BY <1>1, <1>2, <1>3, <1>4, <1>5 DEF Next, Driver

\* A call the disk can carry out fails only after DISK_RETRY attempts, each of
\* which met a short read or write of the image (disk.h:22-24, disk.c:80-98).
THEOREM DiskGivesUpLate == Spec => GivesUpLate
<1>1. DiskInv /\ [Next]_vars
        => [at # "idle" /\ at' = "idle" /\ result'.r = -1 /\ Store!Possible(call)
              => shorts = DISK_RETRY]_vars
  <2> SUFFICES ASSUME DiskInv, [Next]_vars,
                      at # "idle", at' = "idle", result'.r = -1, Store!Possible(call)
               PROVE  shorts = DISK_RETRY
    OBVIOUS
  <2>1. at = "fail" /\ i + 1 = DISK_RETRY
    BY FailsLast DEF Retry, LastTry
  <2> QED BY <2>1 DEF DiskInv, Line, Failed, Tried
<1> QED BY <1>1, DiskInit, DiskNext, PTL DEF Spec, GivesUpLate

-----------------------------------------------------------------------------
(***************************************************************************)
(* The disk as an array of blocks: each step is a step of BlockStore or    *)
(* changes nothing it sees.                                                *)
(***************************************************************************)
LEMMA StoreNext == DiskInv /\ [Next]_vars => [Store!Next]_(Store!vars)
<1> SUFFICES ASSUME DiskInv, [Next]_vars PROVE [Store!Next]_(Store!vars)
  OBVIOUS
<1>1. ASSUME NEW c \in Calls, Call(c)
      PROVE  Store!Next
  <2>1. call = Store!NoCall
    BY <1>1 DEF DiskInv, Line, Call
  <2> QED BY <1>1, <2>1 DEF Call, Store!Next, Store!Begin
<1>2. CASE SendRequest \/ ReadCommand
  BY <1>2 DEF SendRequest, ReadCommand, Store!vars
<1>3. CASE Okay
  BY <1>3, OkayReads DEF Carried, Return, Store!Next, Store!Succeed, Store!Return
<1>4. CASE Retry
  <2>1. call.op \in {"wr", "rd"}
    BY <1>4 DEF Retry, DiskInv, Line, Failed
  <2> QED BY <1>4, <2>1 DEF Retry, Return, Store!Next, Store!Fail, Store!Return, Store!vars
<1>5. CASE Wr
  <2>1. /\ call.op = "wr" /\ Store!Possible(call) /\ UNCHANGED <<call, result>>
        /\ blocks \in [0 .. BLOCK_NUM - 1 -> Image]
    BY <1>5, WrWrites DEF DiskInv, TypeOK
  <2>2. PICK n \in 0 .. BLOCK_LEN :
          blocks' = [blocks EXCEPT ![call.a] =
                       [k \in 1 .. BLOCK_LEN |-> IF k <= n THEN call.x[k] ELSE @[k]]]
    BY <1>5, WrWrites
  <2>3. call.a \in DOMAIN blocks
    BY <2>1 DEF Store!Possible
  <2>4. /\ \A a \in DOMAIN blocks \ {call.a} : blocks'[a] = blocks[a]
        /\ DOMAIN blocks' = DOMAIN blocks
        /\ \A k \in 1 .. BLOCK_LEN : blocks'[call.a][k] \in {blocks[call.a][k], call.x[k]}
    BY <2>2, <2>3
  <2> QED BY <2>1, <2>4 DEF Store!Next, Store!Touch
<1>6. CASE Conf \/ Rd \/ \E cmd \in {REQ_WR, REQ_RD} : Refuse(cmd) \/ Die(cmd)
  BY <1>6 DEF Conf, Rd, Refuse, Die, Served, driver, Store!vars
<1>7. CASE UNCHANGED vars
  BY <1>7 DEF vars, driver, Store!vars
<1> QED BY <1>1, <1>2, <1>3, <1>4, <1>5, <1>6, <1>7 DEF Next, Driver, Server

\* The driver and the server together are an array of blocks: a write that
\* succeeds is on the disk, a read that succeeds returns what is there, and no
\* block changes but the one being written (disk.h:14-41).
THEOREM DiskImplementsStore == Spec => StoreSpec
<1>1. Init => Store!Init
  BY DEF Init
<1> QED BY <1>1, DiskInit, DiskNext, StoreNext, PTL DEF Spec, StoreSpec, Store!Spec
=============================================================================
