-------------------------------- MODULE Disk --------------------------------
(***************************************************************************)
(* The disk: the driver device/disk.c, which runs on the board, and the    *)
(* server device/disk.py, which runs on the host and keeps the disk image. *)
(* UART2 is a stream of characters each way, and loses none.               *)
(*                                                                         *)
(* The server reads a whole line before it looks at it, so a request is    *)
(* one message (tx).  The driver reads what it expects, character by       *)
(* character, whatever arrives, so the other direction is a FIFO of        *)
(* characters (rx).  The driver has one caller, and no timeout.            *)
(*                                                                         *)
(* A definition named _slip is the next one with a plausible mistake in    *)
(* it, which nothing uses.                                                 *)
(***************************************************************************)
EXTENDS PL011

CONSTANTS
  DISK_RETRY,    \* attempts per call (3 in the code)
  WORD,          \* bytes in a uint32_t (4 in the code)
  BLOCK_NUM,     \* --block-num
  BLOCK_LEN,     \* --block-len
  Addresses,     \* addresses callers ask for
  Data           \* what callers write: sequences of bytes of any length

\* What the k-th byte of a word counts for, the least significant first.
Place[k \in 0 .. WORD] == IF k = 0 THEN 1 ELSE 256 * Place[k - 1]
Modulus == Place[WORD]

ASSUME DiskAssumption ==
  /\ DISK_RETRY \in Nat \ {0}
  /\ WORD \in Nat \ {0}
  /\ BLOCK_NUM \in 1 .. Modulus \div 2 - 1   \* struct.pack packs both as signed
  /\ BLOCK_LEN \in 1 .. Modulus \div 2 - 1
  /\ Addresses \subseteq 0 .. Modulus - 1
  /\ Data \subseteq Seq(Byte)

VARIABLES
  call,     \* the call the driver is executing
  at,       \* where it is in it
  i,        \* its loop counter
  result,   \* what the last call returned
  tx,       \* the request the server has not read
  rx,       \* the characters the driver has not read
  up,       \* whether the server runs
  blocks,   \* the disk image
  shorts    \* history: short reads and writes of the image during the call

driver == <<call, at, i, result>>
vars == <<driver, tx, rx, up, blocks, shorts>>

\* a, x and n are the arguments; the two queries read two words.  Reading any
\* other number of bytes than BLOCK_LEN takes the driver out of step with the
\* server for good: callers have to know the length, and disk_rd does not check.
Calls ==
  [op : {"num", "len"}, a : {0}, x : {<<>>}, n : {2 * WORD}]
    \cup {[op |-> "wr", a |-> a, x |-> x, n |-> Len(x)] : a \in Addresses, x \in Data}
    \cup [op : {"rd"}, a : Addresses, x : {<<>>}, n : {BLOCK_LEN}]

Store == INSTANCE BlockStore

REQ_CONF == 0
REQ_WR == 1
REQ_RD == 2
ACK_OKAY == 0
ACK_FAIL == 1

Separator == 32
EOL == 10

NoRequest == [cmd |-> -1, addr |-> <<>>, data |-> <<>>]

Image == [1 .. BLOCK_LEN -> Byte]

\* addr_puth: a word goes least significant byte first, as struct's '<l' has it.
Bytes_slip(a) == [k \in 1 .. WORD |-> (a \div Place[WORD - k]) % 256]
Bytes(a) == [k \in 1 .. WORD |-> (a \div Place[k - 1]) % 256]

Unsigned(b) ==
  LET v[k \in 0 .. WORD] == IF k = 0 THEN 0 ELSE v[k - 1] + b[k] * Place[k - 1]
  IN  v[WORD]
Signed(b) ==
  IF Unsigned(b) < Modulus \div 2 THEN Unsigned(b) ELSE Unsigned(b) - Modulus

-----------------------------------------------------------------------------
(***************************************************************************)
(* The driver.                                                             *)
(***************************************************************************)
Init ==
  /\ Store!Init
  /\ at = "idle"
  /\ i = 0
  /\ tx = NoRequest
  /\ rx = <<>>
  /\ up = TRUE
  /\ blocks \in [0 .. BLOCK_NUM - 1 -> {x \in Data : Len(x) = BLOCK_LEN}]
  /\ shorts = 0

Call_slip(c) ==
  /\ at = "idle"
  /\ call' = c
  /\ at' = "request"
  /\ shorts' = 0
  /\ UNCHANGED <<i, result, tx, rx, up, blocks>>

Call(c) ==
  /\ at = "idle"
  /\ call' = c
  /\ at' = "request"
  /\ i' = 0
  /\ shorts' = 0
  /\ UNCHANGED <<result, tx, rx, up, blocks>>

Request ==
  [cmd  |-> CASE call.op = "wr" -> REQ_WR [] call.op = "rd" -> REQ_RD [] OTHER -> REQ_CONF,
   addr |-> IF call.op \in {"wr", "rd"} THEN data_puth(Bytes(call.a)) ELSE <<>>,
   data |-> data_puth(call.x)]

SendRequest ==
  /\ at = "request"
  /\ at' = "ack"
  /\ tx' = Request
  /\ UNCHANGED <<call, i, result, rx, up, blocks, shorts>>

\* Consume n characters, once they have arrived.
Read(n) ==
  /\ Len(rx) >= n
  /\ rx' = SubSeq(rx, n + 1, Len(rx))

ReadCommand ==
  /\ at = "ack"
  /\ Read(2)
  /\ at' = IF PL011_geth(rx[1], rx[2]) = ACK_OKAY THEN "okay" ELSE "fail"
  /\ UNCHANGED <<call, i, result, tx, up, blocks, shorts>>

Return(r, x) ==
  /\ at' = "idle"
  /\ call' = Store!NoCall
  /\ result' = [r |-> r, x |-> x]
  /\ UNCHANGED <<i, tx, up, blocks, shorts>>

\* What follows an acknowledgement: separator, data and end of line, or just
\* the last.
Rest_slip == 1 + 2 * call.n + 1
Rest == IF call.op = "wr" THEN 1 ELSE 1 + 2 * call.n + 1

Okay ==
  LET x == data_geth(Tail(rx), call.n)
  IN  /\ at = "okay"
      /\ Read(Rest)
      /\ CASE call.op = "num" -> Return(Unsigned(SubSeq(x, 1, WORD)), <<>>)
           [] call.op = "len" -> Return(Unsigned(SubSeq(x, WORD + 1, 2 * WORD)), <<>>)
           [] call.op = "wr"  -> Return(0, <<>>)
           [] call.op = "rd"  -> Return(0, x)

LastTry_slip == i + 2 >= DISK_RETRY
LastTry == i + 1 = DISK_RETRY

Retry ==
  /\ at = "fail"
  /\ Read(1)
  /\ \/ /\ ~LastTry
        /\ i' = i + 1
        /\ at' = "request"
        /\ UNCHANGED <<call, result, tx, up, blocks, shorts>>
     \/ LastTry /\ Return(-1, <<>>)

Driver == SendRequest \/ ReadCommand \/ Okay \/ Retry

-----------------------------------------------------------------------------
(***************************************************************************)
(* The server.                                                             *)
(***************************************************************************)
Fields(x) == IF x = <<>> THEN <<>> ELSE <<Separator>> \o Digits([b \in Byte |-> hexlify(b)], x)
Acknowledge(status, x) == rx' = rx \o hexlify(status) \o Fields(x) \o <<EOL>>

\* The server has read a request of kind cmd.
Served(cmd) ==
  /\ up = TRUE
  /\ tx.cmd = cmd
  /\ tx' = NoRequest
  /\ UNCHANGED driver

Conf ==
  /\ Served(REQ_CONF)
  /\ Acknowledge(ACK_OKAY, Bytes(BLOCK_NUM) \o Bytes(BLOCK_LEN))
  /\ UNCHANGED <<up, blocks, shorts>>

Address == Signed(unhexlify(tx.addr))

\* strip() removes the separator before an empty datum, and then there is no
\* third field to read.
NoDatum == tx.cmd = REQ_WR /\ tx.data = <<>>

Accepted ==
  /\ ~NoDatum
  /\ Address < BLOCK_NUM
  /\ tx.cmd = REQ_WR => Len(unhexlify(tx.data)) = BLOCK_LEN

Refuse(cmd) ==
  /\ Served(cmd)
  /\ ~NoDatum /\ ~Accepted
  /\ Acknowledge(ACK_FAIL, <<>>)
  /\ UNCHANGED <<up, blocks, shorts>>

\* An exception that nothing catches: no such field, or a seek to before the
\* beginning of the image.
Die(cmd) ==
  /\ Served(cmd)
  /\ NoDatum \/ (Accepted /\ Address < 0)
  /\ up' = FALSE
  /\ UNCHANGED <<rx, blocks, shorts>>

\* os.write and os.read may do less than they were asked to.
Short == shorts' = shorts + 1

Complete_slip(n) == TRUE
Complete(n) == n = BLOCK_LEN

Wr ==
  /\ Served(REQ_WR)
  /\ Accepted /\ Address >= 0
  /\ \E n \in 0 .. BLOCK_LEN :
       /\ blocks' = [blocks EXCEPT ![Address] =
                       [k \in 1 .. BLOCK_LEN |-> IF k <= n THEN unhexlify(tx.data)[k] ELSE @[k]]]
       /\ \/ ~Complete(n) /\ Acknowledge(ACK_FAIL, <<>>) /\ Short
          \/ Complete(n) /\ Acknowledge(ACK_OKAY, <<>>) /\ UNCHANGED shorts
  /\ UNCHANGED up

Rd ==
  /\ Served(REQ_RD)
  /\ Accepted /\ Address >= 0
  /\ \/ Acknowledge(ACK_OKAY, blocks[Address]) /\ UNCHANGED shorts
     \/ Acknowledge(ACK_FAIL, <<>>) /\ Short
  /\ UNCHANGED <<up, blocks>>

Server ==
  \/ Conf \/ Wr \/ Rd
  \/ \E cmd \in {REQ_WR, REQ_RD} : Refuse(cmd) \/ Die(cmd)

-----------------------------------------------------------------------------
Next == (\E c \in Calls : Call(c)) \/ Driver \/ Server

\* The driver spins on the UART, and the server is a running program.
Spec == Init /\ [][Next]_vars /\ WF_vars(Driver) /\ WF_vars(Server)

-----------------------------------------------------------------------------
\* Type invariant: no more bytes than a block, no more attempts than
\* DISK_RETRY (disk.c:80).
TypeOK ==
  /\ call \in Calls \cup {Store!NoCall}
  /\ at \in {"idle", "request", "ack", "okay", "fail"}
  /\ i \in 0 .. DISK_RETRY - 1
  /\ result.r \in {-1, 0, BLOCK_NUM, BLOCK_LEN}
  /\ result.x \in {<<>>} \cup Image
  /\ tx = NoRequest \/ tx = Request
  /\ rx \in Seq(Byte)
  /\ up \in BOOLEAN
  /\ blocks \in [0 .. BLOCK_NUM - 1 -> Image]
  /\ shorts \in 0 .. DISK_RETRY

\* The driver and the server implement an array of blocks: a successful write
\* is on the disk and a successful read returns what is there, across retries,
\* short writes, the two ways of writing digits and the order of bytes in a
\* word; no call touches a block it was not asked to write (disk.h:14-41).
StoreSpec == Store!Spec

\* A call returns, unless it asks for an address that is negative when signed or
\* writes nothing: these two kill the server, and the driver then waits for ever
\* (disk.py:34-35, 43, 62, disk.c:88, 109).
Fatal(c) ==
  /\ c.op \in {"wr", "rd"}
  /\ c.n \in {0, BLOCK_LEN}
  /\ c.n = 0 \/ Signed(Bytes(c.a)) < 0
Returns == (at # "idle" /\ ~Fatal(call)) ~> at = "idle"

\* The line at every moment: a request carries what the driver was called with,
\* an acknowledgement what the server has done about it.  Okay is sent for what
\* is on the disk by then, and exactly as long as the driver will read; a refusal
\* or a short transfer is sent as a failure, one for each attempt; and the server
\* stops only over a call that is fatal (disk.py:31-101, disk.c:79-121).
Answer ==
  CASE call.op \in {"num", "len"} -> Bytes(BLOCK_NUM) \o Bytes(BLOCK_LEN)
    [] call.op = "wr"             -> <<>>
    [] call.op = "rd"             -> blocks[call.a]

Tried(n) == shorts = IF Store!Possible(call) THEN n ELSE 0
Carried == Store!Possible(call) /\ Tried(i) /\ (call.op = "wr" => blocks[call.a] = call.x)
Failed == call.op \in {"wr", "rd"} /\ Tried(i + 1)

Line ==
  /\ at = "idle" => call = Store!NoCall /\ tx = NoRequest /\ rx = <<>> /\ up
  /\ at # "idle" => call \in Calls
  /\ at = "request" => tx = NoRequest /\ rx = <<>> /\ up /\ Tried(i)
  /\ at = "ack" =>
       \/ tx = Request /\ rx = <<>> /\ up /\ Tried(i)
       \/ tx = NoRequest /\ rx = <<>> /\ ~up /\ Fatal(call)
       \/ tx = NoRequest /\ up /\ Carried /\ rx = hexlify(ACK_OKAY) \o Fields(Answer) \o <<EOL>>
       \/ tx = NoRequest /\ up /\ Failed /\ rx = hexlify(ACK_FAIL) \o <<EOL>>
  /\ at = "okay" => tx = NoRequest /\ up /\ Carried /\ rx = Fields(Answer) \o <<EOL>>
  /\ at = "fail" => tx = NoRequest /\ up /\ Failed /\ rx = <<EOL>>

\* A call that the disk can carry out fails only after DISK_RETRY attempts that
\* each met a short read or write of the image (disk.h:22-24).
GivesUpLate ==
  [][at # "idle" /\ at' = "idle" /\ result'.r = -1 /\ Store!Possible(call)
       => shorts = DISK_RETRY]_vars
=============================================================================
