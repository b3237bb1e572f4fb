------------------------------ MODULE Numerals ------------------------------
(***************************************************************************)
(* Numbers on the terminal: what the kernel and the commands print, what   *)
(* the commands read back, and how cmd_poke takes its line apart, with the *)
(* arithmetic of SoftMath underneath.  Texts are sequences of characters.  *)
(* The numbers of a call are the state of SoftMath.                        *)
(***************************************************************************)
EXTENDS SoftMath, SequencesExt

CONSTANT ARG_MAX  \* characters cmd_poke copies of one argument: 31

\* Hexadecimal digits of a register.
Nibbles == (WIDTH + 3) \div 4

\* An argument holds "0x" and every digit.
ASSUME ArgMaxAssumption == ARG_MAX \in Nat /\ ARG_MAX >= Nibbles + 2

hex_chars ==
  <<"0", "1", "2", "3", "4", "5", "6", "7", "8", "9", "A", "B", "C", "D", "E", "F">>
lower_chars ==
  <<"0", "1", "2", "3", "4", "5", "6", "7", "8", "9", "a", "b", "c", "d", "e", "f">>

\* k + '0', which is a digit only up to 9.
Digit(k) == IF k < 10 THEN hex_chars[k + 1] ELSE "no digit"

\* The value of a character to a parser that knows the first `base` digits of
\* either case, or `base` if it is none of them.
ValueOf(ch, base) ==
  LET here == {k \in 0 .. base - 1 : ch \in {hex_chars[k + 1], lower_chars[k + 1]}}
  IN  IF here = {} THEN base ELSE CHOOSE k \in here : TRUE

\* One character more: the loop of my_atoi or strtoul_hex ends at the first
\* that is no digit, and drops what does not fit into the register.
Shifted(acc, ch, base) ==
  LET k == ValueOf(ch, base) IN
  IF acc.ended \/ k = base THEN [val |-> acc.val, ended |-> TRUE]
  ELSE [val |-> Wrap(acc.val * base + k), ended |-> FALSE]

\* What that loop makes of s.
Parsed(s, base) ==
  LET loop[k \in 0 .. Len(s)] ==
        IF k = 0 THEN [val |-> 0, ended |-> FALSE] ELSE Shifted(loop[k - 1], s[k], base)
  IN  loop[Len(s)].val

-----------------------------------------------------------------------------
(* Decimal                                                                 *)

my_atoi(s) == Parsed(s, 10)

\* The next digit, the lowest first.
Extract(s) ==
  IF s.num = 0 THEN s
  ELSE [num |-> udiv(s.num, 10), buf |-> Append(s.buf, Digit(umod(s.num, 10)))]

\* The digits print_dec gets by division; fewer than the number has bits.
Extracted(num) ==
  LET loop[k \in 0 .. WIDTH] ==
        IF k = 0 THEN [num |-> num, buf |-> <<>>] ELSE Extract(loop[k - 1])
  IN  loop[WIDTH].buf

\* The digits left in the order they are found (mutant of InOrder).
AsExtracted(buf) == buf

InOrder(buf) == Reverse(buf)

print_dec(num) == IF num = 0 THEN <<"0">> ELSE InOrder(Extracted(num))

OneDigit(val) == Signed(val) < 10

\* Minutes and seconds of the monitor.
int_to_str(val) ==
  IF OneDigit(val) THEN <<"0", Digit(val)>> ELSE <<Digit(div(val, 10)), Digit(mod(val, 10))>>

-----------------------------------------------------------------------------
(* Hexadecimal                                                             *)

\* "0x" and all digits, from the top; print_hex and debug_hex do the same.
val_to_hex(val, chars) ==
  <<"0", "x">> \o [i \in 1 .. Nibbles |-> chars[((val \div Pow2[4 * (Nibbles - i)]) % 16) + 1]]

Prefixed(s) == Len(s) >= 2 /\ s[1] = "0" /\ s[2] \in {"x", "X"}

strtoul_hex(s) == Parsed(IF Prefixed(s) THEN SubSeq(s, 3, Len(s)) ELSE s, 16)

-----------------------------------------------------------------------------
(* The two arguments of cmd_poke                                           *)

WordLength(s) == Min({i \in 1 .. Len(s) : s[i] = " "} \cup {Len(s) + 1, ARG_MAX + 1}) - 1

Word(s) == SubSeq(s, 1, WordLength(s))

\* What comes after the first argument.
Rest(s) == SubSeq(s, WordLength(s) + 1, Len(s))

\* One space skipped, as cmd_write_file does (mutant of SkipSpaces).
SkipOneSpace(s) == IF s # <<>> /\ s[1] = " " THEN SubSeq(s, 2, Len(s)) ELSE s

SkipSpaces(s) ==
  LET spaces == Min({i \in 1 .. Len(s) : s[i] # " "} \cup {Len(s) + 1}) - 1
  IN  SubSeq(s, spaces + 1, Len(s))

\* The words stored and where, or nothing and the usage.
cmd_poke(args) ==
  LET second == Word(SkipSpaces(Rest(args)))
  IN  IF second = <<>> THEN {}
      ELSE {[addr |-> strtoul_hex(Word(args)), val |-> strtoul_hex(second)]}

-----------------------------------------------------------------------------
(* Properties                                                              *)

\* A number shown is the number my_atoi reads from what was shown (alloc and
\* stop take numbers the kernel or ps printed): by print_dec for every number and
\* without superfluous zeros in front, by int_to_str in two characters for 0 to 99,
\* "Converte inteiros 0-99".
DecRoundTrip ==
  /\ my_atoi(print_dec(n)) = n
  /\ n # 0 => print_dec(n)[1] # "0"
  /\ Signed(n) \in 0 .. 99 => Len(int_to_str(n)) = 2 /\ my_atoi(int_to_str(n)) = n

\* "Use 'poke <addr> <val>' to write safely": the address cmd_alloc prints with
\* val_to_hex, typed back in either case with any spaces before the value,
\* writes that value to that address, and nothing is written without a value.
PokeWritesWhatIsTyped ==
  LET addr == val_to_hex(n, hex_chars)
      val  == val_to_hex(d, lower_chars)
  IN  /\ \A gap \in {<<" ">>, <<" ", " ">>} :
           /\ cmd_poke(addr \o gap \o val) = {[addr |-> n, val |-> d]}
           /\ cmd_poke(SubSeq(val, 3, Len(val)) \o gap \o addr) = {[addr |-> d, val |-> n]}
      /\ cmd_poke(addr) = {} /\ cmd_poke(addr \o <<" ">>) = {}
=============================================================================
