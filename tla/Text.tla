-------------------------------- MODULE Text --------------------------------
(***************************************************************************)
(* The strings an application hands to the MQTT library: whether they are  *)
(* UTF-8 (utf-8.c), and what is made of the address of a server or a proxy *)
(* and of the user and password in it (MQTTProtocolOut.c, Base64.c).  A    *)
(* string is the sequence of its bytes.                                    *)
(***************************************************************************)
EXTENDS Integers, Sequences

From(q, i)  == SubSeq(q, i, Len(q))
Where(q, c) == {i \in DOMAIN q : q[i] = c}

\* strchr and strrchr: 0 if the character is not there.
strchr(q, c)  == IF Where(q, c) = {} THEN 0
                 ELSE CHOOSE i \in Where(q, c) : \A j \in Where(q, c) : i <= j
strrchr(q, c) == IF Where(q, c) = {} THEN 0
                 ELSE CHOOSE i \in Where(q, c) : \A j \in Where(q, c) : j <= i

NUL     == 0
AT      == 64
PERCENT == 37
COLON   == 58
OPEN    == 91
CLOSE   == 93

-----------------------------------------------------------------------------
(* utf-8.c *)

valid_ranges ==
  << << <<0, 127>> >>,
     << <<194, 223>>, <<128, 191>> >>,
     << <<224, 224>>, <<160, 191>>, <<128, 191>> >>,
     << <<225, 236>>, <<128, 191>>, <<128, 191>> >>,
     << <<237, 237>>, <<128, 159>>, <<128, 191>> >>,
     << <<238, 239>>, <<128, 191>>, <<128, 191>> >>,
     << <<240, 240>>, <<144, 191>>, <<128, 191>>, <<128, 191>> >>,
     << <<241, 243>>, <<128, 191>>, <<128, 191>>, <<128, 191>> >>,
     << <<244, 244>>, <<128, 143>>, <<128, 191>>, <<128, 191>> >> >>

\* A char is signed: the bytes from 128 on compare as negative numbers.
Signed(c) == IF c < 128 THEN c ELSE c - 256

charlen(c) == IF c < 128 THEN 1
              ELSE IF c \div 16 = 15 THEN 4
              ELSE IF c \div 32 = 7 THEN 3 ELSE 2

\* Mutant: one length is enough, whatever row of it the first byte matches.
charGoodAnyRow(b) ==
  \A j \in 1..charlen(b[1]) : \E i \in DOMAIN valid_ranges :
    /\ Len(valid_ranges[i]) = charlen(b[1])
    /\ Signed(valid_ranges[i][j][1]) <= Signed(b[j])
    /\ Signed(b[j]) <= Signed(valid_ranges[i][j][2])

\* One row of the table has to match.
charGood(b) ==
  \E i \in DOMAIN valid_ranges :
    /\ Len(valid_ranges[i]) = charlen(b[1])
    /\ \A j \in 1..charlen(b[1]) : /\ Signed(valid_ranges[i][j][1]) <= Signed(b[j])
                                   /\ Signed(b[j]) <= Signed(valid_ranges[i][j][2])

\* UTF8_validate with UTF8_char_validate.
RECURSIVE validate(_)
validate(b) ==
  b = <<>> \/ /\ charlen(b[1]) <= Len(b)
              /\ charGood(b)
              /\ validate(From(b, charlen(b[1]) + 1))

-----------------------------------------------------------------------------
(* Base64.c *)

NV == 64

encodeTable(n) == CASE n < 26 -> 65 + n
                    [] n \in 26..51 -> 71 + n
                    [] n \in 52..61 -> n - 4
                    [] n = 62 -> 43
                    [] n = 63 -> 47
                    [] n = 64 -> 61

decodeTable(c) == CASE c \in 65..90  -> c - 65
                    [] c \in 97..122 -> c - 71
                    [] c \in 48..57  -> c + 4
                    [] c = 43 -> 62
                    [] c = 47 -> 63
                    [] OTHER  -> NV

\* Base64_encode: the loop, with what was written so far.  A group that does
\* not fit is counted but not written; the end of the string is marked only if
\* there is room left for the mark.
RECURSIVE encodeGroups(_, _, _, _)
encodeGroups(in, out_len, out, count) ==
  LET b1 == in[1]
      b2 == IF Len(in) > 1 THEN in[2] ELSE 0
      b3 == IF Len(in) > 2 THEN in[3] ELSE 0
      c  == <<b1 \div 4, (b1 % 4) * 16 + b2 \div 16,
              IF Len(in) > 1 THEN (b2 % 16) * 4 + b3 \div 64 ELSE NV,
              IF Len(in) > 2 THEN b3 % 64 ELSE NV>>
  IN  IF in = <<>> \/ count >= out_len
      THEN [ret |-> IF count <= out_len THEN count ELSE 0,
            out |-> IF count < out_len THEN Append(out, NUL) ELSE out]
      ELSE encodeGroups(From(in, 4), out_len,
                        IF count + 4 <= out_len THEN out \o [i \in 1..4 |-> encodeTable(c[i])] ELSE out,
                        count + 4)

base64_encode(out_len, in) == encodeGroups(in, out_len, <<>>, 0)

base64_encodeLength(n) == (((4 * n) \div 3 + 3) \div 4) * 4

\* Base64_decode: four characters at a time, as long as there is room.
RECURSIVE decodeGroups(_, _, _)
decodeGroups(in, out_len, out) ==
  LET c  == [i \in 1..4 |-> decodeTable(in[i])]
      o1 == Append(out, ((c[1] * 4) % 256) + c[2] \div 16)
      o2 == Append(o1, (((c[2] % 16) * 16) % 256) + c[3] \div 4)
      o3 == Append(o2, (c[3] % 4) * 64 + c[4])
  IN  IF Len(in) <= 3 \/ Len(out) >= out_len THEN out
      ELSE IF Len(o1) >= out_len THEN o1
      ELSE IF c[3] = NV THEN o1
      ELSE IF Len(o2) >= out_len \/ c[4] = NV THEN o2
      ELSE decodeGroups(From(in, 5), out_len, o3)

base64_decode(out_len, in) == decodeGroups(in, out_len, <<>>)

base64_decodeLength(in) ==
  LET pad(i) == IF Len(in) > i /\ in[Len(in) - i] = 61 THEN 1 ELSE 0
  IN  (Len(in) \div 4) * 3 - pad(1) - pad(0)

-----------------------------------------------------------------------------
(* MQTTProtocolOut.c *)

\* Mutant: only the digits and the capital letters.
xdigitUpper(c) == c \in 48..57 \cup 65..70

xdigit(c) == c \in 48..57 \cup 65..70 \cup 97..102
hex(c) == IF c <= 57 THEN c - 48 ELSE IF c <= 70 THEN c - 55 ELSE c - 87

\* Mutant: the two digits are left in the input.
specialCharOne(s) ==
  IF Head(s.p1) # PERCENT
  THEN [s EXCEPT !.p0 = Append(@, Head(s.p1)), !.p1 = Tail(@)]
  ELSE IF xdigit(s.p1[2]) /\ xdigit(s.p1[3])
  THEN [s EXCEPT !.p0 = Append(@, 16 * hex(s.p1[2]) + hex(s.p1[3])), !.p1 = Tail(@),
                 !.len = @ - 2]
  ELSE s

\* One turn of the loop of MQTTProtocol_specialChars, up to the '@'.  A '%' that
\* two hexadecimal digits do not follow changes nothing: the loop goes on.
specialChar(s) ==
  IF Head(s.p1) # PERCENT
  THEN [s EXCEPT !.p0 = Append(@, Head(s.p1)), !.p1 = Tail(@)]
  ELSE IF xdigit(s.p1[2]) /\ xdigit(s.p1[3])
  THEN [s EXCEPT !.p0 = Append(@, 16 * hex(s.p1[2]) + hex(s.p1[3])), !.p1 = From(@, 4),
                 !.len = @ - 2]
  ELSE s

RECURSIVE atoiFrom(_, _)
atoiFrom(q, n) == IF q # <<>> /\ Head(q) \in 48..57
                  THEN atoiFrom(Tail(q), 10 * n + Head(q) - 48) ELSE n

\* MQTTProtocol_addressPort: the last colon is before the port, unless it is
\* one of an IPv6 address.
addressPort(uri, default_port) ==
  LET last  == strrchr(uri, COLON)
      colon == IF uri[1] = OPEN /\ last < strrchr(uri, CLOSE) THEN 0 ELSE last
      len   == IF colon # 0 THEN colon - 1 ELSE Len(uri)
  IN  [len  |-> IF uri[len] = CLOSE THEN len - 1 ELSE len,
       port |-> IF colon # 0 THEN atoiFrom(From(uri, colon + 1), 0) ELSE default_port]

\* What Socket_new looks up: the address without the opening bracket.
hostname(uri, len) ==
  IF uri[1] = OPEN THEN SubSeq(uri, 2, len) ELSE SubSeq(uri, 1, len)

\* What %s prints of a block of memory and of the bytes that lie behind it:
\* everything up to the first NUL.
printed(block, behind) ==
  LET memory == block \o behind \o <<NUL>>
  IN  SubSeq(memory, 1, strchr(memory, NUL) - 1)

\* What MQTTProtocol_connect finds in the environment: the proxy, and where the
\* user and password begin.
proxyOf(env) ==
  LET at    == strchr(env, AT)
      colon == strchr(env, COLON)
      start == colon + 3
  IN  IF at # 0
      THEN [proxy |-> From(env, at + 1), auth |-> TRUE, p1 |-> From(env, start), len |-> at - start]
      ELSE [proxy |-> IF colon # 0 THEN From(env, start) ELSE <<>>, auth |-> FALSE,
            p1 |-> <<>>, len |-> 0]
=============================================================================
