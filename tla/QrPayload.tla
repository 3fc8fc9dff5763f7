----------------------------- MODULE QrPayload -----------------------------
(* The text in a printed code and its strict parser (crates/a2d-identity/src/ *)
(* qr.rs), with the texts of identifiers (crates/a2d-domain/src/id.rs,        *)
(* entities.rs). A text is a sequence of characters: 0 to 9 the digits, 10 to *)
(* 35 the letters, Hyphen, and all else that is no colon. A payload is what   *)
(* there is between its colons, a sequence of texts. A number in binary is    *)
(* the set of the places where it has a one, the least place being 0.         *)
EXTENDS Integers, Sequences, FiniteSets

CONSTANTS Checksum(_),  \* crc32c of these fields, each with a colon behind it: 32 bits
          KnownLayouts, \* of which is_known_layout_id is true
          NotGiven      \* Option::None

Digits     == 0 .. 9
Hyphen     == 36
Characters == 0 .. Hyphen

-----------------------------------------------------------------------------
(* Crockford's digits: all letters but I, L, O and U.                         *)

Symbol(d) ==
    d + (IF d < 18 THEN 0 ELSE IF d < 20 THEN 1 ELSE IF d < 22 THEN 2 ELSE IF d < 27 THEN 3 ELSE 4)

ALPHABET == {Symbol(d) : d \in 0 .. 31}

decode_digit(s) == CHOOSE d \in 0 .. 31 : Symbol(d) = s

Bit(bits, i) == IF i \in bits THEN 1 ELSE 0

\* Five bits to a digit, the greatest first; the first digit has what is left.
Fives(bits, length) ==
    [i \in 1 .. length |->
        LET low == 5 * (length - i)
        IN  Symbol(Bit(bits, low) + 2 * Bit(bits, low + 1) + 4 * Bit(bits, low + 2)
                    + 8 * Bit(bits, low + 3) + 16 * Bit(bits, low + 4))]

encode_128(bits) == Fives(bits, 26)
encode_crc(bits) == Fives(bits, 7)

\* Identifiers are texts that decode_128 accepts.
Ids == {t \in [1 .. 26 -> ALPHABET] : decode_digit(t[1]) <= 7}

Weight == <<1, 2, 4, 8, 16>>

decode_128(t) == {i \in 0 .. 127 : (decode_digit(t[26 - i \div 5]) \div Weight[(i % 5) + 1]) % 2 = 1}

-----------------------------------------------------------------------------
(* Numbers and layouts.                                                       *)

\* 0 .. MAX_NUMERIC_FIELD, which is 999999.
Numbers == {n \in Nat : n \div 1000 < 1000}

Triple(k) == <<k \div 100, (k \div 10) % 10, k % 10>>
Six(n)    == Triple(n \div 1000) \o Triple(n % 1000)

Joined(x, y, z)            == 100 * x + 10 * y + z
NumberOf(x, y, z, u, v, w) == 1000 * Joined(x, y, z) + Joined(u, v, w)

\* to_string: no digit before the first that counts.
Text(n) ==
    LET first == CHOOSE i \in 1 .. 6 :
                    (i = 6 \/ Six(n)[i] # 0) /\ \A j \in 1 .. i - 1 : Six(n)[j] = 0
    IN  [i \in 1 .. 7 - first |-> Six(n)[first + i - 1]]

\* A number of more digits, whose first is not zero, is too large, if not for u32.
NumericField(t) ==
    /\ Len(t) \in 1 .. 6 /\ \A i \in DOMAIN t : t[i] \in Digits
    /\ Len(t) > 1 => t[1] # 0

\* The digit in a place of six, which is zero before the text begins.
DigitAt(t, i) == IF i <= 6 - Len(t) THEN 0 ELSE t[i - (6 - Len(t))]

Value(t) ==
    NumberOf(DigitAt(t, 1), DigitAt(t, 2), DigitAt(t, 3), DigitAt(t, 4), DigitAt(t, 5), DigitAt(t, 6))

Layouts == {t \in Seq(Characters) : Len(t) \in 1 .. 20}

NoField == <<Hyphen>>

-----------------------------------------------------------------------------
(* Codes and their payloads.                                                  *)

Codes ==
    [type : {"NotebookSetup"}, design : Ids]
    \cup [type : {"NotebookPage"}, design : Ids, number : Nat, layout : Layouts]
    \cup [type : {"SmartPage"}, page : Ids, layout : Layouts, number : Nat \cup {NotGiven},
          set : Ids \cup {NotGiven}]

MAGIC   == <<10, 2, 13>>
VERSION == <<1>>
SETUP == <<28>>
PAGE  == <<11>>
SMART == <<22>>

Fields(c) ==
    CASE c.type = "NotebookSetup" -> <<MAGIC, VERSION, SETUP, c.design>>
      [] c.type = "NotebookPage"  -> <<MAGIC, VERSION, PAGE, c.design, Text(c.number), c.layout>>
      [] c.type = "SmartPage"     -> <<MAGIC, VERSION, SMART, c.page, c.layout,
                                       IF c.number = NotGiven THEN NoField ELSE Text(c.number),
                                       IF c.set = NotGiven THEN NoField ELSE c.set>>

Signed(fields) == Append(fields, encode_crc(Checksum(fields)))

\* A code whose number is too large is not encoded.
Encodes(c) == c.type # "NotebookSetup" => c.number \in Numbers \cup {NotGiven}
Encode(c)  == Signed(Fields(c))

-----------------------------------------------------------------------------
(* The parser: what it accepts, and the code it makes of it.                  *)

MAX_PAYLOAD_LEN == 128

Length(p) == Cardinality(UNION {{i} \X DOMAIN p[i] : i \in DOMAIN p}) + Len(p) - 1

FieldsOk(p) ==
    \/ p[3] = SETUP /\ Len(p) = 5 /\ p[4] \in Ids
    \/ p[3] = PAGE /\ Len(p) = 7 /\ p[4] \in Ids /\ NumericField(p[5]) /\ p[6] \in Layouts \cap KnownLayouts
    \/ /\ p[3] = SMART /\ Len(p) = 8 /\ p[4] \in Ids /\ p[5] \in Layouts \cap KnownLayouts
       /\ p[6] = NoField \/ NumericField(p[6])
       /\ p[7] = NoField \/ p[7] \in Ids

Parses(p) ==
    /\ Length(p) <= MAX_PAYLOAD_LEN
    /\ \A i \in DOMAIN p : \A j \in DOMAIN p[i] : p[i][j] \in Characters
    /\ Len(p) >= 3 /\ p[1] = MAGIC /\ p[2] = VERSION
    /\ FieldsOk(p)
    /\ p = Signed(SubSeq(p, 1, Len(p) - 1))

Parse(p) ==
    CASE p[3] = SETUP -> [type |-> "NotebookSetup", design |-> p[4]]
      [] p[3] = PAGE -> [type |-> "NotebookPage", design |-> p[4], number |-> Value(p[5]), layout |-> p[6]]
      [] p[3] = SMART -> [type |-> "SmartPage", page |-> p[4], layout |-> p[5],
                      number |-> IF p[6] = NoField THEN NotGiven ELSE Value(p[6]),
                      set |-> IF p[7] = NoField THEN NotGiven ELSE p[7]]

=============================================================================
