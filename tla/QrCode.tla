------------------------------- MODULE QrCode -------------------------------
(***************************************************************************)
(* The share link as a QR symbol, src/ui/features/qr.js: a pure encoder    *)
(* (byte mode, level M, versions 1 to 10), against the scanner of ISO/IEC  *)
(* 18004 that reads the link back.                                         *)
(*                                                                         *)
(* A byte, or any string of bits, is the set of its positions that are 1,  *)
(* 0 the lowest; a symbol is the set of its dark modules <<row, column>>.  *)
(* Of the eight masks the code takes the one least penalised, the          *)
(* specification any.  A definition marked "Fault" is the next one with a  *)
(* bug one could plausibly write.                                          *)
(***************************************************************************)
EXTENDS Integers, Sequences, FiniteSets, SequencesExt

CONSTANT QrLengths      \* bound: the lengths of the texts drawn

ASSUME QrAssumption == QrLengths \subseteq Nat

Xor(a, b) == (a \ b) \cup (b \ a)
Bits(n, len) == {i \in 0..(len - 1) : (n \div 2^i) % 2 = 1}
Least(a, b) == IF a < b THEN a ELSE b

-----------------------------------------------------------------------------
(* Arithmetic of polynomials over one bit, and over the field of 256.      *)

\* Twice a, modulo a polynomial whose highest bit is top.
Doubled(a, poly, top) == LET s == {i + 1 : i \in a} IN IF top \in s THEN Xor(s, poly) ELSE s
Gf == {8, 4, 3, 2, 0}

\* a doubled n times.
Doubling(a, n, poly, top) ==
    LET rem[i \in 0..n] == IF i = 0 THEN a ELSE Doubled(rem[i - 1], poly, top)
    IN IF a = {} THEN {} ELSE rem[n]

\* The powers of 2, every sixteenth of them from the one before.
Sixteenth[q \in 0..15] == IF q = 0 THEN {0} ELSE Doubling(Sixteenth[q - 1], 16, Gf, 8)
GfExp == [i \in 0..254 |-> Doubling(Sixteenth[i \div 16], i % 16, Gf, 8)]
GfLog == [a \in {GfExp[i] : i \in 0..254} |-> CHOOSE i \in 0..254 : GfExp[i] = a]
GfMul(a, b) == IF a = {} \/ b = {} THEN {} ELSE GfExp[(GfLog[a] + GfLog[b]) % 255]

\* A polynomial is the set of the <<place, bit>> that are 1, the highest degree at place 1.
Coefficient(poly, j) == {b \in 0..7 : <<j, b>> \in poly}
Shifted(poly, by) == {<<c[1] + by, c[2]>> : c \in poly}
Scaled(poly, a) ==
    UNION {{<<j, b>> : b \in GfMul(Coefficient(poly, j), a)} : j \in {c[1] : c \in poly}}

GeneratorPoly[n \in 0..26] ==
    IF n = 0 THEN {<<1, 0>>}
    ELSE LET g == GeneratorPoly[n - 1] IN Xor(g, Shifted(Scaled(g, GfExp[n - 1]), 1))
RsRemainder(data, n) ==
    LET g == GeneratorPoly[n]
        out[k \in 0..Len(data)] ==
            IF k = 0 THEN {}
            ELSE LET last == out[k - 1]
                     sum == Xor(last, {<<1, b>> : b \in data[k]})
                 IN IF last = {} /\ data[k] = {} THEN {}
                    ELSE Shifted(Xor(sum, Scaled(g, Coefficient(sum, 1))), -1)
    IN out[Len(data)]

Above(a, n) == {i + n : i \in a}
FormatBits(mask) == LET data == Bits(mask, 3) IN
    Xor(Above(data, 10) \cup Doubling(data, 10, {10, 8, 5, 4, 2, 1, 0}, 10), {14, 12, 10, 4, 1})
VersionBits(v) == LET data == Bits(v, 6) IN
    Above(data, 12) \cup Doubling(data, 12, {12, 11, 10, 9, 8, 5, 2, 0}, 12)

-----------------------------------------------------------------------------
(* The codewords.                                                          *)

\* Check bytes to a block, then blocks and data bytes of each of two groups.
EcM == << <<10, 1, 16, 0, 0>>, <<16, 1, 28, 0, 0>>, <<26, 1, 44, 0, 0>>, <<18, 2, 32, 0, 0>>,
          <<24, 2, 43, 0, 0>>, <<16, 4, 27, 0, 0>>, <<18, 4, 31, 0, 0>>, <<22, 2, 38, 2, 39>>,
          <<22, 3, 36, 2, 37>>, <<26, 4, 43, 1, 44>> >>
TotalCodewords == <<26, 44, 70, 100, 134, 172, 196, 242, 292, 346>>
Version == 1..10

Blocks(v) == EcM[v][2] + EcM[v][4]
BlockLength(v, b) == IF b <= EcM[v][2] THEN EcM[v][3] ELSE EcM[v][5]
DataBefore(v, b) == (b - 1) * EcM[v][3] + (IF b - 1 > EcM[v][2] THEN b - 1 - EcM[v][2] ELSE 0)
DataCodewords(v) == DataBefore(v, Blocks(v) + 1)

\* Fault: eight bits suffice.
CountBitsShort(v) == 8
CountBits(v) == IF v <= 9 THEN 8 ELSE 16
Fitting(len) == {v \in Version : 4 + CountBits(v) + 8 * len <= 8 * DataCodewords(v)}
ChooseVersion(len) == CHOOSE v \in Fitting(len) : \A w \in Fitting(len) : v <= w

\* Highest bit first.
Pushed(a, len) == [i \in 1..len |-> len - i \in a]
BitsOf(bytes) ==
    [k \in 1..(8 * Len(bytes)) |-> 7 - ((k - 1) % 8) \in bytes[((k - 1) \div 8) + 1]]
BuildCodewords(bytes, v) ==
    LET capacity == 8 * DataCodewords(v)
        said == Pushed({2}, 4) \o Pushed(Bits(Len(bytes), 16), CountBits(v))
                \o BitsOf(bytes)
        ended == said \o Pushed({}, Least(4, capacity - Len(said)))
        whole == ended \o Pushed({}, (-Len(ended)) % 8)
        Byte(k) == {b \in 0..7 : whole[8 * k - b]}
    IN [k \in 1..DataCodewords(v) |->
            IF 8 * k <= Len(whole) THEN Byte(k)
            ELSE IF (k - Len(whole) \div 8) % 2 = 1 THEN {7, 6, 5, 3, 2} ELSE {4, 0}]

\* The i-th of every block that has one, then the next.
Columns(blocks, n) == FlattenSeq([i \in 1..n |->
    LET long == SelectSeq(blocks, LAMBDA b : i <= Len(b)) IN [k \in DOMAIN long |-> long[k][i]]])
Interleaved(data, v) ==
    LET n == Blocks(v)
        Block(b) == SubSeq(data, DataBefore(v, b) + 1, DataBefore(v, b) + BlockLength(v, b))
        check == UNION {{<<b, c>> : c \in RsRemainder(Block(b), EcM[v][1])} : b \in 1..n}
        Check(b, i) == {bit \in 0..7 : <<b, <<i, bit>> >> \in check}
    IN Columns([b \in 1..n |-> Block(b)], BlockLength(v, n))
       \o [k \in 1..(EcM[v][1] * n) |-> Check(((k - 1) % n) + 1, ((k - 1) \div n) + 1)]

-----------------------------------------------------------------------------
(* The symbol, drawn in layers: of each its modules, and those dark.       *)

Size(v) == 4 * v + 17
Grid(v) == (0..(Size(v) - 1)) \X (0..(Size(v) - 1))
Abs(n) == IF n < 0 THEN -n ELSE n
Distance(d) == IF Abs(d[1]) > Abs(d[2]) THEN Abs(d[1]) ELSE Abs(d[2])
Layer(modules, Dark(_)) == [area |-> modules, dark |-> {c \in modules : Dark(c)}]
Square(v, at, radius, rings) ==
    LET box == ((at[1] - radius)..(at[1] + radius)) \X ((at[2] - radius)..(at[2] + radius)) IN
    Layer(box \cap Grid(v),
          LAMBDA c : Distance(<<c[1] - at[1], c[2] - at[2]>>) \notin rings)

Together(layers) == [area |-> UNION {l.area : l \in layers}, dark |-> UNION {l.dark : l \in layers}]

Timing(v) == Layer({c \in Grid(v) : 6 \in {c[1], c[2]}},
                   LAMBDA c : IF c[1] = 6 /\ c[2] # 6 THEN c[2] % 2 = 0 ELSE c[1] % 2 = 0)
Finders(v) == LET far == Size(v) - 4 IN
    Together({Square(v, at, 4, {2, 4}) : at \in {<<3, 3>>, <<3, far>>, <<far, 3>>}})
AlignPos == << <<>>, <<6, 18>>, <<6, 22>>, <<6, 26>>, <<6, 30>>, <<6, 34>>, <<6, 22, 38>>,
               <<6, 24, 42>>, <<6, 26, 46>>, <<6, 28, 50>> >>
Alignments(v) ==
    LET pos == AlignPos[v]
        corners == {<<1, 1>>, <<1, Len(pos)>>, <<Len(pos), 1>>}
    IN Together({Square(v, <<pos[ij[1]], pos[ij[2]]>>, 2, {1}) :
                    ij \in ((DOMAIN pos) \X (DOMAIN pos)) \ corners})
VersionInfo(v) ==
    LET at(i) == {<<Size(v) - 11 + (i % 3), i \div 3>>, <<i \div 3, Size(v) - 11 + (i % 3)>>} IN
    IF v < 7 THEN [area |-> {}, dark |-> {}]
    ELSE [area |-> UNION {at(i) : i \in 0..17}, dark |-> UNION {at(i) : i \in VersionBits(v)}]
\* Where the i-th bit of the format stands, twice.
FormatAt(v, i) == {
       IF i <= 5 THEN <<i, 8>> ELSE IF i <= 7 THEN <<i + 1, 8>>
       ELSE IF i = 8 THEN <<8, 7>> ELSE <<8, 14 - i>>,
       IF i < 8 THEN <<8, Size(v) - 1 - i>> ELSE <<Size(v) - 15 + i, 8>>}
FormatInfo(v, mask) ==
    LET dark == UNION {FormatAt(v, i) : i \in FormatBits(mask)}
        module == <<Size(v) - 8, 8>>
    IN [area |-> UNION {FormatAt(v, i) : i \in 0..14} \cup {module},
        dark |-> dark \cup {module}]

\* Later layers cover earlier ones.
Over(below, layer) == [area |-> below.area \cup layer.area,
                       dark |-> (below.dark \ layer.area) \cup layer.dark]
FunctionPatterns(v, mask) ==
    Over(Over(Over(Over(Timing(v), Finders(v)), Alignments(v)), VersionInfo(v)),
         FormatInfo(v, mask))

\* The k-th step of the zigzag: pairs of columns from the right, up and down in turn.
\* Fault: it forgets that column 6 is the timing pattern.
StepStraight(v, k) ==
    LET s == Size(v)
        right == s - 1 - 2 * (k \div (2 * s))
        down == (k % (2 * s)) \div 2
    IN <<IF ((right + 1) \div 2) % 2 = 0 THEN s - 1 - down ELSE down, right - (k % 2)>>
Step(v, k) ==
    LET s == Size(v)
        pair == s - 1 - 2 * (k \div (2 * s))
        right == IF pair <= 6 THEN pair - 1 ELSE pair
        down == (k % (2 * s)) \div 2
    IN <<IF ((right + 1) \div 2) % 2 = 0 THEN s - 1 - down ELSE down, right - (k % 2)>>
Path(v, taken) ==
    LET Free(c) == c \notin taken IN
    SelectSeq([k \in 1..(Size(v) * (Size(v) - 1)) |-> Step(v, k - 1)], Free)

Masks(mask, r, c) ==
    CASE mask = 0 -> (r + c) % 2 = 0
      [] mask = 1 -> r % 2 = 0
      [] mask = 2 -> c % 3 = 0
      [] mask = 3 -> (r + c) % 3 = 0
      [] mask = 4 -> (r \div 2 + c \div 3) % 2 = 0
      [] mask = 5 -> ((r * c) % 2) + ((r * c) % 3) = 0
      [] mask = 6 -> (((r * c) % 2) + ((r * c) % 3)) % 2 = 0
      [] mask = 7 -> (((r + c) % 2) + ((r * c) % 3)) % 2 = 0
Masked(cells, mask, v, taken) ==
    Xor(cells, {c \in Grid(v) \ taken : Masks(mask, c[1], c[2])})

\* What is left of the path after the last codeword stays light.
DrawnCodewords(codewords, path) ==
    LET bit == BitsOf(codewords) IN
    {path[i] : i \in {k \in 1..Least(Len(path), Len(bit)) : bit[k]}}
Encode(bytes, mask) ==
    LET v == ChooseVersion(Len(bytes))
        patterns == FunctionPatterns(v, mask)
        data == DrawnCodewords(Interleaved(BuildCodewords(bytes, v), v), Path(v, patterns.area))
    IN patterns.dark \cup Masked(data, mask, v, patterns.area)

-----------------------------------------------------------------------------
(* The dialog draws one text after another.                                *)

VARIABLES qrLength, qrMask, symbol      \* -1: no text yet; no mask, of a text too long

qrVars == <<qrLength, qrMask, symbol>>

Link(n) == [i \in 1..n |-> Bits((37 * i + 11 * n) % 256, 8)]
QrDrawn(n, mask) ==
    /\ Fitting(n) # {}
    /\ qrLength' = n /\ qrMask' = mask /\ symbol' = Encode(Link(n), mask)
QrTooLong(n) == Fitting(n) = {} /\ qrLength' = n /\ qrMask' = -1 /\ symbol' = {}

QrInit == qrLength = -1 /\ qrMask = -1 /\ symbol = {}
\* One text each; another would not see the first.
QrNext == qrLength = -1 /\ \E n \in QrLengths : QrTooLong(n) \/ \E mask \in 0..7 : QrDrawn(n, mask)

-----------------------------------------------------------------------------
(* The scanner of the standard, which knows the version from the size.     *)

\* Where a mask inverts, by remainders of the row, the column and their product.
Inverts(mask, r, c) ==
    CASE mask = 0 -> r % 2 = c % 2
      [] mask = 1 -> r \in {2 * k : k \in 0..r}
      [] mask = 2 -> c \in {3 * k : k \in 0..c}
      [] mask = 3 -> r % 3 = (-c) % 3
      [] mask = 4 -> (r % 4 >= 2) = (c % 6 >= 3)
      [] mask = 5 -> (r * c) % 6 = 0
      [] mask = 6 -> (r * c) % 6 < 3
      [] mask = 7 -> (r % 2 = c % 2) = ((r * c) % 3 # 1)
Formats == <<21522, 20773, 24188, 23371, 17913, 16590, 20375, 19104>>       \* level M, by mask
Versions == [v \in 7..10 |-> <<31892, 34236, 39577, 42195>>[v - 6]]
DataArea(v) ==
    LET far == Size(v) - 8
        aligned == Alignments(v).area
    IN {c \in Grid(v) :
    /\ 6 \notin {c[1], c[2]}
    /\ ~(c[1] <= 8 /\ c[2] <= 8) /\ ~(c[1] <= 8 /\ c[2] >= far) /\ ~(c[1] >= far /\ c[2] <= 8)
    /\ c \notin aligned
    /\ v >= 7 => ~(c[1] < 6 /\ c[2] >= far - 3) /\ ~(c[1] >= far - 3 /\ c[2] < 6)}
ReadingOrder(v) ==
    LET s == Size(v)
        IsRight(c) == IF c > 6 THEN c % 2 = 0 ELSE c % 2 = 1
        rights == SelectSeq([k \in 1..(s - 1) |-> s - k], IsRight)
        Row(p, k) == IF p % 2 = 1 THEN s - k ELSE k - 1
    IN FlattenSeq([p \in DOMAIN rights |-> FlattenSeq([k \in 1..s |->
            << <<Row(p, k), rights[p]>>, <<Row(p, k), rights[p] - 1>> >>])])
ScannedBytes(v, mask) ==
    LET area == DataArea(v)
        IsData(c) == c \in area
        order == SelectSeq(ReadingOrder(v), IsData)
        Dark(c) == (c \in symbol) # Inverts(mask, c[1], c[2])
    IN [k \in 1..TotalCodewords[v] |-> {b \in 0..7 : Dark(order[8 * k - b])}]

\* The block as a polynomial: its data, then its check bytes.
ScannedBlock(bytes, v, b) ==
    LET n == Blocks(v)
        short == EcM[v][3]
    IN [i \in 1..BlockLength(v, b) |->
            IF i <= short THEN bytes[(i - 1) * n + b] ELSE bytes[short * n + b - EcM[v][2]]]
       \o [i \in 1..EcM[v][1] |-> bytes[DataCodewords(v) + (i - 1) * n + b]]
\* Zero at every power of 2 the generator has for a root.
IsCodeword(block, roots) == \A i \in 0..(roots - 1) :
    LET sum[k \in 0..Len(block)] ==
            IF k = 0 THEN {}
            ELSE LET s == sum[k - 1] IN IF s = {} THEN block[k] ELSE Xor(Doubling(s, i, {8, 4, 3, 2, 0}, 8), block[k])
    IN sum[Len(block)] = {}
Message(blocks, v) ==
    LET data == FlattenSeq([b \in DOMAIN blocks |-> SubSeq(blocks[b], 1, BlockLength(v, b))])
        bit == BitsOf(data)
        Field(at, len) == {i \in 0..(len - 1) : bit[at + len - i]}
        head == IF v <= 9 THEN 12 ELSE 20
    IN [mode |-> Field(0, 4),
        text |-> [k \in 1..SumSet({2^i : i \in Field(4, head - 4)}) |-> Field(head + 8 * (k - 1), 8)]]

\* What a scanner reads off the symbol is the link: the format and the version it looks up,
\* every block without an error, and the bytes that were given; and only a text of more than
\* 213 bytes gets no symbol (qr.js:350-388).
Reads ==
    LET v == ChooseVersion(qrLength)
        bytes == ScannedBytes(v, qrMask)
        blocks == [b \in 1..Blocks(v) |-> ScannedBlock(bytes, v, b)]
    IN /\ \A i \in 0..14 : FormatAt(v, i) \subseteq symbol \/ FormatAt(v, i) \cap symbol = {}
       /\ {i \in 0..14 : FormatAt(v, i) \subseteq symbol} = Bits(Formats[qrMask + 1], 15)
       /\ v >= 7 => Bits(Versions[v], 18) = {i \in 0..17 : <<Size(v) - 11 + (i % 3), i \div 3>> \in symbol}
       /\ Cardinality(DataArea(v)) - 8 * TotalCodewords[v] \in 0..7
       /\ \A b \in DOMAIN blocks : IsCodeword(blocks[b], EcM[v][1])
       /\ Message(blocks, v) = [mode |-> {2}, text |-> Link(qrLength)]
SymbolReads == qrLength >= 0 => IF qrMask < 0 THEN qrLength > 213 ELSE qrLength <= 213 /\ Reads
=============================================================================
