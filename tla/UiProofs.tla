------------------------------ MODULE UiProofs ------------------------------
(***************************************************************************)
(* Theorems about Ui: for any characters and widths of them, any terminals,*)
(* messages of any length and any number of them.  The first part is about *)
(* numbers and sets of them, the second about the rows of the box, the     *)
(* third about the line as the characters that Editor edits.               *)
(***************************************************************************)
EXTENDS Ui, FiniteSetTheorems, SequenceTheorems, WellFoundedInduction, TLAPS

----------------------------------------------------------------------------
(* Numbers. *)

LEMMA Least ==
    ASSUME NEW T, T \subseteq Nat, T # {}
    PROVE  \E x \in T : \A y \in T : x <= y
<1>1. PICK x \in T : \A y \in T : <<y, x>> \notin OpToRel(<, Nat)
  BY NatLessThanWellFounded, WFMin, Zenon
<1>2. ASSUME NEW y \in T, y < x PROVE FALSE
  <2>1. <<y, x>> \in Nat \X Nat /\ <<y, x>>[1] < <<y, x>>[2]
    BY <1>2
  <2>2. <<y, x>> \in OpToRel(<, Nat)
    BY <2>1 DEF OpToRel
  <2> QED BY <1>1, <2>2
<1> QED BY <1>2

LEMMA MinIs ==
    ASSUME NEW T, T \subseteq Nat, T # {}
    PROVE  Min(T) \in T /\ \A y \in T : Min(T) <= y
BY Least DEF Min

LEMMA MaxIs ==
    ASSUME NEW n \in Nat, NEW T, T \subseteq 0 .. n, T # {}
    PROVE  Max(T) \in T /\ \A y \in T : y <= Max(T)
<1> DEFINE back == {k \in Nat : n - k \in T}
<1>1. back \subseteq Nat /\ back # {}
  <2>1. PICK y \in T : TRUE
    OBVIOUS
  <2>2. n - y \in back
    <3>1. n - y \in Nat /\ n - (n - y) = y
      BY <2>1
    <3> QED BY <3>1, <2>1
  <2> QED BY <2>2
<1>2. PICK k \in back : \A j \in back : k <= j
  <2> HIDE DEF back
  <2> QED BY <1>1, Least, Zenon
<1>3. n - k \in T
  BY <1>2
<1>4. ASSUME NEW y \in T PROVE y <= n - k
  <2>1. y \in Nat /\ n - y \in Nat /\ n - (n - y) = y
    OBVIOUS
  <2>2. n - y \in back
    BY <2>1
  <2>3. k <= n - y
    BY <1>2, <2>2
  <2> QED BY <2>1, <2>3, <1>2
<1>5. \E x \in T : \A y \in T : x >= y
  <2>1. n - k \in Int /\ \A y \in T : y \in Int
    BY <1>2
  <2> QED BY <1>3, <1>4, <2>1
<1>6. Max(T) \in T /\ \A y \in T : Max(T) >= y
  BY <1>5, Zenon DEF Max
<1> QED BY <1>6

LEMMA Scale ==
    ASSUME NEW a \in Int, NEW b \in Int, NEW c \in Nat, a <= b
    PROVE  a * c <= b * c
OBVIOUS

LEMMA DivMod ==
    ASSUME NEW a \in Int, NEW b \in Nat \ {0}
    PROVE  /\ a \div b \in Int
           /\ a % b \in 0 .. b - 1
           /\ a = (a \div b) * b + (a % b)
OBVIOUS

\* What is positive has a quotient, and a larger one with a smaller divisor.
LEMMA Quotients ==
    ASSUME NEW a \in Nat, NEW v \in Nat \ {0}, NEW w \in Nat \ {0}, v <= w
    PROVE  /\ a \div v \in Nat /\ a \div w \in Nat
           /\ a \div w <= a \div v
<1>1. ASSUME NEW d \in Nat \ {0} PROVE a \div d \in Nat
  <2>1. SUFFICES ASSUME a \div d <= -1 PROVE FALSE
    BY DivMod
  <2> DEFINE q == a \div d
  <2>2. q \in Int /\ a % d \in 0 .. d - 1 /\ a = q * d + (a % d)
    BY DivMod
  <2>3. q <= -1
    BY <2>1
  <2> HIDE DEF q
  <2>4. q * d <= (-1) * d
    BY <2>2, <2>3, Scale
  <2>5. q * d \in Int
    BY <2>2
  <2> QED BY <2>2, <2>4, <2>5
<1> DEFINE q == a \div v
           r == a \div w
<1>2. q \in Nat /\ r \in Nat
  BY <1>1
<1>3. a = q * v + (a % v) /\ a % v \in 0 .. v - 1
  BY DivMod
<1>4. a = r * w + (a % w) /\ a % w \in 0 .. w - 1
  BY DivMod
<1>5. ASSUME q < r PROVE FALSE
  <2> HIDE DEF q, r
  <2>1. (q + 1) * v <= r * v
    BY <1>2, <1>5, Scale
  <2>2. r * v <= r * w
    <3>1. v * r <= w * r
      BY <1>2, Scale
    <3>2. v * r = r * v /\ w * r = r * w
      BY <1>2
    <3> QED BY <3>1, <3>2
  <2>3. (q + 1) * v = q * v + v
    BY <1>2
  <2>4. q * v \in Int /\ r * v \in Int /\ r * w \in Int
    BY <1>2
  <2> QED BY <2>1, <2>2, <2>3, <2>4, <1>3, <1>4
<1> QED BY <1>2, <1>5

----------------------------------------------------------------------------
(* Lines. *)

LEMMA MessageLinesType ==
    ASSUME NEW message \in Nat, NEW w \in Nat \ {0}
    PROVE  StringLines(message, w) \in Nat /\ MessageLines(message, w) \in Nat \ {0}
<1>1. message # 0 => (message - 1) \div w \in Nat
  BY Quotients
<1>2. StringLines(message, w) \in Nat
  BY <1>1 DEF StringLines
<1> QED BY <1>2 DEF MessageLines

\* A message takes more lines in a narrower box.
LEMMA MessageLinesNarrow ==
    ASSUME NEW message \in Nat, NEW v \in Nat \ {0}, NEW w \in Nat \ {0}, v <= w
    PROVE  MessageLines(message, w) <= MessageLines(message, v)
<1>1. CASE message = 0
  BY <1>1 DEF MessageLines, StringLines
<1>2. CASE message # 0
  <2>1. message - 1 \in Nat
    BY <1>2
  <2>2. /\ (message - 1) \div v \in Nat /\ (message - 1) \div w \in Nat
        /\ (message - 1) \div w <= (message - 1) \div v
    BY <2>1, Quotients
  <2> DEFINE q == (message - 1) \div v
             r == (message - 1) \div w
  <2>3. MessageLines(message, w) = 1 + (r + 1) /\ MessageLines(message, v) = 1 + (q + 1)
    BY <1>2 DEF MessageLines, StringLines
  <2> HIDE DEF q, r
  <2> QED BY <2>2, <2>3 DEF q, r
<1> QED BY <1>1, <1>2

\* What is counted: finitely many messages.
Lengths(messages, which) == IsFiniteSet(which) /\ \A i \in which : messages[i] \in Nat

LEMMA LinesFinite ==
    ASSUME NEW messages, NEW which, NEW w \in Nat \ {0}, Lengths(messages, which)
    PROVE  /\ IsFiniteSet(LinesOf(messages, which, w))
           /\ Cardinality(LinesOf(messages, which, w)) \in Nat
<1> DEFINE of(i) == {i} \X (0 .. MessageLines(messages[i], w) - 1)
           all == {of(i) : i \in which}
           f == [i \in which |-> of(i)]
<1>1. f \in Surjection(which, all)
  BY DEF Surjection
<1>2. IsFiniteSet(all)
  <2> HIDE DEF f, all
  <2> QED BY <1>1, FS_Surjection DEF Lengths
<1>3. ASSUME NEW T \in all PROVE IsFiniteSet(T)
  <2>1. PICK i \in which : T = of(i)
    OBVIOUS
  <2>2. MessageLines(messages[i], w) \in Nat
    BY MessageLinesType DEF Lengths
  <2>3. IsFiniteSet(0 .. MessageLines(messages[i], w) - 1)
    BY <2>2, FS_Interval
  <2>4. IsFiniteSet({i})
    BY FS_Singleton
  <2> QED BY <2>1, <2>3, <2>4, FS_Product
<1>4. IsFiniteSet(UNION all)
  <2> HIDE DEF all
  <2> QED BY <1>2, <1>3, FS_UNION
<1>5. LinesOf(messages, which, w) = UNION all
  BY DEF LinesOf
<1> QED BY <1>4, <1>5, FS_CardinalityType

LEMMA LinesOfOne ==
    ASSUME NEW messages, NEW i, NEW w \in Nat \ {0}, messages[i] \in Nat
    PROVE  Cardinality(LinesOf(messages, {i}, w)) = MessageLines(messages[i], w)
<1> DEFINE n == MessageLines(messages[i], w)
<1>1. n \in Nat \ {0}
  BY MessageLinesType
<1>2. LinesOf(messages, {i}, w) = {i} \X (0 .. n - 1)
  BY DEF LinesOf
<1> HIDE DEF n
<1>3. IsFiniteSet(0 .. n - 1) /\ Cardinality(0 .. n - 1) = n
  BY <1>1, FS_Interval
<1>4. IsFiniteSet({i}) /\ Cardinality({i}) = 1
  BY FS_Singleton
<1>5. Cardinality({i} \X (0 .. n - 1)) = Cardinality({i}) * Cardinality(0 .. n - 1)
  BY <1>3, <1>4, FS_Product
<1>6. Cardinality({i} \X (0 .. n - 1)) = n
  BY <1>1, <1>3, <1>4, <1>5
<1> QED BY <1>2, <1>6 DEF n

\* The lines of some messages and of some others are counted one after the other.
LEMMA LinesSplit ==
    ASSUME NEW messages, NEW S, NEW T, NEW w \in Nat \ {0}, S \cap T = {},
           Lengths(messages, S), Lengths(messages, T)
    PROVE  Cardinality(LinesOf(messages, S \cup T, w))
             = Cardinality(LinesOf(messages, S, w)) + Cardinality(LinesOf(messages, T, w))
<1> DEFINE A == LinesOf(messages, S, w)
           B == LinesOf(messages, T, w)
<1>1. LinesOf(messages, S \cup T, w) = A \cup B
  BY DEF LinesOf
<1>2. A \cap B = {}
  <2> SUFFICES ASSUME NEW b \in A, b \in B PROVE FALSE
    OBVIOUS
  <2>1. \E i \in S : b \in {i} \X (0 .. MessageLines(messages[i], w) - 1)
    BY DEF LinesOf
  <2>2. \E i \in T : b \in {i} \X (0 .. MessageLines(messages[i], w) - 1)
    BY DEF LinesOf
  <2>3. b[1] \in S /\ b[1] \in T
    BY <2>1, <2>2
  <2> QED BY <2>3
<1>3. /\ IsFiniteSet(A) /\ Cardinality(A) \in Nat
      /\ IsFiniteSet(B) /\ Cardinality(B) \in Nat
  BY LinesFinite
<1> HIDE DEF A, B
<1>4. Cardinality(A \cup B) = Cardinality(A) + Cardinality(B) - Cardinality(A \cap B)
  BY <1>3, FS_Union
<1>5. Cardinality(A \cap B) = 0
  BY <1>2, FS_EmptySet
<1>6. Cardinality(A \cup B) = Cardinality(A) + Cardinality(B)
  BY <1>3, <1>4, <1>5
<1> QED BY <1>1, <1>6 DEF A, B

LEMMA AllLengths ==
    ASSUME NEW h \in Seq(Nat), NEW which, which \subseteq DOMAIN h
    PROVE  Lengths(h, which)
<1>1. DOMAIN h = 1 .. Len(h) /\ Len(h) \in Nat
  OBVIOUS
<1>2. IsFiniteSet(1 .. Len(h))
  BY <1>1, FS_Interval
<1>3. IsFiniteSet(which)
  BY <1>1, <1>2, FS_Subset
<1> QED BY <1>3 DEF Lengths

LEMMA HistoryLinesType ==
    ASSUME NEW h \in Seq(Nat), NEW w \in Nat \ {0}
    PROVE  HistoryLines(h, w) \in Nat
BY AllLengths, LinesFinite DEF HistoryLines

LEMMA HistoryLinesAppend ==
    ASSUME NEW h \in Seq(Nat), NEW message \in Nat, NEW w \in Nat \ {0}
    PROVE  HistoryLines(Append(h, message), w) = HistoryLines(h, w) + MessageLines(message, w)
<1> DEFINE g == Append(h, message)
           n == Len(h)
<1>1. /\ n \in Nat /\ g \in Seq(Nat) /\ DOMAIN h = 1 .. n /\ DOMAIN g = 1 .. n + 1
      /\ g[n + 1] = message /\ \A i \in 1 .. n : g[i] = h[i]
  OBVIOUS
<1> HIDE DEF g, n
<1>2. Lengths(g, 1 .. n) /\ Lengths(g, {n + 1})
  BY <1>1, AllLengths
<1>3. (1 .. n) \cap {n + 1} = {} /\ (1 .. n) \cup {n + 1} = 1 .. n + 1
  BY <1>1
<1>4. Cardinality(LinesOf(g, (1 .. n) \cup {n + 1}, w))
        = Cardinality(LinesOf(g, 1 .. n, w)) + Cardinality(LinesOf(g, {n + 1}, w))
  <2> DEFINE S == 1 .. n
             T == {n + 1}
  <2>1. S \cap T = {} /\ Lengths(g, S) /\ Lengths(g, T)
    BY <1>2, <1>3
  <2> HIDE DEF S, T
  <2>2. Cardinality(LinesOf(g, S \cup T, w))
          = Cardinality(LinesOf(g, S, w)) + Cardinality(LinesOf(g, T, w))
    BY <2>1, LinesSplit
  <2> QED BY <2>2 DEF S, T
<1>5. LinesOf(g, 1 .. n, w) = LinesOf(h, 1 .. n, w)
  BY <1>1 DEF LinesOf
<1>6. Cardinality(LinesOf(g, {n + 1}, w)) = MessageLines(message, w)
  BY <1>1, LinesOfOne
<1> QED BY <1>1, <1>3, <1>4, <1>5, <1>6 DEF HistoryLines, g

\* A history takes more lines in a narrower box.
LEMMA HistoryLinesNarrow ==
    ASSUME NEW h \in Seq(Nat), NEW v \in Nat \ {0}, NEW w \in Nat \ {0}, v <= w
    PROVE  HistoryLines(h, w) <= HistoryLines(h, v)
<1>1. LinesOf(h, DOMAIN h, w) \subseteq LinesOf(h, DOMAIN h, v)
  <2> SUFFICES ASSUME NEW b \in LinesOf(h, DOMAIN h, w)
               PROVE  b \in LinesOf(h, DOMAIN h, v)
    OBVIOUS
  <2>1. PICK i \in DOMAIN h : b \in {i} \X (0 .. MessageLines(h[i], w) - 1)
    BY DEF LinesOf
  <2>2. h[i] \in Nat
    OBVIOUS
  <2>3. /\ MessageLines(h[i], w) \in Nat /\ MessageLines(h[i], v) \in Nat
        /\ MessageLines(h[i], w) <= MessageLines(h[i], v)
    BY <2>2, MessageLinesType, MessageLinesNarrow
  <2>4. 0 .. MessageLines(h[i], w) - 1 \subseteq 0 .. MessageLines(h[i], v) - 1
    BY <2>3
  <2>5. b \in {i} \X (0 .. MessageLines(h[i], v) - 1)
    BY <2>1, <2>4
  <2> QED BY <2>5 DEF LinesOf
<1>2. IsFiniteSet(LinesOf(h, DOMAIN h, v))
  BY AllLengths, LinesFinite
<1> QED BY <1>1, <1>2, FS_Subset DEF HistoryLines

----------------------------------------------------------------------------
(* Types. *)

LEMMA StartsType ==
    ASSUME NEW text, Len(text) \in Nat
    PROVE  /\ Starts(text) \subseteq 0 .. Len(text) /\ 0 \in Starts(text)
           /\ IsFiniteSet(Starts(text))
           /\ CountChars(text) \in Nat
<1>1. Starts(text) \subseteq 0 .. Len(text) /\ 0 \in Starts(text)
  BY DEF Starts
<1>2. IsFiniteSet(Starts(text))
  <2>1. IsFiniteSet(0 .. Len(text))
    BY FS_Interval
  <2> QED BY <1>1, <2>1, FS_Subset
<1>3. Cardinality(Starts(text)) \in Nat /\ Cardinality(Starts(text)) # 0
  BY <1>1, <1>2, FS_CardinalityType, FS_EmptySet
<1> QED BY <1>1, <1>2, <1>3 DEF CountChars

LEMMA CursorGoes ==
    ASSUME NEW text, Len(text) \in Nat, NEW at \in 0 .. Len(text)
    PROVE  PrevChar(text, at) \in 0 .. at /\ NextChar(text, at) \in 0 .. Len(text)
<1> DEFINE behind == {p \in Starts(text) : p > at}
           ahead == {p \in Starts(text) : p < at /\ Mblen(text, p) > 0}
<1>1. Starts(text) \subseteq 0 .. Len(text) /\ Starts(text) # {}
  BY StartsType
<1>2. behind \subseteq 0 .. Len(text) /\ behind \subseteq Nat
  BY <1>1
<1>3. ahead \subseteq 0 .. Len(text) /\ \A p \in ahead : p <= at
  BY <1>1
<1>4. PrevChar(text, at) = IF ahead = {} THEN 0 ELSE Max(ahead)
  BY DEF PrevChar
<1>5. NextChar(text, at) = IF behind = {} THEN Max(Starts(text)) ELSE Min(behind)
  BY DEF NextChar
<1> HIDE DEF behind, ahead
<1>6. ahead # {} => Max(ahead) \in ahead
  BY <1>3, MaxIs
<1>7. Max(Starts(text)) \in 0 .. Len(text)
  BY <1>1, MaxIs
<1>8. behind # {} => Min(behind) \in behind
  BY <1>2, MinIs
<1>9. PrevChar(text, at) \in 0 .. at
  <2>1. CASE ahead = {}
    BY <1>4, <2>1
  <2>2. CASE ahead # {}
    <3>1. PrevChar(text, at) = Max(ahead)
      BY <1>4, <2>2
    <3>2. Max(ahead) \in 0 .. Len(text) /\ Max(ahead) <= at
      BY <1>3, <1>6, <2>2
    <3> QED BY <3>1, <3>2
  <2> QED BY <2>1, <2>2
<1>10. NextChar(text, at) \in 0 .. Len(text)
  BY <1>5, <1>7, <1>8, <1>2
<1> QED BY <1>9, <1>10

LEMMA InputLinesType ==
    ASSUME NEW text, Len(text) \in Nat, NEW w \in Nat \ {0}
    PROVE  InputLines(text, w) \in Nat \ {0}
           /\ InputLines(text, w) >= StringLines(CountChars(text), w)
           /\ InputLines(text, w) \in {1, StringLines(CountChars(text), w)}
<1> DEFINE n == StringLines(CountChars(text), w)
<1>1. n \in Nat
  BY StartsType, MessageLinesType
<1> HIDE DEF n
<1>2. {1, n} \subseteq 0 .. n + 1 /\ {1, n} # {} /\ n + 1 \in Nat
  BY <1>1
<1>3. Max({1, n}) \in {1, n} /\ \A y \in {1, n} : y <= Max({1, n})
  BY <1>2, MaxIs
<1>4. InputLines(text, w) = Max({1, n})
  BY DEF InputLines, n
<1>5. Max({1, n}) >= 1 /\ Max({1, n}) >= n /\ Max({1, n}) \in Nat
  BY <1>1, <1>3
<1> QED BY <1>3, <1>4, <1>5 DEF n

\* The part of the state that a key edits; a character that is begun has room for
\* the rest of it.
LineInv ==
    /\ input \in Seq(Bytes) /\ Len(input) <= MaxBytes
    /\ cursor_index \in 0 .. Len(input)
    /\ partly \in Bytes \cup {Whole}
    /\ garbled \in BOOLEAN
    /\ ~Key => /\ partly[1] \in Chars
               /\ partly[2] \in 1 .. Width[partly[1]] - 1
               /\ Len(input) + Width[partly[1]] - partly[2] <= MaxBytes

HistoryInv ==
    /\ history \in Seq(Nat) /\ Len(history) <= MaxMessages
    /\ history_line \in Nat

\* The box is as ui_update leaves it.
BoxInv ==
    /\ terminal \in Terminals
    /\ history_width \in Nat \ {0} /\ narrowest \in Nat \ {0}
    /\ history_height \in Int /\ lowest \in Int
    /\ history_height = terminal.height - InputLines(input, terminal.width) - 2
    /\ history_width = BoxWidth(HistoryLines(history, terminal.width),
                                history_height, terminal.width)
    /\ narrowest <= history_width /\ lowest <= history_height

UiInv == LineInv /\ HistoryInv /\ BoxInv

LEMMA ByteIs ==
    /\ Bad \in Bytes /\ Whole \notin Bytes
    /\ \A b \in Bytes : b = Bad \/ (b[1] \in Chars /\ b[2] \in 1 .. Width[b[1]] /\ b # Bad
                                     /\ b = <<b[1], b[2]>>)
    /\ \A c \in Chars : Width[c] \in Nat \ {0} /\ \A i \in 1 .. Width[c] : <<c, i>> \in Bytes
<1>1. \A c \in Chars : Width[c] \in Nat \ {0} /\ c # "none"
  BY CharsAssumption
<1>2. ASSUME NEW b \in Bytes, b # Bad
      PROVE  b[1] \in Chars /\ b[2] \in 1 .. Width[b[1]] /\ b = <<b[1], b[2]>>
  <2>1. PICK c \in Chars : b \in {c} \X (1 .. Width[c])
    BY <1>2 DEF Bytes
  <2> QED BY <2>1
<1>3. Whole \notin Bytes
  BY <1>1, <1>2 DEF Whole, Bad
<1>4. \A c \in Chars : \A i \in 1 .. Width[c] : <<c, i>> \in Bytes
  BY DEF Bytes
<1> QED BY <1>1, <1>2, <1>3, <1>4 DEF Bytes

LEMMA Parts ==
    ASSUME NEW S, NEW s \in Seq(S), NEW i \in 0 .. Len(s)
    PROVE  /\ SubSeq(s, 1, i) \in Seq(S) /\ Len(SubSeq(s, 1, i)) = i
           /\ \A k \in 1 .. i : SubSeq(s, 1, i)[k] = s[k]
           /\ SubSeq(s, i + 1, Len(s)) \in Seq(S)
           /\ Len(SubSeq(s, i + 1, Len(s))) = Len(s) - i
           /\ \A k \in 1 .. Len(s) - i : SubSeq(s, i + 1, Len(s))[k] = s[i + k]
<1>1. Len(s) \in Nat /\ \A k \in 1 .. Len(s) : s[k] \in S
  OBVIOUS
<1>2. \A k \in 1 .. i : s[k] \in S
  BY <1>1
<1>3. /\ SubSeq(s, 1, i) \in Seq(S)
      /\ Len(SubSeq(s, 1, i)) = IF 1 <= i THEN i - 1 + 1 ELSE 0
      /\ \A k \in 1 .. i - 1 + 1 : SubSeq(s, 1, i)[k] = s[1 + k - 1]
  BY <1>2, SubSeqProperties
<1>4. \A k \in i + 1 .. Len(s) : s[k] \in S
  BY <1>1
<1>5. /\ SubSeq(s, i + 1, Len(s)) \in Seq(S)
      /\ Len(SubSeq(s, i + 1, Len(s))) = IF i + 1 <= Len(s) THEN Len(s) - (i + 1) + 1 ELSE 0
      /\ \A k \in 1 .. Len(s) - (i + 1) + 1 :
            SubSeq(s, i + 1, Len(s))[k] = s[(i + 1) + k - 1]
  BY <1>1, <1>4, SubSeqProperties
<1>6. \A k \in 1 .. i : 1 + k - 1 = k /\ k \in 1 .. i - 1 + 1
  OBVIOUS
<1>7. \A k \in 1 .. Len(s) - i : (i + 1) + k - 1 = i + k /\ k \in 1 .. Len(s) - (i + 1) + 1
  BY <1>1
<1>8. /\ Len(SubSeq(s, 1, i)) = i
      /\ Len(SubSeq(s, i + 1, Len(s))) = Len(s) - i
  BY <1>1, <1>3, <1>5
<1> QED BY <1>3, <1>5, <1>6, <1>7, <1>8

LEMMA InsertedType ==
    ASSUME input \in Seq(Bytes), cursor_index \in 0 .. Len(input), NEW byte \in Bytes
    PROVE  Inserted(byte) \in Seq(Bytes) /\ Len(Inserted(byte)) = Len(input) + 1
<1> DEFINE a == SubSeq(input, 1, cursor_index)
           b == SubSeq(input, cursor_index + 1, Len(input))
<1>1. /\ a \in Seq(Bytes) /\ Len(a) = cursor_index
      /\ b \in Seq(Bytes) /\ Len(b) = Len(input) - cursor_index
  BY Parts
<1>2. Inserted(byte) = a \o <<byte>> \o b
  BY DEF Inserted
<1> HIDE DEF a, b
<1>3. /\ a \o <<byte>> \o b \in Seq(Bytes)
      /\ Len(a \o <<byte>> \o b) = Len(a) + 1 + Len(b)
  BY <1>1
<1> QED BY <1>1, <1>2, <1>3

LEMMA LineStep ==
    LineInv /\ [Next]_vars => LineInv'
<1> SUFFICES ASSUME LineInv, [Next]_vars PROVE LineInv'
  OBVIOUS
<1> USE DEF LineInv
<1>0. Len(input) \in Nat /\ MaxBytes \in Nat /\ cursor_index \in 0 .. Len(input)
      /\ Len(input) <= MaxBytes
  BY BoundsAssumption
<1>1. ASSUME NEW byte \in Bytes, TypeFirst(byte) PROVE LineInv'
  <2>1. Key /\ (byte = Bad \/ byte[2] = 1)
        /\ Len(input) + (IF byte = Bad THEN 1 ELSE Width[byte[1]]) <= MaxBytes
        /\ input' = Inserted(byte) /\ cursor_index' = cursor_index + 1
        /\ garbled' = (input' # <<>> /\ (garbled \/ byte = Bad))
        /\ partly' = IF byte = Bad \/ Width[byte[1]] = 1 THEN Whole ELSE byte
    BY <1>1 DEF TypeFirst, Type, Garbled
  <2>2. input' \in Seq(Bytes) /\ Len(input') = Len(input) + 1
    BY <2>1, InsertedType
  <2>3. CASE byte = Bad
    <3>1. partly' = Whole
      BY <2>1, <2>3
    <3> QED BY <1>0, <2>1, <2>2, <2>3, <3>1 DEF Key
  <2>4. CASE byte # Bad
    <3>1. byte[1] \in Chars /\ byte[2] \in 1 .. Width[byte[1]] /\ Width[byte[1]] \in Nat \ {0}
      BY <2>4, ByteIs
    <3>2. byte[2] = 1
      BY <2>1, <2>4
    <3>3. CASE Width[byte[1]] = 1
      BY <1>0, <2>1, <2>2, <2>4, <3>1, <3>3 DEF Key
    <3>4. CASE Width[byte[1]] # 1
      <4>1. partly' = byte
        BY <2>1, <2>4, <3>4
      <4> QED BY <1>0, <2>1, <2>2, <2>4, <3>1, <3>2, <3>4, <4>1 DEF Key
    <3> QED BY <3>3, <3>4
  <2> QED BY <2>3, <2>4
<1>2. ASSUME TypeMore PROVE LineInv'
  <2> DEFINE byte == <<partly[1], partly[2] + 1>>
  <2>1. ~Key /\ input' = Inserted(byte) /\ cursor_index' = cursor_index + 1
        /\ garbled' = (input' # <<>> /\ (garbled \/ byte = Bad))
        /\ partly' = IF byte[2] = Width[byte[1]] THEN Whole ELSE byte
    BY <1>2, Zenon DEF TypeMore, Type, Garbled
  <2>2. /\ partly[1] \in Chars /\ partly[2] \in 1 .. Width[partly[1]] - 1
        /\ Len(input) + Width[partly[1]] - partly[2] <= MaxBytes
        /\ Width[partly[1]] \in Nat
    BY <2>1, CharsAssumption
  <2>3. byte[1] = partly[1] /\ byte[2] = partly[2] + 1 /\ byte[2] \in 1 .. Width[byte[1]]
    BY <2>2
  <2>4. byte \in Bytes
    BY <2>2, <2>3, ByteIs
  <2> HIDE DEF byte
  <2>5. input' \in Seq(Bytes) /\ Len(input') = Len(input) + 1
    BY <2>1, <2>4, InsertedType
  <2>6. Len(input') <= MaxBytes /\ cursor_index' \in 0 .. Len(input') /\ garbled' \in BOOLEAN
    BY <1>0, <2>1, <2>2, <2>5
  <2>7. CASE byte[2] = Width[byte[1]]
    <3>1. partly' = Whole
      BY <2>1, <2>7
    <3> QED BY <2>5, <2>6, <3>1 DEF Key
  <2>8. CASE byte[2] # Width[byte[1]]
    <3>1. partly' = byte
      BY <2>1, <2>8
    <3>2. /\ byte[1] \in Chars /\ byte[2] \in 1 .. Width[byte[1]] - 1
          /\ Len(input') + Width[byte[1]] - byte[2] <= MaxBytes
      BY <1>0, <2>2, <2>3, <2>5, <2>8
    <3> QED BY <2>4, <2>5, <2>6, <3>1, <3>2
  <2> QED BY <2>7, <2>8
<1>3. ASSUME Backspace PROVE LineInv'
  <2> DEFINE to == PrevChar(input, cursor_index)
  <2>1. /\ Key /\ input' = SubSeq(input, 1, to) \o SubSeq(input, cursor_index + 1, Len(input))
        /\ cursor_index' = to /\ partly' = partly /\ garbled' \in BOOLEAN
    BY <1>3 DEF Backspace, Garbled
  <2>2. to \in 0 .. cursor_index
    BY <1>0, CursorGoes
  <2> HIDE DEF to
  <2>3. /\ SubSeq(input, 1, to) \in Seq(Bytes) /\ Len(SubSeq(input, 1, to)) = to
        /\ SubSeq(input, cursor_index + 1, Len(input)) \in Seq(Bytes)
        /\ Len(SubSeq(input, cursor_index + 1, Len(input))) = Len(input) - cursor_index
    <3>1. to \in 0 .. Len(input)
      BY <1>0, <2>2
    <3> QED BY <3>1, Parts
  <2>4. input' \in Seq(Bytes) /\ Len(input') = to + (Len(input) - cursor_index)
    <3> DEFINE a == SubSeq(input, 1, to)
               b == SubSeq(input, cursor_index + 1, Len(input))
    <3>1. input' = a \o b /\ a \in Seq(Bytes) /\ b \in Seq(Bytes)
          /\ Len(a) = to /\ Len(b) = Len(input) - cursor_index
      BY <2>1, <2>3
    <3> HIDE DEF a, b, LineInv
    <3>2. a \o b \in Seq(Bytes) /\ Len(a \o b) = Len(a) + Len(b)
      BY <3>1, ConcatProperties
    <3> QED BY <3>1, <3>2
  <2>5. Len(input') <= MaxBytes /\ cursor_index' \in 0 .. Len(input')
    <3>1. to \in Nat /\ cursor_index \in Nat /\ to <= cursor_index /\ cursor_index <= Len(input)
      BY <1>0, <2>2
    <3>2. to + (Len(input) - cursor_index) <= MaxBytes
          /\ to \in 0 .. to + (Len(input) - cursor_index)
      <4> HIDE DEF LineInv
      <4> QED BY <1>0, <3>1
    <3> QED BY <2>1, <3>2, <2>4, Zenon
  <2> QED BY <2>1, <2>4, <2>5 DEF Key
<1>4. ASSUME Move PROVE LineInv'
  <2>1. PICK to \in {PrevChar(input, cursor_index), NextChar(input, cursor_index),
                     0, Len(input)} : MoveTo(to)
    BY <1>4 DEF Move
  <2>2. to \in 0 .. Len(input)
    <3>1. PrevChar(input, cursor_index) \in 0 .. cursor_index
          /\ NextChar(input, cursor_index) \in 0 .. Len(input)
      BY <1>0, CursorGoes
    <3> QED BY <1>0, <2>1, <3>1
  <2> QED BY <2>1, <2>2 DEF MoveTo, Key
<1>5. ASSUME Scroll PROVE LineInv'
  BY <1>5 DEF Scroll, line, Key
<1>6. ASSUME Enter PROVE LineInv'
  <2>1. input' = <<>> /\ cursor_index' = 0 /\ garbled' = FALSE /\ partly' = partly /\ Key
    BY <1>6, Zenon DEF Enter
  <2>2. input' \in Seq(Bytes) /\ Len(input') = 0
    BY <2>1
  <2>3. Len(input') <= MaxBytes /\ cursor_index' \in 0 .. Len(input')
    BY <1>0, <2>1, <2>2
  <2>4. partly' = Whole
    BY <2>1 DEF Key
  <2> QED BY <2>1, <2>2, <2>3, <2>4 DEF Key
<1>7. ASSUME Arrive PROVE LineInv'
  BY <1>7 DEF Arrive, line, Key
<1>8. ASSUME Resize PROVE LineInv'
  BY <1>8 DEF Resize, line, Key
<1>9. ASSUME UNCHANGED vars PROVE LineInv'
  BY <1>9 DEF vars, line, Key
<1> QED BY <1>1, <1>2, <1>3, <1>4, <1>5, <1>6, <1>7, <1>8, <1>9 DEF Next

----------------------------------------------------------------------------
(* The box. *)

LEMMA TerminalIs ==
    ASSUME NEW t \in Terminals
    PROVE  t.width \in Nat \ {0} /\ t.width - 1 \in Nat \ {0} /\ t.height \in Nat
BY TerminalsAssumption

LEMMA BoxWidthType ==
    ASSUME NEW lines \in Nat, NEW height \in Int, NEW w \in Nat \ {0}, w - 1 \in Nat \ {0}
    PROVE  /\ BoxWidth(lines, height, w) \in Nat \ {0}
           /\ BoxWidth(lines, height, w) <= w
           /\ \A more \in Nat : more >= lines =>
                 BoxWidth(more, height, w) <= BoxWidth(lines, height, w)
BY DEF BoxWidth

LEMMA MinOfTwo ==
    ASSUME NEW a \in Int, NEW b \in Int
    PROVE  Min({a, b}) \in Int /\ Min({a, b}) <= a /\ Min({a, b}) <= b
<1>1. \E x \in {a, b} : \A y \in {a, b} : x =< y
  <2>1. CASE a <= b
    BY <2>1
  <2>2. CASE b < a
    BY <2>2
  <2> QED BY <2>1, <2>2
<1>2. Min({a, b}) \in {a, b} /\ \A y \in {a, b} : Min({a, b}) =< y
  BY <1>1, Zenon DEF Min
<1> QED BY <1>2

LEMMA MinOfThree ==
    ASSUME NEW a \in Nat \ {0}, NEW b \in Nat \ {0}, NEW c \in Nat \ {0}
    PROVE  /\ Min({a, b, c}) \in Nat \ {0}
           /\ Min({a, b, c}) <= a /\ Min({a, b, c}) <= b /\ Min({a, b, c}) <= c
<1>1. {a, b, c} \subseteq Nat /\ {a, b, c} # {}
  OBVIOUS
<1>2. Min({a, b, c}) \in {a, b, c} /\ \A y \in {a, b, c} : Min({a, b, c}) <= y
  BY <1>1, MinIs
<1> QED BY <1>2

\* What ui_update leaves in the state.
LEMMA Updated ==
    ASSUME NEW text, Len(text) \in Nat, NEW messages \in Seq(Nat), NEW size \in Terminals,
           NEW passing \in Nat \ {0}, narrowest \in Nat \ {0}, lowest \in Int,
           UiUpdates(text, messages, size, passing)
    PROVE  /\ history_width' \in Nat \ {0} /\ narrowest' \in Nat \ {0}
           /\ history_height' \in Int /\ lowest' \in Int
           /\ history_height' = size.height - InputLines(text, size.width) - 2
           /\ history_width' = BoxWidth(HistoryLines(messages, size.width),
                                        history_height', size.width)
           /\ narrowest' <= history_width' /\ narrowest' <= narrowest /\ narrowest' <= passing
           /\ lowest' <= history_height' /\ lowest' <= lowest
<1>1. size.width \in Nat \ {0} /\ size.width - 1 \in Nat \ {0} /\ size.height \in Nat
  BY TerminalIs
<1>2. InputLines(text, size.width) \in Nat
  BY <1>1, InputLinesType
<1>3. HistoryLines(messages, size.width) \in Nat
  BY <1>1, HistoryLinesType
<1>4. /\ history_height' = size.height - InputLines(text, size.width) - 2
      /\ history_width' = BoxWidth(HistoryLines(messages, size.width),
                                   history_height', size.width)
      /\ narrowest' = Min({narrowest, passing, history_width'})
      /\ lowest' = Min({lowest, history_height'})
  BY DEF UiUpdates
<1>5. history_height' \in Int
  BY <1>1, <1>2, <1>4
<1>6. history_width' \in Nat \ {0}
  BY <1>1, <1>3, <1>4, <1>5, BoxWidthType
<1>7. narrowest' \in Nat \ {0} /\ narrowest' <= history_width' /\ narrowest' <= narrowest
      /\ narrowest' <= passing
  <2>1. /\ Min({narrowest, passing, history_width'}) \in Nat \ {0}
        /\ Min({narrowest, passing, history_width'}) <= narrowest
        /\ Min({narrowest, passing, history_width'}) <= passing
        /\ Min({narrowest, passing, history_width'}) <= history_width'
    BY <1>6, MinOfThree
  <2> QED BY <1>4, <2>1
<1>8. lowest' \in Int /\ lowest' <= lowest /\ lowest' <= history_height'
  <2>1. /\ Min({lowest, history_height'}) \in Int
        /\ Min({lowest, history_height'}) <= lowest
        /\ Min({lowest, history_height'}) <= history_height'
    BY <1>5, MinOfTwo
  <2> QED BY <1>4, <2>1
<1> QED BY <1>4, <1>5, <1>6, <1>7, <1>8


\* What a step does to the history and where in it the box stands: nothing but
\* scroll by a line, push a message, or push a text and a status line, which is
\* counted in the width the box has between the two.
Scrolls ==
    \/ history_line' = history_line
    \/ LinesAbove /\ history_line' = history_line + 1
    \/ history_line > 0 /\ history_line' = history_line - 1
Kept == history' = history /\ Scrolls
Pushed(message) == history' = Append(history, message) /\ history_line' = ScrolledBy(message)
WidthWith(messages) ==
    BoxWidth(HistoryLines(messages, terminal.width), history_height, terminal.width)
PushedBoth(text, status) ==
    /\ history' = Append(Append(history, text), status)
    /\ history_line' = IF history_line = 0 THEN 0
                       ELSE ScrolledBy(text)
                            + MessageLines(status, WidthWith(Append(history, text)))

Course(passing) ==
    /\ UiUpdates(input', history', terminal', passing)
    /\ terminal' \in Terminals
    /\ Len(history') <= MaxMessages
    /\ \/ Kept
       \/ \E message \in Nat : Pushed(message)
       \/ /\ passing = WidthWith(history') /\ terminal' = terminal
          /\ \E text, status \in Nat : PushedBoth(text, status)

LEMMA PushIs ==
    ASSUME HistoryInv, NEW message \in Nat, Push(message)
    PROVE  Pushed(message) /\ Len(history') <= MaxMessages /\ history' \in Seq(Nat)
<1>1. history' = Append(history, message) /\ Len(history) < MaxMessages
      /\ history_line' = ScrolledBy(message)
  BY DEF Push
<1>2. Append(history, message) \in Seq(Nat) /\ Len(Append(history, message)) = Len(history) + 1
      /\ Len(history) \in Nat /\ MaxMessages \in Nat
  BY BoundsAssumption DEF HistoryInv
<1> QED BY <1>1, <1>2 DEF Pushed

LEMMA PushBothIs ==
    ASSUME HistoryInv, NEW text \in Nat, NEW status \in Nat, PushBoth(text, status)
    PROVE  PushedBoth(text, status) /\ Len(history') <= MaxMessages /\ history' \in Seq(Nat)
<1>1. history' = Append(Append(history, text), status)
      /\ Len(Append(history, text)) < MaxMessages
  BY DEF PushBoth
<1>2. history_line' = IF history_line = 0 THEN 0
                      ELSE ScrolledBy(text)
                           + MessageLines(status, WidthWith(Append(history, text)))
  BY Zenon DEF PushBoth, WidthWith
<1>3. Append(history, text) \in Seq(Nat) /\ MaxMessages \in Nat
  BY BoundsAssumption DEF HistoryInv
<1> DEFINE h == Append(history, text)
<1>4. h \in Seq(Nat) /\ Len(h) < MaxMessages /\ history' = Append(h, status)
  BY <1>1, <1>3
<1> HIDE DEF h
<1>5. Append(h, status) \in Seq(Nat) /\ Len(Append(h, status)) = Len(h) + 1 /\ Len(h) \in Nat
  BY <1>4
<1>6. Len(history') <= MaxMessages /\ history' \in Seq(Nat)
  BY <1>3, <1>4, <1>5
<1> QED BY <1>1, <1>2, <1>6 DEF PushedBoth

LEMMA WidthWithType ==
    ASSUME BoxInv, NEW messages \in Seq(Nat)
    PROVE  WidthWith(messages) \in Nat \ {0}
<1>1. terminal.width \in Nat \ {0} /\ terminal.width - 1 \in Nat \ {0}
  BY TerminalIs DEF BoxInv
<1>2. HistoryLines(messages, terminal.width) \in Nat
  BY <1>1, HistoryLinesType
<1>3. history_height \in Int
  BY DEF BoxInv
<1> QED BY <1>1, <1>2, <1>3, BoxWidthType DEF WidthWith

LEMMA CourseOfStep ==
    ASSUME UiInv, Next
    PROVE  \E passing \in Nat \ {0} : Course(passing)
<1>0. LineInv /\ HistoryInv /\ BoxInv
  BY DEF UiInv
<1>a. history_width \in Nat \ {0} /\ terminal \in Terminals
  BY <1>0 DEF BoxInv
<1>b. Len(history) <= MaxMessages /\ history \in Seq(Nat)
  BY <1>0 DEF HistoryInv
<1>c. \A n \in Sizes : n \in Nat
  BY SizesAssumption
<1>1. ASSUME NEW byte, Type(byte) PROVE Course(history_width)
  <2>1. UiUpdate(input', history, terminal) /\ history' = history /\ terminal' = terminal
        /\ history_line' = history_line
    BY <1>1 DEF Type, Stays
  <2> QED BY <2>1, <1>a, <1>b DEF Course, UiUpdate, Kept, Scrolls
<1>2. ASSUME NEW byte \in Bytes, TypeFirst(byte) PROVE Course(history_width)
  BY <1>1, <1>2 DEF TypeFirst
<1>3. ASSUME TypeMore PROVE Course(history_width)
  BY <1>1, <1>3 DEF TypeMore
<1>4. ASSUME Backspace PROVE Course(history_width)
  <2>1. UiUpdate(input', history, terminal) /\ history' = history /\ terminal' = terminal
        /\ history_line' = history_line
    BY <1>4 DEF Backspace, Stays
  <2> QED BY <2>1, <1>a, <1>b DEF Course, UiUpdate, Kept, Scrolls
<1>5. ASSUME Move PROVE Course(history_width)
  <2>1. PICK to : MoveTo(to)
    BY <1>5 DEF Move
  <2>2. UiUpdate(input, history, terminal) /\ history' = history /\ terminal' = terminal
        /\ history_line' = history_line /\ input' = input
    BY <2>1 DEF MoveTo, Stays
  <2>3. UiUpdates(input', history', terminal', history_width)
    BY <2>2 DEF UiUpdate
  <2> QED BY <2>2, <2>3, <1>a, <1>b DEF Course, Kept, Scrolls
<1>6. ASSUME Scroll PROVE Course(history_width)
  <2>1. UiUpdate(input, history, terminal) /\ history' = history /\ terminal' = terminal
        /\ input' = input /\ Scrolls
    BY <1>6 DEF Scroll, Stays, Scrolls, line
  <2>2. UiUpdates(input', history', terminal', history_width)
    BY <2>1 DEF UiUpdate
  <2> QED BY <2>1, <2>2, <1>a, <1>b DEF Course, Kept
<1>7. ASSUME Enter PROVE \E passing \in Nat \ {0} : Course(passing)
  <2>1. UiUpdates(input', history', terminal', WidthWith(history')) /\ terminal' = terminal
    BY <1>7, Zenon DEF Enter, WidthWith
  <2>2. \/ \E size \in Sizes : Push(size)
        \/ UNCHANGED <<history, history_line>>
        \/ Push(CountChars(input))
        \/ \E size \in Sizes : PushBoth(CountChars(input), size)
    BY <1>7 DEF Enter
  <2>3. CountChars(input) \in Nat
    BY <1>0, StartsType DEF LineInv
  <2>4. history' \in Seq(Nat) /\ Len(history') <= MaxMessages
        /\ (Kept \/ (\E message \in Nat : Pushed(message))
            \/ \E text, status \in Nat : PushedBoth(text, status))
    <3>1. ASSUME NEW size \in Sizes, Push(size)
          PROVE  history' \in Seq(Nat) /\ Len(history') <= MaxMessages
                 /\ \E message \in Nat : Pushed(message)
      BY <1>0, <1>c, <3>1, PushIs
    <3>2. ASSUME UNCHANGED <<history, history_line>>
          PROVE  history' \in Seq(Nat) /\ Len(history') <= MaxMessages /\ Kept
      BY <1>b, <3>2 DEF Kept, Scrolls
    <3>3. ASSUME Push(CountChars(input))
          PROVE  history' \in Seq(Nat) /\ Len(history') <= MaxMessages
                 /\ \E message \in Nat : Pushed(message)
      BY <1>0, <2>3, <3>3, PushIs
    <3>4. ASSUME NEW size \in Sizes, PushBoth(CountChars(input), size)
          PROVE  history' \in Seq(Nat) /\ Len(history') <= MaxMessages
                 /\ \E text, status \in Nat : PushedBoth(text, status)
      BY <1>0, <1>c, <2>3, <3>4, PushBothIs
    <3> QED BY <2>2, <3>1, <3>2, <3>3, <3>4
  <2>5. WidthWith(history') \in Nat \ {0}
    BY <1>0, <2>4, WidthWithType
  <2>6. Course(WidthWith(history'))
    BY <1>a, <2>1, <2>4 DEF Course
  <2> QED BY <2>5, <2>6
<1>8. ASSUME Arrive PROVE Course(history_width)
  <2>1. PICK size \in Sizes : Push(size)
    BY <1>8 DEF Arrive
  <2>2. Pushed(size) /\ Len(history') <= MaxMessages
    BY <1>0, <1>c, <2>1, PushIs
  <2>3. UiUpdates(input', history', terminal', history_width) /\ terminal' = terminal
    BY <1>8 DEF Arrive, UiUpdate, line
  <2> QED BY <1>a, <1>c, <2>2, <2>3 DEF Course
<1>9. ASSUME Resize PROVE Course(history_width)
  <2>1. /\ terminal' \in Terminals /\ UiUpdate(input, history, terminal')
        /\ input' = input /\ history' = history /\ history_line' = history_line
    BY <1>9 DEF Resize, line
  <2>2. UiUpdates(input', history', terminal', history_width)
    BY <2>1 DEF UiUpdate
  <2> QED BY <2>1, <2>2, <1>b DEF Course, Kept, Scrolls
<1> QED BY <1>a, <1>2, <1>3, <1>4, <1>5, <1>6, <1>7, <1>8, <1>9 DEF Next

LEMMA ScrolledByType ==
    ASSUME HistoryInv, BoxInv, NEW message \in Nat
    PROVE  ScrolledBy(message) \in Nat
<1>1. MessageLines(message, history_width) \in Nat
  BY MessageLinesType DEF BoxInv
<1> QED BY <1>1 DEF ScrolledBy, HistoryInv

LEMMA HistoryStep ==
    ASSUME UiInv, NEW passing \in Nat \ {0}, Course(passing)
    PROVE  HistoryInv'
<1>0. HistoryInv /\ BoxInv
  BY DEF UiInv
<1>1. Len(history') <= MaxMessages
  BY DEF Course
<1>2. CASE Kept
  <2>1. history' \in Seq(Nat)
    BY <1>0, <1>2 DEF Kept, HistoryInv
  <2>2. history_line' \in Nat
    BY <1>0, <1>2 DEF Kept, Scrolls, HistoryInv
  <2> QED BY <1>1, <2>1, <2>2 DEF HistoryInv
<1>3. ASSUME NEW message \in Nat, Pushed(message) PROVE HistoryInv'
  <2>1. history' \in Seq(Nat)
    BY <1>0, <1>3 DEF Pushed, HistoryInv
  <2>2. history_line' \in Nat
    BY <1>0, <1>3, ScrolledByType DEF Pushed
  <2> QED BY <1>1, <2>1, <2>2 DEF HistoryInv
<1>4. ASSUME NEW text \in Nat, NEW status \in Nat, PushedBoth(text, status) PROVE HistoryInv'
  <2>1. Append(history, text) \in Seq(Nat)
    BY <1>0 DEF HistoryInv
  <2>2. Append(Append(history, text), status) \in Seq(Nat)
    BY <2>1, AppendProperties
  <2>3. history' \in Seq(Nat)
    BY <1>4, <2>2 DEF PushedBoth
  <2>4. MessageLines(status, WidthWith(Append(history, text))) \in Nat
    BY <1>0, <2>1, WidthWithType, MessageLinesType
  <2>5. ScrolledBy(text) \in Nat
    BY <1>0, ScrolledByType
  <2>6. history_line' \in Nat
    <3> DEFINE n == MessageLines(status, WidthWith(Append(history, text)))
    <3>1. history_line' = IF history_line = 0 THEN 0 ELSE ScrolledBy(text) + n
      BY <1>4, Zenon DEF PushedBoth
    <3>2. n \in Nat
      BY <2>4
    <3> HIDE DEF n
    <3> QED BY <2>5, <3>1, <3>2
  <2> QED BY <1>1, <2>3, <2>6 DEF HistoryInv
<1> QED BY <1>2, <1>3, <1>4 DEF Course

LEMMA BoxStep ==
    ASSUME UiInv, LineInv', HistoryInv', NEW passing \in Nat \ {0}, Course(passing)
    PROVE  BoxInv'
<1>1. Len(input') \in Nat /\ history' \in Seq(Nat) /\ terminal' \in Terminals
      /\ narrowest \in Nat \ {0} /\ lowest \in Int
      /\ UiUpdates(input', history', terminal', passing)
  BY DEF UiInv, LineInv, HistoryInv, BoxInv, Course
<1>2. /\ history_width' \in Nat \ {0} /\ narrowest' \in Nat \ {0}
      /\ history_height' \in Int /\ lowest' \in Int
      /\ history_height' = terminal'.height - InputLines(input', terminal'.width) - 2
      /\ history_width' = BoxWidth(HistoryLines(history', terminal'.width),
                                   history_height', terminal'.width)
      /\ narrowest' <= history_width' /\ lowest' <= history_height'
  BY <1>1, Updated
<1> QED BY <1>1, <1>2 DEF BoxInv

LEMMA InitInv == Init => UiInv
<1> SUFFICES ASSUME Init PROVE UiInv
  OBVIOUS
<1>1. LineInv
  <2>1. input = <<>> /\ cursor_index = 0 /\ partly = Whole /\ garbled = FALSE
    BY DEF Init
  <2>2. input \in Seq(Bytes) /\ Len(input) = 0
    BY <2>1
  <2>3. Len(input) <= MaxBytes /\ cursor_index \in 0 .. Len(input)
    BY <2>1, <2>2, BoundsAssumption
  <2> QED BY <2>1, <2>2, <2>3 DEF LineInv, Key
<1>2. HistoryInv
  <2>1. PICK size \in Sizes : history = <<size>>
    BY DEF Init
  <2>2. size \in Nat
    BY SizesAssumption
  <2>3. history \in Seq(Nat) /\ Len(history) = 1
    BY <2>1, <2>2
  <2>4. history_line = 0
    BY DEF Init
  <2> QED BY <2>3, <2>4, BoundsAssumption DEF HistoryInv
<1>3. BoxInv
  <2>1. terminal \in Terminals /\ history_height = terminal.height - 3
        /\ history_width = BoxWidth(HistoryLines(history, terminal.width),
                                    history_height, terminal.width)
        /\ narrowest = history_width /\ lowest = history_height
    BY DEF Init
  <2>2. terminal.width \in Nat \ {0} /\ terminal.width - 1 \in Nat \ {0} /\ terminal.height \in Nat
    BY <2>1, TerminalIs
  <2>3. history_height \in Int
    BY <2>1, <2>2
  <2>4. HistoryLines(history, terminal.width) \in Nat
    BY <1>2, <2>2, HistoryLinesType DEF HistoryInv
  <2>5. history_width \in Nat \ {0}
    BY <2>1, <2>2, <2>3, <2>4, BoxWidthType
  <2>6. InputLines(input, terminal.width) = 1
    <3>1. input = <<>> /\ Len(input) = 0
      BY DEF Init
    <3>2. Starts(input) = {0}
      BY <3>1 DEF Starts
    <3>3. CountChars(input) = 0
      <4>1. Cardinality(Starts(input)) = 1
        BY <3>2, FS_Singleton, Zenon
      <4> QED BY <4>1 DEF CountChars
    <3>4. InputLines(input, terminal.width) \in {1, StringLines(CountChars(input), terminal.width)}
          /\ InputLines(input, terminal.width) \in Nat \ {0}
      BY <2>2, <3>1, InputLinesType
    <3>5. StringLines(CountChars(input), terminal.width) = 0
      BY <3>3 DEF StringLines
    <3> QED BY <3>4, <3>5
  <2>7. history_height = terminal.height - InputLines(input, terminal.width) - 2
    BY <2>1, <2>2, <2>6
  <2> QED BY <2>1, <2>3, <2>5, <2>7 DEF BoxInv
<1> QED BY <1>1, <1>2, <1>3 DEF UiInv

LEMMA UiStep == UiInv /\ [Next]_vars => UiInv'
<1> SUFFICES ASSUME UiInv, [Next]_vars PROVE UiInv'
  OBVIOUS
<1>1. LineInv'
  BY LineStep DEF UiInv
<1>2. CASE Next
  <2>1. PICK passing \in Nat \ {0} : Course(passing)
    BY <1>2, CourseOfStep
  <2>2. HistoryInv'
    BY <2>1, HistoryStep
  <2>3. BoxInv'
    BY <1>1, <2>1, <2>2, BoxStep
  <2> QED BY <1>1, <2>2, <2>3 DEF UiInv
<1>3. CASE UNCHANGED vars
  BY <1>3 DEF UiInv, LineInv, HistoryInv, BoxInv, Key, vars, line, box
<1> QED BY <1>2, <1>3

LEMMA UiInvariant == Spec => []UiInv
<1>1. Init => UiInv
  BY InitInv
<1>2. UiInv /\ [Next]_vars => UiInv'
  BY UiStep
<1> QED BY <1>1, <1>2, PTL DEF Spec

\* Every variable has its type, whatever keys are pressed, whatever arrives and
\* whatever the terminal becomes: the cursor never leaves the line (ui.c:37-68),
\* and a character that is begun finds room for the rest of it.
THEOREM UiTypeCorrect == Spec => []TypeOK
<1>1. UiInv => TypeOK
  BY DEF UiInv, LineInv, HistoryInv, BoxInv, TypeOK
<1> QED BY <1>1, UiInvariant, PTL

----------------------------------------------------------------------------
(* Scrolling. *)

LEMMA Narrower ==
    ASSUME UiInv, LineInv', HistoryInv', NEW passing \in Nat \ {0}, Course(passing)
    PROVE  narrowest' <= narrowest /\ narrowest' <= passing /\ lowest' <= lowest
<1>1. Len(input') \in Nat /\ history' \in Seq(Nat) /\ terminal' \in Terminals
      /\ narrowest \in Nat \ {0} /\ lowest \in Int
      /\ UiUpdates(input', history', terminal', passing)
  BY DEF UiInv, LineInv, HistoryInv, BoxInv, Course
<1> QED BY <1>1, Updated

LEMMA LinesOfPushed ==
    ASSUME HistoryInv, NEW text \in Nat, NEW status \in Nat, NEW w \in Nat \ {0}
    PROVE  /\ Append(history, text) \in Seq(Nat)
           /\ Append(Append(history, text), status) \in Seq(Nat)
           /\ HistoryLines(Append(history, text), w)
                = HistoryLines(history, w) + MessageLines(text, w)
           /\ HistoryLines(Append(Append(history, text), status), w)
                = HistoryLines(history, w) + MessageLines(text, w) + MessageLines(status, w)
<1>1. history \in Seq(Nat) /\ Append(history, text) \in Seq(Nat)
  BY DEF HistoryInv
<1>2. Append(Append(history, text), status) \in Seq(Nat)
  BY <1>1, AppendProperties
<1>3. HistoryLines(Append(history, text), w) = HistoryLines(history, w) + MessageLines(text, w)
  BY <1>1, HistoryLinesAppend
<1>4. HistoryLines(Append(Append(history, text), status), w)
        = HistoryLines(Append(history, text), w) + MessageLines(status, w)
  BY <1>1, HistoryLinesAppend
<1> QED BY <1>1, <1>2, <1>3, <1>4

\* A longer history leaves no wider a box.
LEMMA WidthWithNarrow ==
    ASSUME BoxInv, NEW h \in Seq(Nat), NEW message \in Nat
    PROVE  WidthWith(Append(h, message)) <= WidthWith(h)
<1>1. terminal.width \in Nat \ {0} /\ terminal.width - 1 \in Nat \ {0} /\ history_height \in Int
  BY TerminalIs DEF BoxInv
<1>2. HistoryLines(h, terminal.width) \in Nat
  BY <1>1, HistoryLinesType
<1>3. HistoryLines(Append(h, message), terminal.width)
        = HistoryLines(h, terminal.width) + MessageLines(message, terminal.width)
  BY <1>1, HistoryLinesAppend
<1>4. MessageLines(message, terminal.width) \in Nat
  BY <1>1, MessageLinesType
<1>5. HistoryLines(Append(h, message), terminal.width) \in Nat
      /\ HistoryLines(Append(h, message), terminal.width) >= HistoryLines(h, terminal.width)
  BY <1>2, <1>3, <1>4
<1> QED BY <1>1, <1>2, <1>5, BoxWidthType DEF WidthWith

LEMMA ScrolledSum ==
    ASSUME NEW at \in Nat, NEW to \in Nat, NEW more \in Nat, NEW low \in Int, NEW lower \in Int,
           NEW within \in Nat, NEW all \in Nat,
           lower <= low, at > 0 => at + low <= within, within + more <= all,
           at = 0 => to = 0, to <= at + more
    PROVE  to > 0 => to + lower <= all
OBVIOUS

LEMMA ScrolledUpSum ==
    ASSUME NEW at \in Nat, NEW low \in Int, NEW lower \in Int, NEW height \in Int,
           NEW wider \in Nat, NEW all \in Nat,
           lower <= low, low <= height, at + height \in 0 .. wider - 1, wider <= all
    PROVE  (at + 1) + lower <= all
OBVIOUS

LEMMA ScrolledWithinStep ==
    ASSUME UiInv, ScrolledWithin, UiInv', NEW passing \in Nat \ {0}, Course(passing)
    PROVE  ScrolledWithin'
<1>0. LineInv /\ HistoryInv /\ BoxInv /\ LineInv' /\ HistoryInv' /\ BoxInv'
  BY DEF UiInv
<1>1. /\ narrowest' <= narrowest /\ narrowest' <= passing /\ lowest' <= lowest
      /\ narrowest <= history_width /\ lowest <= history_height
  BY <1>0, Narrower DEF BoxInv
<1>2. /\ narrowest \in Nat \ {0} /\ narrowest' \in Nat \ {0} /\ history_width \in Nat \ {0}
      /\ history \in Seq(Nat) /\ history' \in Seq(Nat)
  BY <1>0 DEF BoxInv, HistoryInv
<1>t. /\ lowest \in Int /\ lowest' \in Int /\ history_height \in Int
      /\ history_line \in Nat /\ history_line' \in Nat
      /\ lowest' <= lowest /\ lowest <= history_height
  BY <1>0, <1>1 DEF BoxInv, HistoryInv
<1> DEFINE within == HistoryLines(history, narrowest)
           wider == HistoryLines(history, history_width)
           now == HistoryLines(history, narrowest')
<1>3. within \in Nat /\ wider \in Nat /\ now \in Nat
  BY <1>2, HistoryLinesType
<1>4. within <= now /\ wider <= now
  <2>1. narrowest' <= history_width
    BY <1>1, <1>2
  <2> QED BY <1>1, <1>2, <2>1, HistoryLinesNarrow
<1>5. history_line > 0 => history_line + lowest <= within
  BY DEF ScrolledWithin
<1>6. SUFFICES history_line' > 0 => history_line' + lowest' <= HistoryLines(history', narrowest')
  BY DEF ScrolledWithin
<1>7. CASE Kept
  <2>1. HistoryLines(history', narrowest') = now
    BY <1>7 DEF Kept
  <2>2. \/ history_line' = history_line
        \/ history_line + history_height \in 0 .. wider - 1 /\ history_line' = history_line + 1
        \/ history_line > 0 /\ history_line' = history_line - 1
    BY <1>7 DEF Kept, Scrolls, LinesAbove
  <2> DEFINE all == HistoryLines(history', narrowest')
  <2>3. all = now
    BY <2>1
  <2> HIDE DEF within, wider, now, all
  <2>4. ASSUME history_line' = history_line \/ (history_line > 0 /\ history_line' = history_line - 1)
        PROVE  history_line' > 0 => history_line' + lowest' <= all
    <3>1. within + 0 <= all /\ all \in Nat
      BY <1>3, <1>4, <2>3
    <3>2. (history_line = 0 => history_line' = 0) /\ history_line' <= history_line + 0
      BY <1>t, <2>4
    <3> QED BY <1>t, <1>3, <1>5, <3>1, <3>2, ScrolledSum
  <2>5. ASSUME history_line + history_height \in 0 .. wider - 1, history_line' = history_line + 1
        PROVE  history_line' > 0 => history_line' + lowest' <= all
    <3>1. wider <= all /\ all \in Nat
      BY <1>3, <1>4, <2>3
    <3>2. (history_line + 1) + lowest' <= all
      BY <1>t, <1>3, <2>5, <3>1, ScrolledUpSum
    <3> QED BY <2>5, <3>2, Zenon
  <2>9. history_line' > 0 => history_line' + lowest' <= all
    BY <2>2, <2>4, <2>5
  <2> QED BY <2>9 DEF all
<1>8. ASSUME NEW message \in Nat, Pushed(message)
      PROVE  history_line' > 0 => history_line' + lowest' <= HistoryLines(history', narrowest')
  <2> DEFINE old == MessageLines(message, history_width)
             new == MessageLines(message, narrowest')
  <2>1. HistoryLines(history', narrowest') = now + new
    BY <1>2, <1>8, HistoryLinesAppend DEF Pushed
  <2>2. old \in Nat /\ new \in Nat /\ old <= new
    <3>1. narrowest' <= history_width
      BY <1>1, <1>2
    <3> QED BY <1>2, <3>1, MessageLinesType, MessageLinesNarrow
  <2>3. history_line' = IF history_line = 0 THEN 0 ELSE history_line + old
    BY <1>8 DEF Pushed, ScrolledBy
  <2> DEFINE all == HistoryLines(history', narrowest')
  <2>4. all = now + new
    BY <2>1
  <2> HIDE DEF within, wider, now, old, new, all
  <2>5. within + old <= all /\ all \in Nat
    BY <1>3, <1>4, <2>2, <2>4
  <2>6. (history_line = 0 => history_line' = 0) /\ history_line' <= history_line + old
    BY <1>t, <2>2, <2>3
  <2>9. history_line' > 0 => history_line' + lowest' <= all
    BY <1>t, <1>3, <1>5, <2>2, <2>5, <2>6, ScrolledSum
  <2> QED BY <2>9 DEF all
<1>9. ASSUME NEW text \in Nat, NEW status \in Nat, PushedBoth(text, status),
             passing = WidthWith(history')
      PROVE  history_line' > 0 => history_line' + lowest' <= HistoryLines(history', narrowest')
  <2> DEFINE between == WidthWith(Append(history, text))
             old == MessageLines(text, history_width)
             new == MessageLines(text, narrowest')
             oldStatus == MessageLines(status, between)
             newStatus == MessageLines(status, narrowest')
  <2>1. HistoryLines(history', narrowest') = now + new + newStatus
    BY <1>0, <1>2, <1>9, LinesOfPushed DEF PushedBoth
  <2>2. between \in Nat \ {0} /\ narrowest' <= between
    <3>1. Append(history, text) \in Seq(Nat) /\ Append(Append(history, text), status) \in Seq(Nat)
      BY <1>0, <1>2, LinesOfPushed
    <3>2. between \in Nat \ {0}
      BY <1>0, <3>1, WidthWithType
    <3>3. WidthWith(Append(Append(history, text), status)) <= between
      BY <1>0, <3>1, WidthWithNarrow
    <3>4. passing = WidthWith(Append(Append(history, text), status))
      BY <1>9 DEF PushedBoth
    <3> HIDE DEF between
    <3> QED BY <1>1, <1>2, <3>2, <3>3, <3>4
  <2>3. old \in Nat /\ new \in Nat /\ old <= new
    <3>1. narrowest' <= history_width
      BY <1>1, <1>2
    <3> QED BY <1>2, <3>1, MessageLinesType, MessageLinesNarrow
  <2>4. oldStatus \in Nat /\ newStatus \in Nat /\ oldStatus <= newStatus
    <3> HIDE DEF between
    <3> QED BY <1>2, <2>2, MessageLinesType, MessageLinesNarrow
  <2>5. history_line' = IF history_line = 0 THEN 0 ELSE history_line + old + oldStatus
    <3>1. history_line' = IF history_line = 0 THEN 0 ELSE ScrolledBy(text) + oldStatus
      BY <1>9, Zenon DEF PushedBoth
    <3>2. ScrolledBy(text) = IF history_line = 0 THEN 0 ELSE history_line + old
      BY DEF ScrolledBy
    <3> QED BY <3>1, <3>2, Zenon
  <2> DEFINE all == HistoryLines(history', narrowest')
  <2>6. all = now + new + newStatus
    BY <2>1
  <2> HIDE DEF within, wider, now, old, new, oldStatus, newStatus, all
  <2> DEFINE more == old + oldStatus
  <2>7. within + more <= all /\ all \in Nat /\ more \in Nat
    BY <1>3, <1>4, <2>3, <2>4, <2>6
  <2>8. (history_line = 0 => history_line' = 0) /\ history_line' <= history_line + more
    BY <1>t, <2>3, <2>4, <2>5
  <2>9. history_line' > 0 => history_line' + lowest' <= all
    <3> HIDE DEF more
    <3> QED BY <1>t, <1>3, <1>5, <2>7, <2>8, ScrolledSum
  <2> QED BY <2>9 DEF all
<1> QED BY <1>7, <1>8, <1>9 DEF Course

\* The lines below the box are never more than the history had above it, and
\* below, in the narrowest and lowest box so far (ui.c:213-220, chat.c:76-79):
\* who has scrolled up never stands further up than that, however the terminal,
\* the input box and the history have changed since.
THEOREM ScrolledStaysWithin == Spec => []ScrolledWithin
<1>1. Init => ScrolledWithin
  BY DEF Init, ScrolledWithin
<1>2. UiInv /\ UiInv' /\ ScrolledWithin /\ [Next]_vars => ScrolledWithin'
  <2> SUFFICES ASSUME UiInv, UiInv', ScrolledWithin, [Next]_vars PROVE ScrolledWithin'
    OBVIOUS
  <2>1. CASE Next
    <3>1. PICK passing \in Nat \ {0} : Course(passing)
      BY <2>1, CourseOfStep
    <3> QED BY <3>1, ScrolledWithinStep
  <2>2. CASE UNCHANGED vars
    BY <2>2 DEF vars, box, ScrolledWithin
  <2> QED BY <2>1, <2>2
<1> QED BY <1>1, <1>2, UiInvariant, PTL DEF Spec

\* A message that is pushed moves nothing of what is read as long as the box keeps
\* its width: as many lines stay above the box and in it as there were
\* (chat.c:76-79); a text and the status line after it, too, as the width that the
\* box has between them lies between those it has before and after.
THEOREM ViewAlwaysStaysPut == Spec => ViewStaysPut
<1> DEFINE Same == Above' = Above
           Put == history' # history /\ history_width' = history_width
                  /\ (history_height' = history_height \/ Len(history') = Len(history) + 1) =>
                  IF history_line = 0 THEN history_line' = 0 ELSE Same
<1>1. ASSUME UiInv, UiInv', [Next]_vars PROVE Put \/ UNCHANGED vars
  <2>0. LineInv /\ HistoryInv /\ BoxInv /\ LineInv' /\ HistoryInv' /\ BoxInv'
    BY <1>1 DEF UiInv
  <2>a. history \in Seq(Nat) /\ history_width \in Nat \ {0} /\ history_line \in Nat
    BY <2>0 DEF BoxInv, HistoryInv
  <2> SUFFICES ASSUME Next, history' # history, history_width' = history_width,
                      history_height' = history_height \/ Len(history') = Len(history) + 1
               PROVE  IF history_line = 0 THEN history_line' = 0 ELSE Same
    BY <1>1
  <2>1. PICK passing \in Nat \ {0} : Course(passing)
    BY <1>1, CourseOfStep
  <2> DEFINE lines == HistoryLines(history, history_width)
  <2>2. Above = lines - history_line /\ lines \in Nat
    BY <2>a, HistoryLinesType DEF Above
  <2>3. Above' = HistoryLines(history', history_width) - history_line'
    BY DEF Above
  <2>4. ASSUME NEW message \in Nat, Pushed(message)
        PROVE  IF history_line = 0 THEN history_line' = 0 ELSE Same
    <3> DEFINE n == MessageLines(message, history_width)
    <3>1. HistoryLines(history', history_width) = lines + n /\ n \in Nat
      BY <2>a, <2>4, HistoryLinesAppend, MessageLinesType DEF Pushed
    <3>2. history_line' = IF history_line = 0 THEN 0 ELSE history_line + n
      BY <2>4 DEF Pushed, ScrolledBy
    <3> HIDE DEF lines, n
    <3> QED BY <2>a, <2>2, <2>3, <3>1, <3>2
  <2>5. ASSUME NEW text \in Nat, NEW status \in Nat, PushedBoth(text, status),
               terminal' = terminal
        PROVE  IF history_line = 0 THEN history_line' = 0 ELSE Same
    <3> DEFINE between == WidthWith(Append(history, text))
               n == MessageLines(text, history_width)
               m == MessageLines(status, history_width)
    <3>1. HistoryLines(history', history_width) = lines + n + m /\ n \in Nat /\ m \in Nat
      <4>1. n \in Nat /\ m \in Nat
        BY <2>a, MessageLinesType
      <4>2. HistoryLines(Append(Append(history, text), status), history_width) = lines + n + m
        BY <2>0, <2>a, LinesOfPushed
      <4>3. history' = Append(Append(history, text), status)
        BY <2>5 DEF PushedBoth
      <4> QED BY <4>1, <4>2, <4>3
    <3>2. between = history_width
      <4>1. history' = Append(Append(history, text), status)
            /\ Append(history, text) \in Seq(Nat)
        BY <2>0, <2>a, <2>5, LinesOfPushed DEF PushedBoth
      <4>2. Len(history') = Len(history) + 2
        BY <2>a, <4>1
      <4>3. history_height' = history_height
        BY <2>a, <4>2
      <4>4. WidthWith(history) = history_width
        BY <2>0 DEF WidthWith, BoxInv
      <4>5. WidthWith(history') = history_width
        BY <2>0, <2>5, <4>3 DEF WidthWith, BoxInv
      <4>6. between <= WidthWith(history) /\ WidthWith(history') <= between
        BY <2>0, <2>a, <4>1, WidthWithNarrow
      <4>7. between \in Nat
        BY <2>0, <4>1, WidthWithType
      <4> HIDE DEF between
      <4> QED BY <2>a, <4>4, <4>5, <4>6, <4>7
    <3>3. history_line' = IF history_line = 0 THEN 0 ELSE history_line + n + m
      <4>1. history_line' = IF history_line = 0 THEN 0
                            ELSE ScrolledBy(text) + MessageLines(status, between)
        BY <2>5, Zenon DEF PushedBoth
      <4>2. ScrolledBy(text) = IF history_line = 0 THEN 0 ELSE history_line + n
        BY DEF ScrolledBy
      <4> QED BY <3>2, <4>1, <4>2, Zenon
    <3> HIDE DEF lines, n, m
    <3> QED BY <2>a, <2>2, <2>3, <3>1, <3>3
  <2> QED BY <2>1, <2>4, <2>5 DEF Course, Kept
<1>2. UiInv /\ UiInv' /\ [Next]_vars => [Put]_vars
  BY <1>1
<1>3. Spec => [][Put]_vars
  <2> HIDE DEF Put
  <2> QED BY <1>2, UiInvariant, PTL DEF Spec
<1> QED BY <1>3 DEF ViewStaysPut

----------------------------------------------------------------------------
(* The rows of the box. *)

\* A row counted from the bottom, as draw_history counts, is the row counted from
\* the top.
LEMMA RowOfLine ==
    ASSUME HistoryInv, BoxInv, NEW i \in DOMAIN history, NEW l \in Nat
    PROVE  /\ FirstRow(i) \in Int /\ LinesAhead(<<i, l>>) \in Nat /\ Above \in Int
           /\ FirstRow(i) + l = LinesAhead(<<i, l>>) - (Above - history_height)
<1> DEFINE n == Len(history)
           L(S) == Cardinality(LinesOf(history, S, history_width))
<1>1. history \in Seq(Nat) /\ history_width \in Nat \ {0}
  BY DEF HistoryInv, BoxInv
<1>2. history_line \in Nat /\ history_height \in Int
  BY DEF HistoryInv, BoxInv
<1>3. n \in Nat /\ DOMAIN history = 1 .. n /\ i \in 1 .. n
  BY <1>1
<1>4. Lengths(history, 1 .. i - 1) /\ Lengths(history, i .. n)
  BY <1>1, <1>3, AllLengths
<1>5. L(1 .. i - 1) \in Nat /\ L(i .. n) \in Nat
  BY <1>1, <1>4, LinesFinite
<1>6. L(1 .. n) = L(1 .. i - 1) + L(i .. n)
  <2> DEFINE S == 1 .. i - 1
             T == i .. n
  <2>1. S \cap T = {} /\ S \cup T = 1 .. n
    BY <1>3
  <2>2. Lengths(history, S) /\ Lengths(history, T)
    BY <1>4
  <2> HIDE DEF S, T
  <2>3. L(S \cup T) = L(S) + L(T)
    BY <1>1, <2>1, <2>2, LinesSplit
  <2>4. L(1 .. n) = L(S) + L(T)
    BY <2>1, <2>3
  <2> QED BY <2>4 DEF S, T
<1>7. HistoryLines(history, history_width) = L(1 .. n)
  BY <1>3 DEF HistoryLines
<1>8. FirstRow(i) = history_height + history_line - L(i .. n)
  BY DEF FirstRow
<1>9. LinesAhead(<<i, l>>) = L(1 .. i - 1) + l
  BY DEF LinesAhead
<1>10. Above = L(1 .. n) - history_line
  BY <1>7 DEF Above
<1> DEFINE a == L(1 .. i - 1)
           b == L(i .. n)
<1>11. Above = (a + b) - history_line
  BY <1>6, <1>10
<1>12. FirstRow(i) = history_height + history_line - b
  BY <1>8
<1>13. LinesAhead(<<i, l>>) = a + l
  BY <1>9
<1>14. a \in Nat /\ b \in Nat
  BY <1>5
<1> HIDE DEF a, b
<1> QED BY <1>2, <1>11, <1>12, <1>13, <1>14

\* The rows of a message that is drawn later meet a line of one below it only if
\* that line is the header of the very next message, and the text has no line.
LEMMA RowsMeet ==
    ASSUME HistoryInv, BoxInv, NEW i \in DOMAIN history, NEW j \in DOMAIN history, i < j,
           NEW l \in Nat
    PROVE  FirstRow(j) + l \in DrawnRows(i)
             <=> j = i + 1 /\ l = 0 /\ StringLines(history[i], history_width) = 0
<1> DEFINE n == Len(history)
           w == history_width
           L(S) == Cardinality(LinesOf(history, S, w))
           text == StringLines(history[i], w)
<1>1. history \in Seq(Nat) /\ w \in Nat \ {0}
  BY DEF HistoryInv, BoxInv
<1>2. n \in Nat /\ DOMAIN history = 1 .. n /\ i \in 1 .. n /\ j \in 1 .. n
  BY <1>1
<1>3. /\ Lengths(history, {i}) /\ Lengths(history, i + 1 .. j - 1)
      /\ Lengths(history, i .. j - 1) /\ Lengths(history, 1 .. i - 1)
      /\ Lengths(history, 1 .. j - 1)
  BY <1>1, <1>2, AllLengths
<1>4. L({i}) = 1 + text /\ text \in Nat
  <2>1. history[i] \in Nat
    BY <1>1
  <2> QED BY <1>1, <2>1, LinesOfOne, MessageLinesType DEF MessageLines
<1>5. L(i + 1 .. j - 1) \in Nat /\ L(1 .. i - 1) \in Nat
  BY <1>1, <1>3, LinesFinite
<1>6. L(1 .. j - 1) = L(1 .. i - 1) + (1 + text) + L(i + 1 .. j - 1)
  <2> DEFINE R == 1 .. i - 1
             S == {i}
             T == i + 1 .. j - 1
  <2>1. R \cap (S \cup T) = {} /\ S \cap T = {} /\ R \cup (S \cup T) = 1 .. j - 1
    BY <1>2
  <2>2. S \cup T = i .. j - 1
    BY <1>2
  <2>3. Lengths(history, R) /\ Lengths(history, S) /\ Lengths(history, T)
        /\ Lengths(history, S \cup T)
    BY <1>3, <2>2
  <2> HIDE DEF R, S, T
  <2>4. L(S \cup T) = L(S) + L(T)
    BY <1>1, <2>1, <2>3, LinesSplit
  <2>5. L(R \cup (S \cup T)) = L(R) + L(S \cup T)
    BY <1>1, <2>1, <2>3, LinesSplit
  <2>6. L(1 .. j - 1) = L(R) + (L(S) + L(T))
    BY <2>1, <2>4, <2>5
  <2> QED BY <1>4, <1>5, <2>6 DEF R, S, T
<1>7. j = i + 1 => L(i + 1 .. j - 1) = 0
  <2> SUFFICES ASSUME j = i + 1 PROVE L(i + 1 .. j - 1) = 0
    OBVIOUS
  <2>1. i + 1 .. j - 1 = {}
    BY <1>2
  <2>2. LinesOf(history, i + 1 .. j - 1, w) = {}
    BY <2>1 DEF LinesOf
  <2> QED BY <2>2, FS_EmptySet
<1>8. j # i + 1 => L(i + 1 .. j - 1) > 0
  <2> SUFFICES ASSUME j # i + 1 PROVE L(i + 1 .. j - 1) > 0
    OBVIOUS
  <2>1. i + 1 \in i + 1 .. j - 1 /\ i + 1 \in DOMAIN history
    BY <1>2
  <2>2. MessageLines(history[i + 1], w) \in Nat \ {0}
    <3>1. history[i + 1] \in Nat
      BY <1>1, <2>1
    <3> QED BY <1>1, <3>1, MessageLinesType
  <2>3. <<i + 1, 0>> \in LinesOf(history, i + 1 .. j - 1, w)
    BY <2>1, <2>2 DEF LinesOf
  <2>4. IsFiniteSet(LinesOf(history, i + 1 .. j - 1, w))
    BY <1>1, <1>3, LinesFinite
  <2> QED BY <1>5, <2>3, <2>4, FS_EmptySet
<1>9. /\ FirstRow(i) \in Int /\ FirstRow(j) \in Int
      /\ FirstRow(j) = FirstRow(i) + (1 + text) + L(i + 1 .. j - 1)
  <2>1. /\ FirstRow(i) \in Int /\ Above \in Int
        /\ FirstRow(i) + 0 = LinesAhead(<<i, 0>>) - (Above - history_height)
    BY RowOfLine
  <2>2. /\ FirstRow(j) \in Int
        /\ FirstRow(j) + 0 = LinesAhead(<<j, 0>>) - (Above - history_height)
    BY RowOfLine
  <2>3. LinesAhead(<<i, 0>>) = L(1 .. i - 1) + 0 /\ LinesAhead(<<j, 0>>) = L(1 .. j - 1) + 0
    BY DEF LinesAhead
  <2>4. history_height \in Int
    BY DEF BoxInv
  <2> DEFINE a == L(1 .. i - 1)
             b == L(i + 1 .. j - 1)
             c == L(1 .. j - 1)
  <2>5. LinesAhead(<<i, 0>>) = a + 0 /\ LinesAhead(<<j, 0>>) = c + 0
        /\ c = a + (1 + text) + b /\ a \in Nat /\ b \in Nat /\ text \in Nat
    BY <1>4, <1>5, <1>6, <2>3
  <2> HIDE DEF a, b, c, text
  <2>6. FirstRow(j) = FirstRow(i) + (1 + text) + b
    BY <2>1, <2>2, <2>4, <2>5
  <2> QED BY <2>1, <2>2, <2>6 DEF b
<1>10. /\ Max({1, text}) \in {1, text}
       /\ Max({1, text}) >= 1 /\ Max({1, text}) >= text
  <2>0. {1, text} \subseteq 0 .. text + 1 /\ text + 1 \in Nat
    BY <1>4
  <2>1. {1, text} # {}
    OBVIOUS
  <2>2. Max({1, text}) \in {1, text} /\ \A y \in {1, text} : y <= Max({1, text})
    BY <2>0, <2>1, MaxIs
  <2> QED BY <1>4, <2>2
<1> DEFINE m == Max({1, text})
           b == L(i + 1 .. j - 1)
<1>11. DrawnRows(i) = FirstRow(i) .. FirstRow(i) + m
  BY DEF DrawnRows
<1>12. /\ m \in {1, text} /\ m >= 1 /\ m >= text /\ text \in Nat /\ b \in Nat
       /\ j = i + 1 <=> b = 0
       /\ FirstRow(i) \in Int /\ FirstRow(j) \in Int
       /\ FirstRow(j) = FirstRow(i) + (1 + text) + b
  BY <1>4, <1>5, <1>7, <1>8, <1>9, <1>10
<1> HIDE DEF m, b, text
<1>13. FirstRow(j) + l \in DrawnRows(i) <=> b = 0 /\ l = 0 /\ text = 0
  BY <1>11, <1>12
<1> QED BY <1>12, <1>13 DEF text

\* The header below a text without a line stands in the next row.
LEMMA NextRow ==
    ASSUME HistoryInv, BoxInv, NEW i \in DOMAIN history, NEW j \in DOMAIN history,
           j = i + 1, StringLines(history[i], history_width) = 0
    PROVE  FirstRow(j) = FirstRow(i) + 1 /\ FirstRow(i) \in Int
<1> DEFINE n == Len(history)
           w == history_width
           L(S) == Cardinality(LinesOf(history, S, w))
<1>1. history \in Seq(Nat) /\ w \in Nat \ {0} /\ history_height \in Int /\ history_line \in Nat
  BY DEF HistoryInv, BoxInv
<1>2. n \in Nat /\ DOMAIN history = 1 .. n /\ i \in 1 .. n /\ j \in 1 .. n
  BY <1>1
<1>3. Lengths(history, {i}) /\ Lengths(history, j .. n)
  BY <1>1, <1>2, AllLengths
<1>4. L({i}) = 1
  <2>1. history[i] \in Nat
    BY <1>1
  <2> QED BY <1>1, <2>1, LinesOfOne DEF MessageLines
<1>5. L(i .. n) = 1 + L(j .. n) /\ L(j .. n) \in Nat
  <2> DEFINE S == {i}
             T == j .. n
  <2>1. S \cap T = {} /\ S \cup T = i .. n
    BY <1>2
  <2>2. Lengths(history, S) /\ Lengths(history, T)
    BY <1>3
  <2> HIDE DEF S, T
  <2>3. L(S \cup T) = L(S) + L(T) /\ L(T) \in Nat
    BY <1>1, <2>1, <2>2, LinesSplit, LinesFinite
  <2>4. L(i .. n) = L(S) + L(T) /\ L(T) \in Nat
    BY <2>1, <2>3
  <2> QED BY <1>4, <2>4 DEF S, T
<1>6. /\ FirstRow(i) = history_height + history_line - L(i .. n)
      /\ FirstRow(j) = history_height + history_line - L(j .. n)
  BY DEF FirstRow
<1> DEFINE b == L(j .. n)
<1>7. /\ FirstRow(i) = history_height + history_line - (1 + b)
      /\ FirstRow(j) = history_height + history_line - b
      /\ b \in Nat
  BY <1>5, <1>6
<1> HIDE DEF b
<1> QED BY <1>1, <1>7

\* What is drawn in the box is what stands there if the history is one column of
\* lines and history_line of them are below the box (ui.c:299-328): the loop, which
\* begins with the last message and at the bottom, draws every line that is in the
\* box and each in its row, whatever the widths, the lengths and the position.  It
\* draws over one: a header below a text that cannot be read (ui.c:278).
THEOREM RowsAlwaysShowHistory == Spec => []RowsShowHistory
<1>1. ASSUME UiInv PROVE RowsShowHistory
  <2>0. HistoryInv /\ BoxInv
    BY <1>1 DEF UiInv
  <2>a. history \in Seq(Nat) /\ history_width \in Nat \ {0} /\ history_height \in Int
    BY <2>0 DEF HistoryInv, BoxInv
  <2> DEFINE rows == 0 .. history_height - 1
             top == Above - history_height
             shown == {cell \in Cells : cell.row \in rows}
             cellOf(b) == [row |-> LinesAhead(b) - top, message |-> b[1], line |-> b[2]]
             due == {b \in Column : LinesAhead(b) - top \in rows /\ ~Blanked(b)}
             cell(i, l) == [row |-> FirstRow(i) + l, message |-> i, line |-> l]
  <2>1. ASSUME NEW i \in DOMAIN history, NEW l \in 0 .. MessageLines(history[i], history_width) - 1
        PROVE  cellOf(<<i, l>>) = cell(i, l) /\ LinesAhead(<<i, l>>) - top = FirstRow(i) + l
    <3>1. l \in Nat
      OBVIOUS
    <3>2. LinesAhead(<<i, l>>) - top = FirstRow(i) + l
      BY <2>0, <3>1, RowOfLine
    <3> QED BY <3>2
  <2>2. ASSUME NEW c \in shown PROVE \E b \in due : c = cellOf(b)
    <3>1. PICK i \in Drawn : \E l \in 0 .. MessageLines(history[i], history_width) - 1 : c = cell(i, l)
      BY DEF Cells, Written
    <3>2. PICK l \in 0 .. MessageLines(history[i], history_width) - 1 : c = cell(i, l)
      BY <3>1
    <3>3. i \in DOMAIN history
      BY DEF Drawn
    <3>4. <<i, l>> \in Column
      BY <3>3 DEF Column, LinesOf
    <3>5. c = cellOf(<<i, l>>) /\ LinesAhead(<<i, l>>) - top = FirstRow(i) + l
      BY <2>1, <3>2, <3>3
    <3>6. FirstRow(i) + l \in rows
      <4>1. c.row \in rows
        OBVIOUS
      <4> QED BY <3>2, <4>1
    <3>9. ASSUME Blanked(<<i, l>>) PROVE FALSE
      <4> DEFINE k == i - 1
      <4>1. /\ k \in DOMAIN history /\ k < i /\ i = k + 1 /\ l = 0
            /\ StringLines(history[k], history_width) = 0
        BY <2>a, <3>3, <3>9 DEF Blanked
      <4> HIDE DEF k
      <4>2. FirstRow(i) + l \in DrawnRows(k)
        BY <2>0, <3>3, <4>1, RowsMeet
      <4>3. k \in Drawn
        <5>1. FirstRow(i) = FirstRow(k) + 1 /\ FirstRow(k) \in Int
          BY <2>0, <3>3, <4>1, NextRow
        <5>2. MessageLines(history[k], history_width) = 1
          BY <4>1 DEF MessageLines
        <5> QED BY <2>a, <3>6, <4>1, <5>1, <5>2 DEF Drawn
      <4>4. c.row \notin DrawnRows(k)
        <5>1. c.message = i
          BY <3>2
        <5> QED BY <4>1, <4>3, <5>1 DEF Cells
      <4> QED BY <3>2, <4>2, <4>4
    <3>7. <<i, l>> \in due
      BY <3>4, <3>5, <3>6, <3>9
    <3> QED BY <3>5, <3>7
  <2>3. ASSUME NEW b \in due PROVE cellOf(b) \in shown
    <3>1. PICK i \in DOMAIN history : b \in {i} \X (0 .. MessageLines(history[i], history_width) - 1)
      BY DEF Column, LinesOf
    <3>2. PICK l \in 0 .. MessageLines(history[i], history_width) - 1 : b = <<i, l>>
      BY <3>1
    <3>3. cellOf(b) = cell(i, l) /\ FirstRow(i) + l \in rows
      BY <2>1, <3>2
    <3>4. MessageLines(history[i], history_width) \in Nat
      <4>1. history[i] \in Nat
        BY <2>a
      <4> QED BY <2>a, <4>1, MessageLinesType
    <3>5. FirstRow(i) \in Int
      BY <2>0, RowOfLine
    <3>6. FirstRow(i) <= history_height /\ FirstRow(i) + MessageLines(history[i], history_width) >= 0
      BY <2>a, <3>3, <3>4, <3>5
    <3>7. i \in Drawn
      BY <3>6 DEF Drawn
    <3>8. cell(i, l) \in Cells
      <4>1. cell(i, l) \in Written
        BY <3>7 DEF Written
      <4>2. ASSUME NEW k \in Drawn, k < i PROVE FirstRow(i) + l \notin DrawnRows(k)
        <5> SUFFICES ASSUME i = k + 1, l = 0, StringLines(history[k], history_width) = 0
                     PROVE  FALSE
          BY <2>0, <3>4, <4>2, RowsMeet DEF Drawn
        <5>1. k \in 1 .. Len(history) /\ b[1] = i /\ b[2] = l /\ b[1] - 1 = k /\ b[1] > 1
          BY <2>a, <3>2 DEF Drawn
        <5> QED BY <5>1 DEF Blanked
      <4> QED BY <4>1, <4>2 DEF Cells
    <3> QED BY <3>3, <3>8
  <2>4. shown = {cellOf(b) : b \in due}
    BY <2>2, <2>3
  <2> QED BY <2>4, Zenon DEF RowsShowHistory
<1> QED BY <1>1, UiInvariant, PTL

----------------------------------------------------------------------------
(* Places in a finite set of numbers. *)

\* How many members are before one.
Rank(S, p) == Cardinality({q \in S : q < p})
\* How many are from one on and before another.
From(S, b, p) == Cardinality({q \in S : b <= q /\ q < p})

LEMMA RankType ==
    ASSUME NEW n \in Nat, NEW S, S \subseteq 0 .. n, NEW T, T \subseteq S
    PROVE  IsFiniteSet(T) /\ Cardinality(T) \in Nat /\ Cardinality(T) <= Cardinality(S)
           /\ IsFiniteSet(S) /\ Cardinality(S) \in Nat
           /\ (Cardinality(T) = Cardinality(S) => T = S)
<1>1. IsFiniteSet(0 .. n)
  BY FS_Interval
<1>2. IsFiniteSet(S)
  BY <1>1, FS_Subset
<1>3. T \in SUBSET S
  OBVIOUS
<1>4. IsFiniteSet(T) /\ Cardinality(T) <= Cardinality(S) /\ (Cardinality(S) = Cardinality(T) => S = T)
  BY <1>2, <1>3, FS_Subset
<1>5. Cardinality(T) \in Nat /\ Cardinality(S) \in Nat
  BY <1>2, <1>4, FS_CardinalityType
<1> QED BY <1>2, <1>4, <1>5

LEMMA RankNat ==
    ASSUME NEW n \in Nat, NEW S, S \subseteq 0 .. n, NEW p
    PROVE  Rank(S, p) \in Nat
<1>1. {q \in S : q < p} \subseteq S
  OBVIOUS
<1> QED BY <1>1, RankType DEF Rank

LEMMA RankNext ==
    ASSUME NEW n \in Nat, NEW S, S \subseteq 0 .. n, NEW p \in S, NEW r \in S, p < r,
           \A q \in S : q <= p \/ q >= r
    PROVE  Rank(S, r) = Rank(S, p) + 1
<1> DEFINE A == {q \in S : q < p}
           B == {q \in S : q < r}
<1>1. A \subseteq S /\ p \notin A /\ B = A \cup {p}
  <2>1. \A q \in S : q \in Nat
    OBVIOUS
  <2>2. p \notin A
    BY <2>1
  <2>3. ASSUME NEW q \in S PROVE q < r <=> q < p \/ q = p
    BY <2>1, <2>3
  <2> QED BY <2>2, <2>3
<1> HIDE DEF A, B
<1>2. IsFiniteSet(A) /\ Cardinality(A) \in Nat
  BY <1>1, RankType
<1>3. Cardinality(B) = Cardinality(A) + 1
  BY <1>1, <1>2, FS_AddElement
<1> QED BY <1>3 DEF A, B, Rank

LEMMA RankGrows ==
    ASSUME NEW n \in Nat, NEW S, S \subseteq 0 .. n, NEW p \in S, NEW r \in Nat, p < r
    PROVE  Rank(S, p) \in Nat /\ Rank(S, r) \in Nat /\ Rank(S, p) < Rank(S, r)
<1> DEFINE A == {q \in S : q < p}
           B == {q \in S : q < r}
<1>1. A \subseteq S /\ p \notin A /\ A \cup {p} \subseteq B /\ B \subseteq S
  <2>1. \A q \in S : q \in Nat
    OBVIOUS
  <2>2. p \notin A
    BY <2>1
  <2>3. ASSUME NEW q \in S, q < p PROVE q < r
    BY <2>1, <2>3
  <2> QED BY <2>2, <2>3
<1> HIDE DEF A, B
<1>2. IsFiniteSet(A) /\ Cardinality(A) \in Nat /\ IsFiniteSet(B) /\ Cardinality(B) \in Nat
  BY <1>1, RankType
<1>3. Cardinality(A \cup {p}) = Cardinality(A) + 1
  BY <1>1, <1>2, FS_AddElement
<1>4. Cardinality(A \cup {p}) <= Cardinality(B)
  BY <1>1, <1>2, FS_Subset
<1>5. Cardinality(A) < Cardinality(B)
  BY <1>2, <1>3, <1>4
<1> QED BY <1>2, <1>5 DEF A, B, Rank

LEMMA RankLast ==
    ASSUME NEW n \in Nat, NEW S, S \subseteq 0 .. n, NEW p \in S
    PROVE  /\ Rank(S, p) \in 0 .. Cardinality(S) - 1
           /\ Rank(S, p) = Cardinality(S) - 1 <=> p = Max(S)
<1> DEFINE A == {q \in S : q < p}
<1>a. \A q \in S : q \in Nat
  OBVIOUS
<1>1. A \subseteq S \ {p} /\ S \ {p} \subseteq S /\ A \subseteq S
  BY <1>a
<1>2. IsFiniteSet(S) /\ Cardinality(S) \in Nat
  BY RankType
<1>3. IsFiniteSet(S \ {p}) /\ Cardinality(S \ {p}) = Cardinality(S) - 1
  BY <1>2, FS_RemoveElement
<1>4. IsFiniteSet(A) /\ Cardinality(A) \in Nat
  <2> HIDE DEF A
  <2> QED BY <1>1, RankType
<1>5. Cardinality(A) <= Cardinality(S \ {p})
      /\ (Cardinality(S \ {p}) = Cardinality(A) => S \ {p} = A)
  <2> HIDE DEF A
  <2> QED BY <1>1, <1>3, FS_Subset
<1>6. Max(S) \in S /\ \A y \in S : y <= Max(S)
  BY MaxIs
<1>7. ASSUME S \ {p} = A PROVE p = Max(S)
  <2> DEFINE m == Max(S)
  <2>1. m = p \/ m < p
    BY <1>6, <1>7
  <2>2. m \in Nat /\ p \in Nat /\ p <= m
    BY <1>6, <1>a
  <2> HIDE DEF m
  <2>3. m = p
    BY <2>1, <2>2
  <2> QED BY <2>3 DEF m
<1>8. ASSUME p = Max(S) PROVE S \ {p} = A
  <2>1. ASSUME NEW q \in S, q # p PROVE q < p
    BY <1>6, <1>8, <1>a, <2>1
  <2> QED BY <1>1, <2>1
<1>9. Rank(S, p) = Cardinality(A)
  BY DEF Rank
<1>10. S \ {p} = A <=> p = Max(S)
  BY <1>7, <1>8
<1>11. Cardinality(A) \in 0 .. Cardinality(S) - 1
  BY <1>2, <1>3, <1>4, <1>5
<1>12. Cardinality(A) = Cardinality(S) - 1 <=> S \ {p} = A
  BY <1>3, <1>5
<1> HIDE DEF A
<1> QED BY <1>9, <1>10, <1>11, <1>12

LEMMA RankOnto ==
    ASSUME NEW n \in Nat, NEW S, S \subseteq 0 .. n, NEW k \in 0 .. Cardinality(S) - 1
    PROVE  \E p \in S : Rank(S, p) = k
<1> DEFINE T == 0 .. Cardinality(S) - 1
           f == [p \in S |-> Rank(S, p)]
<1>1. IsFiniteSet(S) /\ Cardinality(S) \in Nat
  BY RankType
<1>2. IsFiniteSet(T) /\ Cardinality(T) = Cardinality(S)
  BY <1>1, FS_Interval
<1>3. f \in [S -> T]
  BY RankLast
<1>4. ASSUME NEW p \in S, NEW r \in S, f[p] = f[r] PROVE p = r
  <2>1. p \in Nat /\ r \in Nat
    OBVIOUS
  <2>2. p < r => Rank(S, p) \in Nat /\ Rank(S, r) \in Nat /\ Rank(S, p) < Rank(S, r)
    BY <2>1, RankGrows
  <2>3. r < p => Rank(S, p) \in Nat /\ Rank(S, r) \in Nat /\ Rank(S, r) < Rank(S, p)
    BY <2>1, RankGrows
  <2>4. Rank(S, p) = Rank(S, r)
    BY <1>4
  <2> QED BY <2>1, <2>2, <2>3, <2>4
<1>5. f \in Injection(S, T)
  <2> HIDE DEF f, T
  <2>1. DOMAIN f = S
    BY <1>3
  <2> QED BY <1>3, <1>4, <2>1 DEF Injection, IsInjective
<1>6. f \in Surjection(S, T)
  <2> HIDE DEF f, T
  <2> QED BY <1>1, <1>2, <1>5, FS_Injection
<1>7. \E p \in S : f[p] = k
  <2>1. k \in T
    OBVIOUS
  <2> HIDE DEF f, T
  <2> QED BY <1>6, <2>1 DEF Surjection
<1> QED BY <1>7

\* The members between two are counted from the first on.
LEMMA RankBetween ==
    ASSUME NEW n \in Nat, NEW S, S \subseteq 0 .. n, NEW b \in Nat, NEW p \in Nat, b <= p
    PROVE  /\ Rank(S, b) \in Nat /\ From(S, b, p) \in Nat
           /\ Rank(S, p) = Rank(S, b) + From(S, b, p)
<1> DEFINE A == {q \in S : q < b}
           B == {q \in S : b <= q /\ q < p}
           C == {q \in S : q < p}
<1>a. \A q \in S : q \in Nat
  OBVIOUS
<1>1. A \subseteq S /\ B \subseteq S
  OBVIOUS
<1>2. A \cap B = {}
  <2>1. ASSUME NEW q \in S, q < b, b <= q PROVE FALSE
    <3>1. q \in Nat
      OBVIOUS
    <3> QED BY <2>1, <3>1
  <2> QED BY <2>1
<1>3. C = A \cup B
  <2>1. ASSUME NEW q \in S PROVE q < p <=> (q < b \/ (b <= q /\ q < p))
    BY <1>a, <2>1
  <2> QED BY <2>1
<1> HIDE DEF A, B, C
<1>4. IsFiniteSet(A) /\ Cardinality(A) \in Nat /\ IsFiniteSet(B) /\ Cardinality(B) \in Nat
  BY <1>1, RankType
<1>5. Cardinality(A \cup B) = Cardinality(A) + Cardinality(B) - Cardinality(A \cap B)
  BY <1>4, FS_Union
<1>6. Cardinality(A \cap B) = 0
  BY <1>2, FS_EmptySet
<1>7. Cardinality(C) = Cardinality(A) + Cardinality(B)
  BY <1>3, <1>4, <1>5, <1>6
<1> QED BY <1>4, <1>7 DEF A, B, C, Rank, From

----------------------------------------------------------------------------
(* What the loops over mblen() come to. *)

LEMMA MblenIs ==
    ASSUME NEW text \in Seq(Bytes), NEW s \in 0 .. Len(text) - 1
    PROVE  /\ Mblen(text, s) \in Nat /\ s + Mblen(text, s) \in s .. Len(text)
           /\ Mblen(text, s) > 0 =>
                 /\ text[s + 1][1] \in Chars /\ text[s + 1] = <<text[s + 1][1], 1>>
                 /\ Mblen(text, s) = Width[text[s + 1][1]]
                 /\ \A i \in 2 .. Mblen(text, s) : text[s + i][2] > 1
<1> DEFINE b == text[s + 1]
<1>1. b \in Bytes /\ Len(text) \in Nat
  OBVIOUS
<1>2. b[2] = 1 => b[1] \in Chars /\ Width[b[1]] \in Nat \ {0} /\ b = <<b[1], b[2]>>
  BY <1>1, ByteIs DEF Bad
<1>3. Mblen(text, s) = IF /\ b[2] = 1
                          /\ s + Width[b[1]] <= Len(text)
                          /\ \A i \in 2 .. Width[b[1]] : text[s + i][2] > 1
                       THEN Width[b[1]] ELSE 0
  BY DEF Mblen
<1> HIDE DEF b
<1>4. CASE /\ b[2] = 1
           /\ s + Width[b[1]] <= Len(text)
           /\ \A i \in 2 .. Width[b[1]] : text[s + i][2] > 1
  <2>1. Mblen(text, s) = Width[b[1]]
    BY <1>3, <1>4
  <2> QED BY <1>1, <1>2, <1>4, <2>1 DEF b
<1>5. CASE ~(/\ b[2] = 1
             /\ s + Width[b[1]] <= Len(text)
             /\ \A i \in 2 .. Width[b[1]] : text[s + i][2] > 1)
  <2>1. Mblen(text, s) = 0
    BY <1>3, <1>5
  <2> QED BY <1>1, <2>1
<1> QED BY <1>4, <1>5

\* No character begins inside another.
LEMMA NoOverlap ==
    ASSUME NEW text \in Seq(Bytes), NEW s \in Nat, NEW t \in 0 .. Len(text) - 1,
           s < t, t < s + Mblen(text, s)
    PROVE  Mblen(text, t) = 0
<1>1. s \in 0 .. Len(text) - 1
  OBVIOUS
<1>2. Mblen(text, s) \in Nat
  BY <1>1, MblenIs
<1>3. Mblen(text, s) > 0 /\ (t + 1) - s \in 2 .. Mblen(text, s) /\ s + ((t + 1) - s) = t + 1
  BY <1>1, <1>2
<1>4. text[s + ((t + 1) - s)][2] > 1
  BY <1>1, <1>3, MblenIs
<1>5. text[t + 1][2] > 1
  BY <1>3, <1>4
<1>6. text[t + 1][2] # 1
  BY <1>5
<1>7. Mblen(text, t) \in Nat /\ (Mblen(text, t) > 0 => text[t + 1] = <<text[t + 1][1], 1>>)
  BY MblenIs
<1>8. Mblen(text, t) > 0 => text[t + 1][2] = 1
  <2> HAVE Mblen(text, t) > 0
  <2>1. text[t + 1] = <<text[t + 1][1], 1>>
    BY <1>7
  <2>2. <<text[t + 1][1], 1>>[2] = 1
    OBVIOUS
  <2> QED BY <2>1, <2>2, Zenon
<1> QED BY <1>6, <1>7, <1>8

LEMMA StartIs ==
    ASSUME NEW text \in Seq(Bytes), NEW p \in Starts(text), NEW at \in 0 .. p - 1
    PROVE  /\ p \in 0 .. Len(text) /\ Len(text) \in Nat
           /\ \E s \in 0 .. at : s + Mblen(text, s) \in at + 1 .. p
BY DEF Starts

\* An offset the loops come to is not inside a character.
LEMMA NotInside ==
    ASSUME NEW text \in Seq(Bytes), NEW p \in Starts(text), NEW s \in 0 .. p - 1
    PROVE  s + Mblen(text, s) <= p /\ Mblen(text, s) \in Nat
<1>1. p \in 0 .. Len(text) /\ Len(text) \in Nat
      /\ \E t \in 0 .. s : t + Mblen(text, t) \in s + 1 .. p
  BY StartIs
<1>2. PICK t \in 0 .. s : t + Mblen(text, t) \in s + 1 .. p
  BY <1>1
<1>3. Mblen(text, s) \in Nat
  <2>1. s \in 0 .. Len(text) - 1
    BY <1>1
  <2> QED BY <2>1, MblenIs
<1>4. CASE t = s
  BY <1>2, <1>3, <1>4
<1>5. CASE t # s
  <2>1. t \in Nat /\ s \in 0 .. Len(text) - 1 /\ t < s /\ s < t + Mblen(text, t)
    BY <1>1, <1>2, <1>5
  <2>2. Mblen(text, s) = 0
    BY <2>1, NoOverlap
  <2> QED BY <1>1, <1>3, <2>2
<1> QED BY <1>4, <1>5

LEMMA NextStart ==
    ASSUME NEW text \in Seq(Bytes), NEW p \in Starts(text), p < Len(text)
    PROVE  p + Mblen(text, p) \in Starts(text) /\ Mblen(text, p) \in Nat
<1>1. p \in 0 .. Len(text) - 1 /\ Len(text) \in Nat
  BY DEF Starts
<1>2. Mblen(text, p) \in Nat /\ p + Mblen(text, p) \in p .. Len(text)
  BY <1>1, MblenIs
<1> DEFINE r == p + Mblen(text, p)
<1>3. ASSUME NEW at \in 0 .. r - 1 PROVE \E s \in 0 .. at : s + Mblen(text, s) \in at + 1 .. r
  <2>1. CASE at < p
    <3>1. at \in 0 .. p - 1
      BY <1>1, <1>2, <2>1
    <3>2. PICK s \in 0 .. at : s + Mblen(text, s) \in at + 1 .. p
      BY <3>1, StartIs
    <3>3. s + Mblen(text, s) \in at + 1 .. r
      BY <1>1, <1>2, <3>2
    <3> QED BY <3>3
  <2>2. CASE at >= p
    <3>1. p \in 0 .. at /\ r \in at + 1 .. r
      BY <1>1, <1>2, <2>2
    <3> QED BY <3>1
  <2> QED BY <1>1, <1>2, <2>1, <2>2
<1>4. r \in 0 .. Len(text)
  BY <1>1, <1>2
<1>5. r \in Starts(text)
  <2> HIDE DEF r
  <2> QED BY <1>3, <1>4 DEF Starts
<1> QED BY <1>2, <1>5

\* Before an offset the loops come to there is a whole character, which they read.
LEMMA LastStart ==
    ASSUME NEW text \in Seq(Bytes), NEW p \in Starts(text), p > 0
    PROVE  \E q \in Starts(text) : q < p /\ q + Mblen(text, q) = p
<1>0. p \in 0 .. Len(text) /\ Len(text) \in Nat /\ p - 1 \in 0 .. p - 1
  BY DEF Starts
<1>1. PICK q \in 0 .. p - 1 : q + Mblen(text, q) \in (p - 1) + 1 .. p
  BY <1>0, StartIs
<1>2. q + Mblen(text, q) = p /\ q \in 0 .. Len(text) - 1 /\ q < p
  BY <1>0, <1>1
<1>3. Mblen(text, q) \in Nat /\ Mblen(text, q) > 0
  <2>1. Mblen(text, q) \in Nat
    BY <1>2, MblenIs
  <2> QED BY <1>0, <1>2, <2>1
<1>4. ASSUME NEW at \in 0 .. q - 1
      PROVE  \E s \in 0 .. at : s + Mblen(text, s) \in at + 1 .. q
  <2>1. at \in 0 .. p - 1
    BY <1>0, <1>2
  <2>2. PICK s \in 0 .. at : s + Mblen(text, s) \in at + 1 .. p
    BY <2>1, StartIs
  <2>3. s + Mblen(text, s) <= q
    <3> SUFFICES ASSUME s + Mblen(text, s) > q PROVE FALSE
      <4>1. Mblen(text, s) \in Nat
        <5>1. s \in 0 .. Len(text) - 1
          BY <1>0, <1>2
        <5> QED BY <5>1, MblenIs
      <4> QED BY <4>1
    <3>1. s \in Nat /\ s < q /\ q < s + Mblen(text, s)
      BY <1>0, <1>2
    <3>2. Mblen(text, q) = 0
      BY <1>2, <3>1, NoOverlap
    <3> QED BY <1>3, <3>2
  <2>4. s + Mblen(text, s) \in at + 1 .. q
    BY <1>0, <2>2, <2>3
  <2> QED BY <2>4
<1>5. q \in Starts(text)
  BY <1>0, <1>2, <1>4 DEF Starts
<1> QED BY <1>2, <1>5

\* What begins no character ends the loops.
LEMMA NothingBehind ==
    ASSUME NEW text \in Seq(Bytes), NEW p \in Starts(text), p < Len(text), Mblen(text, p) = 0,
           NEW q \in Starts(text)
    PROVE  q <= p
<1>0. p \in 0 .. Len(text) /\ q \in 0 .. Len(text) /\ Len(text) \in Nat
  BY DEF Starts
<1> SUFFICES ASSUME q > p PROVE FALSE
  BY <1>0
<1>1. p \in 0 .. q - 1
  BY <1>0
<1>2. PICK s \in 0 .. p : s + Mblen(text, s) \in p + 1 .. q
  BY <1>1, StartIs
<1>3. s # p
  BY <1>0, <1>2
<1>4. s \in 0 .. p - 1
  BY <1>0, <1>2, <1>3
<1>5. s + Mblen(text, s) <= p /\ Mblen(text, s) \in Nat
  BY <1>4, NotInside
<1> QED BY <1>0, <1>2, <1>5

----------------------------------------------------------------------------
(* The input box. *)

\* A line of the box is full, or the last one.
LEMMA CountBytesIs ==
    ASSUME NEW text \in Seq(Bytes), NEW b \in Starts(text), NEW w \in Nat \ {0},
           NEW m, m = b + CountBytes(text, b, w)
    PROVE  /\ m \in Starts(text)
           /\ Cardinality({q \in Starts(text) : b <= q /\ q < m}) <= w
           /\ m = Max(Starts(text)) \/ Rank(Starts(text), m) >= Rank(Starts(text), b) + w
<1> DEFINE n == Len(text)
           S == Starts(text)
           in(p) == Cardinality({q \in S : b <= q /\ q < p})
           T == {p \in S : p >= b /\ in(p) <= w}
<1>1. n \in Nat /\ S \subseteq 0 .. n
  BY StartsType
<1>2. CountBytes(text, b, w) = Max(T) - b
  BY DEF CountBytes
<1> HIDE DEF S, n
<1>3. b \in S /\ b \in Nat
  BY <1>1 DEF S
<1>4. in(b) = 0
  <2>1. {q \in S : b <= q /\ q < b} = {}
    <3>1. ASSUME NEW q \in S, b <= q, q < b PROVE FALSE
      <4>1. q \in Nat
        BY <1>1
      <4> QED BY <1>3, <3>1, <4>1
    <3> QED BY <3>1
  <2> QED BY <2>1, FS_EmptySet, Zenon
<1>5. b \in T
  BY <1>3, <1>4
<1>6. T \subseteq 0 .. n /\ T # {} /\ T \subseteq S
  BY <1>1, <1>5
<1> DEFINE k == Max(T)
<1>7. k \in T /\ \A p \in T : p <= k
  <2> HIDE DEF T
  <2> QED BY <1>1, <1>6, MaxIs
<1> HIDE DEF k
<1>8. k \in S /\ k \in Nat /\ b <= k /\ in(k) <= w
  <2>1. k \in S /\ k >= b /\ in(k) <= w
    BY <1>7
  <2> QED BY <1>1, <1>3, <2>1
<1>9. m = k
  <2>1. m = b + (k - b)
    BY <1>2 DEF k
  <2> QED BY <1>3, <1>8, <2>1
<1>10. k = Max(S) \/ Rank(S, k) >= Rank(S, b) + w
  <2> SUFFICES ASSUME k # Max(S) PROVE Rank(S, k) >= Rank(S, b) + w
    OBVIOUS
  <2> DEFINE behind == {p \in S : p > k}
             r == Min(behind)
  <2>1. behind \subseteq Nat /\ behind # {}
    <3>1. Max(S) \in S /\ \A y \in S : y <= Max(S)
      BY <1>1, <1>3, MaxIs
    <3> DEFINE x == Max(S)
    <3>2. x \in S /\ k <= x /\ x # k
      BY <1>8, <3>1
    <3> HIDE DEF x
    <3>3. x > k
      <4>1. x \in Nat
        BY <1>1, <3>2
      <4> QED BY <1>8, <3>2, <4>1
    <3>4. \A y \in S : y \in Nat
      BY <1>1
    <3> QED BY <3>2, <3>3, <3>4
  <2>2. r \in behind /\ \A p \in behind : r <= p
    <3> HIDE DEF behind
    <3> QED BY <2>1, MinIs
  <2> HIDE DEF r
  <2>3. r \in S /\ r \in Nat /\ k < r
    BY <1>1, <2>2
  <2>4. ASSUME NEW q \in S PROVE q <= k \/ q >= r
    <3>1. q \in Nat
      BY <1>1
    <3> QED BY <1>8, <2>2, <2>3, <3>1
  <2>5. Rank(S, r) = Rank(S, k) + 1
    BY <1>1, <1>8, <2>3, <2>4, RankNext
  <2>6. Rank(S, b) \in Nat /\ in(r) \in Nat /\ Rank(S, r) = Rank(S, b) + in(r)
    <3>1. n \in Nat /\ S \subseteq 0 .. n /\ b \in Nat /\ r \in Nat /\ b <= r
      BY <1>1, <1>3, <1>8, <2>3
    <3>2. /\ Rank(S, b) \in Nat /\ From(S, b, r) \in Nat
          /\ Rank(S, r) = Rank(S, b) + From(S, b, r)
      BY <3>1, RankBetween
    <3> QED BY <3>2 DEF From
  <2>7. Rank(S, k) \in Nat
    BY <1>1, RankNat
  <2>8. in(r) > w
    <3>1. ~(in(r) <= w)
      <4> SUFFICES ASSUME in(r) <= w PROVE FALSE
        OBVIOUS
      <4>1. r \in T
        BY <1>3, <1>8, <2>3
      <4>2. r <= k
        BY <1>7, <4>1
      <4> QED BY <1>8, <2>3, <4>2
    <3> HIDE DEF in
    <3> QED BY <2>6, <3>1
  <2> HIDE DEF in
  <2> QED BY <2>5, <2>6, <2>7, <2>8
<1> QED BY <1>8, <1>9, <1>10 DEF S

\* There is such a function, as each line begins where the one before it ends.
LineFrom(text, lines, w, f) ==
    f = [l \in 0 .. lines |-> IF l = 0 THEN 0
                              ELSE f[l - 1] + CountBytes(text, f[l - 1], w)]

LEMMA LineStartsExist ==
    ASSUME NEW text, NEW w, NEW lines \in Nat
    PROVE  \E f : LineFrom(text, lines, w, f)
<1> DEFINE missing == {k \in Nat : ~\E f : LineFrom(text, k, w, f)}
<1>1. SUFFICES missing = {}
  OBVIOUS
<1>2. SUFFICES ASSUME missing # {} PROVE FALSE
  OBVIOUS
<1>3. PICK k \in missing : \A j \in missing : k <= j
  <2>1. missing \subseteq Nat
    OBVIOUS
  <2> HIDE DEF missing
  <2> QED BY <1>2, <2>1, Least
<1>4. k \in Nat /\ ~\E f : LineFrom(text, k, w, f)
  OBVIOUS
<1>5. CASE k = 0
  <2> DEFINE f == [l \in 0 .. 0 |-> 0]
  <2>1. f = [l \in 0 .. 0 |-> IF l = 0 THEN 0
                              ELSE f[l - 1] + CountBytes(text, f[l - 1], w)]
    <3>1. \A l \in 0 .. 0 : l = 0
      OBVIOUS
    <3> QED BY <3>1
  <2>2. LineFrom(text, 0, w, f)
    BY <2>1 DEF LineFrom
  <2> QED BY <1>4, <1>5, <2>2
<1>6. CASE k # 0
  <2>1. k - 1 \in Nat /\ ~(k <= k - 1)
    BY <1>4, <1>6
  <2>2. k - 1 \notin missing
    BY <1>3, <2>1
  <2>3. PICK g : LineFrom(text, k - 1, w, g)
    BY <2>1, <2>2
  <2> DEFINE next == g[k - 1] + CountBytes(text, g[k - 1], w)
             f == [l \in 0 .. k |-> IF l = k THEN next ELSE g[l]]
  <2>4. ASSUME NEW l \in 0 .. k
        PROVE  f[l] = IF l = 0 THEN 0 ELSE f[l - 1] + CountBytes(text, f[l - 1], w)
    <3>1. CASE l = k
      <4>1. f[l] = next /\ l # 0 /\ l - 1 \in 0 .. k /\ l - 1 # k /\ l - 1 = k - 1
        BY <1>4, <1>6, <3>1
      <4>2. f[l - 1] = g[k - 1]
        BY <4>1
      <4> QED BY <4>1, <4>2
    <3>2. CASE l # k
      <4>1. l \in 0 .. k - 1 /\ f[l] = g[l]
        BY <1>4, <3>2
      <4>2. g[l] = IF l = 0 THEN 0 ELSE g[l - 1] + CountBytes(text, g[l - 1], w)
        BY <2>3, <4>1 DEF LineFrom
      <4>3. l # 0 => f[l - 1] = g[l - 1]
        BY <1>4, <4>1
      <4> QED BY <4>1, <4>2, <4>3
    <3> QED BY <3>1, <3>2
  <2>5. f = [l \in 0 .. k |-> f[l]]
    OBVIOUS
  <2>6. LineFrom(text, k, w, f)
    <3> HIDE DEF f
    <3> QED BY <2>4, <2>5 DEF LineFrom
  <2> QED BY <1>4, <2>6
<1> QED BY <1>5, <1>6

LEMMA LineStartsIs ==
    ASSUME InputLines(input, terminal.width) \in Nat
    PROVE  LineFrom(input, InputLines(input, terminal.width), terminal.width, LineStarts)
<1>1. \E f : LineFrom(input, InputLines(input, terminal.width), terminal.width, f)
  BY LineStartsExist
<1> QED BY <1>1, Zenon DEF LineStarts, LineFrom

\* What the loops come to in the bytes before an offset, they come to in all of them.
LEMMA PrefixStarts ==
    ASSUME NEW text \in Seq(Bytes), NEW c \in 0 .. Len(text)
    PROVE  Starts(SubSeq(text, 1, c)) = Starts(text) \cap (0 .. c)
<1> DEFINE a == SubSeq(text, 1, c)
<1>1. a \in Seq(Bytes) /\ Len(a) = c /\ \A k \in 1 .. c : a[k] = text[k]
  BY Parts
<1>2. Len(text) \in Nat /\ c \in Nat
  OBVIOUS
<1> HIDE DEF a
<1>3. ASSUME NEW s \in 0 .. c - 1
      PROVE  /\ Mblen(a, s) > 0 => Mblen(a, s) = Mblen(text, s)
             /\ s + Mblen(text, s) <= c => Mblen(a, s) = Mblen(text, s)
             /\ Mblen(a, s) \in Nat /\ Mblen(text, s) \in Nat
  <2>1. s \in 0 .. Len(a) - 1 /\ s \in 0 .. Len(text) - 1 /\ a[s + 1] = text[s + 1]
    BY <1>1, <1>2
  <2>2. /\ Mblen(a, s) \in Nat /\ s + Mblen(a, s) <= c
        /\ Mblen(text, s) \in Nat
    BY <1>1, <1>2, <2>1, MblenIs
  <2> DEFINE w == Width[text[s + 1][1]]
  <2>3. Mblen(a, s) = IF /\ text[s + 1][2] = 1 /\ s + w <= c
                         /\ \A i \in 2 .. w : a[s + i][2] > 1
                      THEN w ELSE 0
    BY <1>1, <2>1 DEF Mblen
  <2>4. Mblen(text, s) = IF /\ text[s + 1][2] = 1 /\ s + w <= Len(text)
                            /\ \A i \in 2 .. w : text[s + i][2] > 1
                         THEN w ELSE 0
    BY DEF Mblen
  <2>5. text[s + 1][2] = 1 => w \in Nat \ {0}
    <3>1. text[s + 1] \in Bytes
      BY <2>1
    <3> QED BY <3>1, ByteIs DEF Bad
  <2> HIDE DEF w
  <2>6. ASSUME text[s + 1][2] = 1, s + w <= c
        PROVE  \A i \in 2 .. w : a[s + i] = text[s + i]
    <3> SUFFICES ASSUME NEW i \in 2 .. w PROVE a[s + i] = text[s + i]
      OBVIOUS
    <3>1. s + i \in 1 .. c
      BY <1>2, <2>5, <2>6
    <3> QED BY <1>1, <3>1
  <2>7. ASSUME Mblen(a, s) > 0 PROVE Mblen(a, s) = Mblen(text, s)
    <3>1. /\ text[s + 1][2] = 1 /\ s + w <= c
          /\ \A i \in 2 .. w : a[s + i][2] > 1
      BY <2>3, <2>7
    <3>2. \A i \in 2 .. w : text[s + i][2] > 1
      BY <2>6, <3>1
    <3>3. s + w <= Len(text)
      BY <1>2, <2>5, <3>1
    <3> QED BY <2>3, <2>4, <3>1, <3>2, <3>3
  <2>8. ASSUME s + Mblen(text, s) <= c PROVE Mblen(a, s) = Mblen(text, s)
    <3>1. CASE Mblen(text, s) = 0
      BY <2>2, <2>7, <3>1
    <3>2. CASE Mblen(text, s) # 0
      <4>1. /\ text[s + 1][2] = 1 /\ Mblen(text, s) = w
            /\ \A i \in 2 .. w : text[s + i][2] > 1
        BY <2>4, <3>2
      <4>2. s + w <= c
        BY <2>8, <4>1
      <4>3. \A i \in 2 .. w : a[s + i][2] > 1
        BY <2>6, <4>1, <4>2
      <4> QED BY <2>3, <4>1, <4>2, <4>3
    <3> QED BY <3>1, <3>2
  <2> QED BY <2>2, <2>7, <2>8
<1>4. ASSUME NEW p \in Starts(a) PROVE p \in Starts(text) /\ p \in 0 .. c
  <2>1. p \in 0 .. c
    BY <1>1 DEF Starts
  <2>2. ASSUME NEW at \in 0 .. p - 1 PROVE \E s \in 0 .. at : s + Mblen(text, s) \in at + 1 .. p
    <3>1. PICK s \in 0 .. at : s + Mblen(a, s) \in at + 1 .. p
      BY <1>1, StartIs
    <3>2. s \in 0 .. c - 1
      BY <1>2, <2>1
    <3>3. Mblen(a, s) \in Nat /\ Mblen(a, s) > 0
      BY <1>2, <1>3, <2>1, <3>1, <3>2
    <3>4. Mblen(a, s) = Mblen(text, s)
      BY <1>3, <3>2, <3>3
    <3> QED BY <3>1, <3>4
  <2>3. p \in 0 .. Len(text)
    BY <1>2, <2>1
  <2> QED BY <2>1, <2>2, <2>3 DEF Starts
<1>5. ASSUME NEW p \in Starts(text), p \in 0 .. c PROVE p \in Starts(a)
  <2>1. ASSUME NEW at \in 0 .. p - 1 PROVE \E s \in 0 .. at : s + Mblen(a, s) \in at + 1 .. p
    <3>1. PICK s \in 0 .. at : s + Mblen(text, s) \in at + 1 .. p
      BY StartIs
    <3>2. s \in 0 .. c - 1 /\ s + Mblen(text, s) <= c
      BY <1>2, <1>5, <3>1
    <3>3. Mblen(a, s) = Mblen(text, s)
      BY <1>3, <3>2
    <3> QED BY <3>1, <3>3
  <2> QED BY <1>1, <1>5, <2>1 DEF Starts
<1> QED BY <1>4, <1>5 DEF a

\* The lines of the input box have room for all its characters.
LEMMA RoomForLine ==
    ASSUME NEW chars \in Nat, NEW w \in Nat \ {0}, NEW lines \in Nat \ {0},
           lines >= StringLines(chars, w)
    PROVE  lines * w \in Nat /\ chars <= lines * w
<1>1. lines * w \in Nat
  BY Scale
<1>2. CASE chars = 0
  BY <1>1, <1>2
<1>3. CASE chars # 0
  <2> DEFINE q == (chars - 1) \div w
  <2>1. q \in Nat /\ (chars - 1) % w \in 0 .. w - 1 /\ chars - 1 = q * w + ((chars - 1) % w)
    <3>1. chars - 1 \in Nat
      BY <1>3
    <3>2. w <= w
      OBVIOUS
    <3>3. q \in Nat
      BY <3>1, <3>2, Quotients
    <3> DEFINE a == chars - 1
    <3>4. a \in Int
      BY <3>1
    <3>5. a % w \in 0 .. w - 1 /\ a = (a \div w) * w + (a % w)
      <4> HIDE DEF a
      <4> QED BY <3>4, DivMod
    <3> QED BY <3>3, <3>5, Zenon
  <2>2. lines >= q + 1
    BY <1>3 DEF StringLines
  <2> HIDE DEF q
  <2>3. (q + 1) * w <= lines * w
    BY <2>1, <2>2, Scale
  <2>4. (q + 1) * w = q * w + w /\ q * w \in Int
    BY <2>1
  <2>5. chars - 1 <= q * w + (w - 1)
    BY <2>1, <2>4
  <2> DEFINE full == lines * w
             qw == q * w
  <2>6. full \in Nat /\ qw \in Int /\ qw + w <= full /\ chars - 1 <= qw + (w - 1)
    BY <1>1, <2>3, <2>4, <2>5
  <2> HIDE DEF full, qw
  <2>7. chars <= full
    BY <2>6
  <2> QED BY <1>1, <2>7 DEF full
<1> QED BY <1>2, <1>3

LEMMA CursorRowFits ==
    ASSUME NEW k \in Nat, NEW chars \in Nat, NEW w \in Nat \ {0}, NEW lines \in Nat \ {0},
           k <= chars, lines * w \in Nat, chars <= lines * w
    PROVE  /\ k \div w <= lines
           /\ k \div w = lines => chars = lines * w
<1> DEFINE r == k \div w
<1>1. r \in Nat /\ k % w \in 0 .. w - 1 /\ k = r * w + (k % w)
  <2>1. w <= w
    OBVIOUS
  <2>2. r \in Nat
    BY <2>1, Quotients
  <2> QED BY <2>2, DivMod
<1> HIDE DEF r
<1>2. r * w \in Int /\ (lines + 1) * w = lines * w + w
  BY <1>1
<1>3. ASSUME r > lines PROVE FALSE
  <2>1. (lines + 1) * w <= r * w
    BY <1>1, <1>3, Scale
  <2> QED BY <1>1, <1>2, <2>1
<1>4. ASSUME r = lines PROVE chars = lines * w
  <2>1. r * w = lines * w
    BY <1>4
  <2> QED BY <1>1, <1>2, <2>1
<1>5. r <= lines
  BY <1>1, <1>3
<1> QED BY <1>4, <1>5 DEF r

\* The input box shows the whole line, cut between characters, and in lines that
\* fit, and never has fewer lines than that takes; the cursor stands in it, or at
\* most one row below, which it does only when the last line is full
\* (ui.c:83-102, ui.c:269-298, ui.c:446-451): for any bytes at all, also those that
\* are no characters or only a part of one.
THEOREM InputBoxAlwaysShowsLine == Spec => []InputBoxShowsLine
<1>1. ASSUME UiInv PROVE InputBoxShowsLine
  <2> DEFINE S == Starts(input)
             n == Len(input)
             w == terminal.width
             lines == InputLines(input, terminal.width)
             chars == CountChars(input)
             f == LineStarts
  <2>1. input \in Seq(Bytes) /\ n \in Nat /\ cursor_index \in 0 .. n /\ terminal \in Terminals
    BY <1>1 DEF UiInv, LineInv, BoxInv
  <2>2. w \in Nat \ {0}
    BY <2>1, TerminalIs
  <2>3. S \subseteq 0 .. n /\ 0 \in S /\ chars \in Nat /\ chars = Cardinality(S) - 1
    BY <2>1, StartsType DEF CountChars
  <2>4. lines \in Nat \ {0} /\ lines >= StringLines(chars, w)
    BY <2>1, <2>2, InputLinesType
  <2>5. lines * w \in Nat /\ chars <= lines * w
    <3> HIDE DEF lines, chars, w
    <3> QED BY <2>2, <2>3, <2>4, RoomForLine
  <2>6. LineFrom(input, lines, w, f)
    BY <2>4, LineStartsIs
  <2>7. f[0] = 0 /\ \A l \in 1 .. lines : f[l] = f[l - 1] + CountBytes(input, f[l - 1], w)
    <3> HIDE DEF lines, w, f
    <3>1. \A l \in 0 .. lines : f[l] = IF l = 0 THEN 0
                                       ELSE f[l - 1] + CountBytes(input, f[l - 1], w)
      BY <2>6 DEF LineFrom
    <3>2. 0 \in 0 .. lines /\ \A l \in 1 .. lines : l \in 0 .. lines /\ l # 0
      BY <2>4
    <3> QED BY <3>1, <3>2
  <2> HIDE DEF f, w, lines, chars
  <2> DEFINE Reaches(l) == f[l] \in S /\ (f[l] = Max(S) \/ Rank(S, f[l]) >= l * w)
  <2>8. Reaches(0)
    <3>1. Rank(S, 0) \in Nat
      <4> HIDE DEF S, n
      <4> QED BY <2>1, <2>3, RankNat
    <3>2. 0 * w = 0
      BY <2>2
    <3>3. f[0] = 0 /\ 0 \in S
      BY <2>3, <2>7
    <3> QED BY <3>1, <3>2, <3>3
  <2>9. ASSUME NEW l \in 1 .. lines, Reaches(l - 1)
        PROVE  /\ Reaches(l)
               /\ Cardinality({p \in S : f[l - 1] <= p /\ p < f[l]}) <= w
    <3>1. f[l] = f[l - 1] + CountBytes(input, f[l - 1], w)
      BY <2>7
    <3>2. f[l - 1] \in Starts(input)
      BY <2>9
    <3>3. /\ f[l] \in Starts(input)
          /\ Cardinality({q \in Starts(input) : f[l - 1] <= q /\ q < f[l]}) <= w
          /\ f[l] = Max(Starts(input))
             \/ Rank(Starts(input), f[l]) >= Rank(Starts(input), f[l - 1]) + w
      BY <2>1, <2>2, <3>1, <3>2, CountBytesIs
    <3>4. Rank(S, f[l]) \in Nat /\ Rank(S, f[l - 1]) \in Nat
      <4> HIDE DEF S, n
      <4> QED BY <2>1, <2>3, RankNat
    <3>5. (l - 1) * w = l * w - w /\ l * w \in Int
      <4>1. l \in Nat
        BY <2>4
      <4> QED BY <2>2, <4>1
    <3>6. Reaches(l)
      <4>1. CASE f[l] = Max(S)
        BY <3>3, <4>1
      <4>2. CASE f[l] # Max(S)
        <5>1. Rank(S, f[l]) >= Rank(S, f[l - 1]) + w
          BY <3>3, <4>2
        <5>2. f[l - 1] # Max(S)
          <6> SUFFICES ASSUME f[l - 1] = Max(S) PROVE FALSE
            OBVIOUS
          <6>1. Rank(S, f[l - 1]) = Cardinality(S) - 1 /\ Rank(S, f[l]) <= Cardinality(S) - 1
                /\ Cardinality(S) \in Nat
            <7>1. f[l] \in S /\ f[l - 1] \in S
              BY <3>2, <3>3
            <7>2. Cardinality(S) \in Nat
              BY <2>1, StartsType, FS_CardinalityType
            <7> HIDE DEF S, n
            <7>3. Rank(S, f[l]) \in 0 .. Cardinality(S) - 1
              BY <2>1, <2>3, <7>1, RankLast
            <7>4. Rank(S, f[l - 1]) = Cardinality(S) - 1
              BY <2>1, <2>3, <7>1, RankLast
            <7> QED BY <7>2, <7>3, <7>4
          <6> QED BY <2>2, <3>4, <5>1, <6>1
        <5>3. Rank(S, f[l - 1]) >= (l - 1) * w
          BY <2>9, <5>2
        <5>4. Rank(S, f[l]) >= l * w
          <6> HIDE DEF S
          <6> QED BY <2>2, <3>4, <3>5, <5>1, <5>3
        <5> QED BY <3>3, <5>4
      <4> QED BY <4>1, <4>2
    <3> QED BY <3>3, <3>6
  <2>10. \A l \in 0 .. lines : Reaches(l)
    <3> DEFINE missing == {l \in Nat : l <= lines /\ ~Reaches(l)}
    <3>1. SUFFICES missing = {}
      BY <2>4
    <3>2. SUFFICES ASSUME missing # {} PROVE FALSE
      OBVIOUS
    <3>3. PICK l \in missing : \A k \in missing : l <= k
      <4>1. missing \subseteq Nat
        OBVIOUS
      <4> HIDE DEF missing
      <4> QED BY <3>2, <4>1, Least
    <3>4. l \in Nat /\ l <= lines /\ ~Reaches(l)
      OBVIOUS
    <3> HIDE DEF Reaches
    <3>5. l # 0
      BY <2>8, <3>4
    <3>6. l \in 1 .. lines /\ l - 1 \in Nat /\ l - 1 <= lines /\ ~(l <= l - 1)
      BY <2>4, <3>4, <3>5
    <3>7. Reaches(l - 1)
      BY <3>3, <3>6
    <3> QED BY <2>9, <3>4, <3>6, <3>7
  <2>11. f[lines] = Max(S)
    <3>1. f[lines] \in S /\ (f[lines] = Max(S) \/ Rank(S, f[lines]) >= lines * w)
      BY <2>4, <2>10
    <3>2. /\ Rank(S, f[lines]) \in 0 .. Cardinality(S) - 1
          /\ Rank(S, f[lines]) = Cardinality(S) - 1 <=> f[lines] = Max(S)
      <4> HIDE DEF S, n
      <4> QED BY <2>1, <2>3, <3>1, RankLast
    <3>3. ASSUME Rank(S, f[lines]) >= lines * w PROVE Rank(S, f[lines]) = Cardinality(S) - 1
      <4> HIDE DEF S
      <4> QED BY <2>3, <2>5, <3>2, <3>3
    <3> QED BY <3>1, <3>2, <3>3
  <2>12. \A l \in 1 .. lines :
           /\ f[l] \in S
           /\ Cardinality({p \in S : f[l - 1] <= p /\ p < f[l]}) <= w
    <3>1. ASSUME NEW l \in 1 .. lines PROVE l - 1 \in 0 .. lines /\ l \in 0 .. lines
      BY <2>4
    <3> QED BY <2>9, <2>10, <3>1
  <2> DEFINE before == SubSeq(input, 1, cursor_index)
             k == CountChars(before)
  <2>13. k \in Nat /\ k <= chars
    <3>1. before \in Seq(Bytes) /\ Len(before) \in Nat
      BY <2>1, Parts
    <3>2. k \in Nat
      BY <3>1, StartsType
    <3>3. Starts(before) = S \cap (0 .. cursor_index)
      BY <2>1, PrefixStarts
    <3>4. Starts(before) \subseteq S
      BY <3>3
    <3>5. Cardinality(Starts(before)) \in Nat /\ Cardinality(Starts(before)) <= Cardinality(S)
          /\ Cardinality(S) \in Nat
      <4> HIDE DEF S, n, before
      <4> QED BY <2>1, <2>3, <3>4, RankType
    <3>6. k = Cardinality(Starts(before)) - 1
      BY DEF CountChars
    <3> HIDE DEF S, before, k
    <3> QED BY <2>3, <3>2, <3>5, <3>6
  <2>14. CursorRow = k \div w
    BY DEF CursorRow, w
  <2>15. k \div w <= lines /\ (k \div w = lines => chars = lines * w)
    <3> HIDE DEF k
    <3> QED BY <2>2, <2>3, <2>4, <2>5, <2>13, CursorRowFits
  <2>16. CursorRow <= lines /\ (CursorRow = lines => chars = lines * w)
    BY <2>14, <2>15
  <2> QED BY <2>11, <2>12, <2>16 DEF InputBoxShowsLine, f, w, lines, chars
<1> QED BY <1>1, UiInvariant, PTL

----------------------------------------------------------------------------
(* The line as characters. *)

\* There is nothing in a text but whole characters.
Readable(text) == Len(text) \in Starts(text)

\* The k-th character begins at the start with k - 1 starts before it.
LEMMA BeginsIs ==
    ASSUME NEW text \in Seq(Bytes), NEW p \in Starts(text)
    PROVE  Begins(text, Rank(Starts(text), p) + 1) = p
<1> DEFINE S == Starts(text)
           n == Len(text)
           k == Rank(S, p)
<1>1. n \in Nat /\ S \subseteq 0 .. n
  BY StartsType
<1>2. k \in Nat /\ (k + 1) - 1 = k
  <2> HIDE DEF S, n
  <2>1. k \in Nat
    BY <1>1, RankNat
  <2> HIDE DEF k
  <2> QED BY <2>1
<1>3. ASSUME NEW r \in S, Rank(S, r) = k PROVE r = p
  <2>1. r \in Nat /\ p \in Nat
    BY <1>1
  <2>2. p \in S
    OBVIOUS
  <2> HIDE DEF S, n
  <2>3. p < r => Rank(S, p) \in Nat /\ Rank(S, r) \in Nat /\ Rank(S, p) < Rank(S, r)
    BY <1>1, <2>1, <2>2, RankGrows
  <2>4. r < p => Rank(S, p) \in Nat /\ Rank(S, r) \in Nat /\ Rank(S, r) < Rank(S, p)
    BY <1>1, <2>1, <1>3, RankGrows
  <2> QED BY <1>3, <2>1, <2>3, <2>4
<1>4. Begins(text, k + 1) = CHOOSE r \in S : Rank(S, r) = (k + 1) - 1
  BY DEF Begins, Rank
<1>5. p \in S /\ Rank(S, p) = k
  OBVIOUS
<1> HIDE DEF S, n
<1>6. \A r \in S : Rank(S, r) = (k + 1) - 1 <=> r = p
  BY <1>2, <1>3, <1>5
<1> QED BY <1>4, <1>5, <1>6 DEF S

\* The ranks of the starts but the last number the characters.
LEMMA RankOfChar ==
    ASSUME NEW text \in Seq(Bytes), Readable(text)
    PROVE  /\ CountChars(text) \in Nat
           /\ CountChars(text) = Rank(Starts(text), Len(text))
           /\ Max(Starts(text)) = Len(text)
           /\ \A p \in Starts(text) : p < Len(text) =>
                 /\ Rank(Starts(text), p) + 1 \in 1 .. CountChars(text)
                 /\ text[p + 1][1] \in Chars
           /\ \A k \in 1 .. CountChars(text) :
                 \E p \in Starts(text) : p < Len(text) /\ Rank(Starts(text), p) + 1 = k
<1> DEFINE S == Starts(text)
           n == Len(text)
           m == CountChars(text)
<1>1. n \in Nat /\ S \subseteq 0 .. n /\ n \in S /\ IsFiniteSet(S)
  BY StartsType DEF Readable
<1>2. Cardinality(S) \in Nat /\ m \in Nat /\ m = Cardinality(S) - 1
  BY <1>1, StartsType, FS_CardinalityType DEF CountChars
<1>3. Max(S) = n
  <2>1. \A y \in S : y <= n
    BY <1>1
  <2>2. S # {}
    BY <1>1
  <2> HIDE DEF S
  <2>3. Max(S) \in S /\ \A y \in S : y <= Max(S)
    BY <1>1, <2>2, MaxIs
  <2> DEFINE x == Max(S)
  <2>4. x \in S /\ \A y \in S : y <= x
    BY <2>3
  <2> HIDE DEF x, n
  <2>5. x \in 0 .. n
    BY <1>1, <2>4
  <2>6. n <= x
    BY <1>1, <2>4
  <2>7. x = n
    BY <1>1, <2>5, <2>6
  <2> QED BY <2>7 DEF x
<1>4. m = Rank(S, n)
  <2> HIDE DEF S, m, n
  <2> QED BY <1>1, <1>2, <1>3, RankLast
<1>5. ASSUME NEW p \in S, p < n
      PROVE  Rank(S, p) + 1 \in 1 .. m /\ text[p + 1][1] \in Chars
  <2>1. Rank(S, p) \in Nat /\ Rank(S, n) \in Nat /\ Rank(S, p) < Rank(S, n)
    <3> HIDE DEF S, n
    <3> QED BY <1>1, <1>5, RankGrows
  <2>2. p \in 0 .. n - 1
    BY <1>1, <1>5
  <2>3. Mblen(text, p) > 0
    <3> SUFFICES ASSUME ~(Mblen(text, p) > 0) PROVE FALSE
      OBVIOUS
    <3>1. Mblen(text, p) = 0
      BY <2>2, MblenIs
    <3>2. n <= p
      BY <1>1, <1>5, <3>1, NothingBehind
    <3> QED BY <1>1, <1>5, <3>2
  <2>4. text[p + 1][1] \in Chars
    BY <2>2, <2>3, MblenIs
  <2>5. Rank(S, p) + 1 \in 1 .. m
    <3> HIDE DEF S, n, m
    <3> QED BY <1>2, <1>4, <2>1
  <2> QED BY <2>4, <2>5
<1>6. ASSUME NEW k \in 1 .. m PROVE \E p \in S : p < n /\ Rank(S, p) + 1 = k
  <2>1. k - 1 \in 0 .. Cardinality(S) - 1
    BY <1>2
  <2>2. PICK p \in S : Rank(S, p) = k - 1
    <3> HIDE DEF S, n, m
    <3> QED BY <1>1, <2>1, RankOnto
  <2>3. p # n
    <3> HIDE DEF S, n, m
    <3> QED BY <1>2, <1>4, <2>2
  <2>4. p < n
    BY <1>1, <2>3
  <2>5. Rank(S, p) + 1 = k
    <3> HIDE DEF S, n, m
    <3> QED BY <1>2, <2>2
  <2> QED BY <2>4, <2>5
<1> QED BY <1>2, <1>3, <1>4, <1>5, <1>6

LEMMA DecodeIs ==
    ASSUME NEW text \in Seq(Bytes), Readable(text)
    PROVE  /\ Decode(text) \in Seq(Chars) /\ Len(Decode(text)) = CountChars(text)
           /\ \A p \in Starts(text) : p < Len(text) =>
                 Decode(text)[Rank(Starts(text), p) + 1] = text[p + 1][1]
<1> DEFINE m == CountChars(text)
           d == [k \in 1 .. m |-> text[Begins(text, k) + 1][1]]
<1>1. m \in Nat /\ Max(Starts(text)) = Len(text)
  BY RankOfChar
<1>2. ASSUME NEW p \in Starts(text), p < Len(text)
      PROVE  LET k == Rank(Starts(text), p) + 1 IN
             k \in 1 .. m /\ d[k] = text[p + 1][1] /\ d[k] \in Chars
  <2> DEFINE k == Rank(Starts(text), p) + 1
  <2>1. k \in 1 .. m /\ text[p + 1][1] \in Chars
    BY <1>2, RankOfChar
  <2>2. Begins(text, k) = p
    BY BeginsIs
  <2>3. d[k] = text[Begins(text, k) + 1][1]
    <3> HIDE DEF k
    <3> QED BY <2>1
  <2> QED BY <2>1, <2>2, <2>3
<1>3. \A k \in 1 .. m : d[k] \in Chars
  <2> TAKE k \in 1 .. m
  <2>1. PICK p \in Starts(text) : p < Len(text) /\ Rank(Starts(text), p) + 1 = k
    BY RankOfChar
  <2> HIDE DEF d, m
  <2> QED BY <1>2, <2>1
<1>4. d \in Seq(Chars) /\ Len(d) = m
  <2>1. d \in [1 .. m -> Chars]
    BY <1>3
  <2> HIDE DEF d
  <2> HIDE DEF m
  <2> QED BY <1>1, <2>1
<1>5. Decode(text) = d \o <<>>
  BY <1>1 DEF Decode
<1>6. d \o <<>> = d
  <2> HIDE DEF d, m
  <2> QED BY <1>4, ConcatEmptySeq
<1> HIDE DEF d
<1> QED BY <1>2, <1>4, <1>5, <1>6

LEMMA DecodeOnly ==
    ASSUME NEW text \in Seq(Bytes), Readable(text),
           NEW d \in Seq(Chars), Len(d) = Rank(Starts(text), Len(text)),
           \A p \in Starts(text) : p < Len(text) => d[Rank(Starts(text), p) + 1] = text[p + 1][1]
    PROVE  d = Decode(text)
<1>1. Decode(text) \in Seq(Chars) /\ Len(Decode(text)) = CountChars(text)
      /\ CountChars(text) = Rank(Starts(text), Len(text))
  BY DecodeIs, RankOfChar
<1>2. ASSUME NEW k \in 1 .. Len(d) PROVE d[k] = Decode(text)[k]
  <2>1. PICK p \in Starts(text) : p < Len(text) /\ Rank(Starts(text), p) + 1 = k
    BY <1>1, RankOfChar
  <2>2. d[Rank(Starts(text), p) + 1] = text[p + 1][1]
    BY <2>1
  <2>3. Decode(text)[Rank(Starts(text), p) + 1] = text[p + 1][1]
    BY <2>1, DecodeIs
  <2> QED BY <2>1, <2>2, <2>3
<1> QED BY <1>1, <1>2, SeqEqual

\* Behind whole characters a text is read as if it stood alone.
LEMMA JoinStarts ==
    ASSUME NEW x \in Seq(Bytes), NEW y \in Seq(Bytes), Readable(x)
    PROVE  /\ x \o y \in Seq(Bytes) /\ Len(x \o y) = Len(x) + Len(y)
           /\ Starts(x \o y) \cap (0 .. Len(x)) = Starts(x)
           /\ \A q \in 0 .. Len(y) : q \in Starts(y) <=> Len(x) + q \in Starts(x \o y)
<1> DEFINE t == x \o y
           n == Len(x)
           m == Len(y)
<1>1. n \in Nat /\ m \in Nat /\ t \in Seq(Bytes) /\ Len(t) = n + m
      /\ \A i \in 1 .. n + m : t[i] = IF i <= n THEN x[i] ELSE y[i - n]
  BY ConcatProperties
<1>2. \A i \in 1 .. n : t[i] = x[i]
  BY <1>1
<1>3. \A i \in 1 .. m : t[n + i] = y[i]
  <2> TAKE i \in 1 .. m
  <2>1. n + i \in 1 .. n + m /\ ~(n + i <= n) /\ (n + i) - n = i
    BY <1>1
  <2> QED BY <1>1, <2>1
<1> HIDE DEF t
<1>4. SubSeq(t, 1, n) = x
  <2>1. n \in 0 .. Len(t)
    BY <1>1
  <2>2. /\ SubSeq(t, 1, n) \in Seq(Bytes) /\ Len(SubSeq(t, 1, n)) = n
        /\ \A k \in 1 .. n : SubSeq(t, 1, n)[k] = t[k]
    BY <1>1, <2>1, Parts
  <2>3. \A k \in 1 .. Len(SubSeq(t, 1, n)) : SubSeq(t, 1, n)[k] = x[k]
    BY <1>2, <2>2
  <2> QED BY <2>2, <2>3, SeqEqual
<1>5. Starts(t) \cap (0 .. n) = Starts(x)
  <2>1. n \in 0 .. Len(t)
    BY <1>1
  <2> QED BY <1>1, <1>4, <2>1, PrefixStarts
<1>6. n \in Starts(t)
  BY <1>5 DEF Readable
<1>7. ASSUME NEW s \in 0 .. m - 1
      PROVE  Mblen(t, n + s) = Mblen(y, s) /\ Mblen(y, s) \in Nat
  <2>1. s + 1 \in 1 .. m /\ n + (s + 1) = (n + s) + 1
    BY <1>1
  <2>2. t[(n + s) + 1] = y[s + 1]
    BY <1>3, <2>1
  <2>3. Mblen(y, s) \in Nat
    BY MblenIs
  <2> DEFINE w == Width[y[s + 1][1]]
  <2>4. CASE y[s + 1][2] = 1
    <3>1. w \in Nat \ {0}
      <4>1. y[s + 1] \in Bytes
        BY <2>1
      <4> QED BY <2>4, <4>1, ByteIs DEF Bad
    <3>2. (n + s) + w <= Len(t) <=> s + w <= m
      <4> HIDE DEF w
      <4> QED BY <1>1, <3>1
    <3>3. ASSUME s + w <= m
          PROVE  \A i \in 2 .. w : t[(n + s) + i] = y[s + i]
      <4> HIDE DEF w
      <4> TAKE i \in 2 .. w
      <4>1. s + i \in 1 .. m /\ n + (s + i) = (n + s) + i
        BY <1>1, <3>1, <3>3
      <4> QED BY <1>3, <4>1
    <3>4. /\ Mblen(t, n + s) = IF /\ (n + s) + w <= Len(t)
                                  /\ \A i \in 2 .. w : t[(n + s) + i][2] > 1
                               THEN w ELSE 0
          /\ Mblen(y, s) = IF /\ s + w <= m
                              /\ \A i \in 2 .. w : y[s + i][2] > 1
                           THEN w ELSE 0
      BY <2>2, <2>4 DEF Mblen
    <3> HIDE DEF w
    <3>5. CASE s + w <= m
      <4>1. (\A i \in 2 .. w : t[(n + s) + i][2] > 1) <=> (\A i \in 2 .. w : y[s + i][2] > 1)
        BY <3>3, <3>5
      <4> HIDE DEF m
      <4> QED BY <2>3, <3>2, <3>4, <3>5, <4>1, Zenon
    <3>6. CASE ~(s + w <= m)
      <4> HIDE DEF m
      <4> QED BY <2>3, <3>2, <3>4, <3>6, Zenon
    <3> QED BY <3>5, <3>6
  <2>5. CASE y[s + 1][2] # 1
    BY <2>2, <2>3, <2>5 DEF Mblen
  <2> QED BY <2>4, <2>5
<1>8. ASSUME NEW q \in Starts(y) PROVE n + q \in Starts(t)
  <2>1. q \in 0 .. m
    BY DEF Starts
  <2>2. n + q \in 0 .. Len(t)
    BY <1>1, <2>1
  <2>3. ASSUME NEW at \in 0 .. (n + q) - 1
        PROVE  \E s \in 0 .. at : s + Mblen(t, s) \in at + 1 .. n + q
    <3>1. CASE at < n
      <4>1. at \in 0 .. n - 1
        BY <1>1, <3>1
      <4>2. PICK s \in 0 .. at : s + Mblen(t, s) \in at + 1 .. n
        BY <1>1, <1>6, <4>1, StartIs
      <4>3. s + Mblen(t, s) \in at + 1 .. n + q
        BY <1>1, <2>1, <4>2
      <4> QED BY <4>3
    <3>2. CASE at >= n
      <4>1. at - n \in 0 .. q - 1
        BY <1>1, <2>1, <3>2
      <4>2. PICK s \in 0 .. at - n : s + Mblen(y, s) \in (at - n) + 1 .. q
        BY <4>1, StartIs
      <4>3. s \in 0 .. m - 1
        BY <1>1, <2>1, <4>1, <4>2
      <4>4. Mblen(t, n + s) = Mblen(y, s) /\ Mblen(y, s) \in Nat
        BY <1>7, <4>3
      <4>5. n + s \in 0 .. at /\ (n + s) + Mblen(t, n + s) \in at + 1 .. n + q
        BY <1>1, <2>1, <3>2, <4>1, <4>2, <4>3, <4>4
      <4> QED BY <4>5
    <3> QED BY <1>1, <2>1, <3>1, <3>2
  <2> QED BY <2>2, <2>3 DEF Starts
<1>9. ASSUME NEW q \in 0 .. m, n + q \in Starts(t) PROVE q \in Starts(y)
  <2>1. ASSUME NEW at \in 0 .. q - 1
        PROVE  \E s \in 0 .. at : s + Mblen(y, s) \in at + 1 .. q
    <3>1. n + at \in 0 .. (n + q) - 1
      BY <1>1
    <3>2. PICK s \in 0 .. n + at : s + Mblen(t, s) \in (n + at) + 1 .. n + q
      BY <1>1, <1>9, <3>1, StartIs
    <3>3. s >= n
      <4> SUFFICES ASSUME s < n PROVE FALSE
        BY <1>1
      <4>1. s \in 0 .. n - 1
        BY <1>1
      <4>2. s + Mblen(t, s) <= n /\ Mblen(t, s) \in Nat
        BY <1>1, <1>6, <4>1, NotInside
      <4> QED BY <1>1, <3>2, <4>1, <4>2
    <3>4. s - n \in 0 .. at /\ s - n \in 0 .. m - 1 /\ n + (s - n) = s
      BY <1>1, <3>2, <3>3
    <3>5. Mblen(t, s) = Mblen(y, s - n) /\ Mblen(y, s - n) \in Nat
      BY <1>7, <3>4
    <3>6. (s - n) + Mblen(y, s - n) \in at + 1 .. q
      BY <1>1, <3>2, <3>4, <3>5
    <3> QED BY <3>4, <3>6
  <2> QED BY <2>1 DEF Starts
<1> QED BY <1>1, <1>5, <1>8, <1>9 DEF t

\* As many starts lie before one of y when x is put before it as did before, and
\* those of x.
LEMMA JoinRanks ==
    ASSUME NEW x \in Seq(Bytes), NEW y \in Seq(Bytes), Readable(x)
    PROVE  /\ \A p \in Starts(x) : Rank(Starts(x \o y), p) = Rank(Starts(x), p)
           /\ \A q \in Starts(y) : Rank(Starts(x \o y), Len(x) + q)
                                   = Rank(Starts(x), Len(x)) + Rank(Starts(y), q)
<1> DEFINE n == Len(x)
           m == Len(y)
           A == Starts(x)
           B == Starts(y)
           S == Starts(x \o y)
<1>1. n \in Nat /\ m \in Nat /\ A \subseteq 0 .. n /\ B \subseteq 0 .. m /\ n \in A
  BY StartsType DEF Readable
<1>2. S \subseteq 0 .. n + m /\ S \cap (0 .. n) = A /\ n + m \in Nat
      /\ \A q \in 0 .. m : q \in B <=> n + q \in S
  <2>1. Len(x \o y) = n + m /\ n + m \in Nat
    BY <1>1, JoinStarts
  <2>2. S \subseteq 0 .. n + m
    BY <2>1, StartsType
  <2> QED BY <2>1, <2>2, JoinStarts
<1> HIDE DEF n, m, A, B, S
<1>3. ASSUME NEW p \in 0 .. n PROVE Rank(S, p) = Rank(A, p)
  <2>1. \A q \in S : q \in Nat
    BY <1>2
  <2>2. \A q \in S : q < p => q \in 0 .. n
    BY <1>1, <2>1
  <2>3. {q \in S : q < p} = {q \in A : q < p}
    BY <1>2, <2>2
  <2> QED BY <2>3 DEF Rank
<1>4. ASSUME NEW q \in B PROVE Rank(S, n + q) = Rank(A, n) + Rank(B, q)
  <2>1. q \in 0 .. m /\ n + q \in Nat /\ n <= n + q
    BY <1>1
  <2>2. Rank(S, n + q) = Rank(S, n) + From(S, n, n + q)
    BY <1>1, <1>2, <2>1, RankBetween
  <2>3. Rank(S, n) = Rank(A, n)
    BY <1>1, <1>3
  <2> DEFINE T == {r \in B : r < q}
             U == {r \in S : n <= r /\ r < n + q}
             f == [r \in T |-> n + r]
  <2>4. IsFiniteSet(T)
    <3>1. T \subseteq B
      OBVIOUS
    <3> QED BY <1>1, <3>1, RankType
  <2>5. f \in [T -> U]
    <3> SUFFICES ASSUME NEW r \in T PROVE n + r \in U
      OBVIOUS
    <3>1. r \in B /\ r \in 0 .. m /\ r < q
      BY <1>1
    <3>2. n + r \in S
      BY <1>2, <3>1
    <3>3. n <= n + r /\ n + r < n + q
      BY <1>1, <2>1, <3>1
    <3> QED BY <3>2, <3>3
  <2>6. ASSUME NEW r \in T, NEW s \in T, f[r] = f[s] PROVE r = s
    <3>1. r \in Nat /\ s \in Nat /\ n + r = n + s
      BY <1>1, <2>6
    <3> QED BY <1>1, <3>1
  <2>7. ASSUME NEW u \in U PROVE \E r \in T : f[r] = u
    <3>1. u \in S /\ u \in 0 .. n + m /\ n <= u /\ u < n + q
      BY <1>2
    <3>2. u - n \in 0 .. m /\ n + (u - n) = u /\ u - n < q
      BY <1>1, <2>1, <3>1
    <3>3. u - n \in B
      BY <1>2, <3>1, <3>2
    <3>4. u - n \in T /\ f[u - n] = u
      BY <3>2, <3>3
    <3> QED BY <3>4
  <2>8. f \in Bijection(T, U)
    <3> HIDE DEF f, T, U
    <3>1. f \in Injection(T, U)
      <4>1. DOMAIN f = T
        BY <2>5
      <4> QED BY <2>5, <2>6, <4>1 DEF Injection, IsInjective
    <3>2. f \in Surjection(T, U)
      BY <2>5, <2>7 DEF Surjection
    <3> QED BY <3>1, <3>2 DEF Bijection
  <2>9. Cardinality(U) = Cardinality(T)
    <3> HIDE DEF f, T, U
    <3>1. ExistsBijection(T, U)
      BY <2>8 DEF ExistsBijection
    <3> QED BY <2>4, <3>1, FS_Bijection
  <2>10. From(S, n, n + q) = Rank(B, q)
    BY <2>9 DEF From, Rank
  <2> QED BY <2>2, <2>3, <2>10
<1>5. \A p \in A : Rank(S, p) = Rank(A, p)
  BY <1>1, <1>3
<1> QED BY <1>4, <1>5 DEF n, A, B, S

LEMMA JoinDecodes ==
    ASSUME NEW x \in Seq(Bytes), NEW y \in Seq(Bytes), Readable(x), Readable(y)
    PROVE  /\ x \o y \in Seq(Bytes) /\ Readable(x \o y)
           /\ Decode(x \o y) = Decode(x) \o Decode(y)
<1> DEFINE t == x \o y
           n == Len(x)
           m == Len(y)
           c == Decode(x)
           d == Decode(y)
           k == Rank(Starts(x), n)
           l == Rank(Starts(y), m)
<1>1. /\ n \in Nat /\ m \in Nat /\ t \in Seq(Bytes) /\ Len(t) = n + m
      /\ \A i \in 1 .. n + m : t[i] = IF i <= n THEN x[i] ELSE y[i - n]
  BY ConcatProperties
<1>2. n \in Starts(x) /\ m \in Starts(y) /\ Starts(x) \subseteq 0 .. n /\ Starts(y) \subseteq 0 .. m
  BY <1>1, StartsType DEF Readable
<1>3. Readable(t)
  <2>1. n + m \in Starts(t)
    <3>1. m \in 0 .. m
      BY <1>1
    <3> QED BY <1>2, <3>1, JoinStarts
  <2> QED BY <1>1, <2>1 DEF Readable
<1>4. /\ c \in Seq(Chars) /\ Len(c) = k /\ k \in Nat
      /\ d \in Seq(Chars) /\ Len(d) = l /\ l \in Nat
  BY DecodeIs, RankOfChar
<1>5. /\ c \o d \in Seq(Chars) /\ Len(c \o d) = k + l
      /\ \A i \in 1 .. k + l : (c \o d)[i] = IF i <= k THEN c[i] ELSE d[i - k]
  <2> HIDE DEF c, d, k, l
  <2> QED BY <1>4, ConcatProperties
<1>6. Rank(Starts(t), n + m) = k + l
  BY <1>2, JoinRanks
<1>7. ASSUME NEW p \in Starts(t), p < n + m
      PROVE  (c \o d)[Rank(Starts(t), p) + 1] = t[p + 1][1]
  <2>1. p \in 0 .. n + m
    BY <1>1 DEF Starts
  <2>2. CASE p < n
    <3>1. p \in 0 .. n
      BY <1>1, <2>1, <2>2
    <3>2. p \in Starts(x)
      BY <3>1, JoinStarts
    <3> DEFINE r == Rank(Starts(x), p) + 1
    <3>3. Rank(Starts(t), p) + 1 = r
      BY <3>2, JoinRanks
    <3>4. r \in 1 .. k /\ c[r] = x[p + 1][1]
      BY <2>2, <3>2, DecodeIs, RankOfChar
    <3>5. t[p + 1] = x[p + 1]
      <4>1. p + 1 \in 1 .. n + m /\ p + 1 <= n
        BY <1>1, <2>2, <3>1
      <4> QED BY <1>1, <4>1
    <3> HIDE DEF r, c, d, k, l, t
    <3>6. (c \o d)[r] = c[r]
      BY <1>4, <1>5, <3>4
    <3> QED BY <3>3, <3>4, <3>5, <3>6
  <2>3. CASE p >= n
    <3> DEFINE q == p - n
    <3>1. q \in 0 .. m /\ p = n + q /\ q < m
      BY <1>1, <1>7, <2>1, <2>3
    <3>2. q \in Starts(y)
      <4> HIDE DEF q
      <4> QED BY <3>1, JoinStarts
    <3> DEFINE r == Rank(Starts(y), q) + 1
    <3>3. Rank(Starts(t), p) = k + Rank(Starts(y), q)
      <4> HIDE DEF q
      <4> QED BY <3>1, <3>2, JoinRanks
    <3>4. r \in 1 .. l /\ d[r] = y[q + 1][1]
      <4> HIDE DEF q
      <4> QED BY <3>1, <3>2, DecodeIs, RankOfChar
    <3>5. t[p + 1] = y[q + 1]
      <4>1. p + 1 \in 1 .. n + m /\ ~(p + 1 <= n) /\ (p + 1) - n = q + 1
        BY <1>1, <3>1, <2>3
      <4> QED BY <1>1, <4>1
    <3>6. Rank(Starts(y), q) \in Nat
      <4> HIDE DEF q
      <4> QED BY <1>1, <1>2, RankNat
    <3>7. Rank(Starts(t), p) + 1 = k + r
      <4> HIDE DEF k, q
      <4> QED BY <1>4, <3>3, <3>6
    <3> HIDE DEF r, c, d, k, l, t, q
    <3>8. (c \o d)[k + r] = d[r]
      <4>1. k + r \in 1 .. k + l /\ ~(k + r <= k) /\ (k + r) - k = r
        BY <1>4, <3>4
      <4> QED BY <1>5, <4>1
    <3> QED BY <3>4, <3>5, <3>7, <3>8
  <2>4. p < n \/ p >= n
    <3> HIDE DEF n, m
    <3> QED BY <1>1, <2>1
  <2> QED BY <2>2, <2>3, <2>4
<1>8. c \o d = Decode(t)
  <2> HIDE DEF t, c, d, k, l
  <2>1. Len(c \o d) = Rank(Starts(t), Len(t))
    BY <1>1, <1>5, <1>6
  <2>2. \A p \in Starts(t) : p < Len(t) => (c \o d)[Rank(Starts(t), p) + 1] = t[p + 1][1]
    BY <1>1, <1>7
  <2> QED BY <1>1, <1>3, <1>5, <2>1, <2>2, DecodeOnly
<1> QED BY <1>1, <1>3, <1>8

LEMMA EmptyDecodes == <<>> \in Seq(Bytes) /\ Readable(<<>>) /\ Decode(<<>>) = <<>>
<1>1. <<>> \in Seq(Bytes) /\ Len(<<>>) = 0
  BY EmptySeq
<1>2. 0 \in Starts(<<>>)
  BY <1>1, StartsType
<1>3. Readable(<<>>)
  BY <1>1, <1>2 DEF Readable
<1>4. Decode(<<>>) \in Seq(Chars) /\ Len(Decode(<<>>)) = Rank(Starts(<<>>), 0)
  BY <1>1, <1>3, DecodeIs, RankOfChar
<1>5. Rank(Starts(<<>>), 0) = 0
  <2>1. {q \in Starts(<<>>) : q < 0} = {}
    <3>1. Starts(<<>>) \subseteq 0 .. 0
      BY <1>1, StartsType
    <3> QED BY <3>1
  <2> QED BY <2>1, FS_EmptySet DEF Rank
<1> QED BY <1>1, <1>3, <1>4, <1>5, EmptySeq

\* The bytes of one character.
LEMMA OneDecodes ==
    ASSUME NEW u \in Seq(Bytes), Len(u) > 0, Mblen(u, 0) = Len(u)
    PROVE  Readable(u) /\ u[1][1] \in Chars /\ Decode(u) = <<u[1][1]>>
<1> DEFINE S == Starts(u)
           n == Len(u)
           c == u[1][1]
<1>1. n \in Nat /\ n > 0 /\ S \subseteq 0 .. n /\ 0 \in S
  BY StartsType
<1>2. n \in S /\ Readable(u)
  <2>1. 0 + Mblen(u, 0) \in S
    BY <1>1, NextStart
  <2> QED BY <1>1, <2>1 DEF Readable
<1>3. ASSUME NEW p \in S, p > 0 PROVE p = n
  <2>1. 0 \in 0 .. p - 1 /\ p \in 0 .. n
    BY <1>1, <1>3
  <2>2. 0 + Mblen(u, 0) <= p
    BY <2>1, NotInside
  <2> QED BY <1>1, <2>1, <2>2
<1>4. Rank(S, 0) = 0
  <2>1. {q \in S : q < 0} = {}
    BY <1>1
  <2> QED BY <2>1, FS_EmptySet DEF Rank
<1>5. c \in Chars
  <2>1. 0 \in 0 .. Len(u) - 1 /\ Mblen(u, 0) > 0
    BY <1>1
  <2>2. u[0 + 1][1] \in Chars
    BY <2>1, MblenIs
  <2> QED BY <2>2
<1>6. Rank(S, n) = 1
  <2>1. \A q \in S : q <= 0 \/ q >= n
    BY <1>1, <1>3
  <2> HIDE DEF S, n
  <2>2. Rank(S, n) = Rank(S, 0) + 1
    BY <1>1, <1>2, <2>1, RankNext
  <2> QED BY <1>4, <2>2
<1>7. <<c>> \in Seq(Chars) /\ Len(<<c>>) = Rank(S, n)
  BY <1>5, <1>6
<1>8. ASSUME NEW p \in S, p < n PROVE <<c>>[Rank(S, p) + 1] = u[p + 1][1]
  <2>1. p = 0
    BY <1>1, <1>3, <1>8
  <2>2. Rank(S, p) + 1 = 1
    BY <1>4, <2>1
  <2> QED BY <2>1, <2>2
<1>9. <<c>> = Decode(u)
  BY <1>2, <1>7, <1>8, DecodeOnly
<1> QED BY <1>2, <1>5, <1>9

\* The characters before and behind an offset.
Ahead(text, at) == Decode(SubSeq(text, 1, at))
Behind(text, at) == Decode(SubSeq(text, at + 1, Len(text)))

LEMMA CutReadable ==
    ASSUME NEW text \in Seq(Bytes), Readable(text), NEW p \in Starts(text)
    PROVE  /\ Readable(SubSeq(text, 1, p)) /\ Readable(SubSeq(text, p + 1, Len(text)))
           /\ SubSeq(text, 1, p) \o SubSeq(text, p + 1, Len(text)) = text
<1> DEFINE a == SubSeq(text, 1, p)
           b == SubSeq(text, p + 1, Len(text))
           n == Len(text)
<1>1. n \in Nat /\ p \in 0 .. n /\ n \in Starts(text)
  BY DEF Starts, Readable
<1>2. a \in Seq(Bytes) /\ Len(a) = p /\ b \in Seq(Bytes) /\ Len(b) = n - p
  BY <1>1, Parts
<1>3. a \o b = text
  <2>1. 1 \in 1 .. n + 1 /\ p \in 1 - 1 .. n /\ n \in p .. n
    BY <1>1
  <2>2. SubSeq(text, 1, p) \o SubSeq(text, p + 1, n) = SubSeq(text, 1, n)
    BY <2>1, ConcatAdjacentSubSeq
  <2> QED BY <2>2, SubSeqFull
<1>4. Readable(a)
  <2>1. Starts(a) = Starts(text) \cap (0 .. p)
    BY <1>1, PrefixStarts
  <2>2. p \in Starts(a)
    BY <1>1, <2>1
  <2> QED BY <1>2, <2>2 DEF Readable
<1>5. Readable(b)
  <2>1. n - p \in 0 .. Len(b) /\ p + (n - p) = n
    BY <1>1, <1>2
  <2>2. n - p \in Starts(b)
    <3> HIDE DEF a, b
    <3>1. Len(a) + (n - p) \in Starts(a \o b)
      BY <1>1, <1>2, <1>3, <2>1
    <3> QED BY <1>2, <1>4, <2>1, <3>1, JoinStarts
  <2> QED BY <1>2, <2>2 DEF Readable
<1> QED BY <1>3, <1>4, <1>5

LEMMA AheadAndBehind ==
    ASSUME NEW text \in Seq(Bytes), Readable(text), NEW p \in Starts(text)
    PROVE  /\ Ahead(text, p) \in Seq(Chars) /\ Behind(text, p) \in Seq(Chars)
           /\ Ahead(text, p) \o Behind(text, p) = Decode(text)
<1> DEFINE a == SubSeq(text, 1, p)
           b == SubSeq(text, p + 1, Len(text))
<1>1. Readable(a) /\ Readable(b) /\ a \o b = text
  BY CutReadable
<1>2. a \in Seq(Bytes) /\ b \in Seq(Bytes)
  <2>1. p \in 0 .. Len(text)
    BY DEF Starts
  <2> QED BY <2>1, Parts
<1> HIDE DEF a, b
<1>3. Decode(a) \in Seq(Chars) /\ Decode(b) \in Seq(Chars)
      /\ Decode(a) \o Decode(b) = Decode(text)
  BY <1>1, <1>2, JoinDecodes, DecodeIs
<1> QED BY <1>3 DEF a, b, Ahead, Behind

LEMMA AtEnds ==
    ASSUME NEW text \in Seq(Bytes), Readable(text)
    PROVE  /\ Ahead(text, 0) = <<>> /\ Behind(text, 0) = Decode(text)
           /\ Ahead(text, Len(text)) = Decode(text) /\ Behind(text, Len(text)) = <<>>
<1>1. Len(text) \in Nat
  OBVIOUS
<1>2. SubSeq(text, 1, 0) = <<>> /\ SubSeq(text, Len(text) + 1, Len(text)) = <<>>
  BY <1>1, SubSeqEmpty
<1>3. SubSeq(text, 0 + 1, Len(text)) = text /\ SubSeq(text, 1, Len(text)) = text
  BY SubSeqFull
<1> QED BY <1>2, <1>3, EmptyDecodes DEF Ahead, Behind

\* Over a character.
LEMMA OverChar ==
    ASSUME NEW text \in Seq(Bytes), Readable(text), NEW p \in Starts(text), NEW r \in Starts(text),
           p < r, r = p + Mblen(text, p)
    PROVE  \E c \in Chars : /\ Ahead(text, r) = Append(Ahead(text, p), c)
                            /\ Behind(text, p) = <<c>> \o Behind(text, r)
<1> DEFINE n == Len(text)
           u == SubSeq(text, p + 1, r)
           a == SubSeq(text, 1, p)
           b == SubSeq(text, r + 1, n)
           c == u[1][1]
<1>1. n \in Nat /\ p \in 0 .. n - 1 /\ r \in 0 .. n /\ p + 1 <= r
  BY DEF Starts
<1>2. u \in Seq(Bytes) /\ Len(u) = r - p /\ \A i \in 1 .. r - p : u[i] = text[p + i]
  <2>1. \A i \in p + 1 .. r : text[i] \in Bytes
    BY <1>1
  <2>2. /\ u \in Seq(Bytes)
        /\ Len(u) = IF p + 1 <= r THEN r - (p + 1) + 1 ELSE 0
        /\ \A i \in 1 .. r - (p + 1) + 1 : u[i] = text[(p + 1) + i - 1]
    BY <1>1, <2>1, SubSeqProperties
  <2>3. r - (p + 1) + 1 = r - p
    BY <1>1
  <2>4. \A i \in 1 .. r - p : (p + 1) + i - 1 = p + i
    BY <1>1
  <2> HIDE DEF u
  <2> QED BY <1>1, <2>2, <2>3, <2>4
<1>3. Mblen(u, 0) = r - p /\ Len(u) > 0
  <2>1. Mblen(text, p) = r - p /\ Mblen(text, p) > 0
    <3>1. Mblen(text, p) \in Nat
      BY <1>1, MblenIs
    <3> QED BY <1>1, <3>1
  <2>2. /\ text[p + 1] = <<text[p + 1][1], 1>> /\ Width[text[p + 1][1]] = r - p
        /\ \A i \in 2 .. r - p : text[p + i][2] > 1
    BY <1>1, <2>1, MblenIs
  <2>3. u[0 + 1] = text[p + 1]
    <3>1. 1 \in 1 .. r - p
      BY <1>1
    <3> QED BY <1>2, <3>1
  <2>4. \A i \in 2 .. r - p : u[0 + i] = text[p + i]
    <3> TAKE i \in 2 .. r - p
    <3>1. i \in 1 .. r - p /\ 0 + i = i
      BY <1>1
    <3> QED BY <1>2, <3>1
  <2>5. u[0 + 1][2] = 1 /\ Width[u[0 + 1][1]] = r - p
    <3>1. ASSUME NEW v, NEW k, v = <<k, 1>> PROVE v[2] = 1
      BY <3>1
    <3>2. text[p + 1][2] = 1
      BY <2>2, <3>1
    <3> HIDE DEF u
    <3> QED BY <2>2, <2>3, <3>2
  <2>6. 0 + (r - p) <= Len(u)
    BY <1>1, <1>2
  <2>7. \A i \in 2 .. r - p : u[0 + i][2] > 1
    BY <2>2, <2>4
  <2>8. /\ 0 + Width[u[0 + 1][1]] <= Len(u)
        /\ \A i \in 2 .. Width[u[0 + 1][1]] : u[0 + i][2] > 1
    BY <2>5, <2>6, <2>7
  <2> HIDE DEF u
  <2>9. Mblen(u, 0) = Width[u[0 + 1][1]]
    BY <2>5, <2>8, Zenon DEF Mblen
  <2>10. Len(u) > 0
    BY <1>1, <1>2
  <2> QED BY <2>5, <2>9, <2>10
<1>4. Readable(u) /\ c \in Chars /\ Decode(u) = <<c>>
  <2> HIDE DEF u
  <2>1. Mblen(u, 0) = Len(u)
    BY <1>2, <1>3
  <2> QED BY <1>2, <1>3, <2>1, OneDecodes
<1>5. /\ a \in Seq(Bytes) /\ Readable(a) /\ Decode(a) \in Seq(Chars)
      /\ b \in Seq(Bytes) /\ Readable(b) /\ Decode(b) \in Seq(Chars)
  <2>1. Readable(a) /\ Readable(b)
    BY CutReadable
  <2>2. p \in 0 .. n
    BY <1>1
  <2>3. a \in Seq(Bytes) /\ b \in Seq(Bytes)
    BY <1>1, <2>2, Parts
  <2> QED BY <2>1, <2>3, DecodeIs
<1>6. a \o u = SubSeq(text, 1, r) /\ u \o b = SubSeq(text, p + 1, n)
  <2>1. 1 \in 1 .. n + 1 /\ p \in 1 - 1 .. n /\ r \in p .. n
    BY <1>1
  <2>2. p + 1 \in 1 .. n + 1 /\ r \in (p + 1) - 1 .. n /\ n \in r .. n
    BY <1>1
  <2> QED BY <2>1, <2>2, ConcatAdjacentSubSeq
<1> HIDE DEF a, u, b, c
<1>7. Decode(a \o u) = Decode(a) \o <<c>> /\ Decode(u \o b) = <<c>> \o Decode(b)
  <2>1. u \in Seq(Bytes)
    BY <1>2
  <2>2. Decode(a \o u) = Decode(a) \o Decode(u) /\ Decode(u \o b) = Decode(u) \o Decode(b)
    BY <1>4, <1>5, <2>1, JoinDecodes
  <2> QED BY <1>4, <2>2, Zenon
<1>8. Append(Decode(a), c) = Decode(a) \o <<c>>
  BY <1>4, <1>5, AppendIsConcat
<1>9. Ahead(text, r) = Append(Ahead(text, p), c) /\ Behind(text, p) = <<c>> \o Behind(text, r)
  BY <1>6, <1>7, <1>8 DEF a, b, Ahead, Behind
<1> QED BY <1>4, <1>9

LEMMA PrevIs ==
    ASSUME NEW text \in Seq(Bytes), NEW c \in Starts(text)
    PROVE  /\ c = 0 => PrevChar(text, c) = 0
           /\ c > 0 => LET s == PrevChar(text, c) IN
                       s \in Starts(text) /\ s < c /\ c = s + Mblen(text, s)
<1> DEFINE ahead == {p \in Starts(text) : p < c /\ Mblen(text, p) > 0}
<1>1. Starts(text) \subseteq 0 .. Len(text) /\ Len(text) \in Nat /\ c \in Nat
  BY StartsType
<1>2. PrevChar(text, c) = IF ahead = {} THEN 0 ELSE Max(ahead)
  BY DEF PrevChar
<1>3. ASSUME c = 0 PROVE ahead = {}
  BY <1>1, <1>3
<1>4. ASSUME c > 0
      PROVE  \E s \in Starts(text) : ahead # {} /\ Max(ahead) = s /\ s < c /\ c = s + Mblen(text, s)
  <2>1. PICK q \in Starts(text) : q < c /\ q + Mblen(text, q) = c
    BY <1>4, LastStart
  <2>2. q \in 0 .. Len(text) - 1 /\ q \in 0 .. c - 1 /\ q \in Nat
    BY <1>1, <2>1
  <2>3. Mblen(text, q) \in Nat
    BY <2>2, MblenIs
  <2>4. q \in ahead
    BY <1>1, <2>1, <2>2, <2>3
  <2>5. ASSUME NEW m \in ahead PROVE m <= q
    <3>1. m \in Starts(text) /\ m \in Nat /\ m < c
      BY <1>1
    <3> SUFFICES ASSUME m > q PROVE FALSE
      BY <2>2, <3>1
    <3>2. q \in 0 .. m - 1
      BY <2>2, <3>1
    <3>3. q + Mblen(text, q) <= m
      BY <3>1, <3>2, NotInside
    <3> QED BY <1>1, <2>1, <3>1, <3>3
  <2>6. ahead \subseteq 0 .. Len(text) /\ ahead # {}
    BY <1>1, <2>4
  <2> HIDE DEF ahead
  <2> DEFINE x == Max(ahead)
  <2>7. x \in ahead /\ \A y \in ahead : y <= x
    BY <1>1, <2>6, MaxIs
  <2> HIDE DEF x
  <2>8. x <= q /\ q <= x /\ x \in Nat
    BY <1>1, <2>4, <2>5, <2>6, <2>7
  <2>9. x = q
    BY <2>2, <2>8
  <2> QED BY <2>1, <2>6, <2>9 DEF x
<1> HIDE DEF ahead
<1>5. c > 0 => LET s == PrevChar(text, c) IN
               s \in Starts(text) /\ s < c /\ c = s + Mblen(text, s)
  BY <1>2, <1>4
<1>6. c = 0 => PrevChar(text, c) = 0
  BY <1>2, <1>3
<1> QED BY <1>5, <1>6

LEMMA NextIs ==
    ASSUME NEW text \in Seq(Bytes), Readable(text), NEW c \in Starts(text)
    PROVE  /\ c = Len(text) => NextChar(text, c) = c
           /\ c < Len(text) => LET s == NextChar(text, c) IN
                               s \in Starts(text) /\ c < s /\ s = c + Mblen(text, c)
<1> DEFINE behind == {p \in Starts(text) : p > c}
           n == Len(text)
<1>1. Starts(text) \subseteq 0 .. n /\ n \in Nat /\ c \in Nat /\ n \in Starts(text) /\ c <= n
  BY StartsType DEF Readable
<1>2. NextChar(text, c) = IF behind = {} THEN Max(Starts(text)) ELSE Min(behind)
  BY DEF NextChar
<1>3. ASSUME c = n PROVE NextChar(text, c) = c
  <2>1. behind = {}
    BY <1>1, <1>3
  <2>2. Max(Starts(text)) = n
    BY RankOfChar
  <2> HIDE DEF behind, n
  <2> QED BY <1>2, <1>3, <2>1, <2>2
<1>4. ASSUME c < n
      PROVE  \E s \in Starts(text) : NextChar(text, c) = s /\ c < s /\ s = c + Mblen(text, c)
  <2> DEFINE q == c + Mblen(text, c)
  <2>1. c \in 0 .. n - 1
    BY <1>1, <1>4
  <2>2. q \in Starts(text) /\ Mblen(text, c) \in Nat
    BY <1>4, NextStart
  <2>3. Mblen(text, c) > 0
    <3> SUFFICES ASSUME Mblen(text, c) = 0 PROVE FALSE
      BY <2>2
    <3>1. n <= c
      BY <1>1, <1>4, NothingBehind
    <3> QED BY <1>1, <1>4, <3>1
  <2>4. q > c /\ q \in Nat
    BY <1>1, <2>2, <2>3
  <2>5. q \in behind
    BY <2>2, <2>4
  <2>6. ASSUME NEW m \in behind PROVE q <= m
    <3>1. m \in Starts(text) /\ m \in Nat /\ m > c
      BY <1>1
    <3>2. c \in 0 .. m - 1
      BY <1>1, <3>1
    <3> QED BY <3>1, <3>2, NotInside
  <2>7. behind \subseteq Nat /\ behind # {}
    BY <1>1, <2>5
  <2> HIDE DEF behind, q
  <2> DEFINE x == Min(behind)
  <2>8. x \in behind /\ \A y \in behind : x <= y
    BY <2>7, MinIs
  <2> HIDE DEF x
  <2>9. x <= q /\ q <= x /\ x \in Nat
    BY <2>5, <2>6, <2>7, <2>8
  <2>10. x = q
    BY <2>4, <2>9
  <2>11. NextChar(text, c) = q
    BY <1>2, <2>7, <2>10 DEF x
  <2> QED BY <2>2, <2>4, <2>11 DEF q
<1> HIDE DEF n
<1>5. c < n => LET s == NextChar(text, c) IN
               s \in Starts(text) /\ c < s /\ s = c + Mblen(text, c)
  BY <1>4
<1> QED BY <1>3, <1>5 DEF n

\* What a key may do to the characters before and after the cursor.
EditsLine(before, after, before2, after2) ==
    \/ before2 = before /\ after2 = after
    \/ \E c \in Chars : before2 = Append(before, c) /\ after2 = after
    \/ \E c \in Chars : before = Append(before2, c) /\ after2 = after
    \/ \E c \in Chars : before = Append(before2, c) /\ after2 = <<c>> \o after
    \/ \E c \in Chars : before2 = Append(before, c) /\ after = <<c>> \o after2
    \/ before2 = <<>> /\ after2 = before \o after
    \/ before2 = before \o after /\ after2 = <<>>
    \/ before2 = <<>> /\ after2 = <<>>

\* KEY_LEFT, KEY_RIGHT, KEY_HOME, KEY_END
LEMMA MovesEdit ==
    ASSUME NEW text \in Seq(Bytes), Readable(text), NEW c \in Starts(text),
           NEW to \in {PrevChar(text, c), NextChar(text, c), 0, Len(text)}
    PROVE  /\ to \in Starts(text)
           /\ EditsLine(Ahead(text, c), Behind(text, c), Ahead(text, to), Behind(text, to))
<1> DEFINE n == Len(text)
<1>1. n \in Nat /\ n \in Starts(text) /\ 0 \in Starts(text) /\ c \in 0 .. n
  BY StartsType DEF Readable
<1>2. Ahead(text, c) \o Behind(text, c) = Decode(text)
  BY AheadAndBehind
<1>3. CASE to = 0
  BY <1>1, <1>2, <1>3, AtEnds DEF EditsLine
<1>4. CASE to = n
  BY <1>1, <1>2, <1>4, AtEnds DEF EditsLine
<1>5. CASE to = PrevChar(text, c) /\ c > 0
  <2>1. to \in Starts(text) /\ to < c /\ c = to + Mblen(text, to)
    BY <1>5, PrevIs
  <2>2. PICK x \in Chars : /\ Ahead(text, c) = Append(Ahead(text, to), x)
                           /\ Behind(text, to) = <<x>> \o Behind(text, c)
    BY <2>1, OverChar
  <2> QED BY <2>1, <2>2 DEF EditsLine
<1>6. CASE to = NextChar(text, c) /\ c < n
  <2>1. to \in Starts(text) /\ c < to /\ to = c + Mblen(text, c)
    BY <1>6, NextIs
  <2>2. PICK x \in Chars : /\ Ahead(text, to) = Append(Ahead(text, c), x)
                           /\ Behind(text, c) = <<x>> \o Behind(text, to)
    BY <2>1, OverChar
  <2> QED BY <2>1, <2>2 DEF EditsLine
<1>7. CASE to = c
  BY <1>7 DEF EditsLine
<1>8. to = PrevChar(text, c) /\ c = 0 => to = 0
  BY PrevIs
<1>9. to = NextChar(text, c) /\ c = n => to = c
  BY NextIs
<1>10. (c > 0 \/ c = 0) /\ (c < n \/ c = n)
  <2> HIDE DEF n
  <2> QED BY <1>1
<1> QED BY <1>3, <1>4, <1>5, <1>6, <1>7, <1>8, <1>9, <1>10

LEMMA Rejoined ==
    ASSUME NEW x \in Seq(Bytes), NEW y \in Seq(Bytes)
    PROVE  /\ x \o y \in Seq(Bytes) /\ Len(x \o y) = Len(x) + Len(y)
           /\ SubSeq(x \o y, 1, Len(x)) = x
           /\ SubSeq(x \o y, Len(x) + 1, Len(x \o y)) = y
<1> DEFINE t == x \o y
           n == Len(x)
           m == Len(y)
<1>1. n \in Nat /\ m \in Nat /\ t \in Seq(Bytes) /\ Len(t) = n + m
      /\ \A i \in 1 .. n + m : t[i] = IF i <= n THEN x[i] ELSE y[i - n]
  BY ConcatProperties
<1> HIDE DEF t
<1>2. n \in 0 .. Len(t) /\ Len(t) - n = m
  BY <1>1
<1>3. /\ SubSeq(t, 1, n) \in Seq(Bytes) /\ Len(SubSeq(t, 1, n)) = n
      /\ \A k \in 1 .. n : SubSeq(t, 1, n)[k] = t[k]
      /\ SubSeq(t, n + 1, Len(t)) \in Seq(Bytes) /\ Len(SubSeq(t, n + 1, Len(t))) = m
      /\ \A k \in 1 .. m : SubSeq(t, n + 1, Len(t))[k] = t[n + k]
  BY <1>1, <1>2, Parts
<1>4. \A k \in 1 .. n : t[k] = x[k]
  BY <1>1
<1>5. \A k \in 1 .. m : t[n + k] = y[k]
  <2> TAKE k \in 1 .. m
  <2>1. n + k \in 1 .. n + m /\ ~(n + k <= n) /\ (n + k) - n = k
    BY <1>1
  <2> QED BY <1>1, <2>1
<1> DEFINE a == SubSeq(t, 1, n)
           b == SubSeq(t, n + 1, Len(t))
<1>6. a \in Seq(Bytes) /\ Len(a) = n /\ \A k \in 1 .. Len(a) : a[k] = x[k]
  BY <1>3, <1>4
<1>7. b \in Seq(Bytes) /\ Len(b) = m /\ \A k \in 1 .. Len(b) : b[k] = y[k]
  BY <1>3, <1>5
<1> HIDE DEF a, b
<1>8. a = x /\ b = y
  BY <1>6, <1>7, SeqEqual
<1> QED BY <1>1, <1>8 DEF a, b, t

LEMMA ErasesChar ==
    ASSUME NEW text \in Seq(Bytes), Readable(text), NEW c \in Starts(text),
           NEW to, to = PrevChar(text, c),
           NEW rest, rest = SubSeq(text, 1, to) \o SubSeq(text, c + 1, Len(text))
    PROVE  /\ rest \in Seq(Bytes)
           /\ Readable(SubSeq(rest, 1, to)) /\ Readable(SubSeq(rest, to + 1, Len(rest)))
           /\ EditsLine(Ahead(text, c), Behind(text, c), Ahead(rest, to), Behind(rest, to))
<1> DEFINE a == SubSeq(text, 1, to)
           b == SubSeq(text, c + 1, Len(text))
<1>1. Len(text) \in Nat /\ c \in 0 .. Len(text) /\ 0 \in Starts(text)
  BY StartsType
<1>2. to \in Starts(text)
  BY <1>1, PrevIs
<1>3. to \in 0 .. Len(text)
  BY <1>2 DEF Starts
<1>4. /\ a \in Seq(Bytes) /\ Len(a) = to /\ b \in Seq(Bytes)
      /\ Readable(a) /\ Readable(b)
  BY <1>1, <1>2, <1>3, Parts, CutReadable
<1>5. /\ rest \in Seq(Bytes)
      /\ SubSeq(rest, 1, to) = a /\ SubSeq(rest, to + 1, Len(rest)) = b
  <2>1. rest = a \o b
    OBVIOUS
  <2>2. Len(a) = to /\ a \in Seq(Bytes) /\ b \in Seq(Bytes)
    BY <1>4
  <2> HIDE DEF a, b
  <2>3. /\ a \o b \in Seq(Bytes) /\ SubSeq(a \o b, 1, Len(a)) = a
        /\ SubSeq(a \o b, Len(a) + 1, Len(a \o b)) = b
    BY <2>2, Rejoined
  <2> QED BY <2>1, <2>2, <2>3, Zenon
<1>6. Ahead(rest, to) = Ahead(text, to) /\ Behind(rest, to) = Behind(text, c)
  BY <1>5 DEF Ahead, Behind
<1>7. CASE c = 0
  <2>1. to = c
    BY <1>7, PrevIs
  <2> QED BY <1>4, <1>5, <1>6, <2>1 DEF EditsLine
<1>8. CASE c > 0
  <2>1. to < c /\ c = to + Mblen(text, to)
    BY <1>8, PrevIs
  <2>2. PICK x \in Chars : Ahead(text, c) = Append(Ahead(text, to), x)
    BY <1>2, <2>1, OverChar
  <2>3. EditsLine(Ahead(text, c), Behind(text, c), Ahead(rest, to), Behind(rest, to))
    BY <1>6, <2>2 DEF EditsLine
  <2> QED BY <1>4, <1>5, <2>3
<1>9. c = 0 \/ c > 0
  BY <1>1
<1> HIDE DEF a, b
<1> QED BY <1>7, <1>8, <1>9

TypedAt(text, c, byte) == SubSeq(text, 1, c) \o <<byte>> \o SubSeq(text, c + 1, Len(text))
HasBytes(text, at, ch, k) == \A i \in 1 .. k : text[at + i] = <<ch, i>>

\* A byte is typed behind k bytes of a character ch that is not complete.
LEMMA TypesByte ==
    ASSUME NEW text \in Seq(Bytes), NEW c \in 0 .. Len(text),
           NEW ch \in Chars, NEW k \in 0 .. Width[ch] - 1, k <= c,
           HasBytes(text, c - k, ch, k),
           NEW longer, longer = TypedAt(text, c, <<ch, k + 1>>)
    PROVE  /\ longer \in Seq(Bytes)
           /\ SubSeq(longer, (c + 1) + 1, Len(longer)) = SubSeq(text, c + 1, Len(text))
           /\ SubSeq(longer, 1, c - k) = SubSeq(text, 1, c - k)
           /\ HasBytes(longer, c - k, ch, k + 1)
           /\ Len(longer) = Len(text) + 1
<1> DEFINE a == SubSeq(text, 1, c)
           b == SubSeq(text, c + 1, Len(text))
           e == <<ch, k + 1>>
           x == a \o <<e>>
           n == Len(text)
<1>1. n \in Nat /\ c \in Nat /\ k \in Nat /\ c - k \in 0 .. c
  OBVIOUS
<1>2. /\ a \in Seq(Bytes) /\ Len(a) = c /\ \A i \in 1 .. c : a[i] = text[i]
      /\ b \in Seq(Bytes) /\ Len(b) = n - c
  BY Parts
<1>3. e \in Bytes
  <2>1. k + 1 \in 1 .. Width[ch]
    <3>1. Width[ch] \in Nat \ {0}
      BY ByteIs
    <3> QED BY <3>1
  <2> QED BY <2>1, ByteIs
<1>4. longer = x \o b
  BY DEF TypedAt
<1> HIDE DEF a, b, e
<1>5. /\ x \in Seq(Bytes) /\ Len(x) = c + 1
      /\ (\A i \in 1 .. c : x[i] = a[i]) /\ x[c + 1] = e
  <2>1. <<e>> \in Seq(Bytes) /\ Len(<<e>>) = 1 /\ <<e>>[1] = e
    BY <1>3
  <2>2. /\ x \in Seq(Bytes) /\ Len(x) = Len(a) + 1
        /\ \A i \in 1 .. Len(a) + 1 : x[i] = IF i <= Len(a) THEN a[i] ELSE <<e>>[i - Len(a)]
    BY <1>2, <2>1, ConcatProperties
  <2> HIDE DEF x
  <2>3. \A i \in 1 .. c : x[i] = a[i]
    BY <1>1, <1>2, <2>2
  <2>4. x[c + 1] = <<e>>[(c + 1) - c]
    <3>1. c + 1 \in 1 .. Len(a) + 1 /\ ~(c + 1 <= Len(a))
      BY <1>1, <1>2
    <3> QED BY <1>2, <2>2, <3>1
  <2>5. (c + 1) - c = 1
    BY <1>1
  <2> QED BY <1>2, <2>1, <2>2, <2>3, <2>4, <2>5
<1> HIDE DEF x
<1>6. /\ longer \in Seq(Bytes) /\ Len(longer) = (c + 1) + (n - c)
      /\ SubSeq(longer, (c + 1) + 1, Len(longer)) = b
      /\ SubSeq(longer, 1, c + 1) = x
  <2>1. /\ x \o b \in Seq(Bytes) /\ Len(x \o b) = Len(x) + Len(b)
        /\ SubSeq(x \o b, Len(x) + 1, Len(x \o b)) = b
        /\ SubSeq(x \o b, 1, Len(x)) = x
    BY <1>2, <1>5, Rejoined
  <2>2. Len(x) = c + 1 /\ Len(b) = n - c
    BY <1>2, <1>5
  <2> QED BY <1>4, <2>1, <2>2, Zenon
<1>7. Len(longer) = n + 1
  BY <1>1, <1>6
<1>8. \A i \in 1 .. c + 1 : longer[i] = x[i]
  <2>1. c + 1 \in 0 .. Len(longer)
    BY <1>1, <1>7
  <2>2. \A i \in 1 .. c + 1 : SubSeq(longer, 1, c + 1)[i] = longer[i]
    BY <1>6, <2>1, Parts
  <2> QED BY <1>6, <2>2
<1>9. SubSeq(longer, 1, c - k) = SubSeq(text, 1, c - k)
  <2> DEFINE u == SubSeq(longer, 1, c - k)
             v == SubSeq(text, 1, c - k)
  <2>0. c - k \in 0 .. n /\ c - k \in 0 .. n + 1
    BY <1>1
  <2>1. c - k \in 0 .. Len(longer) /\ c - k \in 0 .. n
    BY <1>7, <2>0, Zenon
  <2>2. u \in Seq(Bytes) /\ Len(u) = c - k /\ \A i \in 1 .. c - k : u[i] = longer[i]
    BY <1>6, <2>1, Parts
  <2>3. v \in Seq(Bytes) /\ Len(v) = c - k /\ \A i \in 1 .. c - k : v[i] = text[i]
    BY <2>1, Parts
  <2>4. \A i \in 1 .. c - k : longer[i] = text[i]
    <3> TAKE i \in 1 .. c - k
    <3>1. i \in 1 .. c /\ i \in 1 .. c + 1
      BY <1>1
    <3> QED BY <1>2, <1>5, <1>8, <3>1
  <2> HIDE DEF u, v
  <2>5. \A i \in 1 .. Len(u) : u[i] = v[i]
    BY <2>2, <2>3, <2>4
  <2>6. u = v
    BY <2>2, <2>3, <2>5, SeqEqual
  <2> QED BY <2>6 DEF u, v
<1>10. ASSUME NEW i \in 1 .. k + 1 PROVE longer[c - k + i] = <<ch, i>>
  <2>1. CASE i <= k
    <3>1. i \in 1 .. k /\ c - k + i \in 1 .. c /\ c - k + i \in 1 .. c + 1
      BY <1>1, <2>1
    <3>2. text[c - k + i] = <<ch, i>>
      BY <3>1 DEF HasBytes
    <3> QED BY <1>2, <1>5, <1>8, <3>1, <3>2
  <2>2. CASE i = k + 1
    <3>1. c - k + i = c + 1 /\ c + 1 \in 1 .. c + 1
      BY <1>1, <2>2
    <3>2. longer[c + 1] = <<ch, k + 1>>
      BY <1>5, <1>8, <3>1 DEF e
    <3> QED BY <2>2, <3>1, <3>2, Zenon
  <2>3. i <= k \/ i = k + 1
    BY <1>1
  <2> QED BY <2>1, <2>2, <2>3
<1>11. HasBytes(longer, c - k, ch, k + 1)
  BY <1>10 DEF HasBytes
<1> QED BY <1>6, <1>7, <1>9, <1>11 DEF b

\* All of the bytes of a character are there.
LEMMA CompletesChar ==
    ASSUME NEW text \in Seq(Bytes), NEW c \in 0 .. Len(text), NEW ch \in Chars,
           NEW w, w = Width[ch], w <= c,
           HasBytes(text, c - w, ch, w),
           Readable(SubSeq(text, 1, c - w))
    PROVE  Readable(SubSeq(text, 1, c)) /\ Ahead(text, c) = Append(Ahead(text, c - w), ch)
<1> DEFINE a == SubSeq(text, 1, c - w)
           u == SubSeq(text, (c - w) + 1, c)
<1>1. w \in Nat \ {0} /\ Len(text) \in Nat /\ c - w \in 0 .. c
  BY ByteIs
<1>2. a \in Seq(Bytes) /\ Readable(a)
  <2>1. c - w \in 0 .. Len(text)
    BY <1>1
  <2> QED BY <2>1, Parts
<1>3. u \in Seq(Bytes) /\ Len(u) = w /\ \A i \in 1 .. w : u[i] = <<ch, i>>
  <2>1. \A i \in (c - w) + 1 .. c : text[i] \in Bytes
    BY <1>1
  <2>2. (c - w) + 1 \in Int /\ c \in Int /\ (c - w) + 1 <= c
    BY <1>1
  <2>3. /\ u \in Seq(Bytes)
        /\ Len(u) = IF (c - w) + 1 <= c THEN c - ((c - w) + 1) + 1 ELSE 0
        /\ \A i \in 1 .. c - ((c - w) + 1) + 1 : u[i] = text[((c - w) + 1) + i - 1]
    BY <2>1, <2>2, SubSeqProperties
  <2>4. c - ((c - w) + 1) + 1 = w
    BY <1>1
  <2>5. \A i \in 1 .. w : ((c - w) + 1) + i - 1 = c - w + i
    BY <1>1
  <2>6. \A i \in 1 .. w : text[c - w + i] = <<ch, i>>
    BY DEF HasBytes
  <2> HIDE DEF u
  <2> QED BY <2>2, <2>3, <2>4, <2>5, <2>6
<1>4. a \o u = SubSeq(text, 1, c)
  <2>1. 1 \in 1 .. Len(text) + 1 /\ c - w \in 1 - 1 .. Len(text) /\ c \in c - w .. Len(text)
    BY <1>1
  <2> QED BY <2>1, ConcatAdjacentSubSeq
<1> HIDE DEF a, u
<1>5. Mblen(u, 0) = w
  <2>1. 1 \in 1 .. w
    BY <1>1
  <2>2. u[0 + 1] = <<ch, 1>>
    BY <1>3, <2>1
  <2>3. u[0 + 1][2] = 1 /\ Width[u[0 + 1][1]] = w
    BY <2>2
  <2>4. 0 + w <= Len(u)
    BY <1>1, <1>3
  <2>5. \A i \in 2 .. w : u[0 + i][2] > 1
    <3> TAKE i \in 2 .. w
    <3>1. i \in 1 .. w /\ 0 + i = i
      BY <1>1
    <3>2. u[0 + i] = <<ch, i>>
      BY <1>3, <3>1
    <3> QED BY <3>2
  <2>6. /\ 0 + Width[u[0 + 1][1]] <= Len(u)
        /\ \A i \in 2 .. Width[u[0 + 1][1]] : u[0 + i][2] > 1
    BY <2>3, <2>4, <2>5
  <2>7. Mblen(u, 0) = Width[u[0 + 1][1]]
    BY <2>3, <2>6, Zenon DEF Mblen
  <2> QED BY <2>3, <2>7
<1>6. Readable(u) /\ Decode(u) = <<ch>>
  <2>1. Len(u) > 0 /\ Mblen(u, 0) = Len(u)
    BY <1>1, <1>3, <1>5
  <2>2. Readable(u) /\ Decode(u) = <<u[1][1]>>
    BY <1>3, <2>1, OneDecodes
  <2>3. u[1] = <<ch, 1>>
    <3>1. 1 \in 1 .. w
      BY <1>1
    <3> QED BY <1>3, <3>1
  <2> QED BY <2>2, <2>3
<1>7. Readable(a \o u) /\ Decode(a \o u) = Decode(a) \o <<ch>>
  <2>1. u \in Seq(Bytes)
    BY <1>3
  <2>2. Readable(a \o u) /\ Decode(a \o u) = Decode(a) \o Decode(u)
    BY <1>2, <1>6, <2>1, JoinDecodes
  <2> QED BY <1>6, <2>2, Zenon
<1>8. Append(Decode(a), ch) = Decode(a) \o <<ch>>
  <2>1. Decode(a) \in Seq(Chars)
    BY <1>2, DecodeIs
  <2> QED BY <2>1, AppendIsConcat
<1> QED BY <1>4, <1>7, <1>8 DEF a, Ahead

\* A line that is not garbled has whole characters before and after the bytes of
\* the one that is being typed.
LineReads ==
    ~garbled =>
        /\ Typed <= cursor_index
        /\ Readable(SubSeq(input, 1, cursor_index - Typed))
        /\ Readable(SubSeq(input, cursor_index + 1, Len(input)))
        /\ HasBytes(input, cursor_index - Typed, partly[1], Typed)

\* The editor that is implemented.
Before == IF garbled THEN <<>> ELSE Ahead(input, cursor_index - Typed)
After == IF garbled THEN <<>> ELSE Behind(input, cursor_index)

Edited ==
    \/ ~garbled /\ ~garbled' /\ EditsLine(Before, After, Before', After')
    \/ garbled # garbled' /\ Before' = <<>> /\ After' = <<>>
    \/ garbled /\ garbled'

LEMMA KeyLine ==
    ASSUME LineInv, LineReads, Key, ~garbled
    PROVE  /\ input \in Seq(Bytes) /\ Readable(input) /\ cursor_index \in Starts(input)
           /\ Before = Ahead(input, cursor_index) /\ After = Behind(input, cursor_index)
<1> DEFINE a == SubSeq(input, 1, cursor_index)
           b == SubSeq(input, cursor_index + 1, Len(input))
<1>1. input \in Seq(Bytes) /\ cursor_index \in 0 .. Len(input) /\ Len(input) \in Nat
  BY DEF LineInv
<1>2. cursor_index - Typed = cursor_index
  <2>1. Typed = 0
    BY DEF Typed
  <2> QED BY <1>1, <2>1
<1>3. Readable(a) /\ Readable(b)
  BY <1>2, Zenon DEF LineReads
<1>4. a \in Seq(Bytes) /\ Len(a) = cursor_index /\ b \in Seq(Bytes)
  BY <1>1, Parts
<1>5. a \o b = input
  <2>1. /\ 1 \in 1 .. Len(input) + 1 /\ cursor_index \in 1 - 1 .. Len(input)
        /\ Len(input) \in cursor_index .. Len(input)
    BY <1>1
  <2>2. a \o b = SubSeq(input, 1, Len(input))
    BY <1>1, <2>1, ConcatAdjacentSubSeq
  <2> QED BY <1>1, <2>2, SubSeqFull
<1>6. Readable(input) /\ cursor_index \in Starts(input)
  <2> HIDE DEF a, b
  <2>1. Readable(a \o b) /\ Starts(a \o b) \cap (0 .. Len(a)) = Starts(a)
    BY <1>3, <1>4, JoinDecodes, JoinStarts
  <2>2. Len(a) \in Starts(a)
    BY <1>3 DEF Readable
  <2> QED BY <1>4, <1>5, <2>1, <2>2
<1>7. Before = Ahead(input, cursor_index) /\ After = Behind(input, cursor_index)
  BY <1>2, Zenon DEF Before, After
<1> QED BY <1>1, <1>6, <1>7

\* Between two keys it is enough that the line is readable on both sides.
LEMMA RestReads ==
    ASSUME LineInv', Key', ~garbled',
           Readable(SubSeq(input', 1, cursor_index')),
           Readable(SubSeq(input', cursor_index' + 1, Len(input')))
    PROVE  /\ LineReads'
           /\ Before' = Ahead(input', cursor_index') /\ After' = Behind(input', cursor_index')
<1>1. cursor_index' \in 0 .. Len(input') /\ Len(input') \in Nat
  BY DEF LineInv
<1>2. Typed' = 0 /\ cursor_index' - Typed' = cursor_index' /\ Typed' <= cursor_index'
  <2>1. Typed' = 0
    BY DEF Typed
  <2>2. ASSUME NEW c \in Nat, NEW k, k = 0 PROVE c - k = c /\ k <= c
    BY <2>2
  <2>3. cursor_index' \in Nat
    BY <1>1
  <2> QED BY <2>1, <2>2, <2>3
<1>3. HasBytes(input', cursor_index' - Typed', partly'[1], Typed')
  <2>1. 1 .. Typed' = {}
    BY <1>2
  <2> QED BY <2>1 DEF HasBytes
<1>4. LineReads'
  <2>1. Readable(SubSeq(input', 1, cursor_index' - Typed'))
    BY <1>2, Zenon
  <2> QED BY <1>2, <1>3, <2>1 DEF LineReads
<1>5. Before' = Ahead(input', cursor_index') /\ After' = Behind(input', cursor_index')
  BY <1>2, Zenon DEF Before, After
<1> QED BY <1>4, <1>5

LEMMA EmptyReads ==
    ASSUME LineInv', Key', input' = <<>>
    PROVE  LineReads' /\ Before' = <<>> /\ After' = <<>>
<1>1. cursor_index' = 0
  BY DEF LineInv
<1>2. SubSeq(input', 1, cursor_index') = <<>>
      /\ SubSeq(input', cursor_index' + 1, Len(input')) = <<>>
  <2>1. Len(input') = 0
    OBVIOUS
  <2>2. SubSeq(input', 1, 0) = <<>> /\ SubSeq(input', 0 + 1, 0) = <<>>
    BY SubSeqEmpty
  <2> QED BY <1>1, <2>1, <2>2
<1>3. CASE garbled'
  BY <1>3 DEF LineReads, Before, After
<1>4. CASE ~garbled'
  <2>1. Readable(<<>>) /\ Decode(<<>>) = <<>>
    BY EmptyDecodes
  <2>2. LineReads' /\ Before' = Ahead(input', cursor_index')
        /\ After' = Behind(input', cursor_index')
    BY <1>2, <1>4, <2>1, RestReads
  <2> QED BY <1>2, <2>1, <2>2 DEF Ahead, Behind
<1> QED BY <1>3, <1>4

LEMMA MoveEdits ==
    ASSUME LineInv, LineInv', LineReads, Move
    PROVE  LineReads' /\ Edited
<1>1. PICK to \in {PrevChar(input, cursor_index), NextChar(input, cursor_index), 0, Len(input)} :
          MoveTo(to)
  BY DEF Move
<1>2. /\ Key /\ Key' /\ input' = input /\ garbled' = garbled /\ cursor_index' = to
  BY <1>1 DEF MoveTo, Key
<1>3. CASE garbled
  BY <1>2, <1>3 DEF LineReads, Edited
<1>4. CASE ~garbled
  <2>1. /\ input \in Seq(Bytes) /\ Readable(input) /\ cursor_index \in Starts(input)
        /\ Before = Ahead(input, cursor_index) /\ After = Behind(input, cursor_index)
    BY <1>2, <1>4, KeyLine
  <2>2. /\ to \in Starts(input)
        /\ EditsLine(Ahead(input, cursor_index), Behind(input, cursor_index),
                     Ahead(input, to), Behind(input, to))
    BY <2>1, MovesEdit
  <2>3. Readable(SubSeq(input, 1, to)) /\ Readable(SubSeq(input, to + 1, Len(input)))
    BY <2>1, <2>2, CutReadable
  <2>4. LineReads' /\ Before' = Ahead(input, to) /\ After' = Behind(input, to)
    BY <1>2, <1>4, <2>3, RestReads
  <2> QED BY <1>2, <1>4, <2>1, <2>2, <2>4 DEF Edited
<1> QED BY <1>3, <1>4

LEMMA BackspaceEdits ==
    ASSUME LineInv, LineInv', LineReads, Backspace
    PROVE  LineReads' /\ Edited
<1> DEFINE to == PrevChar(input, cursor_index)
<1>1. /\ Key /\ Key' /\ cursor_index' = to
      /\ input' = SubSeq(input, 1, to) \o SubSeq(input, cursor_index + 1, Len(input))
      /\ garbled' = (input' # <<>> /\ garbled)
      /\ garbled \in BOOLEAN
  BY DEF Backspace, Key, Garbled, LineInv
<1>2. CASE garbled /\ garbled'
  BY <1>2 DEF LineReads, Edited
<1>3. CASE garbled /\ ~garbled'
  <2>1. input' = <<>>
    BY <1>1, <1>3
  <2> QED BY <1>1, <1>3, <2>1, EmptyReads DEF Edited
<1>4. CASE ~garbled
  <2>1. /\ input \in Seq(Bytes) /\ Readable(input) /\ cursor_index \in Starts(input)
        /\ Before = Ahead(input, cursor_index) /\ After = Behind(input, cursor_index)
    BY <1>1, <1>4, KeyLine
  <2>2. /\ Readable(SubSeq(input', 1, to)) /\ Readable(SubSeq(input', to + 1, Len(input')))
        /\ EditsLine(Ahead(input, cursor_index), Behind(input, cursor_index),
                     Ahead(input', to), Behind(input', to))
    BY <1>1, <2>1, ErasesChar
  <2> HIDE DEF to
  <2>3. ~garbled'
    BY <1>1, <1>4
  <2>4. LineReads' /\ Before' = Ahead(input', to) /\ After' = Behind(input', to)
    BY <1>1, <2>2, <2>3, RestReads
  <2> QED BY <1>4, <2>1, <2>2, <2>3, <2>4 DEF Edited
<1> QED BY <1>1, <1>2, <1>3, <1>4

LEMMA EnterEdits ==
    ASSUME LineInv, LineInv', LineReads, Enter
    PROVE  LineReads' /\ Edited
<1>1. Key' /\ input' = <<>> /\ garbled' = FALSE /\ garbled \in BOOLEAN
  BY DEF Enter, Key, LineInv
<1>2. LineReads' /\ Before' = <<>> /\ After' = <<>>
  BY <1>1, EmptyReads
<1>3. EditsLine(Before, After, Before', After')
  BY <1>2 DEF EditsLine
<1> QED BY <1>1, <1>2, <1>3 DEF Edited

\* A byte behind what there is of its character.
LEMMA TypeEdits ==
    ASSUME LineInv, LineInv', LineReads, NEW ch \in Chars, Typed \in 0 .. Width[ch] - 1,
           ~Key => partly[1] = ch,
           Type(<<ch, Typed + 1>>),
           partly' = IF Typed + 1 = Width[ch] THEN Whole ELSE <<ch, Typed + 1>>
    PROVE  LineReads' /\ Edited
<1> DEFINE k == Typed
           c == cursor_index
<1>1. /\ input \in Seq(Bytes) /\ c \in 0 .. Len(input) /\ Len(input) \in Nat
      /\ garbled \in BOOLEAN /\ Width[ch] \in Nat \ {0} /\ k \in Nat
  BY ByteIs DEF LineInv
<1>2. /\ input' = TypedAt(input, c, <<ch, k + 1>>)
      /\ cursor_index' = c + 1
      /\ garbled' = (input' # <<>> /\ (garbled \/ <<ch, k + 1>> = Bad))
  BY DEF Type, Inserted, Garbled, TypedAt
<1>3. <<ch, k + 1>> # Bad /\ <<ch, k + 1>> # Whole
  <2>1. ch # "none"
    BY CharsAssumption
  <2> QED BY <2>1 DEF Bad, Whole
<1>4. input' # <<>> /\ garbled' = garbled
  <2>1. <<ch, k + 1>> \in Bytes
    <3>1. k + 1 \in 1 .. Width[ch]
      BY <1>1
    <3> QED BY <3>1, ByteIs
  <2>2. Len(input') = Len(input) + 1
    BY <1>1, <1>2, <2>1, InsertedType DEF Inserted, TypedAt
  <2>3. input' # <<>>
    <3> SUFFICES ASSUME input' = <<>> PROVE FALSE
      OBVIOUS
    <3>1. Len(input') = 0
      OBVIOUS
    <3> QED BY <1>1, <2>2, <3>1
  <2> QED BY <1>1, <1>2, <1>3, <2>3
<1>5. CASE garbled
  BY <1>4, <1>5 DEF LineReads, Edited
<1>6. CASE ~garbled
  <2>1. /\ k <= c /\ Readable(SubSeq(input, 1, c - k))
        /\ Readable(SubSeq(input, c + 1, Len(input)))
        /\ HasBytes(input, c - k, partly[1], k)
    BY <1>6 DEF LineReads
  <2>2. HasBytes(input, c - k, ch, k)
    <3>1. CASE Key
      <4>1. k = 0
        BY <3>1 DEF Typed
      <4>2. 1 .. k = {}
        BY <4>1
      <4> HIDE DEF k
      <4> QED BY <4>2 DEF HasBytes
    <3>2. CASE ~Key
      BY <2>1, <3>2
    <3> QED BY <3>1, <3>2
  <2> DEFINE longer == input'
  <2>3. /\ longer \in Seq(Bytes)
        /\ SubSeq(longer, (c + 1) + 1, Len(longer)) = SubSeq(input, c + 1, Len(input))
        /\ SubSeq(longer, 1, c - k) = SubSeq(input, 1, c - k)
        /\ HasBytes(longer, c - k, ch, k + 1)
        /\ Len(longer) = Len(input) + 1
    <3>1. /\ input \in Seq(Bytes) /\ c \in 0 .. Len(input)
          /\ k \in 0 .. Width[ch] - 1 /\ k <= c
          /\ HasBytes(input, c - k, ch, k)
          /\ longer = TypedAt(input, c, <<ch, k + 1>>)
      BY <1>1, <1>2, <2>1, <2>2
    <3> HIDE DEF k, c, longer
    <3> QED BY <3>1, TypesByte
  <2>4. Before = Ahead(input, c - k) /\ After = Behind(input, c)
    BY <1>6 DEF Before, After
  <2>5. Behind(longer, c + 1) = Behind(input, c) /\ Ahead(longer, c - k) = Ahead(input, c - k)
    BY <2>3 DEF Behind, Ahead
  <2> HIDE DEF longer
  <2>6. CASE k + 1 = Width[ch]
    <3> DEFINE w == k + 1
    <3>1. w = Width[ch] /\ w <= c + 1 /\ (c + 1) - w = c - k /\ c + 1 \in 0 .. Len(longer)
      <4>1. /\ k \in Nat /\ c \in Nat /\ k <= c /\ c <= Len(input) /\ Len(input) \in Nat
            /\ Len(longer) = Len(input) + 1
        BY <1>1, <2>1, <2>3
      <4> DEFINE n == Len(input)
                 m == Len(longer)
      <4> HIDE DEF k, c, n, m
      <4>2. k + 1 <= c + 1 /\ (c + 1) - (k + 1) = c - k
        BY <4>1
      <4>3. c + 1 \in 0 .. m
        BY <4>1 DEF n, m
      <4> QED BY <2>6, <4>2, <4>3 DEF m
    <3>2. Readable(SubSeq(longer, 1, (c + 1) - w))
      BY <2>1, <2>3, <3>1
    <3>3. HasBytes(longer, (c + 1) - w, ch, w)
      BY <2>3, <3>1
    <3> HIDE DEF w
    <3>4. /\ Readable(SubSeq(longer, 1, c + 1))
          /\ Ahead(longer, c + 1) = Append(Ahead(longer, (c + 1) - w), ch)
      BY <2>3, <3>1, <3>2, <3>3, CompletesChar
    <3>5. Readable(SubSeq(longer, (c + 1) + 1, Len(longer)))
      BY <2>1, <2>3
    <3>6. Key'
      BY <2>6 DEF Key
    <3>7. LineReads' /\ Before' = Ahead(longer, c + 1) /\ After' = Behind(longer, c + 1)
      <4>1. ~garbled' /\ cursor_index' = c + 1 /\ longer = input'
        BY <1>2, <1>4, <1>6 DEF longer
      <4>2. /\ Readable(SubSeq(input', 1, cursor_index'))
            /\ Readable(SubSeq(input', cursor_index' + 1, Len(input')))
        BY <3>4, <3>5, <4>1, Zenon
      <4>3. LineReads' /\ Before' = Ahead(input', cursor_index')
            /\ After' = Behind(input', cursor_index')
        BY <3>6, <4>1, <4>2, RestReads
      <4> QED BY <4>1, <4>3, Zenon
    <3>8. Before' = Append(Before, ch) /\ After' = After
      BY <2>4, <2>5, <3>1, <3>4, <3>7
    <3>9. EditsLine(Before, After, Before', After')
      BY <3>8 DEF EditsLine
    <3> QED BY <1>4, <1>6, <3>7, <3>9 DEF Edited
  <2>7. CASE k + 1 # Width[ch]
    <3>1. partly' = <<ch, k + 1>>
      BY <2>7
    <3>2. Typed' = k + 1 /\ partly'[1] = ch
      BY <1>3, <3>1 DEF Typed, Key
    <3>3. (c + 1) - (k + 1) = c - k /\ k + 1 <= c + 1
      <4> HIDE DEF k
      <4> QED BY <1>1, <2>1
    <3>4. cursor_index' - Typed' = c - k /\ Typed' <= cursor_index'
      BY <1>2, <3>2, <3>3
    <3>5. LineReads'
      <4>1. Readable(SubSeq(longer, 1, c - k))
        BY <2>1, <2>3
      <4>2. Readable(SubSeq(longer, (c + 1) + 1, Len(longer)))
        BY <2>1, <2>3
      <4>3. HasBytes(longer, cursor_index' - Typed', partly'[1], Typed')
        BY <2>3, <3>2, <3>4
      <4>4. SubSeq(longer, 1, cursor_index' - Typed') = SubSeq(longer, 1, c - k)
            /\ SubSeq(longer, cursor_index' + 1, Len(longer)) = SubSeq(longer, (c + 1) + 1, Len(longer))
        BY <1>2, <3>4
      <4> QED BY <3>4, <4>1, <4>2, <4>3, <4>4, Zenon DEF LineReads, longer
    <3>6. Before' = Before /\ After' = After
      <4>1. Before' = Ahead(longer, c - k) /\ After' = Behind(longer, c + 1)
        <5>1. ~garbled' /\ cursor_index' = c + 1 /\ longer = input'
          BY <1>2, <1>4, <1>6 DEF longer
        <5>2. Before' = Ahead(input', cursor_index' - Typed') /\ After' = Behind(input', cursor_index')
          BY <5>1 DEF Before, After
        <5> QED BY <3>4, <5>1, <5>2, Zenon
      <4> QED BY <2>4, <2>5, <4>1
    <3>7. EditsLine(Before, After, Before', After')
      BY <3>6 DEF EditsLine
    <3> QED BY <1>4, <1>6, <3>5, <3>7 DEF Edited
  <2> QED BY <2>6, <2>7
<1> QED BY <1>1, <1>5, <1>6

LEMMA TypeFirstEdits ==
    ASSUME LineInv, LineInv', LineReads, NEW byte \in Bytes, TypeFirst(byte)
    PROVE  LineReads' /\ Edited
<1>1. Key /\ Typed = 0 /\ Type(byte) /\ (byte = Bad \/ byte[2] = 1)
      /\ garbled \in BOOLEAN
  BY DEF TypeFirst, Key, Typed, LineInv
<1>2. CASE byte = Bad
  <2>1. input' # <<>>
    <3> SUFFICES ASSUME input' = <<>> PROVE FALSE
      OBVIOUS
    <3>1. Len(input') = 0
      OBVIOUS
    <3>2. Len(input') = Len(input) + 1 /\ Len(input) \in Nat
      BY <1>1, InsertedType DEF Type, LineInv
    <3> QED BY <3>1, <3>2
  <2>2. garbled' = TRUE
    BY <1>1, <1>2, <2>1 DEF Type, Garbled
  <2> QED BY <1>1, <2>2 DEF LineReads, Edited, Before, After
<1>3. CASE byte # Bad
  <2> DEFINE ch == byte[1]
  <2>1. ch \in Chars /\ byte = <<ch, 1>> /\ Width[ch] \in Nat \ {0}
    <3>1. ch \in Chars /\ byte = <<ch, byte[2]>>
      BY <1>3, ByteIs
    <3>2. Width[ch] \in Nat \ {0}
      BY <3>1, ByteIs
    <3> QED BY <1>1, <1>3, <3>1, <3>2
  <2>2. Typed + 1 = 1 /\ Typed \in 0 .. Width[ch] - 1
    BY <1>1, <2>1
  <2>3. partly' = IF 1 = Width[ch] THEN Whole ELSE byte
    BY <1>3 DEF TypeFirst
  <2> HIDE DEF ch
  <2>4. /\ Type(<<ch, Typed + 1>>)
        /\ partly' = IF Typed + 1 = Width[ch] THEN Whole ELSE <<ch, Typed + 1>>
        /\ ~Key => partly[1] = ch
    BY <1>1, <2>1, <2>2, <2>3
  <2> QED BY <2>1, <2>2, <2>4, TypeEdits
<1> QED BY <1>2, <1>3

LEMMA TypeMoreEdits ==
    ASSUME LineInv, LineInv', LineReads, TypeMore
    PROVE  LineReads' /\ Edited
<1> DEFINE ch == partly[1]
<1>1. ~Key /\ Typed = partly[2]
  BY DEF TypeMore, Typed
<1>2. ch \in Chars /\ Typed \in 1 .. Width[ch] - 1 /\ Width[ch] \in Nat \ {0}
  BY <1>1, ByteIs DEF LineInv
<1>3. /\ Type(<<ch, Typed + 1>>)
      /\ partly' = IF Typed + 1 = Width[ch] THEN Whole ELSE <<ch, Typed + 1>>
  <2>1. ASSUME NEW v, NEW k, v = <<k, Typed + 1>> PROVE v[1] = k /\ v[2] = Typed + 1
    BY <2>1
  <2> QED BY <1>1, <2>1 DEF TypeMore
<1>4. Typed \in 0 .. Width[ch] - 1
  BY <1>2
<1> HIDE DEF ch
<1> QED BY <1>1, <1>2, <1>3, <1>4, TypeEdits DEF ch

LEMMA LineReadsStep ==
    ASSUME LineInv, LineInv', LineReads, [Next]_vars
    PROVE  LineReads' /\ Edited
<1>1. ASSUME UNCHANGED line PROVE LineReads' /\ Edited
  <2>1. Typed' = Typed
    BY <1>1 DEF Typed, Key, line
  <2>2. Before' = Before /\ After' = After
    BY <1>1, <2>1 DEF Before, After, line
  <2>3. LineReads'
    BY <1>1, <2>1 DEF LineReads, line
  <2>4. EditsLine(Before, After, Before', After')
    BY <2>2 DEF EditsLine
  <2>5. garbled' = garbled /\ garbled \in BOOLEAN
    BY <1>1 DEF line, LineInv
  <2> QED BY <2>3, <2>4, <2>5 DEF Edited
<1>2. ASSUME NEW byte \in Bytes, TypeFirst(byte) PROVE LineReads' /\ Edited
  BY <1>2, TypeFirstEdits
<1>3. CASE TypeMore
  BY <1>3, TypeMoreEdits
<1>4. CASE Backspace
  BY <1>4, BackspaceEdits
<1>5. CASE Move
  BY <1>5, MoveEdits
<1>6. CASE Enter
  BY <1>6, EnterEdits
<1>7. CASE Scroll \/ Arrive \/ Resize
  BY <1>1, <1>7 DEF Scroll, Arrive, Resize
<1>8. CASE UNCHANGED vars
  BY <1>1, <1>8 DEF vars
<1> QED BY <1>2, <1>3, <1>4, <1>5, <1>6, <1>7, <1>8 DEF Next

Sides == Before \in Seq(Chars) /\ After \in Seq(Chars) /\ garbled \in BOOLEAN

LEMMA SidesType == LineInv /\ LineReads => Sides
<1> SUFFICES ASSUME LineInv, LineReads PROVE Before \in Seq(Chars) /\ After \in Seq(Chars)
  BY DEF Sides, LineInv
<1>1. CASE garbled
  BY <1>1 DEF Before, After
<1>2. CASE ~garbled
  <2>1. /\ input \in Seq(Bytes) /\ cursor_index \in 0 .. Len(input) /\ Len(input) \in Nat
        /\ Typed <= cursor_index
        /\ Readable(SubSeq(input, 1, cursor_index - Typed))
        /\ Readable(SubSeq(input, cursor_index + 1, Len(input)))
    BY <1>2 DEF LineInv, LineReads
  <2>2. Typed \in Nat
    BY DEF Typed, Key, LineInv
  <2>3. cursor_index - Typed \in 0 .. Len(input)
    BY <2>1, <2>2
  <2>4. /\ SubSeq(input, 1, cursor_index - Typed) \in Seq(Bytes)
        /\ SubSeq(input, cursor_index + 1, Len(input)) \in Seq(Bytes)
    BY <2>1, <2>3, Parts
  <2>5. /\ Decode(SubSeq(input, 1, cursor_index - Typed)) \in Seq(Chars)
        /\ Decode(SubSeq(input, cursor_index + 1, Len(input))) \in Seq(Chars)
    BY <2>1, <2>4, DecodeIs
  <2> QED BY <1>2, <2>5 DEF Before, After, Ahead, Behind
<1> QED BY <1>1, <1>2

LEMMA LastOfAppend ==
    ASSUME NEW s \in Seq(Chars), NEW c \in Chars
    PROVE  LET t == Append(s, c) IN
           t # <<>> /\ t[Len(t)] = c /\ SubSeq(t, 1, Len(t) - 1) = s
<1> DEFINE t == Append(s, c)
<1>1. /\ t \in Seq(Chars) /\ t # <<>> /\ Len(t) = Len(s) + 1
      /\ (\A i \in 1 .. Len(s) : t[i] = s[i]) /\ t[Len(s) + 1] = c
  BY AppendProperties
<1>2. Len(s) \in Nat
  OBVIOUS
<1> HIDE DEF t
<1>3. SubSeq(t, 1, Len(t) - 1) = s
  <2>1. Len(s) \in 0 .. Len(t) /\ Len(t) - 1 = Len(s)
    BY <1>1, <1>2
  <2> DEFINE u == SubSeq(t, 1, Len(s))
  <2>2. u \in Seq(Chars) /\ Len(u) = Len(s) /\ \A i \in 1 .. Len(s) : u[i] = t[i]
    BY <1>1, <2>1, Parts
  <2> HIDE DEF u
  <2>3. u = s
    BY <1>1, <2>2, SeqEqual
  <2> QED BY <2>1, <2>3 DEF u
<1> QED BY <1>1, <1>3 DEF t

LEMMA FirstOfConcat ==
    ASSUME NEW s \in Seq(Chars), NEW c \in Chars
    PROVE  LET t == <<c>> \o s IN
           t # <<>> /\ Head(t) = c /\ Tail(t) = s
<1> DEFINE t == <<c>> \o s
<1>0. <<c>> \in Seq(Chars) /\ Len(<<c>>) = 1 /\ Len(s) \in Nat /\ <<c>>[1] = c
  OBVIOUS
<1>1. /\ t \in Seq(Chars) /\ Len(t) = 1 + Len(s)
      /\ \A i \in 1 .. 1 + Len(s) : t[i] = IF i <= 1 THEN <<c>>[i] ELSE s[i - 1]
  BY <1>0, ConcatProperties
<1> HIDE DEF t
<1>2. t # <<>>
  <2> SUFFICES ASSUME t = <<>> PROVE FALSE
    OBVIOUS
  <2>1. Len(t) = 0
    OBVIOUS
  <2> QED BY <1>0, <1>1, <2>1
<1>3. t[1] = c
  <2>1. 1 \in 1 .. 1 + Len(s)
    BY <1>0
  <2> QED BY <1>0, <1>1, <2>1
<1>4. Head(t) = c
  BY <1>1, <1>2, <1>3
<1>5. Tail(t) = s
  <2>1. /\ Tail(t) \in Seq(Chars) /\ Len(Tail(t)) = Len(s)
        /\ \A i \in 1 .. Len(Tail(t)) : Tail(t)[i] = t[i + 1]
    <3>1. Len(t) - 1 = Len(s)
      BY <1>0, <1>1
    <3> QED BY <1>1, <1>2, <3>1, HeadTailProperties
  <2>2. \A i \in 1 .. Len(s) : t[i + 1] = s[i]
    <3> TAKE i \in 1 .. Len(s)
    <3>1. i + 1 \in 1 .. 1 + Len(s) /\ ~(i + 1 <= 1) /\ (i + 1) - 1 = i
      BY <1>0
    <3> QED BY <1>1, <3>1
  <2> DEFINE u == Tail(t)
  <2>3. u \in Seq(Chars) /\ Len(u) = Len(s) /\ \A i \in 1 .. Len(u) : u[i] = s[i]
    BY <2>1, <2>2
  <2> HIDE DEF u
  <2>4. u = s
    BY <2>3, SeqEqual
  <2> QED BY <2>4 DEF u
<1> QED BY <1>2, <1>4, <1>5 DEF t

\* Each of the things a key may do is a step of the editor.
LEMMA EditorRefined ==
    Sides /\ Sides' /\ Edited => [E!Next]_(E!vars)
<1> SUFFICES ASSUME Sides, Sides', Edited PROVE [E!Next]_(E!vars)
  OBVIOUS
<1>1. /\ Before \in Seq(Chars) /\ After \in Seq(Chars)
      /\ garbled \in BOOLEAN
  BY DEF Sides
<1>2. /\ Before' \in Seq(Chars) /\ After' \in Seq(Chars)
      /\ garbled' \in BOOLEAN
  BY DEF Sides
<1>3. CASE garbled # garbled' /\ Before' = <<>> /\ After' = <<>>
  <2>1. E!Clear
    BY <1>3 DEF E!Clear, Before, After, Ahead, Behind
  <2>2. garbled' = ~garbled
    BY <1>1, <1>2, <1>3
  <2> QED BY <2>1, <2>2 DEF E!Next
<1>4. CASE garbled /\ garbled'
  BY <1>4 DEF E!vars
<1>5. CASE ~garbled /\ ~garbled' /\ EditsLine(Before, After, Before', After')
  <2>1. UNCHANGED garbled /\ ~garbled
    BY <1>1, <1>2, <1>5
  <2>2. SUFFICES E!Edit \/ (Before' = Before /\ After' = After)
    BY <2>1 DEF E!Next, E!vars, Before, After, Ahead, Behind
  <2>3. ASSUME NEW c \in Chars, Before' = Append(Before, c), After' = After PROVE E!Edit
    <3>1. E!Insert(c)
      BY <2>3 DEF E!Insert, Before, After, Ahead, Behind
    <3> QED BY <3>1 DEF E!Edit
  <2>4. ASSUME NEW c \in Chars, Before = Append(Before', c), After' = After PROVE E!Edit
    <3>1. Before # <<>> /\ Before' = SubSeq(Before, 1, Len(Before) - 1)
      BY <1>2, <2>4, LastOfAppend
    <3>2. E!Erase
      BY <2>4, <3>1 DEF E!Erase, E!AllButLast, Before, After, Ahead, Behind
    <3> QED BY <3>2 DEF E!Edit
  <2>5. ASSUME NEW c \in Chars, Before = Append(Before', c), After' = <<c>> \o After PROVE E!Edit
    <3>1. /\ Before # <<>> /\ Before' = SubSeq(Before, 1, Len(Before) - 1)
          /\ c = Before[Len(Before)]
      BY <1>2, <2>5, LastOfAppend
    <3>2. After' = <<Before[Len(Before)]>> \o After
      BY <2>5, <3>1
    <3>3. E!Left
      BY <3>1, <3>2 DEF E!Left, E!AllButLast, E!Last, Before, After, Ahead, Behind
    <3> QED BY <3>3 DEF E!Edit
  <2>6. ASSUME NEW c \in Chars, Before' = Append(Before, c), After = <<c>> \o After' PROVE E!Edit
    <3>1. After # <<>> /\ Head(After) = c /\ Tail(After) = After'
      BY <1>2, <2>6, FirstOfConcat
    <3>2. Before' = Append(Before, Head(After))
      BY <2>6, <3>1
    <3>3. E!Right
      BY <3>1, <3>2 DEF E!Right, Before, After, Ahead, Behind
    <3> QED BY <3>3 DEF E!Edit
  <2>7. ASSUME Before' = <<>>, After' = Before \o After PROVE E!Edit
    <3>1. E!Home
      BY <2>7 DEF E!Home, Before, After, Ahead, Behind
    <3> QED BY <3>1 DEF E!Edit
  <2>8. ASSUME Before' = Before \o After, After' = <<>> PROVE E!Edit
    <3>1. E!End
      BY <2>8 DEF E!End, Before, After, Ahead, Behind
    <3> QED BY <3>1 DEF E!Edit
  <2>9. ASSUME Before' = <<>>, After' = <<>> PROVE E!Edit
    <3>1. E!Clear
      BY <2>9 DEF E!Clear, Before, After, Ahead, Behind
    <3> QED BY <3>1 DEF E!Edit
  <2> QED BY <1>5, <2>3, <2>4, <2>5, <2>6, <2>7, <2>8, <2>9 DEF EditsLine
<1> QED BY <1>3, <1>4, <1>5 DEF Edited

LEMMA EditorStarts == Init => LineReads /\ E!Init
<1> SUFFICES ASSUME Init PROVE LineReads /\ E!Init
  OBVIOUS
<1>1. input = <<>> /\ cursor_index = 0 /\ Key /\ garbled = FALSE /\ Typed = 0
  BY DEF Init, Key, Typed
<1>2. SubSeq(input, 1, cursor_index - Typed) = <<>>
      /\ SubSeq(input, cursor_index + 1, Len(input)) = <<>>
  <2>1. Len(input) = 0 /\ cursor_index - Typed = 0
    BY <1>1
  <2>2. SubSeq(input, 1, 0) = <<>> /\ SubSeq(input, 0 + 1, 0) = <<>>
    BY SubSeqEmpty
  <2> QED BY <1>1, <2>1, <2>2
<1>3. Readable(<<>>) /\ Decode(<<>>) = <<>>
  BY EmptyDecodes
<1>4. HasBytes(input, cursor_index - Typed, partly[1], Typed) /\ Typed <= cursor_index
  <2>1. 1 .. Typed = {} /\ Typed <= cursor_index
    BY <1>1
  <2> QED BY <2>1 DEF HasBytes
<1> QED BY <1>1, <1>2, <1>3, <1>4 DEF LineReads, E!Init

\* The box is an editor of characters, although it is edited byte by byte and
\* redrawn between the bytes of a character, and although the loops over mblen()
\* read it anew at every key (ui.c:37-68, ui.c:122-238).
THEOREM BoxImplementsEditor == Spec => ImplementsEditor
<1>1. Init => LineInv
  BY InitInv DEF UiInv
<1>2. LineInv /\ LineReads /\ [Next]_vars => LineInv' /\ LineReads' /\ Edited
  BY LineStep, LineReadsStep
<1>3. Sides /\ Sides' /\ Edited => [E!Next]_(E!vars)
  BY EditorRefined
<1> QED
  BY <1>1, <1>2, <1>3, EditorStarts, SidesType, PTL
     DEF Spec, ImplementsEditor, E!Spec
=============================================================================
