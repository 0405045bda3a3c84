---------------------------- MODULE ContentProofs ----------------------------
(***************************************************************************)
(* A file that fits with its padding is answered and stored whole, for     *)
(* whatever width of words and size of blocks; and what the table-driven   *)
(* programs compute, the client at once and the server buffer by buffer,   *)
(* is the POSIX cksum, for whatever file and size of buffers, which no     *)
(* change of one byte leaves as it is.                                     *)
(***************************************************************************)
EXTENDS Content, SequenceTheorems, WellFoundedInduction, TLAPS

\* What has been computed so far, of a file that fits.
SizeInv ==
    /\ TypeOK
    /\ Fits(size) =>
          /\ pc # "read" => fileSize = size
          /\ pc \in {"send", "decrypt"} => encrypted = Padded(size)
          /\ pc = "decrypt" => contentSize = encrypted
    /\ FittingStored

\* The padding of a size that fits leaves it below the word: the size is in a
\* block before the last, and Word is a whole number of blocks.
LEMMA PaddedFits ==
    ASSUME NEW s \in Nat, Fits(s)
    PROVE  Padded(s) \in 0 .. Word - 1
<1> DEFINE q == s \div Block
           w == Word \div Block
<1>1. Block \in Nat \ {0} /\ Word \in Nat \ {0} /\ Word % Block = 0
  BY SizesAssumption
<1>2. q \in Nat /\ w \in Nat
  BY <1>1, SMT
<1>3. Word = Block * w
  BY <1>1, SMT
<1>4. Block * q <= s
  BY <1>1, SMT
<1>5. Block * q < Block * (w - 1)
  BY <1>1, <1>2, <1>3, <1>4, SMT DEF Fits
<1>6. q < w - 1
  BY <1>1, <1>2, <1>5, SMT
<1>7. q + 1 <= w - 1
  BY <1>2, <1>6, SMT
<1>8. Block * (q + 1) <= Block * (w - 1)
  BY <1>1, <1>2, <1>7, SMT
<1> QED
  BY <1>1, <1>2, <1>3, <1>8, SMT DEF Padded

LEMMA SizeInit == ASSUME Init PROVE SizeInv
  BY SizesAssumption DEF Init, SizeInv, TypeOK, FittingStored

LEMMA SizeNext ==
    ASSUME SizeInv, [Next]_vars
    PROVE  SizeInv'
<1>1. Word \in Nat /\ Block \in Nat /\ 0 < Block /\ 0 < Word /\ size \in Nat
  BY SizesAssumption DEF SizeInv, TypeOK
<1>2. \A k \in Nat : Cut(k) \in 0 .. Word - 1
  BY <1>1, SMT DEF Cut
<1>3. \A k \in 0 .. Word - 1 : Cut(k) = k
  BY <1>1, SMT DEF Cut
<1>4. \A k \in Nat : Padded(k) \in Nat
  BY <1>1, SMT DEF Padded
<1>5. Fits(size) => size \in 0 .. Word - 1 /\ Padded(size) \in 0 .. Word - 1
  BY <1>1, PaddedFits, SMT DEF Fits
<1>6. UNCHANGED size
  BY DEF Next, ReadFile, Encrypt, SendItem, Decrypt, vars
<1>7. Fits(size)' = Fits(size)
  BY <1>6 DEF Fits
<1>8. CASE ReadFile
  BY <1>1, <1>2, <1>3, <1>5, <1>7, <1>8 DEF ReadFile, SizeInv, TypeOK, FittingStored
<1>9. CASE Encrypt
  BY <1>1, <1>4, <1>5, <1>7, <1>9 DEF Encrypt, SizeInv, TypeOK, FittingStored
<1>10. CASE SendItem
  BY <1>1, <1>2, <1>3, <1>5, <1>7, <1>10 DEF SendItem, SizeInv, TypeOK, FittingStored
<1>11. CASE Decrypt
  BY <1>1, <1>7, <1>11 DEF Decrypt, SizeInv, TypeOK, FittingStored
<1>12. CASE UNCHANGED vars
  BY <1>7, <1>12 DEF vars, SizeInv, TypeOK, FittingStored
<1> QED
  BY <1>8, <1>9, <1>10, <1>11, <1>12 DEF Next

\* A file whose padded size fits in a word is answered, and stored whole, for
\* every width of words and blocks (client.cpp:382, fileitem.cpp:29).
THEOREM FittingFilesStored == Spec => []FittingStored
<1>1. Init => SizeInv
  BY SizeInit
<1>2. SizeInv /\ [Next]_vars => SizeInv'
  BY SizeNext
<1>3. SizeInv => FittingStored
  BY DEF SizeInv
<1> QED
  BY <1>1, <1>2, <1>3, PTL DEF Spec

-----------------------------------------------------------------------------
(* Bytes *)

LEMMA Difference == \A a, b \in Nat : a - (a - b) = b /\ a - b <= a /\ a - a = 0
  OBVIOUS

LEMMA BytesOf ==
    ASSUME NEW s \in Seq(0..255)
    PROVE  Len(s) \in Nat /\ \A i \in 1..Len(s) : s[i] \in 0..255
  <1> DEFINE Byte == 0..255
  <1>1. s \in Seq(Byte)
    OBVIOUS
  <1> HIDE DEF Byte
  <1>2. Len(s) \in Nat /\ \A i \in 1..Len(s) : s[i] \in Byte
    BY <1>1
  <1> QED
    BY <1>2 DEF Byte

\* The bytes of s from the first after a up to the last of the first b.
LEMMA PartOf ==
    ASSUME NEW s \in Seq(0..255), NEW a \in Nat, NEW b \in Nat, a <= b, b <= Len(s)
    PROVE  /\ SubSeq(s, a + 1, b) \in Seq(0..255)
           /\ Len(SubSeq(s, a + 1, b)) = b - a
           /\ \A j \in 1..b - a : SubSeq(s, a + 1, b)[j] = s[a + j]
  <1> DEFINE Byte == 0..255
             part == SubSeq(s, a + 1, b)
  <1>1. \A i \in a + 1..b : s[i] \in Byte
    <2>1. Len(s) \in Nat /\ \A i \in 1..Len(s) : s[i] \in Byte
      BY BytesOf
    <2> HIDE DEF Byte
    <2>2. \A i \in a + 1..b : i \in 1..Len(s)
      BY <2>1
    <2> QED
      BY <2>1, <2>2
  <1> HIDE DEF Byte
  <1>2. /\ part \in Seq(Byte)
        /\ Len(part) = IF a + 1 <= b THEN b - (a + 1) + 1 ELSE 0
        /\ \A j \in 1..b - (a + 1) + 1 : part[j] = s[a + 1 + j - 1]
    BY <1>1, SubSeqProperties
  <1> HIDE DEF part
  <1>3. Len(part) = b - a
    BY <1>2
  <1>4. ASSUME NEW j \in 1..b - a
        PROVE  part[j] = s[a + j]
    <2>1. j \in 1..b - (a + 1) + 1 /\ a + 1 + j - 1 = a + j
      OBVIOUS
    <2> QED
      BY <1>2, <2>1
  <1> QED
    BY <1>2, <1>3, <1>4 DEF Byte, part
-----------------------------------------------------------------------------
(* Recursive functions *)

\* Each number up to N is in a set that has a number if it has those below it.
LEMMA Induction ==
    ASSUME NEW N \in Nat, NEW T,
           \A k \in 0..N : (\A i \in 0..k - 1 : i \in T) => k \in T
    PROVE  \A k \in 0..N : k \in T
  <1> DEFINE Less == {ss \in Nat \X Nat : ss[1] < ss[2]}
             Missing == {m \in 0..N : m \notin T}
  <1>1. IsWellFoundedOn(Less, Nat)
    BY NatLessThanWellFounded DEF OpToRel
  <1>2. Missing \subseteq Nat
    OBVIOUS
  <1>3. ASSUME Missing # {}
        PROVE  FALSE
    <2>1. \E m \in Missing : \A k \in Missing : <<k, m>> \notin Less
      <3> HIDE DEF Less, Missing
      <3> QED
        BY <1>1, <1>2, <1>3, WFMin
    <2>2. PICK m \in Missing : \A k \in Missing : ~(k < m)
      <3> HIDE DEF Missing
      <3> QED
        BY <1>2, <2>1
    <2>3. \A i \in 0..m - 1 : i \in T
      BY <2>2
    <2> QED
      BY <2>2, <2>3
  <1> QED
    BY <1>3

\* F says what a number's value is, given that of the smaller number P names.
Recursive(N, S, F, P) ==
    /\ F \in [1..N -> [S -> S]]
    /\ P \in [1..N -> Nat] /\ \A k \in 1..N : P[k] < k

\* A recursion that goes from each number to a smaller one defines a function.
LEMMA Recursion ==
    ASSUME NEW N \in Nat, NEW S, NEW base \in S, NEW F, NEW P, Recursive(N, S, F, P)
    PROVE  \E f \in [0..N -> S] :
               f[0] = base /\ \A k \in 1..N : f[k] = F[k][f[P[k]]]
  <1> DEFINE Defined(f, m) == /\ f \in [0..m -> S]
                              /\ f[0] = base
                              /\ \A k \in 1..m : f[k] = F[k][f[P[k]]]
             T == {m \in 0..N : \E f : Defined(f, m)}
  <1> /\ F \in [1..N -> [S -> S]]
      /\ P \in [1..N -> Nat] /\ \A k \in 1..N : P[k] < k
    BY DEF Recursive
  <1>1. ASSUME NEW m \in 0..N, \A i \in 0..m - 1 : i \in T
        PROVE  m \in T
    <2>1. CASE m = 0
      <3>1. Defined([k \in 0..0 |-> base], 0)
        OBVIOUS
      <3> HIDE DEF Defined
      <3> QED
        BY <2>1, <3>1
    <2>2. CASE m # 0
      <3>1. m \in 1..N /\ m - 1 \in 0..m - 1
        BY <2>2
      <3>2. \E f : Defined(f, m - 1)
        <4> HIDE DEF Defined
        <4> QED
          BY <1>1, <3>1
      <3>3. PICK f : Defined(f, m - 1)
        BY <3>2
      <3> HIDE DEF T
      <3> DEFINE g == [k \in 0..m |-> IF k = m THEN F[m][f[P[m]]] ELSE f[k]]
      <3>4. P[m] \in 0..m - 1 /\ \A k \in 1..m - 1 : P[k] \in 0..m - 1
        BY <3>1
      <3>5. F[m][f[P[m]]] \in S
        BY <3>1, <3>3, <3>4
      <3>6. g \in [0..m -> S] /\ g[0] = base
        BY <3>1, <3>3, <3>5
      <3>7. ASSUME NEW k \in 1..m
            PROVE  g[k] = F[k][g[P[k]]]
        <4>1. CASE k = m
          BY <3>1, <3>4, <4>1
        <4>2. CASE k # m
          <5>1. k \in 1..m - 1 /\ P[k] \in 0..m - 1
            BY <3>1, <3>4, <4>2
          <5>2. g[k] = f[k] /\ g[P[k]] = f[P[k]]
            BY <3>1, <5>1
          <5>3. f[k] = F[k][f[P[k]]]
            BY <3>3, <5>1
          <5> QED
            BY <5>2, <5>3
        <4> QED
          BY <4>1, <4>2
      <3>8. Defined(g, m)
        BY <3>6, <3>7
      <3> HIDE DEF Defined, g
      <3> QED
        BY <3>8 DEF T
    <2> QED
      BY <2>1, <2>2
  <1>2. \A m \in 0..N : m \in T
    <2> HIDE DEF T
    <2> QED
      BY <1>1, Induction
  <1>3. \E f : Defined(f, N)
    <2> HIDE DEF Defined
    <2> QED
      BY <1>2
  <1> QED
    BY <1>3

\* The remainders are registers, each found from the one before.
LEMMA RemaindersOf ==
    ASSUME NEW bytes, NEW N \in Nat, N = Len(bytes), \A k \in 1..N : bytes[k] \in 0..255,
           \A a \in Register : \A byte \in 0..255 : DivideByte(a, byte) \in Register
    PROVE  /\ Remainders(bytes) \in [0..N -> Register]
           /\ Remainders(bytes)[0] = {}
           /\ \A k \in 1..N :
                 Remainders(bytes)[k] = DivideByte(Remainders(bytes)[k - 1], bytes[k])
  <1> DEFINE F == [k \in 1..N |-> [a \in Register |-> DivideByte(a, bytes[k])]]
             P == [k \in 1..N |-> k - 1]
             Body(f, k) == IF k = 0 THEN {} ELSE UNION {DivideByte(a, bytes[k]) : a \in {f[k - 1]}}
             R == Remainders(bytes)
  <1>1. {} \in Register
    BY DEF Register
  <1>2. F \in [1..N -> [Register -> Register]]
    <2>1. \A k \in 1..N : [a \in Register |-> DivideByte(a, bytes[k])] \in [Register -> Register]
      OBVIOUS
    <2> QED
      BY <2>1
  <1>3. Recursive(N, Register, F, P)
    <2>1. P \in [1..N -> Nat] /\ \A k \in 1..N : P[k] < k
      OBVIOUS
    <2> HIDE DEF F, P
    <2> QED
      BY <1>2, <2>1 DEF Recursive
  <1>4. \E f \in [0..N -> Register] : f[0] = {} /\ \A k \in 1..N : f[k] = F[k][f[P[k]]]
    <2> HIDE DEF F, P
    <2> QED
      BY <1>1, <1>3, Recursion
  <1>5. PICK f \in [0..N -> Register] : f[0] = {} /\ \A k \in 1..N : f[k] = F[k][f[P[k]]]
    BY <1>4
  <1>6. ASSUME NEW k \in 1..N
        PROVE  f[k] = DivideByte(f[k - 1], bytes[k])
    <2>1. f[P[k]] = f[k - 1] /\ f[k - 1] \in Register
      BY <1>5
    <2>2. F[k][f[P[k]]] = DivideByte(f[k - 1], bytes[k])
      BY <2>1
    <2> QED
      BY <1>5, <2>2
  <1>7. \A g, k : Body(g, k) = IF k = 0 THEN {} ELSE DivideByte(g[k - 1], bytes[k])
    BY Zenon
  <1> HIDE DEF F, P, Body
  <1>8. f = [k \in 0..N |-> Body(f, k)]
    <2>1. ASSUME NEW k \in 0..N
          PROVE  f[k] = Body(f, k)
      <3>1. CASE k = 0
        BY <1>5, <1>7, <3>1
      <3>2. CASE k # 0
        BY <1>6, <1>7, <3>2
      <3> QED
        BY <3>1, <3>2
    <2> QED
      BY <2>1
  <1>9. R = CHOOSE g : g = [k \in 0..N |-> Body(g, k)]
    BY Zenon DEF Remainders, Body
  <1>10. R = [k \in 0..N |-> Body(R, k)]
    <2> HIDE DEF R
    <2> QED
      BY <1>8, <1>9, Zenon
  <1> HIDE DEF R
  <1>11. R[0] = {}
    BY <1>7, <1>10
  <1>12. ASSUME NEW k \in 1..N
         PROVE  R[k] = DivideByte(R[k - 1], bytes[k])
    BY <1>7, <1>10
  <1>13. ASSUME NEW k \in 0..N
         PROVE  R[k] \in Register
    <2> DEFINE T == {m \in 0..N : R[m] \in Register}
    <2>1. ASSUME NEW m \in 0..N, \A i \in 0..m - 1 : i \in T
          PROVE  m \in T
      <3>1. CASE m = 0
        BY <1>1, <1>11, <3>1
      <3>2. CASE m # 0
        <4>1. m \in 1..N /\ m - 1 \in 0..m - 1
          BY <3>2
        <4>2. R[m - 1] \in Register
          BY <2>1, <4>1
        <4> QED
          BY <1>12, <4>1, <4>2
      <3> QED
        BY <3>1, <3>2
    <2>2. \A m \in 0..N : m \in T
      <3> HIDE DEF T
      <3> QED
        BY <2>1, Induction
    <2> QED
      BY <2>2
  <1>14. R \in [0..N -> Register]
    BY <1>10, <1>13
  <1> QED
    BY <1>11, <1>12, <1>14 DEF R

\* The bytes of each number up to len are bytes, found from those of a smaller one.
LEMMA NumberBytesOf ==
    ASSUME NEW len \in Nat
    PROVE  /\ NumberBytes(len) \in [0..len -> Seq(0..255)]
           /\ NumberBytes(len)[0] = <<>>
           /\ \A m \in 1..len :
                 NumberBytes(len)[m] = <<m % 256>> \o NumberBytes(len)[m \div 256]
  <1> DEFINE Strings == Seq(0..255)
             Nothing == <<>>
             After(m, s) == <<m % 256>> \o s
             F == [m \in 1..len |-> [s \in Strings |-> After(m, s)]]
             P == [m \in 1..len |-> m \div 256]
             Body(f, m) == IF m = 0 THEN Nothing ELSE After(m, f[m \div 256])
             B == NumberBytes(len)
  <1>1. Nothing \in Strings
    OBVIOUS
  <1>2. \A m \in 1..len : m % 256 \in 0..255 /\ m \div 256 \in 0..m - 1
    OBVIOUS
  <1>3. \A m \in 1..len : \A s \in Strings : After(m, s) \in Strings
    BY <1>2
  <1> HIDE DEF Strings, Nothing, After
  <1>4. Recursive(len, Strings, F, P)
    <2>1. F \in [1..len -> [Strings -> Strings]]
      <3>1. \A m \in 1..len : [s \in Strings |-> After(m, s)] \in [Strings -> Strings]
        BY <1>3
      <3> QED
        BY <3>1
    <2>2. P \in [1..len -> Nat] /\ \A m \in 1..len : P[m] < m
      BY <1>2
    <2> HIDE DEF F, P
    <2> QED
      BY <2>1, <2>2 DEF Recursive
  <1>5. \E f \in [0..len -> Strings] : f[0] = Nothing /\ \A m \in 1..len : f[m] = F[m][f[P[m]]]
    <2> HIDE DEF F, P
    <2> QED
      BY <1>1, <1>4, Recursion
  <1>6. PICK f \in [0..len -> Strings] : f[0] = Nothing /\ \A m \in 1..len : f[m] = F[m][f[P[m]]]
    BY <1>5
  <1>7. ASSUME NEW m \in 1..len
        PROVE  f[m] = After(m, f[m \div 256])
    <2>1. m \div 256 \in 0..len
      BY <1>2
    <2>2. f[P[m]] = f[m \div 256] /\ f[m \div 256] \in Strings
      BY <1>6, <2>1
    <2>3. F[m][f[P[m]]] = After(m, f[m \div 256])
      BY <2>2
    <2> QED
      BY <1>6, <2>3
  <1>8. \A g, m : Body(g, m) = IF m = 0 THEN Nothing ELSE After(m, g[m \div 256])
    BY Zenon
  <1> HIDE DEF F, P, Body
  <1>9. f = [m \in 0..len |-> Body(f, m)]
    <2>1. ASSUME NEW m \in 0..len
          PROVE  f[m] = Body(f, m)
      <3>1. CASE m = 0
        BY <1>6, <1>8, <3>1
      <3>2. CASE m # 0
        BY <1>7, <1>8, <3>2
      <3> QED
        BY <3>1, <3>2
    <2> QED
      BY <2>1
  <1>10. B = CHOOSE g : g = [m \in 0..len |-> Body(g, m)]
    BY Zenon DEF NumberBytes, Body, Nothing, After
  <1>11. B = [m \in 0..len |-> Body(B, m)]
    <2> HIDE DEF B
    <2> QED
      BY <1>9, <1>10, Zenon
  <1> HIDE DEF B
  <1>12. B[0] = Nothing
    BY <1>8, <1>11
  <1>13. ASSUME NEW m \in 1..len
         PROVE  B[m] = After(m, B[m \div 256])
    BY <1>8, <1>11
  <1>14. ASSUME NEW k \in 0..len
         PROVE  B[k] \in Strings
    <2> DEFINE T == {m \in 0..len : B[m] \in Strings}
    <2>1. ASSUME NEW m \in 0..len, \A i \in 0..m - 1 : i \in T
          PROVE  m \in T
      <3>1. CASE m = 0
        BY <1>1, <1>12, <3>1
      <3>2. CASE m # 0
        <4>1. m \in 1..len /\ m \div 256 \in 0..m - 1
          BY <1>2, <3>2
        <4>2. B[m \div 256] \in Strings
          BY <2>1, <4>1
        <4> QED
          BY <1>3, <1>13, <4>1, <4>2
      <3> QED
        BY <3>1, <3>2
    <2>2. \A m \in 0..len : m \in T
      <3> HIDE DEF T
      <3> QED
        BY <2>1, Induction
    <2> QED
      BY <2>2
  <1>15. B \in [0..len -> Strings]
    BY <1>11, <1>14
  <1> QED
    BY <1>12, <1>13, <1>15 DEF B, Strings, Nothing, After

-----------------------------------------------------------------------------
(* Registers *)

LEMMA InXor == \A a, b, i : i \in Xor(a, b) <=> ~(i \in a <=> i \in b)
  BY DEF Xor

LEMMA XorTypes == \A a, b \in Register : Xor(a, b) \in Register
  BY DEF Xor, Register

LEMMA DivideBitTypes == \A a \in Register : DivideBit(a) \in Register
  <1>1. ASSUME NEW a \in Register
        PROVE  ShiftBit(a) \in Register
    BY DEF ShiftBit, Register
  <1>2. Polynomial \in Register
    BY DEF Polynomial, Register
  <1> QED
    BY <1>1, <1>2, XorTypes DEF DivideBit

LEMMA Divide8Types == \A a \in Register : Divide8Bits(a) \in Register
  BY DivideBitTypes DEF Divide8Bits, Divide4Bits, Divide2Bits

LEMMA DivideByteTypes == \A a \in Register : \A byte \in 0..255 : DivideByte(a, byte) \in Register
  <1>1. \A index : AtTop(index) \in Register
    BY DEF AtTop, Register
  <1> QED
    BY <1>1, XorTypes, Divide8Types DEF DivideByte

\* The division of a sum is the sum of the divisions.
LEMMA DivideBitLinear ==
    ASSUME NEW a \in Register, NEW b \in Register
    PROVE  DivideBit(Xor(a, b)) = Xor(DivideBit(a), DivideBit(b))
  <1>1. ShiftBit(Xor(a, b)) = Xor(ShiftBit(a), ShiftBit(b))
    <2>1. ASSUME NEW i
          PROVE  i \in ShiftBit(Xor(a, b)) <=> i \in Xor(ShiftBit(a), ShiftBit(b))
      BY InXor DEF ShiftBit
    <2> QED
      BY <2>1
  <1>2. \A p, x, y : Xor(Xor(x, y), p) = Xor(Xor(x, p), y)
    BY DEF Xor
  <1>3. \A p, x, y : Xor(Xor(x, y), p) = Xor(x, Xor(y, p))
    BY DEF Xor
  <1>4. \A p, x, y : Xor(Xor(x, p), Xor(y, p)) = Xor(x, y)
    BY DEF Xor
  <1>5. 31 \in Xor(a, b) <=> ~(31 \in a <=> 31 \in b)
    BY InXor
  <1> DEFINE X == ShiftBit(a)
             Y == ShiftBit(b)
             Z == ShiftBit(Xor(a, b))
  <1>6. Z = Xor(X, Y)
    BY <1>1
  <1>7. /\ DivideBit(a) = IF 31 \in a THEN Xor(X, Polynomial) ELSE X
        /\ DivideBit(b) = IF 31 \in b THEN Xor(Y, Polynomial) ELSE Y
        /\ DivideBit(Xor(a, b)) = IF 31 \in Xor(a, b) THEN Xor(Z, Polynomial) ELSE Z
    BY Zenon DEF DivideBit
  <1> HIDE DEF X, Y, Z
  <1>8. CASE 31 \in a /\ 31 \in b
    BY <1>4, <1>5, <1>6, <1>7, <1>8
  <1>9. CASE 31 \in a /\ 31 \notin b
    BY <1>2, <1>5, <1>6, <1>7, <1>9
  <1>10. CASE 31 \notin a /\ 31 \in b
    BY <1>3, <1>5, <1>6, <1>7, <1>10
  <1>11. CASE 31 \notin a /\ 31 \notin b
    BY <1>5, <1>6, <1>7, <1>11
  <1> QED
    BY <1>8, <1>9, <1>10, <1>11

LEMMA Divide8Linear ==
    ASSUME NEW a \in Register, NEW b \in Register
    PROVE  Divide8Bits(Xor(a, b)) = Xor(Divide8Bits(a), Divide8Bits(b))
  <1>1. \A x, y \in Register : /\ Divide2Bits(Xor(x, y)) = Xor(Divide2Bits(x), Divide2Bits(y))
                               /\ Divide2Bits(x) \in Register
    BY DivideBitLinear, DivideBitTypes DEF Divide2Bits
  <1>2. \A x, y \in Register : /\ Divide4Bits(Xor(x, y)) = Xor(Divide4Bits(x), Divide4Bits(y))
                               /\ Divide4Bits(x) \in Register
    BY <1>1 DEF Divide4Bits
  <1> QED
    BY <1>2 DEF Divide8Bits

\* The lower 24 bits only move up.
LEMMA Divide8Low ==
    ASSUME NEW low \in SUBSET (0..23)
    PROVE  Divide8Bits(low) = ShiftByte(low)
  <1> DEFINE Moved(m) == {i \in m..31 : i - m \in low}
  <1>1. ASSUME NEW m \in 0..7
        PROVE  DivideBit(Moved(m)) = Moved(m + 1)
    <2>1. 31 \notin Moved(m)
      OBVIOUS
    <2>2. ASSUME NEW i
          PROVE  i \in ShiftBit(Moved(m)) <=> i \in Moved(m + 1)
      BY DEF ShiftBit
    <2> QED
      BY <2>1, <2>2 DEF DivideBit
  <1>2. low = Moved(0)
    <2>1. ASSUME NEW i
          PROVE  i \in low <=> i \in Moved(0)
      <3>1. i \in low => i \in 0..31
        OBVIOUS
      <3>2. i \in 0..31 => i - 0 = i
        OBVIOUS
      <3>3. i \in Moved(0) <=> i \in 0..31 /\ i - 0 \in low
        BY Zenon
      <3> QED
        BY <3>1, <3>2, <3>3, Zenon
    <2> QED
      BY <2>1
  <1>3. ShiftByte(low) = Moved(8)
    BY DEF ShiftByte
  <1> HIDE DEF Moved
  <1>4. Divide2Bits(Moved(0)) = Moved(2) /\ Divide2Bits(Moved(2)) = Moved(4)
    BY <1>1 DEF Divide2Bits
  <1>5. Divide2Bits(Moved(4)) = Moved(6) /\ Divide2Bits(Moved(6)) = Moved(8)
    BY <1>1 DEF Divide2Bits
  <1>6. Divide4Bits(Moved(0)) = Moved(4) /\ Divide4Bits(Moved(4)) = Moved(8)
    BY <1>4, <1>5 DEF Divide4Bits
  <1> QED
    BY <1>2, <1>3, <1>6 DEF Divide8Bits

\* What either program does to its register with a byte, by its table, is the
\* division of the register by eight bits.
LEMMA ShiftedDivides ==
    ASSUME NEW a \in Register, NEW byte \in 0..255, who \in {"client", "server"}
    PROVE  Shifted(a, byte) = DivideByte(a, byte)
  <1> DEFINE index == Xor(TopByte(a), Bits(8, byte))
             low == {i \in 0..23 : i \in a}
  <1>1. Bits(8, byte) \in Index
    BY DEF Bits, Index
  <1>2. index \in Index /\ AtTop(index) \in Register /\ low \in Register
    BY <1>1 DEF TopByte, Index, Xor, AtTop, Register
  <1>3. Xor(a, AtTop(Bits(8, byte))) = Xor(AtTop(index), low)
    <2> DEFINE B == Bits(8, byte)
    <2>1. ASSUME NEW i
          PROVE  i \in Xor(a, AtTop(B)) <=> i \in Xor(AtTop(index), low)
      <3> HIDE DEF B
      <3>1. i \in AtTop(B) <=> i \in 24..31 /\ i - 24 \in B
        BY DEF AtTop
      <3>2. i \in AtTop(index) <=> i \in 24..31 /\ ~(i - 24 \in TopByte(a) <=> i - 24 \in B)
        BY InXor DEF AtTop, B
      <3>3. i \in 24..31 => (i - 24 \in TopByte(a) <=> i \in a)
        BY DEF TopByte
      <3>4. i \in low <=> i \in 0..23 /\ i \in a
        OBVIOUS
      <3>5. i \in a => i \in 0..23 \/ i \in 24..31
        BY DEF Register
      <3>6. ~(i \in 0..23 /\ i \in 24..31)
        OBVIOUS
      <3> HIDE DEF index, low
      <3> QED
        BY <3>1, <3>2, <3>3, <3>4, <3>5, <3>6, InXor
    <2> QED
      BY <2>1
  <1>4. crctab[index] = Divide8Bits(AtTop(index))
    BY <1>2, TablesAssumption DEF crctab
  <1>5. ShiftByte(low) = ShiftByte(a)
    BY DEF ShiftByte, Register
  <1>6. Divide8Bits(low) = ShiftByte(a)
    BY <1>5, Divide8Low
  <1> HIDE DEF index, low
  <1>7. DivideByte(a, byte) = Xor(Divide8Bits(AtTop(index)), Divide8Bits(low))
    BY <1>2, <1>3, Divide8Linear DEF DivideByte
  <1> QED
    BY <1>4, <1>6, <1>7 DEF Shifted, index

-----------------------------------------------------------------------------
(* The computation of a checksum *)

\* What is left of the length while it is digested.
LengthLeft == NumberBytes(Len(input))[n]

\* How many bytes went through the register.
Consumed ==
    IF step = "digest" THEN Len(Divided(input)) - Len(LengthLeft) ELSE read - Len(buf)

\* What is in the buffer is the end of what has been read, and what is left of
\* the length is the end of what is divided.
BuffersInv ==
    /\ step \in {"read", "digest"} => buf = <<>>
    /\ step = "read" => n = read
    /\ step = "update" =>
          /\ Len(buf) <= read
          /\ \A j \in 1..Len(buf) : buf[j] = input[read - Len(buf) + j]
    /\ step = "digest" =>
          /\ Len(LengthLeft) <= Len(Divided(input))
          /\ \A j \in 1..Len(LengthLeft) :
                LengthLeft[j] = Divided(input)[Len(Divided(input)) - Len(LengthLeft) + j]

\* The register is the remainder of what went through it.
RegisterInv == step # "none" => crc = Remainders(Divided(input))[Consumed]

CrcInv == CrcTypeOK /\ BuffersInv /\ RegisterInv

\* What is divided is the file, and then its length.
LEMMA DividedOf ==
    ASSUME NEW f \in Seq(0..255)
    PROVE  /\ Divided(f) \in Seq(0..255)
           /\ NumberBytes(Len(f))[Len(f)] \in Seq(0..255)
           /\ Len(Divided(f)) = Len(f) + Len(NumberBytes(Len(f))[Len(f)])
           /\ \A i \in 1..Len(f) : Divided(f)[i] = f[i]
           /\ \A j \in 1..Len(NumberBytes(Len(f))[Len(f)]) :
                 Divided(f)[Len(f) + j] = NumberBytes(Len(f))[Len(f)][j]
  <1> DEFINE len == Len(f)
             L == NumberBytes(len)[len]
             Strings == Seq(0..255)
  <1>1. len \in Nat
    OBVIOUS
  <1>2. L \in Strings
    <2> HIDE DEF len, Strings
    <2>1. NumberBytes(len) \in [0..len -> Strings]
      BY <1>1, NumberBytesOf DEF Strings
    <2> QED
      BY <1>1, <2>1
  <1>3. Divided(f) = f \o L
    BY DEF Divided
  <1> HIDE DEF L
  <1> QED
    BY <1>2, <1>3 DEF L, len, Strings

\* A byte more goes through the register.
LEMMA NextRemainder ==
    ASSUME NEW f \in Seq(0..255), who \in {"client", "server"}, NEW k \in Nat,
           k < Len(Divided(f))
    PROVE  /\ Divided(f)[k + 1] \in 0..255
           /\ Remainders(Divided(f))[k + 1] \in Register
           /\ Shifted(Remainders(Divided(f))[k], Divided(f)[k + 1])
                  = Remainders(Divided(f))[k + 1]
  <1> DEFINE D == Divided(f)
             R == Remainders(D)
             N == Len(D)
  <1>1. D \in Seq(0..255)
    BY DividedOf
  <1> HIDE DEF D
  <1>2. N \in Nat /\ \A i \in 1..N : D[i] \in 0..255
    BY <1>1, BytesOf
  <1>3. k + 1 \in 1..N /\ k \in 0..N /\ k + 1 \in 0..N
    BY <1>2 DEF D
  <1>4. /\ R \in [0..N -> Register]
        /\ \A i \in 1..N : R[i] = DivideByte(R[i - 1], D[i])
    <2> HIDE DEF R
    <2>1. N = Len(D)
      OBVIOUS
    <2> HIDE DEF N
    <2> QED
      BY <1>2, <2>1, RemaindersOf, DivideByteTypes DEF R
  <1> HIDE DEF R, N
  <1>5. R[k + 1] = DivideByte(R[k], D[k + 1])
    <2>1. k + 1 - 1 = k
      OBVIOUS
    <2> QED
      BY <1>3, <1>4, <2>1
  <1>6. R[k] \in Register /\ R[k + 1] \in Register /\ D[k + 1] \in 0..255
    BY <1>2, <1>3, <1>4
  <1> QED
    BY <1>5, <1>6, ShiftedDivides DEF D, R

LEMMA FirstRemainder ==
    ASSUME NEW f \in Seq(0..255)
    PROVE  Remainders(Divided(f))[0] = {}
  <1> DEFINE D == Divided(f)
             N == Len(D)
  <1>0. D \in Seq(0..255)
    BY DividedOf
  <1> HIDE DEF D
  <1>1. N \in Nat /\ \A i \in 1..N : D[i] \in 0..255
    BY <1>0, BytesOf
  <1>2. N = Len(D)
    OBVIOUS
  <1> HIDE DEF N
  <1>3. Remainders(D)[0] = {}
    BY <1>1, <1>2, RemaindersOf, DivideByteTypes
  <1> QED
    BY <1>3 DEF D

\* A computation begins with nothing.
LEMMA BeginKeeps ==
    ASSUME CrcTypeOK, NEW w \in {"client", "server"}, NEW bytes \in Seq(0..255), Begin(w, bytes)
    PROVE  CrcInv'
  <1>1. CrcTypeOK'
    BY DEF CrcTypeOK, Begin, Register
  <1>2. BuffersInv'
    BY DEF BuffersInv, Begin
  <1>3. Consumed' = 0
    <2>1. step' = "read" /\ read' = 0 /\ buf' = <<>>
      BY DEF Begin
    <2>2. Len(<<>>) = 0
      OBVIOUS
    <2>3. Consumed' = read' - Len(buf')
      BY <2>1 DEF Consumed
    <2> QED
      BY <2>1, <2>2, <2>3, Difference
  <1>4. crc' = {} /\ input' = bytes
    BY DEF Begin
  <1>5. RegisterInv'
    BY <1>3, <1>4, FirstRemainder DEF RegisterInv
  <1> QED
    BY <1>1, <1>2, <1>5 DEF CrcInv

LEMMA ReadKeeps ==
    ASSUME CrcInv, Read
    PROVE  CrcInv'
  <1> DEFINE N == Len(input)
             L == NumberBytes(N)[N]
             end == read'
  <1>1. /\ input \in Seq(0..255) /\ N \in Nat /\ read \in 0..N /\ n = read /\ buf = <<>>
        /\ step = "read" /\ who \in {"client", "server"}
        /\ crc = Remainders(Divided(input))[read]
    BY DEF CrcInv, CrcTypeOK, BuffersInv, RegisterInv, Consumed, Read
  <1>2. /\ end = IF read + (IF who = "client" THEN N ELSE Chunk) < N
                 THEN read + (IF who = "client" THEN N ELSE Chunk) ELSE N
        /\ buf' = SubSeq(input, read + 1, end)
        /\ step' = IF end = read THEN "digest" ELSE "update"
        /\ UNCHANGED <<who, input, crc, n, cksum>>
    BY Zenon DEF Read
  <1>3. end \in read..N /\ (end = read => read = N)
    BY <1>1, <1>2, CrcAssumption
  <1> HIDE DEF N
  <1>4. read \in Nat /\ end \in Nat /\ read <= end /\ end <= N
    BY <1>1, <1>3
  <1>5. /\ buf' \in Seq(0..255) /\ Len(buf') = end - read
        /\ \A j \in 1..end - read : buf'[j] = input[read + j]
    <2> DEFINE from == read
    <2>1. /\ SubSeq(input, from + 1, end) \in Seq(0..255)
          /\ Len(SubSeq(input, from + 1, end)) = end - from
          /\ \A j \in 1..end - from : SubSeq(input, from + 1, end)[j] = input[from + j]
      <3> HIDE DEF end, from
      <3>1. from \in Nat /\ end \in Nat /\ from <= end /\ end <= Len(input)
        BY <1>4 DEF N, from
      <3> QED
        BY <1>1, <3>1, PartOf
    <2> QED
      BY <1>2, <2>1, Zenon
  <1>6. read' - Len(buf') = read /\ Len(buf') <= read'
    <2>1. end - (end - read) = read /\ end - read <= end
      BY <1>4, Difference, Zenon
    <2> QED
      BY <1>5, <2>1, Zenon
  <1>7. CrcTypeOK'
    BY <1>1, <1>2, <1>3, <1>4, <1>5 DEF CrcInv, CrcTypeOK, N
  <1>8. CASE end # read
    <2>1. step' = "update"
      BY <1>2, <1>8
    <2>2. BuffersInv'
      <3>1. \A j \in 1..Len(buf') : buf'[j] = input'[read' - Len(buf') + j]
        BY <1>2, <1>5, <1>6
      <3> QED
        BY <1>6, <2>1, <3>1 DEF BuffersInv
    <2>3. Consumed' = read
      BY <1>6, <2>1 DEF Consumed
    <2> QED
      BY <1>1, <1>2, <1>7, <2>2, <2>3 DEF CrcInv, RegisterInv
  <1>9. CASE end = read
    <2>1. step' = "digest" /\ read = N /\ buf' = <<>>
      BY <1>1, <1>2, <1>3, <1>4, <1>5, <1>9
    <2>2. LengthLeft' = L /\ input' = input
      BY <1>1, <1>2, <2>1 DEF LengthLeft, N
    <2> HIDE DEF L
    <2>3. /\ Len(Divided(input)) = N + Len(L) /\ L \in Seq(0..255)
          /\ \A j \in 1..Len(L) : Divided(input)[N + j] = L[j]
      BY <1>1, DividedOf DEF L, N
    <2>4. Len(L) \in Nat /\ Len(Divided(input)) - Len(L) = N
      BY <1>1, <2>3
    <2>5. BuffersInv'
      BY <1>1, <2>1, <2>2, <2>3, <2>4 DEF BuffersInv
    <2>6. Consumed' = read
      BY <2>1, <2>2, <2>4 DEF Consumed
    <2> QED
      BY <1>1, <1>2, <1>7, <2>5, <2>6 DEF CrcInv, RegisterInv
  <1> QED
    BY <1>8, <1>9

LEMMA UpdateByteKeeps ==
    ASSUME CrcInv, UpdateByte
    PROVE  CrcInv'
  <1> DEFINE k == read - Len(buf)
             D == Divided(input)
  <1>1. /\ input \in Seq(0..255) /\ buf \in Seq(0..255) /\ buf # <<>>
        /\ read \in 0..Len(input) /\ who \in {"client", "server"} /\ step = "update"
        /\ Len(buf) <= read /\ \A j \in 1..Len(buf) : buf[j] = input[k + j]
        /\ crc = Remainders(D)[k]
    BY DEF CrcInv, CrcTypeOK, BuffersInv, RegisterInv, Consumed, UpdateByte
  <1>2. /\ crc' = Shifted(crc, Head(buf)) /\ buf' = Tail(buf)
        /\ UNCHANGED <<who, step, input, read, n, cksum>>
    BY DEF UpdateByte
  <1>3. Len(buf) \in Nat \ {0} /\ k \in Nat /\ k < Len(input)
    BY <1>1
  <1>4. Head(buf) = input[k + 1]
    BY <1>1, <1>3
  <1>5. /\ buf' \in Seq(0..255) /\ Len(buf') = Len(buf) - 1
        /\ \A j \in 1..Len(buf') : buf'[j] = buf[j + 1]
    BY <1>1, <1>2
  <1>6. /\ Len(buf') <= read' /\ read' - Len(buf') = k + 1
        /\ \A j \in 1..Len(buf') : buf'[j] = input'[k + 1 + j]
    <2>1. read \in Nat /\ Len(buf) <= read /\ read' = read /\ Len(buf') = Len(buf) - 1
      BY <1>1, <1>2, <1>5
    <2>2. Len(buf') <= read' /\ read' - Len(buf') = k + 1
      BY <1>3, <2>1
    <2>3. ASSUME NEW j \in 1..Len(buf')
          PROVE  buf'[j] = input'[k + 1 + j]
      <3>1. j + 1 \in 1..Len(buf) /\ k + (j + 1) = k + 1 + j
        BY <1>3, <1>5
      <3>2. buf[j + 1] = input[k + (j + 1)] /\ buf'[j] = buf[j + 1]
        BY <1>1, <1>5, <3>1
      <3> QED
        BY <1>2, <3>1, <3>2
    <2> QED
      BY <2>2, <2>3
  <1> HIDE DEF k
  <1>7. k < Len(D) /\ D[k + 1] = input[k + 1]
    <2> DEFINE L == NumberBytes(Len(input))[Len(input)]
    <2>1. /\ L \in Seq(0..255) /\ Len(D) = Len(input) + Len(L)
          /\ \A i \in 1..Len(input) : D[i] = input[i]
      BY <1>1, DividedOf
    <2> HIDE DEF L, D
    <2>2. Len(L) \in Nat /\ Len(input) \in Nat
      BY <1>1, <2>1, BytesOf
    <2> QED
      BY <1>3, <2>1, <2>2
  <1>8. crc' = Remainders(D)[k + 1] /\ Remainders(D)[k + 1] \in Register
    BY <1>1, <1>2, <1>3, <1>4, <1>7, NextRemainder
  <1>9. CrcTypeOK'
    BY <1>2, <1>5, <1>8 DEF CrcInv, CrcTypeOK
  <1>10. BuffersInv'
    BY <1>1, <1>2, <1>6 DEF BuffersInv
  <1>11. Consumed' = k + 1
    BY <1>1, <1>2, <1>6 DEF Consumed
  <1> QED
    BY <1>2, <1>8, <1>9, <1>10, <1>11 DEF CrcInv, RegisterInv

LEMMA UpdateKeeps ==
    ASSUME CrcInv, Update
    PROVE  CrcInv'
  <1>1. CrcTypeOK'
    BY DEF CrcInv, CrcTypeOK, Update
  <1>2. BuffersInv'
    BY DEF BuffersInv, Update
  <1>3. Consumed' = Consumed
    BY DEF Consumed, Update
  <1> QED
    BY <1>1, <1>2, <1>3 DEF CrcInv, RegisterInv, Update

LEMMA DigestLengthKeeps ==
    ASSUME CrcInv, DigestLength
    PROVE  CrcInv'
  <1> DEFINE D == Divided(input)
             B == NumberBytes(Len(input))
             L == B[n]
             M == B[n \div 256]
             k == Len(D) - Len(L)
  <1>0. /\ input \in Seq(0..255) /\ n \in 0..Len(input) /\ n > 0 /\ step = "digest"
        /\ who \in {"client", "server"} /\ LengthLeft = L
    BY DEF CrcInv, CrcTypeOK, DigestLength, LengthLeft
  <1>1. /\ input \in Seq(0..255) /\ n \in 1..Len(input) /\ buf = <<>>
        /\ who \in {"client", "server"} /\ step = "digest"
        /\ crc = Remainders(D)[k]
        /\ Len(L) <= Len(D) /\ \A j \in 1..Len(L) : L[j] = D[k + j]
    <2>1. n \in 1..Len(input)
      BY <1>0, BytesOf
    <2>2. /\ buf = <<>> /\ Len(L) <= Len(D)
          /\ \A j \in 1..Len(L) : L[j] = D[k + j]
      BY <1>0, Zenon DEF CrcInv, BuffersInv
    <2>3. crc = Remainders(D)[k]
      BY <1>0, Zenon DEF CrcInv, RegisterInv, Consumed
    <2> QED
      BY <1>0, <2>1, <2>2, <2>3
  <1>2. /\ crc' = Shifted(crc, n % 256) /\ n' = n \div 256
        /\ UNCHANGED <<who, step, input, read, buf, cksum>>
    BY DEF DigestLength
  <1>3. n \div 256 \in 0..Len(input)
    BY <1>1
  <1>4. L = <<n % 256>> \o M /\ M \in Seq(0..255)
    <2> DEFINE len == Len(input)
               Strings == Seq(0..255)
               After(m, s) == <<m % 256>> \o s
    <2>1. len \in Nat /\ n \in 1..len /\ n \div 256 \in 0..len
      BY <1>1, <1>3
    <2> HIDE DEF len
    <2>2. /\ NumberBytes(len) \in [0..len -> Strings]
          /\ \A m \in 1..len : NumberBytes(len)[m] = After(m, NumberBytes(len)[m \div 256])
      BY <2>1, NumberBytesOf, ZenonT(60)
    <2> HIDE DEF Strings, After
    <2>3. /\ NumberBytes(len)[n \div 256] \in Strings
          /\ NumberBytes(len)[n] = After(n, NumberBytes(len)[n \div 256])
      BY <2>1, <2>2
    <2> QED
      BY <2>3 DEF len, Strings, After
  <1>5. D \in Seq(0..255)
    BY <1>1, DividedOf
  <1>6. LengthLeft' = M
    BY <1>2 DEF LengthLeft
  <1> HIDE DEF D, L, M
  <1>7. Len(L) = Len(M) + 1 /\ Len(M) \in Nat /\ L[1] = n % 256
          /\ \A j \in 1..Len(M) : L[j + 1] = M[j]
    BY <1>1, <1>4
  <1>8. k \in Nat /\ k < Len(D) /\ Len(D) - Len(M) = k + 1
    BY <1>1, <1>5, <1>7
  <1> HIDE DEF k
  <1>9. D[k + 1] = n % 256 /\ \A j \in 1..Len(M) : M[j] = D[k + 1 + j]
    <2>1. 1 \in 1..Len(L)
      BY <1>7
    <2>2. D[k + 1] = n % 256
      BY <1>1, <1>7, <2>1
    <2>3. ASSUME NEW j \in 1..Len(M)
          PROVE  M[j] = D[k + 1 + j]
      <3>1. j + 1 \in 1..Len(L) /\ k + (j + 1) = k + 1 + j
        BY <1>7, <1>8
      <3>2. L[j + 1] = D[k + (j + 1)]
        BY <1>1, <3>1
      <3> QED
        BY <1>7, <3>1, <3>2
    <2> QED
      BY <2>2, <2>3
  <1>10. crc' = Remainders(D)[k + 1] /\ Remainders(D)[k + 1] \in Register
    BY <1>1, <1>2, <1>8, <1>9, NextRemainder DEF D
  <1>11. CrcTypeOK'
    BY <1>2, <1>3, <1>10 DEF CrcInv, CrcTypeOK
  <1>12. Divided(input') = D
    BY <1>2 DEF D
  <1>13. BuffersInv'
    <2>1. step' = "digest" /\ buf' = <<>>
      BY <1>1, <1>2
    <2>2. /\ Len(LengthLeft') <= Len(Divided(input'))
          /\ \A j \in 1..Len(LengthLeft') :
                LengthLeft'[j] = Divided(input')[Len(Divided(input')) - Len(LengthLeft') + j]
      <3>1. Len(M) <= Len(D)
        BY <1>1, <1>7, <1>8
      <3> QED
        BY <1>6, <1>8, <1>9, <1>12, <3>1
    <2> QED
      BY <2>1, <2>2, Zenon DEF BuffersInv
  <1>14. Consumed' = k + 1
    BY <1>1, <1>2, <1>6, <1>8, <1>12 DEF Consumed
  <1> QED
    BY <1>10, <1>11, <1>12, <1>13, <1>14 DEF CrcInv, RegisterInv

\* What a program finds is the POSIX cksum of its bytes.
LEMMA DigestFinds ==
    ASSUME CrcInv, Digest
    PROVE  CrcInv' /\ cksum' = [cksum EXCEPT ![who] = Cksum(input)]
  <1>1. /\ input \in Seq(0..255) /\ n = 0 /\ step = "digest" /\ step' = "none"
        /\ crc = Remainders(Divided(input))[Consumed] /\ crc \in Register
        /\ cksum' = [cksum EXCEPT ![who] = (0..31) \ crc]
        /\ UNCHANGED <<who, input, read, buf, crc, n>>
    BY DEF CrcInv, CrcTypeOK, RegisterInv, Digest
  <1>2. LengthLeft = <<>>
    <2>1. Len(input) \in Nat
      BY <1>1
    <2> QED
      BY <1>1, <2>1, NumberBytesOf DEF LengthLeft
  <1>3. Consumed = Len(Divided(input))
    BY <1>1, <1>2, DividedOf DEF Consumed
  <1>4. (0..31) \ crc = Cksum(input)
    BY <1>1, <1>3 DEF Cksum
  <1>5. (0..31) \ crc \in Register
    BY DEF Register
  <1>6. CrcTypeOK'
    BY <1>1, <1>5 DEF CrcInv, CrcTypeOK
  <1>7. BuffersInv' /\ RegisterInv'
    BY <1>1 DEF BuffersInv, RegisterInv
  <1> QED
    BY <1>1, <1>4, <1>6, <1>7 DEF CrcInv

-----------------------------------------------------------------------------
(* Files that differ in one byte *)

\* No two registers are divided to the same: the lowest bit tells whether the
\* polynomial was taken away.
LEMMA DivideBitInjective ==
    ASSUME NEW a \in Register, NEW b \in Register, DivideBit(a) = DivideBit(b)
    PROVE  a = b
  <1> DEFINE X == ShiftBit(a)
             Y == ShiftBit(b)
  <1>1. 0 \notin X /\ 0 \notin Y /\ 0 \in Polynomial
    BY DEF ShiftBit, Polynomial
  <1>2. /\ DivideBit(a) = IF 31 \in a THEN Xor(X, Polynomial) ELSE X
        /\ DivideBit(b) = IF 31 \in b THEN Xor(Y, Polynomial) ELSE Y
    BY Zenon DEF DivideBit
  <1>3. \A x, y, p : Xor(x, p) = Xor(y, p) => x = y
    BY DEF Xor
  <1>4. (31 \in a <=> 31 \in b) /\ X = Y
    <2> HIDE DEF X, Y
    <2>1. 31 \in a <=> 0 \in DivideBit(a)
      BY <1>1, <1>2, InXor
    <2>2. 31 \in b <=> 0 \in DivideBit(b)
      BY <1>1, <1>2, InXor
    <2> QED
      BY <1>2, <1>3, <2>1, <2>2
  <1>5. ASSUME NEW i \in 0..30
        PROVE  i \in a <=> i \in b
    <2>1. i + 1 \in 1..31 /\ i + 1 - 1 = i
      OBVIOUS
    <2>2. (i + 1 \in X <=> i \in a) /\ (i + 1 \in Y <=> i \in b)
      BY <2>1 DEF ShiftBit
    <2> QED
      BY <1>4, <2>2
  <1>6. \A i \in 0..31 : i \in 0..30 \/ i = 31
    OBVIOUS
  <1>7. \A i \in 0..31 : i \in a <=> i \in b
    BY <1>4, <1>5, <1>6
  <1>8. a \subseteq 0..31 /\ b \subseteq 0..31
    BY DEF Register
  <1> QED
    BY <1>7, <1>8

LEMMA Divide8Injective ==
    ASSUME NEW a \in Register, NEW b \in Register, Divide8Bits(a) = Divide8Bits(b)
    PROVE  a = b
  <1>1. \A x, y \in Register : /\ Divide2Bits(x) = Divide2Bits(y) => x = y
                               /\ Divide2Bits(x) \in Register
    BY DivideBitInjective, DivideBitTypes DEF Divide2Bits
  <1>2. \A x, y \in Register : /\ Divide4Bits(x) = Divide4Bits(y) => x = y
                               /\ Divide4Bits(x) \in Register
    BY <1>1 DEF Divide4Bits
  <1> QED
    BY <1>2 DEF Divide8Bits

\* From one register two bytes lead to two registers, and one byte leads from
\* two registers to two.
LEMMA DivideByteInjective ==
    ASSUME NEW a \in Register, NEW b \in Register,
           NEW x \in 0..255, NEW y \in 0..255, DivideByte(a, x) = DivideByte(b, y)
    PROVE  a = b <=> x = y
  <1> DEFINE X == AtTop(Bits(8, x))
             Y == AtTop(Bits(8, y))
  <1>1. X \in Register /\ Y \in Register
    BY DEF AtTop, Register
  <1>2. Xor(a, X) = Xor(b, Y)
    <2>1. Divide8Bits(Xor(a, X)) = Divide8Bits(Xor(b, Y))
      BY DEF DivideByte
    <2>2. Xor(a, X) \in Register /\ Xor(b, Y) \in Register
      BY <1>1, XorTypes
    <2> HIDE DEF X, Y
    <2> QED
      BY <2>1, <2>2, Divide8Injective
  <1>3. ASSUME X = Y
        PROVE  x = y
    <2> DEFINE A == Bits(8, x)
               B == Bits(8, y)
    <2>1. A \subseteq 0..7 /\ B \subseteq 0..7
      BY DEF Bits
    <2>2. AtTop(A) = AtTop(B)
      BY <1>3
    <2> HIDE DEF A, B
    <2>3. ASSUME NEW i \in 0..7
          PROVE  i \in A <=> i \in B
      <3>1. i + 24 \in 24..31 /\ i + 24 - 24 = i
        OBVIOUS
      <3>2. (i + 24 \in AtTop(A) <=> i \in A) /\ (i + 24 \in AtTop(B) <=> i \in B)
        BY <3>1 DEF AtTop
      <3> QED
        BY <2>2, <3>2
    <2>4. A = B
      BY <2>1, <2>3
    <2>5. Number(A) = x /\ Number(B) = y
      BY BytesAssumption DEF A, B
    <2> QED
      BY <2>4, <2>5
  <1>4. \A p, q, r : Xor(p, q) = Xor(p, r) => q = r
    BY DEF Xor
  <1>5. \A p, q, r : Xor(p, r) = Xor(q, r) => p = q
    BY DEF Xor
  <1>6. x = y => X = Y
    OBVIOUS
  <1> HIDE DEF X, Y
  <1> QED
    BY <1>2, <1>3, <1>4, <1>5, <1>6

\* Files of bytes that are the same but for one byte.
OneApart(f, g, i) ==
    /\ f \in Seq(0..255) /\ g \in Seq(0..255) /\ Len(g) = Len(f)
    /\ i \in 1..Len(f) /\ f[i] # g[i]
    /\ \A j \in 1..Len(f) : j # i => f[j] = g[j]

\* Then what is divided for them is the same but for this byte.
LEMMA DividedApart ==
    ASSUME NEW f, NEW g, NEW i, OneApart(f, g, i)
    PROVE  OneApart(Divided(f), Divided(g), i)
  <1> DEFINE len == Len(f)
             L == NumberBytes(len)[len]
             D == Divided(f)
             E == Divided(g)
  <1>1. /\ f \in Seq(0..255) /\ g \in Seq(0..255) /\ Len(g) = len
        /\ i \in 1..len /\ f[i] # g[i]
        /\ \A j \in 1..len : j # i => f[j] = g[j]
    BY DEF OneApart
  <1>2. /\ D \in Seq(0..255) /\ L \in Seq(0..255) /\ Len(D) = len + Len(L)
        /\ \A j \in 1..len : D[j] = f[j]
        /\ \A j \in 1..Len(L) : D[len + j] = L[j]
    BY <1>1, DividedOf
  <1>3. /\ E \in Seq(0..255) /\ Len(E) = len + Len(L)
        /\ \A j \in 1..len : E[j] = g[j]
        /\ \A j \in 1..Len(L) : E[len + j] = L[j]
    <2> HIDE DEF len, L, E
    <2>1. L = NumberBytes(Len(g))[Len(g)]
      BY <1>1 DEF L
    <2> QED
      BY <1>1, <2>1, DividedOf DEF E
  <1>4. len \in Nat /\ Len(L) \in Nat
    BY <1>1, <1>2, BytesOf
  <1> HIDE DEF len, L, D, E
  <1>5. i \in 1..Len(D) /\ D[i] # E[i]
    BY <1>1, <1>2, <1>3, <1>4
  <1>6. ASSUME NEW j \in 1..Len(D), j # i
        PROVE  D[j] = E[j]
    <2>1. CASE j \in 1..len
      BY <1>1, <1>2, <1>3, <1>6, <2>1
    <2>2. CASE j \notin 1..len
      <3>1. j - len \in 1..Len(L) /\ len + (j - len) = j
        BY <1>2, <1>4, <2>2
      <3> QED
        BY <1>2, <1>3, <3>1
    <2> QED
      BY <2>1, <2>2
  <1> QED
    BY <1>2, <1>3, <1>5, <1>6 DEF OneApart, D, E

\* Neither have they the same checksum: from this byte on the registers differ.
LEMMA ChecksumsApart ==
    ASSUME NEW f, NEW g, NEW i, OneApart(f, g, i)
    PROVE  Cksum(f) # Cksum(g)
  <1> DEFINE D == Divided(f)
             E == Divided(g)
             N == Len(D)
             R == Remainders(D)
             Q == Remainders(E)
  <1>1. OneApart(D, E, i)
    BY DividedApart
  <1> HIDE DEF D, E
  <1>2. /\ N \in Nat /\ Len(E) = N /\ i \in 1..N /\ D[i] # E[i]
        /\ \A k \in 1..N : D[k] \in 0..255 /\ E[k] \in 0..255
        /\ \A j \in 1..N : j # i => D[j] = E[j]
    <2>1. /\ D \in Seq(0..255) /\ E \in Seq(0..255) /\ Len(E) = N
          /\ i \in 1..N /\ D[i] # E[i]
          /\ \A j \in 1..N : j # i => D[j] = E[j]
      BY <1>1 DEF OneApart
    <2>2. N \in Nat /\ \A k \in 1..N : D[k] \in 0..255
      BY <2>1, BytesOf
    <2>3. \A k \in 1..Len(E) : E[k] \in 0..255
      BY <2>1, BytesOf
    <2> QED
      BY <2>1, <2>2, <2>3
  <1>3. N = Len(D)
    OBVIOUS
  <1> HIDE DEF N, R, Q
  <1>4. /\ R \in [0..N -> Register] /\ R[0] = {}
        /\ \A k \in 1..N : R[k] = DivideByte(R[k - 1], D[k])
    BY <1>2, <1>3, RemaindersOf, DivideByteTypes DEF R
  <1>5. /\ Q \in [0..N -> Register] /\ Q[0] = {}
        /\ \A k \in 1..N : Q[k] = DivideByte(Q[k - 1], E[k])
    BY <1>2, RemaindersOf, DivideByteTypes DEF Q
  <1> DEFINE T == {k \in 0..N : R[k] = Q[k] <=> k < i}
  <1>6. ASSUME NEW k \in 0..N, \A m \in 0..k - 1 : m \in T
        PROVE  k \in T
    <2>1. CASE k = 0
      <3>1. R[k] = Q[k]
        BY <1>4, <1>5, <2>1
      <3>2. k < i
        BY <1>2, <2>1
      <3> QED
        BY <3>1, <3>2
    <2>2. CASE k # 0
      <3>1. k \in 1..N /\ k - 1 \in 0..k - 1 /\ k - 1 \in 0..N
        BY <1>2, <2>2
      <3>2. R[k - 1] = Q[k - 1] <=> k - 1 < i
        BY <1>6, <3>1
      <3>3. /\ R[k] = DivideByte(R[k - 1], D[k]) /\ Q[k] = DivideByte(Q[k - 1], E[k])
            /\ R[k - 1] \in Register /\ Q[k - 1] \in Register
            /\ D[k] \in 0..255 /\ E[k] \in 0..255
        BY <1>2, <1>4, <1>5, <3>1
      <3>4. R[k] = Q[k] => (R[k - 1] = Q[k - 1] <=> D[k] = E[k])
        <4> DEFINE a == R[k - 1]
                   b == Q[k - 1]
                   x == D[k]
                   y == E[k]
        <4>1. /\ R[k] = DivideByte(a, x) /\ Q[k] = DivideByte(b, y)
              /\ a \in Register /\ b \in Register /\ x \in 0..255 /\ y \in 0..255
          BY <3>3
        <4> HIDE DEF a, b, x, y
        <4>2. ASSUME DivideByte(a, x) = DivideByte(b, y)
              PROVE  a = b <=> x = y
          <5> DEFINE Byte == 0..255
          <5>1. \A v, w \in Register : \A r, s \in Byte :
                   DivideByte(v, r) = DivideByte(w, s) => (v = w <=> r = s)
            BY DivideByteInjective
          <5>2. x \in Byte /\ y \in Byte
            BY <4>1
          <5> HIDE DEF Byte
          <5> QED
            BY <4>1, <4>2, <5>1, <5>2
        <4> QED
          BY <4>1, <4>2 DEF a, b, x, y
      <3>5. D[k] = E[k] <=> k # i
        BY <1>2, <3>1
      <3>6. R[k - 1] = Q[k - 1] /\ D[k] = E[k] => R[k] = Q[k]
        BY <3>3
      <3>7. i \in Nat /\ k \in Nat /\ (k - 1 < i <=> k < i \/ k = i)
        BY <1>2, <3>1
      <3>8. R[k] = Q[k] <=> k < i
        BY <3>2, <3>4, <3>5, <3>6, <3>7
      <3> QED
        BY <3>8
    <2> QED
      BY <2>1, <2>2
  <1>7. \A k \in 0..N : k \in T
    <2> HIDE DEF T
    <2> QED
      BY <1>2, <1>6, Induction
  <1>8. R[N] # Q[N] /\ R[N] \in Register /\ Q[N] \in Register
    <2>1. N \in 0..N /\ ~(N < i)
      BY <1>2
    <2> QED
      BY <1>4, <1>5, <1>7, <2>1
  <1>9. Cksum(f) = (0..31) \ R[N] /\ Cksum(g) = (0..31) \ Q[N]
    BY <1>2, <1>3 DEF Cksum, D, E, R, Q
  <1>10. \A a, b \in Register : (0..31) \ a = (0..31) \ b => a = b
    BY DEF Register
  <1> QED
    BY <1>8, <1>9, <1>10

\* What the server reads back is what it wrote, or differs from it in one byte.
LEMMA ReadBackOf ==
    ASSUME NEW w \in Seq(0..255), NEW bytes \in ReadBack(w)
    PROVE  bytes \in Seq(0..255) /\ (bytes = w \/ \E i : OneApart(bytes, w, i))
  <1>1. CASE bytes = w
    BY <1>1
  <1>2. CASE bytes # w
    <2>1. PICK e \in Edits : e.place <= Len(w) /\ bytes = [w EXCEPT ![e.place] = e.byte]
      BY <1>2 DEF ReadBack
    <2> DEFINE i == e.place
               x == e.byte
               Byte == 0..255
    <2>2. i \in Nat \ {0} /\ x \in Byte /\ i <= Len(w) /\ bytes = [w EXCEPT ![i] = x]
      BY <2>1, FilesAssumption
    <2> HIDE DEF i, x
    <2>3. Len(w) \in Nat /\ \A j \in 1..Len(w) : w[j] \in Byte
      BY BytesOf
    <2>4. w \in Seq(Byte)
      OBVIOUS
    <2> HIDE DEF Byte
    <2>5. i \in 1..Len(w)
      BY <2>2, <2>3
    <2>6. /\ bytes \in Seq(Byte) /\ Len(bytes) = Len(w) /\ bytes[i] = x
          /\ \A j \in 1..Len(w) : j # i => bytes[j] = w[j]
      BY <2>2, <2>4, <2>5
    <2>7. bytes[i] # w[i]
      <3>1. ASSUME x = w[i]
            PROVE  \A j \in 1..Len(w) : bytes[j] = w[j]
        BY <2>6, <3>1
      <3> QED
        BY <1>2, <2>4, <2>6, <3>1
    <2>8. OneApart(bytes, w, i)
      BY <2>4, <2>5, <2>6, <2>7 DEF OneApart, Byte
    <2> QED
      BY <2>6, <2>8 DEF Byte
  <1> QED
    BY <1>1, <1>2

-----------------------------------------------------------------------------
(* A file and its checksums *)

\* Whose checksum is computed, of what; and what has been found.
StageInv ==
    /\ step # "none" =>
          /\ cksum[who] = Unknown
          /\ \/ who = "client" /\ pc = "send" /\ input = First(fileSize)
             \/ who = "server" /\ pc = "stored" /\ input \in ReadBack(First(stored))
    /\ cksum["client"] # Unknown =>
          pc \notin {"read", "encrypt"} /\ cksum["client"] = Cksum(First(fileSize))
    /\ cksum["server"] # Unknown =>
          /\ pc = "stored" /\ who = "server" /\ step = "none"
          /\ input \in ReadBack(First(stored))
          /\ cksum["server"] = Cksum(input)

\* No more of the file is stored, and checksummed, than is there.
PartsInv ==
    /\ file \in Files /\ size = Len(file)
    /\ pc \in {"read", "encrypt"} => step = "none"
    /\ fileSize <= size
    /\ pc = "stored" => stored = fileSize

ContentInv == SizeInv /\ CrcInv /\ PartsInv /\ StageInv

\* The beginning of a file is made of bytes.
LEMMA FirstOf ==
    ASSUME file \in Files, NEW count \in Nat, count <= Len(file)
    PROVE  First(count) \in Seq(0..255)
  <1>1. file \in Seq(0..255)
    BY FilesAssumption
  <1> DEFINE none == 0
  <1>2. none \in Nat /\ none <= count /\ none + 1 = 1
    OBVIOUS
  <1> HIDE DEF none
  <1>3. SubSeq(file, none + 1, count) \in Seq(0..255)
    BY <1>1, <1>2, PartOf
  <1> QED
    BY <1>2, <1>3 DEF First

LEMMA ContentInits ==
    ASSUME ContentInit
    PROVE  ContentInv
  <1>1. SizeInv
    BY SizeInit DEF ContentInit
  <1>2. CrcTypeOK
    BY DEF ContentInit, CrcInit, CrcTypeOK, Register
  <1>3. BuffersInv /\ RegisterInv
    BY DEF ContentInit, CrcInit, BuffersInv, RegisterInv
  <1>4. PartsInv
    <2>1. file \in Files /\ size = Len(file) /\ fileSize = 0 /\ pc = "read" /\ step = "none"
      BY DEF ContentInit, Init, CrcInit
    <2>2. Len(file) \in Nat
      BY <2>1, FilesAssumption, SizesAssumption
    <2> QED
      BY <2>1, <2>2 DEF PartsInv
  <1>5. StageInv
    BY DEF ContentInit, CrcInit, StageInv
  <1> QED
    BY <1>1, <1>2, <1>3, <1>4, <1>5 DEF ContentInv, CrcInv

\* Every step is one of the sizes.
LEMMA ContentSteps ==
    ASSUME [ContentNext]_contentVars
    PROVE  [Next]_vars
  BY DEF ContentNext, Prepare, Store, Next, contentVars

LEMMA CrcUnchanged ==
    ASSUME CrcInv, UNCHANGED crcVars
    PROVE  CrcInv'
  <1>1. UNCHANGED <<who, step, input, read, buf, crc, n, cksum>>
    BY DEF crcVars
  <1>2. CrcTypeOK'
    BY <1>1 DEF CrcInv, CrcTypeOK
  <1>3. BuffersInv'
    BY <1>1 DEF CrcInv, BuffersInv, LengthLeft
  <1>4. Consumed' = Consumed
    BY <1>1 DEF Consumed, LengthLeft
  <1>5. RegisterInv'
    BY <1>1, <1>4 DEF CrcInv, RegisterInv
  <1> QED
    BY <1>2, <1>3, <1>5 DEF CrcInv

LEMMA CrcKeeps ==
    ASSUME CrcInv, CrcStep
    PROVE  CrcInv'
  BY ReadKeeps, UpdateByteKeeps, UpdateKeeps, DigestLengthKeeps, DigestFinds DEF CrcStep

\* The file and the sizes stay what they are to each other.
LEMMA PartsKept ==
    ASSUME ContentInv, [ContentNext]_contentVars
    PROVE  PartsInv'
  <1>1. /\ file \in Files /\ size = Len(file) /\ size \in Nat /\ fileSize \in Nat
        /\ pc \in {"read", "encrypt"} => step = "none"
        /\ fileSize <= size
        /\ pc = "stored" => stored = fileSize
    BY SizesAssumption DEF ContentInv, PartsInv, SizeInv, TypeOK
  <1>2. UNCHANGED <<file, size>>
    BY DEF ContentNext, Prepare, Store, ReadFile, Encrypt, SendItem, Decrypt, contentVars, vars
  <1>3. CASE ReadFile /\ UNCHANGED crcVars
    <2>1. Cut(size) <= size
      <3>1. Word \in Nat \ {0}
        BY SizesAssumption
      <3> QED
        BY <1>1, <3>1 DEF Cut
    <2> QED
      BY <1>1, <1>2, <1>3, <2>1 DEF ReadFile, crcVars, PartsInv
  <1>4. CASE Prepare
    BY <1>1, <1>2, <1>4 DEF Prepare, Encrypt, PartsInv
  <1>5. CASE SendItem
    BY <1>1, <1>2, <1>5 DEF SendItem, PartsInv
  <1>6. CASE Decrypt
    BY <1>1, <1>2, <1>6 DEF Decrypt, PartsInv
  <1>7. CASE CrcStep /\ UNCHANGED vars
    <2>1. step # "none"
      BY <1>7 DEF CrcStep, Read, UpdateByte, Update, DigestLength, Digest
    <2> QED
      BY <1>1, <1>2, <1>7, <2>1 DEF vars, PartsInv
  <1>8. CASE UNCHANGED contentVars
    BY <1>1, <1>2, <1>8 DEF contentVars, vars, crcVars, PartsInv
  <1> QED
    BY <1>3, <1>4, <1>5, <1>6, <1>7, <1>8 DEF ContentNext, Store

LEMMA PrepareKeeps ==
    ASSUME ContentInv, Prepare, UNCHANGED file
    PROVE  CrcInv' /\ StageInv'
  <1>1. /\ file \in Files /\ size = Len(file) /\ fileSize \in Nat /\ fileSize <= size
        /\ CrcTypeOK /\ pc = "encrypt" /\ step = "none"
    BY SizesAssumption DEF ContentInv, PartsInv, CrcInv, SizeInv, TypeOK, Prepare, Encrypt
  <1>2. First(fileSize) \in Seq(0..255)
    BY <1>1, FirstOf
  <1>3. Begin("client", First(fileSize))
    BY DEF Prepare
  <1>4. CrcInv'
    BY <1>1, <1>2, <1>3, BeginKeeps
  <1>5. cksum["client"] = Unknown /\ cksum["server"] = Unknown
    BY <1>1 DEF ContentInv, StageInv
  <1>6. /\ UNCHANGED <<file, fileSize, cksum>> /\ who' = "client" /\ pc' = "send"
        /\ input' = First(fileSize)
    BY DEF Prepare, Encrypt, Begin
  <1>7. First(fileSize)' = First(fileSize)
    BY <1>6 DEF First
  <1> QED
    BY <1>4, <1>5, <1>6, <1>7 DEF StageInv

LEMMA StoreKeeps ==
    ASSUME ContentInv, Store, UNCHANGED file
    PROVE  CrcInv' /\ StageInv'
  <1>1. /\ file \in Files /\ size = Len(file) /\ fileSize \in Nat /\ fileSize <= size
        /\ CrcTypeOK /\ pc = "decrypt"
    BY SizesAssumption DEF ContentInv, PartsInv, CrcInv, SizeInv, TypeOK, Store, Decrypt
  <1>2. step = "none" /\ cksum["server"] = Unknown
    BY <1>1 DEF ContentInv, StageInv
  <1>3. UNCHANGED <<file, fileSize>>
    BY DEF Store, Decrypt
  <1>4. First(fileSize)' = First(fileSize)
    BY <1>3 DEF First
  <1>5. CASE pc' = "stored"
    <2>1. /\ stored' = fileSize
          /\ \E b \in ReadBack(First(stored')) : Begin("server", b)
      BY <1>5 DEF Store, Decrypt
    <2>2. PICK bytes \in ReadBack(First(fileSize)) : Begin("server", bytes)
      BY <2>1
    <2>3. bytes \in Seq(0..255)
      BY <1>1, FirstOf, ReadBackOf
    <2>4. CrcInv'
      BY <1>1, <2>2, <2>3, BeginKeeps
    <2>5. UNCHANGED cksum /\ who' = "server" /\ input' = bytes
      BY <2>2 DEF Begin
    <2>6. ReadBack(First(stored))' = ReadBack(First(fileSize))
      BY <1>3, <2>1 DEF First, ReadBack
    <2>7. cksum["client"] # Unknown => cksum["client"] = Cksum(First(fileSize))
      BY DEF ContentInv, StageInv
    <2> QED
      BY <1>2, <1>4, <1>5, <2>4, <2>5, <2>6, <2>7 DEF StageInv
  <1>6. CASE pc' # "stored"
    <2>1. UNCHANGED crcVars /\ pc' = "unanswered"
      BY <1>6 DEF Store, Decrypt
    <2>2. UNCHANGED <<step, cksum>>
      BY <2>1 DEF crcVars
    <2>3. CrcInv'
      BY <2>1, CrcUnchanged DEF ContentInv
    <2>4. cksum["client"] # Unknown => cksum["client"] = Cksum(First(fileSize))
      BY DEF ContentInv, StageInv
    <2> QED
      BY <1>2, <1>4, <2>1, <2>2, <2>3, <2>4 DEF StageInv
  <1> QED
    BY <1>5, <1>6

LEMMA CrcStepKeepsStage ==
    ASSUME ContentInv, CrcStep, UNCHANGED <<file, vars>>
    PROVE  StageInv'
  <1>1. UNCHANGED <<file, pc, fileSize, stored>>
    BY DEF vars
  <1>2. First(fileSize)' = First(fileSize) /\ First(stored)' = First(stored)
    BY <1>1 DEF First
  <1>3. StageInv /\ CrcInv /\ step # "none"
    BY DEF ContentInv, CrcStep, Read, UpdateByte, Update, DigestLength, Digest
  <1>4. CASE UNCHANGED <<who, input, cksum>>
    <2>1. ReadBack(First(stored))' = ReadBack(First(stored))
      BY <1>2 DEF ReadBack
    <2>2. cksum["server"] = Unknown
      BY <1>3 DEF StageInv
    <2> QED
      BY <1>1, <1>2, <1>3, <1>4, <2>1, <2>2 DEF StageInv
  <1>5. CASE Digest
    <2>1. /\ cksum' = [cksum EXCEPT ![who] = Cksum(input)]
          /\ step' = "none" /\ UNCHANGED who
      BY <1>3, <1>5, DigestFinds DEF Digest
    <2>2. cksum \in [{"client", "server"} -> Register \cup {Unknown}]
      BY <1>3 DEF CrcInv, CrcTypeOK
    <2>3. CASE who = "client" /\ pc = "send" /\ input = First(fileSize)
      <3>1. cksum'["client"] = Cksum(First(fileSize)) /\ cksum'["server"] = Unknown
        BY <1>3, <2>1, <2>2, <2>3 DEF StageInv
      <3> QED
        BY <1>1, <1>2, <1>3, <2>1, <2>3, <3>1 DEF StageInv
    <2>4. CASE who = "server" /\ pc = "stored" /\ input \in ReadBack(First(stored))
      <3>1. cksum'["server"] = Cksum(input) /\ cksum'["client"] = cksum["client"]
        BY <2>1, <2>2, <2>4
      <3>2. UNCHANGED input
        BY <1>5 DEF Digest
      <3>3. ReadBack(First(stored))' = ReadBack(First(stored))
        BY <1>2 DEF ReadBack
      <3> QED
        BY <1>1, <1>2, <1>3, <2>1, <2>4, <3>1, <3>2, <3>3 DEF StageInv
    <2> QED
      BY <1>3, <2>3, <2>4 DEF StageInv
  <1> QED
    BY <1>4, <1>5 DEF CrcStep, Read, UpdateByte, Update, DigestLength

LEMMA ContentKept ==
    ASSUME ContentInv, [ContentNext]_contentVars
    PROVE  ContentInv'
  <1>1. SizeInv'
    BY ContentSteps, SizeNext DEF ContentInv
  <1>2. PartsInv'
    BY PartsKept
  <1>3. CASE ReadFile /\ UNCHANGED <<file, crcVars>>
    <2>1. CrcInv'
      BY <1>3, CrcUnchanged DEF ContentInv
    <2>2. step = "none" /\ cksum["client"] = Unknown /\ cksum["server"] = Unknown
      BY <1>3 DEF ContentInv, PartsInv, StageInv, ReadFile
    <2>3. UNCHANGED <<step, cksum>>
      BY <1>3 DEF crcVars
    <2> QED
      BY <1>1, <1>2, <2>1, <2>2, <2>3 DEF ContentInv, StageInv
  <1>4. CASE Prepare /\ UNCHANGED file
    BY <1>1, <1>2, <1>4, PrepareKeeps DEF ContentInv
  <1>5. CASE step = "none" /\ SendItem /\ UNCHANGED <<file, crcVars>>
    <2>1. CrcInv'
      BY <1>5, CrcUnchanged DEF ContentInv
    <2>2. StageInv /\ pc = "send" /\ pc' = "decrypt" /\ step = "none"
      BY <1>5 DEF ContentInv, SendItem
    <2>3. cksum["server"] = Unknown
      BY <2>2 DEF StageInv
    <2>4. UNCHANGED <<step, cksum, fileSize, file>>
      BY <1>5 DEF crcVars, SendItem
    <2>5. First(fileSize)' = First(fileSize)
      BY <2>4 DEF First
    <2>6. StageInv'
      BY <2>2, <2>3, <2>4, <2>5 DEF StageInv
    <2> QED
      BY <1>1, <1>2, <2>1, <2>6 DEF ContentInv
  <1>6. CASE Store /\ UNCHANGED file
    BY <1>1, <1>2, <1>6, StoreKeeps DEF ContentInv
  <1>7. CASE CrcStep /\ UNCHANGED <<file, vars>>
    <2>1. CrcInv'
      BY <1>7, CrcKeeps DEF ContentInv
    <2> QED
      BY <1>1, <1>2, <1>7, <2>1, CrcStepKeepsStage DEF ContentInv
  <1>8. CASE UNCHANGED contentVars
    <2>1. UNCHANGED <<file, pc, fileSize, stored, who, step, input, cksum>> /\ UNCHANGED crcVars
      BY <1>8 DEF contentVars, vars, crcVars
    <2>2. /\ First(fileSize)' = First(fileSize)
          /\ ReadBack(First(stored))' = ReadBack(First(stored))
      BY <2>1 DEF First, ReadBack
    <2>3. StageInv'
      BY <2>1, <2>2 DEF ContentInv, StageInv
    <2>4. CrcInv'
      BY <2>1, CrcUnchanged DEF ContentInv
    <2> QED
      BY <1>1, <1>2, <2>3, <2>4 DEF ContentInv
  <1> QED
    BY <1>3, <1>4, <1>5, <1>6, <1>7, <1>8 DEF ContentNext

\* The inductive invariant, of every file and every size of words and buffers.
THEOREM ContentInvariant == ContentSpec => []ContentInv
  <1>1. ContentInit => ContentInv
    BY ContentInits
  <1>2. ContentInv /\ [ContentNext]_contentVars => ContentInv'
    BY ContentKept
  <1> QED
    BY <1>1, <1>2, PTL DEF ContentSpec

\* Every variable has its type.
THEOREM ContentTypes == ContentSpec => []ContentTypeOK
  <1>1. ContentInv => ContentTypeOK
    BY DEF ContentInv, SizeInv, CrcInv, PartsInv, ContentTypeOK
  <1> QED
    BY <1>1, ContentInvariant, PTL

\* Both programs find the POSIX cksum of what they read, by tables and however
\* it falls into the buffers of the server (cksum.cpp, checksum.cpp).
THEOREM CksumsExact == ContentSpec => []CksumExact
  <1>1. ASSUME ContentInv
        PROVE  CksumExact
    <2>1. who \in {"client", "server"} /\ StageInv
      BY <1>1 DEF ContentInv, CrcInv, CrcTypeOK
    <2> QED
      BY <2>1 DEF StageInv, CksumExact
  <1> QED
    BY <1>1, ContentInvariant, PTL

\* The client verifies what the server has read back just when it is what the
\* client encrypted: no change of one byte, of whatever file, however long and
\* in whatever place, leaves the checksum as it is (client.cpp:607, server.py:570).
THEOREM EditsNoticed == ContentSpec => []VerifiedIsRead
  <1>1. ASSUME ContentInv, Unknown \notin {cksum["client"], cksum["server"]}
        PROVE  cksum["client"] = cksum["server"] <=> input = First(fileSize)
    <2> DEFINE part == First(fileSize)
    <2>1. /\ cksum["client"] = Cksum(part) /\ cksum["server"] = Cksum(input)
          /\ input \in ReadBack(part)
      BY <1>1 DEF ContentInv, StageInv, PartsInv
    <2>2. part \in Seq(0..255)
      BY <1>1, FirstOf, SizesAssumption DEF ContentInv, PartsInv, SizeInv, TypeOK
    <2> HIDE DEF part
    <2>3. input = part \/ \E i : OneApart(input, part, i)
      BY <2>1, <2>2, ReadBackOf
    <2>4. CASE input = part
      BY <2>1, <2>4 DEF part
    <2>5. CASE \E i : OneApart(input, part, i)
      <3>1. Cksum(input) # Cksum(part)
        BY <2>5, ChecksumsApart
      <3>2. input # part
        BY <2>5 DEF OneApart
      <3> QED
        BY <2>1, <3>1, <3>2 DEF part
    <2> QED
      BY <2>3, <2>4, <2>5
  <1>2. ContentInv => VerifiedIsRead
    BY <1>1 DEF VerifiedIsRead
  <1> QED
    BY <1>2, ContentInvariant, PTL

\* The content keeps to its sizes: with it, a file that fits is stored whole.
THEOREM ContentImplementsSize == ContentSpec => Spec /\ []FittingStored
  <1>1. ContentInit => Init
    BY DEF ContentInit
  <1>2. [ContentNext]_contentVars => [Next]_vars
    BY ContentSteps
  <1>3. ContentSpec => Spec
    BY <1>1, <1>2, PTL DEF ContentSpec, Spec
  <1> QED
    BY <1>3, FittingFilesStored, PTL
=============================================================================
