--------------------------- MODULE KeyOrderProofs ---------------------------
(***************************************************************************)
(* custom_key_compare is the lexicographic order of the columns of a key   *)
(* as long as the columns of the keys in the map are less than 2^31 apart; *)
(* for such keys no put replaces another key.                              *)
(***************************************************************************)
EXTENDS KeyOrder, TLAPS

-----------------------------------------------------------------------------
(* Differences. *)

(* A number within one modulus of zero, reduced. *)
LEMMA ModSmall ==
  /\ \A n \in 0 .. 2 * IntHalf - 1 : n % (2 * IntHalf) = n
  /\ \A n \in -2 * IntHalf .. -1 : n % (2 * IntHalf) = n + 2 * IntHalf
<1> DEFINE W == 2 * IntHalf
<1>1. W \in Nat \ {0}
  BY IntHalfAssumption
<1> HIDE DEF W
<1>2. \A n \in 0 .. W - 1 : n % W = n
  BY <1>1
<1>3. \A n \in -W .. -1 : n % W = n + W
  BY <1>1
<1> QED
  BY <1>2, <1>3, IntHalfAssumption, Zenon DEF W

(* The conversion to int keeps a difference that fits. *)
LEMMA ToIntNear == \A n \in 1 - IntHalf .. IntHalf - 1 : ToInt(n) = n
<1>1. \A n \in 0 .. IntHalf - 1 : n % (2 * IntHalf) = n
  BY ModSmall, IntHalfAssumption
<1>2. \A n \in 1 - IntHalf .. -1 : n % (2 * IntHalf) = n + 2 * IntHalf
  BY ModSmall, IntHalfAssumption
<1>3. ASSUME NEW n \in 0 .. IntHalf - 1 PROVE ToInt(n) = n
  BY <1>1, IntHalfAssumption DEF ToInt
<1>4. ASSUME NEW n \in 1 - IntHalf .. -1 PROVE ToInt(n) = n
  BY <1>2, IntHalfAssumption DEF ToInt
<1> QED
  BY <1>3, <1>4, IntHalfAssumption

(* The difference of two columns that are near is returned as it is. *)
LEMMA ThenNear ==
  ASSUME NEW m \in Int, NEW n \in Int, Near(m, n), NEW rest
  PROVE  Then(m - n, rest) = IF m = n THEN rest ELSE m - n
  BY ToIntNear DEF Then, Near

(* So is the unsigned difference of two namespaces. *)
LEMMA ThenNs ==
  ASSUME NEW m \in Nat, NEW n \in Nat, Near(m, n), NEW rest
  PROVE  Then((m - n) % (2 * IntHalf), rest) = IF m = n THEN rest ELSE m - n
<1> DEFINE W == 2 * IntHalf
           low == (m - n) % W
<1>1. CASE m = n
  <2>1. low = 0
    BY <1>1, ModSmall, IntHalfAssumption
  <2> QED
    BY <1>1, <2>1, Zenon DEF Then
<1>2. CASE m > n
  <2>1. low = m - n /\ low \in 1 .. IntHalf - 1
    BY <1>2, ModSmall, IntHalfAssumption DEF Near
  <2>2. ToInt(low) = low
    BY <2>1, ToIntNear, IntHalfAssumption
  <2> QED
    BY <1>2, <2>1, <2>2 DEF Then
<1>3. CASE m < n
  <2>1. low = m - n + W /\ low \in IntHalf + 1 .. W - 1
    BY <1>3, ModSmall, IntHalfAssumption, SMTT(30) DEF Near
  <2>2. low % W = low
    BY <2>1, ModSmall, IntHalfAssumption
  <2> HIDE DEF low
  <2>3. ToInt(low) = low - W
    BY <2>1, <2>2, IntHalfAssumption DEF ToInt
  <2> QED
    BY <1>3, <2>1, <2>3, IntHalfAssumption DEF Then, low
<1> QED
  BY <1>1, <1>2, <1>3

-----------------------------------------------------------------------------
(* Lexicographic order. *)

(* Comparing from column i on. *)
LEMMA LexUnfold ==
  ASSUME NEW s \in [1 .. 9 -> Int], NEW t \in [1 .. 9 -> Int]
  PROVE  Lex(s, t) <=>
           \/ s[1] < t[1]
           \/ s[1] = t[1] /\
              \/ s[2] < t[2]
              \/ s[2] = t[2] /\
                 \/ s[3] < t[3]
                 \/ s[3] = t[3] /\
                    \/ s[4] < t[4]
                    \/ s[4] = t[4] /\
                       \/ s[5] < t[5]
                       \/ s[5] = t[5] /\
                          \/ s[6] < t[6]
                          \/ s[6] = t[6] /\
                             \/ s[7] < t[7]
                             \/ s[7] = t[7] /\
                                \/ s[8] < t[8]
                                \/ s[8] = t[8] /\ s[9] < t[9]
<1> DEFINE At(i) == s[i] < t[i] /\ \A j \in 1 .. i - 1 : s[j] = t[j]
<1>1. Lex(s, t) <=> \/ At(1) \/ At(2) \/ At(3) \/ At(4) \/ At(5)
                    \/ At(6) \/ At(7) \/ At(8) \/ At(9)
  <2>1. \A i : i \in 1 .. 9 <=> i \in {1, 2, 3, 4, 5, 6, 7, 8, 9}
    OBVIOUS
  <2> QED
    BY <2>1 DEF Lex
<1>2. At(1) <=> s[1] < t[1]
  OBVIOUS
<1>3. At(2) <=> s[2] < t[2] /\ s[1] = t[1]
  OBVIOUS
<1>4. At(3) <=> s[3] < t[3] /\ s[1] = t[1] /\ s[2] = t[2]
  OBVIOUS
<1>5. At(4) <=> s[4] < t[4] /\ s[1] = t[1] /\ s[2] = t[2] /\ s[3] = t[3]
  OBVIOUS
<1>6. At(5) <=> s[5] < t[5] /\ s[1] = t[1] /\ s[2] = t[2] /\ s[3] = t[3] /\ s[4] = t[4]
  OBVIOUS
<1>7. At(6) <=> /\ s[6] < t[6] /\ s[1] = t[1] /\ s[2] = t[2] /\ s[3] = t[3]
                /\ s[4] = t[4] /\ s[5] = t[5]
  OBVIOUS
<1>8. At(7) <=> /\ s[7] < t[7] /\ s[1] = t[1] /\ s[2] = t[2] /\ s[3] = t[3]
                /\ s[4] = t[4] /\ s[5] = t[5] /\ s[6] = t[6]
  OBVIOUS
<1>9. At(8) <=> /\ s[8] < t[8] /\ s[1] = t[1] /\ s[2] = t[2] /\ s[3] = t[3]
                /\ s[4] = t[4] /\ s[5] = t[5] /\ s[6] = t[6] /\ s[7] = t[7]
  OBVIOUS
<1>10. At(9) <=> /\ s[9] < t[9] /\ s[1] = t[1] /\ s[2] = t[2] /\ s[3] = t[3]
                 /\ s[4] = t[4] /\ s[5] = t[5] /\ s[6] = t[6] /\ s[7] = t[7]
                 /\ s[8] = t[8]
  OBVIOUS
<1> HIDE DEF At
<1> QED
  BY <1>1, <1>2, <1>3, <1>4, <1>5, <1>6, <1>7, <1>8, <1>9, <1>10, Zenon

(* The lexicographic order is transitive. *)
LEMMA LexTransitive ==
  ASSUME NEW s \in [1 .. 9 -> Int], NEW t \in [1 .. 9 -> Int],
         NEW u \in [1 .. 9 -> Int], Lex(s, t), Lex(t, u)
  PROVE  Lex(s, u)
<1>1. PICK i \in 1 .. 9 : s[i] < t[i] /\ \A j \in 1 .. i - 1 : s[j] = t[j]
  BY Zenon DEF Lex
<1>2. PICK k \in 1 .. 9 : t[k] < u[k] /\ \A j \in 1 .. k - 1 : t[j] = u[j]
  BY Zenon DEF Lex
<1>3. CASE i <= k
  <2>1. s[i] < u[i] /\ \A j \in 1 .. i - 1 : s[j] = u[j]
    BY <1>1, <1>2, <1>3
  <2> QED
    BY <2>1, Zenon DEF Lex
<1>4. CASE k < i
  <2>1. s[k] < u[k] /\ \A j \in 1 .. k - 1 : s[j] = u[j]
    BY <1>1, <1>2, <1>4
  <2> QED
    BY <2>1, Zenon DEF Lex
<1> QED
  BY <1>3, <1>4

-----------------------------------------------------------------------------
(* The comparison. *)

(* The sign of memcmp. *)
LEMMA MemcmpSign ==
  ASSUME NEW b \in Int, NEW c \in Int
  PROVE  /\ memcmp(b, c) \in Int
         /\ memcmp(b, c) < 0 <=> b < c
         /\ memcmp(b, c) = 0 <=> b = c
  BY DEF memcmp

(* The parts of Compare return integers with the sign of the columns they  *)
(* compare.                                                                *)
LEMMA ValueSign ==
  ASSUME NEW x \in Key, NEW y \in Key, InWindow(x, y),
         x.type >= KEY_MIN_SENTINEL, y.type >= KEY_MIN_SENTINEL
  PROVE  LET c == Columns(x)
             d == Columns(y)
         IN  /\ CompareValue(x, y) \in Int
             /\ CompareValue(x, y) < 0 <=>
                  \/ c[7] < d[7]
                  \/ c[7] = d[7] /\ (c[8] < d[8] \/ (c[8] = d[8] /\ c[9] < d[9]))
             /\ CompareValue(x, y) = 0 <=> c[7] = d[7] /\ c[8] = d[8] /\ c[9] = d[9]
<1> USE DEF KEY_META, KEY_UNIQUE, KEY_TX_LOG, KEY_MIN_SENTINEL, KEY_INTEGER, KEY_BLOB
<1> DEFINE c == Columns(x)
           d == Columns(y)
<1>1. /\ x.type \in {3, 4, 5} /\ y.type \in {3, 4, 5}
      /\ x.b \in Int /\ y.b \in Int /\ x.pad \in Int /\ y.pad \in Int
  BY DEF Key
<1>2. /\ c[7] = x.type /\ d[7] = y.type
      /\ c[8] = (IF x.type = 5 THEN x.pad ELSE 0)
      /\ d[8] = (IF y.type = 5 THEN y.pad ELSE 0)
      /\ c[9] = (IF x.type = 3 THEN 0 ELSE x.b)
      /\ d[9] = (IF y.type = 3 THEN 0 ELSE y.b)
  BY <1>1 DEF Columns
<1> HIDE DEF c, d
<1>3. CASE x.type # y.type
  <2>1. CompareValue(x, y) = x.type - y.type
    BY <1>1, <1>3, ThenNear, SMTT(30) DEF CompareValue, InWindow
  <2> QED
    BY <1>1, <1>2, <1>3, <2>1 DEF c, d
<1>4. CASE x.type = 3 /\ y.type = 3
  <2>1. CompareValue(x, y) = 0
    BY <1>1, <1>4 DEF CompareValue, Then
  <2> QED
    BY <1>1, <1>2, <1>4, <2>1 DEF c, d
<1>5. CASE x.type = 4 /\ y.type = 4
  <2>1. CompareValue(x, y) = Then(x.b - y.b, 0)
    BY <1>1, <1>5 DEF CompareValue, Then
  <2>2. CompareValue(x, y) = IF x.b = y.b THEN 0 ELSE x.b - y.b
    BY <1>1, <1>5, <2>1, ThenNear, ZenonT(30) DEF InWindow
  <2> QED
    BY <1>1, <1>2, <1>5, <2>2 DEF c, d
<1>6. CASE x.type = 5 /\ y.type = 5
  <2>1. CompareValue(x, y) = Then(x.pad - y.pad, memcmp(x.b, y.b))
    BY <1>1, <1>6 DEF CompareValue, Then
  <2>2. CompareValue(x, y) = IF x.pad = y.pad THEN memcmp(x.b, y.b) ELSE x.pad - y.pad
    BY <1>1, <2>1, ThenNear, ZenonT(30) DEF InWindow
  <2> DEFINE m == memcmp(x.b, y.b)
  <2>3. m \in Int /\ (m < 0 <=> x.b < y.b) /\ (m = 0 <=> x.b = y.b)
    BY <1>1, MemcmpSign, Zenon
  <2> HIDE DEF m
  <2>4. CompareValue(x, y) = IF x.pad = y.pad THEN m ELSE x.pad - y.pad
    BY <2>2, Zenon DEF m
  <2> QED
    BY <1>1, <1>2, <1>6, <2>3, <2>4 DEF c, d
<1> QED
  BY <1>1, <1>3, <1>4, <1>5, <1>6, Zenon

(* A key has nine integer columns. *)
LEMMA ColumnsType == ASSUME NEW k \in Key PROVE Columns(k) \in [1 .. 9 -> Int]
<1> USE DEF KEY_META, KEY_UNIQUE, KEY_TX_LOG, KEY_MIN_SENTINEL, KEY_INTEGER, KEY_BLOB,
            SORT_EATV, SORT_AETV, MAKE_SORT
<1>1. /\ k.ns \in Int /\ k.e \in Int /\ k.a \in Int /\ k.t \in Int /\ k.b \in Int
      /\ k.pad \in Int /\ k.sort \in Int /\ k.type \in 0 .. 5
  BY DEF Key
<1>2. CASE k.type = 0
  BY <1>1, <1>2 DEF Columns
<1>3. CASE k.type = 1
  BY <1>1, <1>3 DEF Columns
<1>4. CASE k.type = 2
  BY <1>1, <1>4 DEF Columns
<1>5. CASE k.type \in 3 .. 5
  <2>1. Columns(k) = << k.ns, 3, k.sort,
            IF k.sort = SORT_EATV THEN k.e ELSE k.a,
            IF k.sort = SORT_EATV THEN k.a ELSE k.e,
            k.t, k.type,
            IF k.type = 5 THEN k.pad ELSE 0,
            IF k.type = 3 THEN 0 ELSE k.b >>
    BY <1>1, <1>5 DEF Columns
  <2> QED
    BY <1>1, <1>5, <2>1
<1> QED
  BY <1>1, <1>2, <1>3, <1>4, <1>5

(* Two keys compare as their columns do. *)
AgreesWithLex(x, y) ==
  /\ Compare(x, y) < 0 <=> Lex(Columns(x), Columns(y))
  /\ Compare(x, y) = 0 <=> Columns(x) = Columns(y)

(* Equality of columns, one by one. *)
LEMMA ColumnsEqual ==
  ASSUME NEW s \in [1 .. 9 -> Int], NEW t \in [1 .. 9 -> Int]
  PROVE  s = t <=> /\ s[1] = t[1] /\ s[2] = t[2] /\ s[3] = t[3] /\ s[4] = t[4]
                   /\ s[5] = t[5] /\ s[6] = t[6] /\ s[7] = t[7] /\ s[8] = t[8]
                   /\ s[9] = t[9]
<1>1. ASSUME s[1] = t[1], s[2] = t[2], s[3] = t[3], s[4] = t[4], s[5] = t[5],
             s[6] = t[6], s[7] = t[7], s[8] = t[8], s[9] = t[9]
      PROVE  s = t
  <2>1. \A i \in 1 .. 9 : s[i] = t[i]
    <3>1. \A i : i \in 1 .. 9 <=> i \in {1, 2, 3, 4, 5, 6, 7, 8, 9}
      OBVIOUS
    <3> QED
      BY <1>1, <3>1
  <2> QED
    BY <2>1
<1> QED
  BY <1>1, Zenon

(* The comparison of two datoms. *)
LEMMA DatomsAgree ==
  ASSUME NEW x \in Key, NEW y \in Key, InWindow(x, y), x.ns = y.ns,
         x.type >= KEY_MIN_SENTINEL, y.type >= KEY_MIN_SENTINEL
  PROVE  AgreesWithLex(x, y)
<1> DEFINE c == Columns(x)
           d == Columns(y)
           v == CompareValue(x, y)
<1>1. /\ x.type \in 3 .. 5 /\ y.type \in 3 .. 5 /\ x.ns \in Nat
      /\ x.sort \in {SORT_EATV, SORT_AETV, 0} /\ y.sort \in {SORT_EATV, SORT_AETV, 0}
      /\ x.sort \in Int /\ y.sort \in Int
      /\ x.e \in Int /\ x.a \in Int /\ x.t \in Int
      /\ y.e \in Int /\ y.a \in Int /\ y.t \in Int
  BY DEF Key, KEY_META, KEY_BLOB, KEY_MIN_SENTINEL, SORT_EATV, SORT_AETV, MAKE_SORT
<1>2. c \in [1 .. 9 -> Int] /\ d \in [1 .. 9 -> Int]
  BY ColumnsType, Zenon
<1>3. /\ v \in Int
      /\ v < 0 <=> \/ c[7] < d[7]
                   \/ c[7] = d[7] /\ (c[8] < d[8] \/ (c[8] = d[8] /\ c[9] < d[9]))
      /\ v = 0 <=> c[7] = d[7] /\ c[8] = d[8] /\ c[9] = d[9]
  BY ValueSign, Zenon
<1>4. /\ c[1] = x.ns /\ c[2] = 3 /\ c[3] = x.sort /\ c[6] = x.t
      /\ c[4] = (IF x.sort = SORT_EATV THEN x.e ELSE x.a)
      /\ c[5] = (IF x.sort = SORT_EATV THEN x.a ELSE x.e)
  BY <1>1 DEF Columns, KEY_META, KEY_UNIQUE, KEY_TX_LOG, KEY_MIN_SENTINEL
<1>5. /\ d[1] = y.ns /\ d[2] = 3 /\ d[3] = y.sort /\ d[6] = y.t
      /\ d[4] = (IF y.sort = SORT_EATV THEN y.e ELSE y.a)
      /\ d[5] = (IF y.sort = SORT_EATV THEN y.a ELSE y.e)
  BY <1>1 DEF Columns, KEY_META, KEY_UNIQUE, KEY_TX_LOG, KEY_MIN_SENTINEL
<1>6. Compare(x, y) = CompareDatom(x, y)
  <2>1. Then((x.ns - y.ns) % (2 * IntHalf), CompareDatom(x, y)) = CompareDatom(x, y)
    BY <1>1, ThenNs, ZenonT(60) DEF InWindow
  <2> QED
    BY <1>1, <2>1 DEF Compare, KEY_MIN_SENTINEL
<1>7. Compare(x, y) =
        IF c[3] # d[3] THEN c[3] - d[3]
        ELSE IF c[4] # d[4] THEN c[4] - d[4]
        ELSE IF c[5] # d[5] THEN c[5] - d[5]
        ELSE IF c[6] # d[6] THEN c[6] - d[6]
        ELSE v
  <2>1. /\ \A rest : Then(x.sort - y.sort, rest) =
              IF x.sort = y.sort THEN rest ELSE x.sort - y.sort
        /\ \A rest : Then(x.e - y.e, rest) = IF x.e = y.e THEN rest ELSE x.e - y.e
        /\ \A rest : Then(x.a - y.a, rest) = IF x.a = y.a THEN rest ELSE x.a - y.a
        /\ \A rest : Then(x.t - y.t, rest) = IF x.t = y.t THEN rest ELSE x.t - y.t
    BY <1>1, ThenNear, Zenon DEF InWindow
  <2> HIDE DEF c, d, v
  <2> QED
    BY <1>4, <1>5, <1>6, <2>1 DEF CompareDatom, v
<1> HIDE DEF c, d, v
<1>8. c[1] = d[1] /\ c[2] = d[2] /\ \A i \in 1 .. 9 : c[i] \in Int /\ d[i] \in Int
  BY <1>2, <1>4, <1>5, Zenon
<1>9. Compare(x, y) < 0 <=> Lex(c, d)
  BY <1>2, <1>3, <1>7, <1>8, LexUnfold
<1>10. Compare(x, y) = 0 <=> c = d
  BY <1>2, <1>3, <1>7, <1>8, ColumnsEqual
<1> QED
  BY <1>9, <1>10, Zenon DEF AgreesWithLex, c, d

(* The comparison when one of the keys is not a datom. *)
LEMMA SpecialsAgree ==
  ASSUME NEW x \in Key, NEW y \in Key, InWindow(x, y), x.ns = y.ns,
         x.type < KEY_MIN_SENTINEL \/ y.type < KEY_MIN_SENTINEL
  PROVE  AgreesWithLex(x, y)
<1> USE DEF KEY_META, KEY_UNIQUE, KEY_TX_LOG, KEY_MIN_SENTINEL
<1> DEFINE c == Columns(x)
           d == Columns(y)
<1>1. /\ x.type \in 0 .. 5 /\ y.type \in 0 .. 5 /\ x.ns \in Nat
      /\ x.e \in Int /\ x.a \in Int /\ x.t \in Int /\ x.b \in Int
      /\ y.e \in Int /\ y.a \in Int /\ y.t \in Int /\ y.b \in Int
  BY Zenon DEF Key, KEY_BLOB
<1>2. c \in [1 .. 9 -> Int] /\ d \in [1 .. 9 -> Int]
  BY ColumnsType, Zenon
<1>3. Compare(x, y) = IF x.type = y.type THEN CompareSpecial(x, y) ELSE x.type - y.type
  <2>1. \A rest : Then((x.ns - y.ns) % (2 * IntHalf), rest) = rest
    BY <1>1, ThenNs, ZenonT(30) DEF InWindow
  <2>2. Compare(x, y) = Then(x.type - y.type, CompareSpecial(x, y))
    BY <2>1, Zenon DEF Compare
  <2> QED
    BY <1>1, <2>2, ThenNear DEF InWindow
<1>4. /\ c[1] = x.ns /\ d[1] = y.ns
      /\ c[2] = (IF x.type < 3 THEN x.type ELSE 3)
      /\ d[2] = (IF y.type < 3 THEN y.type ELSE 3)
  <2>1. c[1] = x.ns /\ c[2] = (IF x.type < 3 THEN x.type ELSE 3)
    BY <1>1 DEF Columns
  <2>2. d[1] = y.ns /\ d[2] = (IF y.type < 3 THEN y.type ELSE 3)
    BY <1>1 DEF Columns
  <2> QED
    BY <2>1, <2>2, Zenon
<1>5. CASE x.type # y.type
  <2> HIDE DEF c, d
  <2>1. c[1] = d[1] /\ c[2] # d[2] /\ (Compare(x, y) < 0 <=> c[2] < d[2])
        /\ Compare(x, y) # 0
    BY <1>1, <1>3, <1>4, <1>5
  <2>2. c[2] \in Int /\ d[2] \in Int
    BY <1>2
  <2> QED
    BY <1>2, <2>1, <2>2, LexUnfold DEF AgreesWithLex, c, d
<1>6. CASE x.type = 0 /\ y.type = 0
  <2>1. /\ c = << x.ns, 0, 0, x.e, 0, 0, 0, 0, 0 >>
        /\ d = << y.ns, 0, 0, y.e, 0, 0, 0, 0, 0 >>
    BY <1>6 DEF Columns
  <2>2. Compare(x, y) = x.e - y.e
    BY <1>1, <1>3, <1>6, ToIntNear DEF CompareSpecial, InWindow, Near
  <2> HIDE DEF c, d
  <2>3. Compare(x, y) < 0 <=> Lex(c, d)
    BY <1>1, <1>2, <2>1, <2>2, LexUnfold
  <2>4. Compare(x, y) = 0 <=> c = d
    BY <1>1, <2>1, <2>2
  <2> QED
    BY <2>3, <2>4, Zenon DEF AgreesWithLex, c, d
<1>7. CASE x.type = 1 /\ y.type = 1
  <2>1. /\ c = << x.ns, 1, 0, x.a, x.b, 0, 0, 0, 0 >>
        /\ d = << y.ns, 1, 0, y.a, y.b, 0, 0, 0, 0 >>
    BY <1>7 DEF Columns
  <2> DEFINE m == memcmp(x.b, y.b)
  <2>2. m \in Int /\ (m < 0 <=> x.b < y.b) /\ (m = 0 <=> x.b = y.b)
    BY <1>1, MemcmpSign, Zenon
  <2>3. Compare(x, y) = IF x.a = y.a THEN m ELSE x.a - y.a
    BY <1>1, <1>3, <1>7, ThenNear DEF CompareSpecial, InWindow
  <2> HIDE DEF c, d, m
  <2>4. Compare(x, y) < 0 <=> Lex(c, d)
    BY <1>1, <1>2, <2>1, <2>2, <2>3, LexUnfold
  <2>5. Compare(x, y) = 0 <=> c = d
    BY <1>1, <2>1, <2>2, <2>3
  <2> QED
    BY <2>4, <2>5, Zenon DEF AgreesWithLex, c, d
<1>8. CASE x.type = 2 /\ y.type = 2
  <2>1. /\ c = << x.ns, 2, 0, x.t, 0, 0, 0, 0, 0 >>
        /\ d = << y.ns, 2, 0, y.t, 0, 0, 0, 0, 0 >>
    BY <1>8 DEF Columns
  <2>2. Compare(x, y) = x.t - y.t
    BY <1>1, <1>3, <1>8, ToIntNear DEF CompareSpecial, InWindow, Near
  <2> HIDE DEF c, d
  <2>3. Compare(x, y) < 0 <=> Lex(c, d)
    BY <1>1, <1>2, <2>1, <2>2, LexUnfold
  <2>4. Compare(x, y) = 0 <=> c = d
    BY <1>1, <2>1, <2>2
  <2> QED
    BY <2>3, <2>4, Zenon DEF AgreesWithLex, c, d
<1> QED
  BY <1>1, <1>5, <1>6, <1>7, <1>8

(* On keys in each other's window the comparison is the lexicographic      *)
(* order of the columns, and zero only for keys with the same columns.     *)
THEOREM CompareIsLex ==
  ASSUME NEW x \in Key, NEW y \in Key, InWindow(x, y)
  PROVE  AgreesWithLex(x, y)
<1>1. CASE x.ns = y.ns /\ (x.type < KEY_MIN_SENTINEL \/ y.type < KEY_MIN_SENTINEL)
  BY <1>1, SpecialsAgree, Zenon
<1>2. CASE x.ns = y.ns /\ ~(x.type < KEY_MIN_SENTINEL \/ y.type < KEY_MIN_SENTINEL)
  <2>1. x.type >= KEY_MIN_SENTINEL /\ y.type >= KEY_MIN_SENTINEL
    BY <1>2 DEF Key, KEY_META, KEY_BLOB, KEY_MIN_SENTINEL
  <2> QED
    BY <1>2, <2>1, DatomsAgree, Zenon
<1>3. CASE x.ns # y.ns
  <2> DEFINE c == Columns(x)
             d == Columns(y)
  <2>1. x.ns \in Nat /\ y.ns \in Nat /\ x.type \in 0 .. 5 /\ y.type \in 0 .. 5
    BY Zenon DEF Key, KEY_META, KEY_BLOB
  <2>2. c \in [1 .. 9 -> Int] /\ d \in [1 .. 9 -> Int]
    BY ColumnsType, Zenon
  <2>3. c[1] = x.ns /\ d[1] = y.ns
    BY <2>1 DEF Columns, KEY_META, KEY_UNIQUE, KEY_TX_LOG, KEY_MIN_SENTINEL
  <2>4. Compare(x, y) = x.ns - y.ns
    BY <1>3, <2>1, ThenNs, Zenon DEF Compare, InWindow
  <2> HIDE DEF c, d
  <2> QED
    BY <1>3, <2>1, <2>2, <2>3, <2>4, LexUnfold DEF AgreesWithLex, c, d
<1> QED
  BY <1>1, <1>2, <1>3, Zenon

-----------------------------------------------------------------------------
(* The map. *)

(* The inductive invariant: the map and the history hold keys of the program. *)
IndexInv == index \subseteq Keys /\ puts \subseteq Keys /\ NoKeyLost

(* The map holds only keys of the program, and all that were put. *)
LEMMA IndexInvariant == ASSUME KeysInWindow PROVE Spec => []IndexInv
<1>1. Init => IndexInv
  BY Zenon DEF Init, IndexInv, NoKeyLost
<1>2. IndexInv /\ [Next]_vars => IndexInv'
  <2> SUFFICES ASSUME IndexInv, [Next]_vars PROVE IndexInv'
    BY Zenon
  <2>1. ASSUME NEW k \in Keys, mdb_put(k) PROVE IndexInv'
    <3>1. index \subseteq index' /\ index' \subseteq Keys /\ puts' = puts \cup {k}
      BY <2>1, Zenon DEF mdb_put, IndexInv
    <3>2. \E x \in index' : SameKey(k, x)
      <4>1. CASE \E x \in index : Compare(k, x) = 0
        <5>1. PICK x \in index : Compare(k, x) = 0
          BY <4>1, Zenon
        <5>2. k \in Key /\ x \in Key /\ InWindow(k, x)
          BY <5>1, Zenon DEF KeysInWindow, IndexInv
        <5> QED
          BY <3>1, <5>1, <5>2, CompareIsLex, Zenon DEF AgreesWithLex, SameKey
      <4>2. CASE ~\E x \in index : Compare(k, x) = 0
        BY <2>1, <4>2, Zenon DEF mdb_put, SameKey
      <4> QED
        BY <4>1, <4>2, Zenon
    <3> QED
      BY <3>1, <3>2, Zenon DEF IndexInv, NoKeyLost
  <2>2. CASE UNCHANGED vars
    BY <2>2, Zenon DEF vars, IndexInv, NoKeyLost
  <2> QED
    BY <2>1, <2>2, Zenon DEF Next
<1> QED
  BY <1>1, <1>2, PTL DEF Spec

(* While the columns of all keys lie within 2^31 of each other no put is   *)
(* lost to a key that merely compares equal.                               *)
THEOREM KeysKept == ASSUME KeysInWindow PROVE Spec => []NoKeyLost
<1>1. IndexInv => NoKeyLost
  BY Zenon DEF IndexInv
<1> QED
  BY <1>1, IndexInvariant, PTL

(* Then custom_key_compare orders the map by its columns. *)
THEOREM CursorOrdered == ASSUME KeysInWindow PROVE Spec => []CursorOrder
<1>1. IndexInv => CursorOrder
  BY CompareIsLex, Zenon DEF IndexInv, KeysInWindow, CursorOrder, Before, AgreesWithLex
<1> QED
  BY <1>1, IndexInvariant, PTL

(* A key between two keys that agree on the first four columns agrees with *)
(* them there.                                                             *)
LEMMA LexBetween ==
  ASSUME NEW s \in [1 .. 9 -> Int], NEW t \in [1 .. 9 -> Int],
         NEW u \in [1 .. 9 -> Int], Lex(s, t), Lex(t, u),
         s[1] = u[1], s[2] = u[2], s[3] = u[3], s[4] = u[4]
  PROVE  t[1] = s[1] /\ t[2] = s[2] /\ t[3] = s[3] /\ t[4] = s[4]
<1>1. \A i \in 1 .. 9 : s[i] \in Int /\ t[i] \in Int /\ u[i] \in Int
  BY Zenon
<1> QED
  BY <1>1, LexUnfold

(* Then the datoms of one entity in EATV, or of one attribute in AETV, are *)
(* next to each other, so the loops that stop at the first key of another  *)
(* group have seen the whole group.                                        *)
THEOREM GroupsTogether == ASSUME KeysInWindow PROVE Spec => []GroupsContiguous
<1>1. ASSUME IndexInv, NEW x \in index, NEW y \in index, NEW z \in index,
             IsDatom(x), IsDatom(z), SameGroup(x, z), Before(x, y), Before(y, z)
      PROVE  IsDatom(y) /\ SameGroup(x, y)
  <2> DEFINE c == Columns(x)
             d == Columns(y)
             g == Columns(z)
  <2>1. /\ x \in Key /\ y \in Key /\ z \in Key
        /\ InWindow(x, y) /\ InWindow(y, z)
        /\ y.type # KEY_MIN_SENTINEL
    BY <1>1, Zenon DEF IndexInv, KeysInWindow
  <2>2. Lex(c, d) /\ Lex(d, g)
    BY <1>1, <2>1, CompareIsLex, Zenon DEF AgreesWithLex, Before
  <2>3. c \in [1 .. 9 -> Int] /\ d \in [1 .. 9 -> Int] /\ g \in [1 .. 9 -> Int]
    BY <2>1, ColumnsType, Zenon
  <2>4. /\ x.type \in 0 .. 5 /\ y.type \in 0 .. 5 /\ z.type \in 0 .. 5
        /\ x.type > 3 /\ z.type > 3 /\ y.type # 3
    BY <1>1, <2>1, Zenon DEF Key, IsDatom, KEY_META, KEY_BLOB, KEY_MIN_SENTINEL
  <2> USE DEF KEY_META, KEY_UNIQUE, KEY_TX_LOG, KEY_MIN_SENTINEL
  <2>5. /\ c[1] = x.ns /\ c[2] = 3 /\ c[3] = x.sort
        /\ c[4] = IF x.sort = SORT_EATV THEN x.e ELSE x.a
    BY <2>4 DEF Columns
  <2>6. /\ g[1] = z.ns /\ g[2] = 3 /\ g[3] = z.sort
        /\ g[4] = IF z.sort = SORT_EATV THEN z.e ELSE z.a
    BY <2>4 DEF Columns
  <2>7. c[1] = g[1] /\ c[2] = g[2] /\ c[3] = g[3] /\ c[4] = g[4]
    BY <1>1, <2>5, <2>6 DEF SameGroup
  <2>8. d[1] = c[1] /\ d[2] = c[2] /\ d[3] = c[3] /\ d[4] = c[4]
    BY <2>2, <2>3, <2>7, LexBetween, Zenon
  <2>9. y.type >= 3
    <3>1. y.type < 3 => d[2] = y.type
      BY <2>4 DEF Columns
    <3> HIDE DEF c, d
    <3> QED
      BY <2>4, <2>5, <2>8, <3>1
  <2>10. /\ d[1] = y.ns /\ d[3] = y.sort
         /\ d[4] = IF y.sort = SORT_EATV THEN y.e ELSE y.a
    BY <2>4, <2>9 DEF Columns
  <2> HIDE DEF c, d, g
  <2>11. SameGroup(x, y)
    BY <2>5, <2>8, <2>10, Zenon DEF SameGroup
  <2>12. IsDatom(y)
    BY <2>4, <2>9 DEF IsDatom
  <2> QED
    BY <2>11, <2>12, Zenon
<1>2. IndexInv => GroupsContiguous
  BY <1>1, Zenon DEF GroupsContiguous
<1> QED
  BY <1>2, IndexInvariant, PTL

=============================================================================
