------------------------- MODULE ServerEventProofs --------------------------
(***************************************************************************)
(* The channels, for every choice of the constants of Server: a member of a *)
(* channel misses no transaction and sees none twice.                      *)
(***************************************************************************)
EXTENDS ServerStepProofs

-----------------------------------------------------------------------------
(* Events are complete. *)

Told(q, n) == {i \in DOMAIN q : Reports(q[i], n)}

(* ReportsUpTo, with its set of places named. *)
LEMMA ReportsForm ==
  ASSUME NEW q, NEW n, NEW t
  PROVE  ReportsUpTo(q, n, t) <=>
           /\ \A i, j \in Told(q, n) : i < j => q[i].tx < q[j].tx
           /\ \A i \in Told(q, n) : q[i].tx <= t
           /\ \A i \in Told(q, n) : \A k \in q[i].tx .. t :
                \E j \in Told(q, n) : q[j].tx = k
  BY Zenon DEF ReportsUpTo, Told

(* Two sequences that report the same transactions in the same order. *)
LEMMA SameReports ==
  ASSUME NEW a, NEW b, NEW n, NEW t, NEW f,
         Told(a, n) \subseteq Int, Told(b, n) \subseteq Int,
         \A i \in Told(a, n) : f[i] \in Told(b, n) /\ b[f[i]].tx = a[i].tx,
         \A i \in Told(b, n) : \E h \in Told(a, n) : f[h] = i,
         \A i, j \in Told(a, n) : i < j <=> f[i] < f[j]
  PROVE  ReportsUpTo(a, n, t) <=> ReportsUpTo(b, n, t)
<1>1. ASSUME ReportsUpTo(a, n, t) PROVE ReportsUpTo(b, n, t)
  <2>1. /\ \A i, j \in Told(a, n) : i < j => a[i].tx < a[j].tx
        /\ \A i \in Told(a, n) : a[i].tx <= t
        /\ \A i \in Told(a, n) : \A k \in a[i].tx .. t : \E j \in Told(a, n) : a[j].tx = k
    BY <1>1, ReportsForm, Zenon
  <2>2. \A i, j \in Told(b, n) : i < j => b[i].tx < b[j].tx
    BY <2>1
  <2>3. \A i \in Told(b, n) : b[i].tx <= t
    BY <2>1
  <2>4. ASSUME NEW i \in Told(b, n), NEW k \in b[i].tx .. t
        PROVE  \E j \in Told(b, n) : b[j].tx = k
    <3>1. PICK h \in Told(a, n) : f[h] = i /\ a[h].tx = b[i].tx
      BY <2>4, ZenonT(120)
    <3>2. PICK j \in Told(a, n) : a[j].tx = k
      BY <2>1, <3>1, ZenonT(60)
    <3> QED
      BY <3>2, Zenon
  <2> QED
    BY <2>2, <2>3, <2>4, ReportsForm, Zenon
<1>2. ASSUME ReportsUpTo(b, n, t) PROVE ReportsUpTo(a, n, t)
  <2>1. /\ \A i, j \in Told(b, n) : i < j => b[i].tx < b[j].tx
        /\ \A i \in Told(b, n) : b[i].tx <= t
        /\ \A i \in Told(b, n) : \A k \in b[i].tx .. t : \E j \in Told(b, n) : b[j].tx = k
    BY <1>2, ReportsForm, Zenon
  <2>2. \A i, j \in Told(a, n) : i < j => a[i].tx < a[j].tx
    BY <2>1
  <2>3. \A i \in Told(a, n) : a[i].tx <= t
    BY <2>1, Zenon
  <2>4. ASSUME NEW i \in Told(a, n), NEW k \in a[i].tx .. t
        PROVE  \E j \in Told(a, n) : a[j].tx = k
    <3>1. f[i] \in Told(b, n) /\ k \in b[f[i]].tx .. t
      BY <2>4, Zenon
    <3>2. PICK j \in Told(b, n) : b[j].tx = k
      BY <2>1, <3>1, Zenon
    <3>3. PICK h \in Told(a, n) : f[h] = j
      BY <3>2, Zenon
    <3> QED
      BY <3>2, <3>3, Zenon
  <2> QED
    BY <2>2, <2>3, <2>4, ReportsForm, Zenon
<1> QED
  BY <1>1, <1>2, Zenon

(* A message between two others, by its place. *)
LEMMA Between ==
  ASSUME NEW u \in Seq(Msg), NEW v \in Seq(Msg), NEW y \in Msg
  PROVE  LET a == u \o v
             b == (u \o <<y>>) \o v
             l == Len(u)
         IN  /\ l \in Nat /\ a \in Seq(Msg) /\ b \in Seq(Msg)
             /\ DOMAIN a = 1 .. Len(a) /\ Len(a) \in Nat /\ l <= Len(a)
             /\ DOMAIN b = 1 .. Len(a) + 1
             /\ b[l + 1] = y
             /\ \A i \in 1 .. Len(a) : IF i <= l THEN b[i] = a[i] ELSE b[i + 1] = a[i]
<1> DEFINE a == u \o v
           c == u \o <<y>>
           b == c \o v
           l == Len(u)
<1>1. /\ l \in Nat /\ Len(v) \in Nat /\ a \in Seq(Msg)
      /\ Len(a) = l + Len(v) /\ DOMAIN a = 1 .. Len(a)
      /\ \A i \in 1 .. Len(a) : a[i] = IF i <= l THEN u[i] ELSE v[i - l]
  OBVIOUS
<1>2. /\ c \in Seq(Msg) /\ Len(c) = l + 1 /\ c[l + 1] = y
      /\ \A i \in 1 .. l : c[i] = u[i]
  OBVIOUS
<1> HIDE DEF c
<1>3. /\ b \in Seq(Msg) /\ Len(b) = Len(c) + Len(v) /\ DOMAIN b = 1 .. Len(b)
      /\ \A i \in 1 .. Len(b) : b[i] = IF i <= Len(c) THEN c[i] ELSE v[i - Len(c)]
  BY <1>2, SMTT(60)
<1> HIDE DEF a, b, l
<1>4. /\ l <= Len(a) /\ Len(a) \in Nat /\ DOMAIN b = 1 .. Len(a) + 1
      /\ b[l + 1] = y
  BY <1>1, <1>2, <1>3, SMTT(30)
<1>5. ASSUME NEW i \in 1 .. Len(a)
      PROVE  IF i <= l THEN b[i] = a[i] ELSE b[i + 1] = a[i]
  <2>1. CASE i <= l
    BY <1>1, <1>2, <1>3, <2>1, SMTT(60)
  <2>2. CASE ~(i <= l)
    <3>1. i + 1 \in 1 .. Len(b) /\ ~(i + 1 <= Len(c)) /\ i + 1 - Len(c) = i - l
      BY <1>1, <1>2, <1>3, <2>2
    <3>2. b[i + 1] = v[i + 1 - Len(c)]
      BY <1>3, <3>1, SMTT(30)
    <3>3. a[i] = v[i - l]
      BY <1>1, <2>2, Zenon
    <3> QED
      BY <2>2, <3>1, <3>2, <3>3, Zenon
  <2> QED
    BY <2>1, <2>2, Zenon
<1> QED
  BY <1>1, <1>3, <1>4, <1>5, Zenon DEF a, b, c, l

(* A message that reports nothing of a namespace leaves its reports alone. *)
LEMMA ReportsInsert ==
  ASSUME NEW u \in Seq(Msg), NEW v \in Seq(Msg), NEW y \in Msg, NEW n, NEW t,
         ~Reports(y, n)
  PROVE  ReportsUpTo(u \o v, n, t) <=> ReportsUpTo((u \o <<y>>) \o v, n, t)
<1>1. PICK a : a = u \o v
  BY Zenon
<1>2. PICK b : b = (u \o <<y>>) \o v
  BY Zenon
<1>3. PICK l : l = Len(u)
  BY Zenon
<1>4. /\ l \in Nat
      /\ DOMAIN a = 1 .. Len(a) /\ Len(a) \in Nat /\ l <= Len(a)
      /\ DOMAIN b = 1 .. Len(a) + 1
      /\ b[l + 1] = y
      /\ \A i \in 1 .. Len(a) : IF i <= l THEN b[i] = a[i] ELSE b[i + 1] = a[i]
  BY <1>1, <1>2, <1>3, Between, SMTT(60)
<1>5. PICK f : f = [i \in 1 .. Len(a) |-> IF i <= l THEN i ELSE i + 1]
  BY Zenon
<1>6. Told(a, n) \subseteq 1 .. Len(a) /\ Told(b, n) \subseteq 1 .. Len(a) + 1
  BY <1>4, Zenon DEF Told
<1>7. ASSUME NEW i \in Told(a, n)
      PROVE  f[i] \in Told(b, n) /\ b[f[i]].tx = a[i].tx
  <2>1. f[i] \in DOMAIN b /\ b[f[i]] = a[i]
    BY <1>4, <1>5, <1>6, SMTT(30)
  <2> QED
    BY <2>1, Zenon DEF Told
<1>8. ASSUME NEW i \in Told(b, n)
      PROVE  \E h \in Told(a, n) : f[h] = i
  <2>1. i # l + 1
    BY <1>4, Zenon DEF Told
  <2>2. PICK h \in 1 .. Len(a) : f[h] = i /\ a[h] = b[i]
    <3>1. CASE i <= l
      BY <1>4, <1>5, <1>6, <3>1, SMTT(30)
    <3>2. CASE ~(i <= l)
      <4>1. i - 1 \in 1 .. Len(a) /\ ~(i - 1 <= l) /\ (i - 1) + 1 = i
        BY <1>4, <1>6, <2>1, <3>2, SMTT(30)
      <4> QED
        BY <1>4, <1>5, <4>1, Zenon
    <3> QED
      BY <3>1, <3>2, Zenon
  <2> QED
    BY <1>4, <2>2, Zenon DEF Told
<1>9. \A i, j \in Told(a, n) : i < j <=> f[i] < f[j]
  BY <1>4, <1>5, <1>6, SMTT(30)
<1>10. Told(a, n) \subseteq Int /\ Told(b, n) \subseteq Int
  BY <1>4, <1>6
<1>11. ReportsUpTo(a, n, t) <=> ReportsUpTo(b, n, t)
  BY <1>7, <1>8, <1>9, <1>10, SameReports, Zenon
<1> QED
  BY <1>1, <1>2, <1>11, Zenon

(* A message replaced by one that reports the same, as a response by the event *)
(* that publish() sends the other members.                                     *)
LEMMA ReportsReplace ==
  ASSUME NEW u \in Seq(Msg), NEW v \in Seq(Msg), NEW y \in Msg, NEW z \in Msg,
         NEW n, NEW t, Reports(y, n) <=> Reports(z, n), y.tx = z.tx
  PROVE  ReportsUpTo((u \o <<y>>) \o v, n, t) <=> ReportsUpTo((u \o <<z>>) \o v, n, t)
<1>1. PICK a : a = (u \o <<y>>) \o v
  BY Zenon
<1>2. PICK b : b = (u \o <<z>>) \o v
  BY Zenon
<1>3. PICK c : c = u \o v
  BY Zenon
<1>4. PICK l : l = Len(u)
  BY Zenon
<1>5. /\ l \in Nat /\ Len(c) \in Nat
      /\ DOMAIN a = 1 .. Len(c) + 1
      /\ a[l + 1] = y
      /\ \A i \in 1 .. Len(c) : IF i <= l THEN a[i] = c[i] ELSE a[i + 1] = c[i]
  BY <1>1, <1>3, <1>4, Between, SMTT(60)
<1>6. /\ DOMAIN b = 1 .. Len(c) + 1
      /\ b[l + 1] = z
      /\ \A i \in 1 .. Len(c) : IF i <= l THEN b[i] = c[i] ELSE b[i + 1] = c[i]
  BY <1>2, <1>3, <1>4, Between, SMTT(60)
<1>7. ASSUME NEW i \in 1 .. Len(c) + 1, i # l + 1
      PROVE  a[i] = b[i]
  <2>1. CASE i <= l
    <3>1. i \in 1 .. Len(c)
      BY <1>4, <1>3, <1>5, <2>1, Between
    <3> QED
      BY <1>5, <1>6, <2>1, <3>1, Zenon
  <2>2. CASE ~(i <= l)
    <3>1. i - 1 \in 1 .. Len(c) /\ ~(i - 1 <= l) /\ (i - 1) + 1 = i
      BY <1>5, <1>7, <2>2, SMTT(30)
    <3> QED
      BY <1>5, <1>6, <3>1, Zenon
  <2> QED
    BY <2>1, <2>2, Zenon
<1>8. \A i \in 1 .. Len(c) + 1 : (Reports(a[i], n) <=> Reports(b[i], n)) /\ a[i].tx = b[i].tx
  BY <1>5, <1>6, <1>7, Zenon
<1>9. Told(a, n) = Told(b, n) /\ Told(a, n) \subseteq Int
  BY <1>5, <1>6, <1>8 DEF Told
<1>10. PICK f : f = [i \in 1 .. Len(c) + 1 |-> i]
  BY Zenon
<1>11. \A i \in Told(a, n) : i \in 1 .. Len(c) + 1 /\ f[i] = i
  BY <1>5, <1>10, Zenon DEF Told
<1>12. /\ \A i \in Told(a, n) : f[i] \in Told(b, n) /\ b[f[i]].tx = a[i].tx
       /\ \A i \in Told(b, n) : \E h \in Told(a, n) : f[h] = i
       /\ \A i, j \in Told(a, n) : i < j <=> f[i] < f[j]
  BY <1>8, <1>9, <1>11, Zenon
<1>13. ReportsUpTo(a, n, t) <=> ReportsUpTo(b, n, t)
  BY <1>9, <1>12, SameReports, Zenon
<1> QED
  BY <1>1, <1>2, <1>13, Zenon

(* The next transaction, reported last. *)
LEMMA ReportsNext ==
  ASSUME NEW q \in Seq(Msg), NEW y \in Msg, NEW n, NEW t \in Int,
         ReportsUpTo(q, n, t), Reports(y, n), y.tx = t + 1,
         \A i \in DOMAIN q : q[i].tx \in Int
  PROVE  ReportsUpTo(Append(q, y), n, t + 1)
<1>1. PICK b : b = Append(q, y)
  BY Zenon
<1>2. PICK l : l = Len(q)
  BY Zenon
<1>3. /\ l \in Nat /\ DOMAIN q = 1 .. l /\ DOMAIN b = 1 .. l + 1
      /\ b[l + 1] = y /\ \A i \in 1 .. l : b[i] = q[i]
  BY <1>1, <1>2
<1>4. Told(b, n) = Told(q, n) \cup {l + 1} /\ Told(q, n) \subseteq 1 .. l
  BY <1>3 DEF Told
<1>5. \A i \in Told(q, n) : b[i] = q[i]
  BY <1>3, <1>4, Zenon
<1>6. /\ \A i, j \in Told(q, n) : i < j => q[i].tx < q[j].tx
      /\ \A i \in Told(q, n) : q[i].tx <= t /\ q[i].tx \in Int
      /\ \A i \in Told(q, n) : \A k \in q[i].tx .. t : \E j \in Told(q, n) : q[j].tx = k
  <2>1. \A i \in Told(q, n) : q[i].tx \in Int
    BY Zenon DEF Told
  <2> QED
    BY <2>1, ReportsForm, Zenon
<1>7. \A i, j \in Told(b, n) : i < j => b[i].tx < b[j].tx
  BY <1>3, <1>4, <1>5, <1>6, SMTT(30)
<1>8. \A i \in Told(b, n) : b[i].tx <= t + 1
  BY <1>3, <1>4, <1>5, <1>6
<1>9. ASSUME NEW i \in Told(b, n), NEW k \in b[i].tx .. t + 1
      PROVE  \E j \in Told(b, n) : b[j].tx = k
  <2>1. CASE k = t + 1
    BY <1>3, <1>4, <2>1, Zenon
  <2>2. CASE k # t + 1
    <3>1. i \in Told(q, n) /\ b[i].tx = q[i].tx /\ k \in q[i].tx .. t
      BY <1>3, <1>4, <1>5, <1>6, <1>9, <2>2, SMTT(30)
    <3>2. PICK j \in Told(q, n) : q[j].tx = k
      BY <1>6, <3>1, Zenon
    <3> QED
      BY <1>4, <1>5, <3>2, Zenon
  <2> QED
    BY <2>1, <2>2, Zenon
<1>10. ReportsUpTo(b, n, t + 1)
  BY <1>7, <1>8, <1>9, ReportsForm, Zenon
<1> QED
  BY <1>1, <1>10, Zenon

(* The first message gone: what is left still ends at the same transaction. *)
LEMMA ReportsRest ==
  ASSUME NEW q \in Seq(Msg), NEW y \in Msg, NEW n, NEW t \in Int,
         ReportsUpTo(<<y>> \o q, n, t), \A i \in DOMAIN q : q[i].tx \in Int, y.tx \in Int
  PROVE  ReportsUpTo(q, n, t)
<1>1. PICK a : a = <<y>> \o q
  BY Zenon
<1>2. PICK l : l = Len(q)
  BY Zenon
<1>3. /\ l \in Nat /\ DOMAIN q = 1 .. l /\ DOMAIN a = 1 .. l + 1
      /\ a[1] = y /\ \A i \in 1 .. l : a[i + 1] = q[i]
  BY <1>1, <1>2
<1>4. \A i \in Told(q, n) : i \in 1 .. l /\ i + 1 \in Told(a, n) /\ a[i + 1] = q[i]
  BY <1>3 DEF Told
<1>5. \A i \in Told(a, n) : i = 1 \/ (i - 1 \in Told(q, n) /\ q[i - 1] = a[i])
  <2>1. ASSUME NEW i \in Told(a, n), i # 1
        PROVE  i - 1 \in Told(q, n) /\ q[i - 1] = a[i]
    <3>1. i \in 1 .. l + 1 /\ Reports(a[i], n)
      BY <1>3, Zenon DEF Told
    <3>2. i - 1 \in 1 .. l /\ (i - 1) + 1 = i
      BY <1>3, <2>1, <3>1
    <3>3. q[i - 1] = a[i]
      BY <1>3, <3>2, Zenon
    <3> QED
      BY <1>3, <3>1, <3>2, <3>3, Zenon DEF Told
  <2> QED
    BY <2>1, Zenon
<1>6. /\ \A i, j \in Told(a, n) : i < j => a[i].tx < a[j].tx
      /\ \A i \in Told(a, n) : a[i].tx <= t
      /\ \A i \in Told(a, n) : \A k \in a[i].tx .. t : \E j \in Told(a, n) : a[j].tx = k
  BY <1>1, ReportsForm, Zenon
<1>7. ASSUME NEW i \in Told(q, n), NEW j \in Told(q, n), i < j
      PROVE  q[i].tx < q[j].tx
  <2>1. i + 1 < j + 1
    BY <1>3, <1>4, <1>7
  <2> QED
    BY <1>4, <1>6, <2>1, ZenonT(30)
<1>8. \A i \in Told(q, n) : q[i].tx <= t
  BY <1>4, <1>6, Zenon
<1>9. ASSUME NEW i \in Told(q, n), NEW k \in q[i].tx .. t
      PROVE  \E j \in Told(q, n) : q[j].tx = k
  <2>1. i \in 1 .. l /\ i + 1 \in Told(a, n) /\ a[i + 1] = q[i]
    BY <1>4, Zenon
  <2>2. PICK j \in Told(a, n) : a[j].tx = k
    BY <1>6, <2>1, Zenon
  <2>3. j # 1
    <3>1. SUFFICES ASSUME j = 1 PROVE FALSE
      BY Zenon
    <3>2. 1 < i + 1
      BY <1>3, <2>1
    <3>3. a[1].tx < a[i + 1].tx
      BY <1>6, <2>1, <2>2, <3>1, <3>2, Zenon
    <3>4. q[i].tx \in Int /\ a[1].tx = k /\ a[1].tx \in Int
      BY <1>3, <2>1, <2>2, <3>1, Zenon
    <3> QED
      BY <1>9, <2>1, <3>3, <3>4, SMTT(30)
  <2> QED
    BY <1>5, <2>2, <2>3, Zenon
<1> QED
  BY <1>7, <1>8, <1>9, ReportsForm, Zenon

(* What each step does to the replies on their way and to the channels. *)

RoadQuiet ==
  /\ OnTheirWay' = OnTheirWay /\ KeepsText /\ UNCHANGED tx
  /\ \A n \in NsIds : \A s \in members'[n] :
       s \in members[n] \/ (n = 0 /\ conn[s] = "new" /\ conn'[s] = "open")

RoadAnswer(m) ==
  /\ m \in Msg /\ m.s \in reading /\ m.op \in {"ping", "bad"}
  /\ \A s \in Sessions :
       Written(s)' = IF s = m.s THEN Append(Written(s), m) ELSE Written(s)
  /\ OnTheirWay' = OnTheirWay /\ UNCHANGED <<tx, members>>

(* A reader posts before the writer does. *)
RoadInsert(y, u, v) ==
  /\ y \in Msg /\ Reads(y) /\ u \in Seq(Msg) /\ v \in Seq(Msg)
  /\ OnTheirWay = u \o v /\ OnTheirWay' = (u \o <<y>>) \o v
  /\ KeepsText /\ UNCHANGED <<tx, members>>

RoadAppend(j, m) ==
  /\ j \in Job /\ m \in Msg /\ m.op = j.op /\ j.op \in {"namespace", "transact"}
  /\ OnTheirWay' = Append(OnTheirWay, m)
  /\ KeepsText /\ UNCHANGED members /\ Effect(j, m)

RoadDeliver(m) ==
  /\ m \in Msg /\ OnItsWay(m) /\ UNCHANGED tx
  /\ OnTheirWay = <<m>> \o OnTheirWay'
  /\ Written(m.s)' = Append(Written(m.s), m)
  /\ \A s \in Sessions \ {m.s} :
       Written(s)' = IF m.op = "transact" /\ m.ok /\ s \in members[m.ns]
                       THEN Append(Written(s), Event(m)) ELSE Written(s)
  /\ \A n \in NsIds : members'[n] \subseteq members[n]

(* What the writer is about to post. *)
LEMMA WriterPosting ==
  ASSUME TypeOK
  PROVE  \E v \in Seq(Msg) : v = IF wthr.pc = "post" THEN <<wthr.msg>> ELSE <<>>
<1>1. CASE wthr.pc = "post"
  <2>1. wthr.msg \in Msg
    BY <1>1, ThreadType, Zenon DEF TypeOK
  <2>2. <<wthr.msg>> \in Seq(Msg)
    BY <2>1
  <2> QED
    BY <1>1, <2>2, Zenon
<1>2. CASE wthr.pc # "post"
  <2>1. <<>> \in Seq(Msg)
    OBVIOUS
  <2> QED
    BY <1>2, <2>1, Zenon
<1> QED
  BY <1>1, <1>2, Zenon

(* The io thread runs the first function posted. *)
LEMMA RoadDelivered ==
  ASSUME TypeOK, TypeOK', run_posted
  PROVE  \E m : RoadDeliver(m)
<1>0. PICK m : m = Head(ioq)
  BY Zenon
<1>1. /\ ioq \in Seq(Msg) /\ ioq # <<>> /\ ioq' = Tail(ioq) /\ tx' = tx /\ wthr' = wthr
  BY Zenon DEF run_posted, TypeOK, threads
<1>2. /\ m \in Msg /\ m.s \in Sessions
      /\ Written(m.s)' = Append(Written(m.s), m)
      /\ \A x \in Sessions \ {m.s} :
           Written(x)' = IF m.op = "transact" /\ m.ok /\ x \in members[m.ns]
                           THEN Append(Written(x), Event(m)) ELSE Written(x)
  BY <1>0, DeliveredText, Zenon
<1>3. OnItsWay(m)
  <2>1. In(ioq, Head(ioq))
    BY <1>1, InTail, Zenon
  <2> QED
    BY <1>0, <2>1, Zenon DEF OnItsWay
<1>4. \A n \in NsIds : members'[n] \subseteq members[n]
  <2>1. members' = members \/ members' = leave(m.ns, m.s)
    BY <1>0, Zenon DEF run_posted
  <2>2. members' = leave(m.ns, m.s) => \A n \in NsIds : members'[n] \subseteq members[n]
    <3>1. members \in [NsIds -> SUBSET Sessions]
      BY Zenon DEF TypeOK
    <3> QED
      BY <3>1, Zenon DEF leave
  <2> QED
    BY <2>1, <2>2, Zenon
<1>5. OnTheirWay = <<m>> \o OnTheirWay'
  <2>1. PICK w \in Seq(Msg) : w = IF wthr.pc = "post" THEN <<wthr.msg>> ELSE <<>>
    BY WriterPosting, Zenon
  <2>2. OnTheirWay = ioq \o w /\ OnTheirWay' = ioq' \o w
    BY <1>1, <2>1, Zenon DEF OnTheirWay
  <2>3. ioq = <<m>> \o ioq' /\ ioq' \in Seq(Msg) /\ <<m>> \in Seq(Msg)
    BY <1>0, <1>1, <1>2
  <2> QED
    BY <2>1, <2>2, <2>3, MessageSeqs, ZenonT(60)
<1> QED
  BY <1>1, <1>2, <1>3, <1>4, <1>5, Zenon DEF RoadDeliver

(* The writer handles a request. *)
LEMMA RoadHandled ==
  ASSUME TypeOK, handle_namespace \/ handle_transact
  PROVE  \E j, m : RoadAppend(j, m)
<1>1. PICK m \in Msg : WriterAnswers(m)
  BY NamespaceHandled, TransactHandled, Zenon
<1>2. /\ wthr' = Post(m) /\ UNCHANGED <<ioq, members>> /\ wthr.pc = "run"
      /\ HandleStep(wthr.job, m) /\ wthr.job.op \in {"namespace", "transact"}
  BY <1>1, Zenon DEF WriterAnswers, WriterReplies, queues
<1>3. OnTheirWay = ioq
  BY <1>2, OnTheirWayForm, Zenon
<1>4. OnTheirWay' = ioq \o <<m>>
  <2>1. wthr'.pc = "post" /\ wthr'.msg = m
    BY <1>2, Zenon DEF Post
  <2> QED
    BY <1>2, <2>1, Zenon DEF OnTheirWay
<1>5. OnTheirWay' = Append(OnTheirWay, m)
  BY <1>3, <1>4, MessageSeqs, Zenon DEF TypeOK
<1>6. RoadAppend(wthr.job, m)
  BY <1>2, <1>5, Zenon DEF RoadAppend, HandleStep
<1> QED
  BY <1>6, Zenon

(* A reader posts its reply. *)
LEMMA RoadPosted ==
  ASSUME TypeOK, ReadersRead, NEW r \in Readers, reader_post(r)
  PROVE  \E y, u, v : RoadInsert(y, u, v)
<1>0. PICK y : y = rthr[r].msg
  BY Zenon
<1>1. /\ rthr[r].pc = "post" /\ ioq' = Append(ioq, y) /\ wthr' = wthr
      /\ UNCHANGED <<tx, members, wq, sent>>
  BY <1>0, Zenon DEF reader_post, session
<1>2. y \in Msg /\ ioq \in Seq(Msg)
  BY <1>0, <1>1, ThreadType, Zenon DEF TypeOK
<1>3. Reads(y)
  BY <1>0, <1>1, Zenon DEF ReadersRead, ReadersPost, Posts
<1>4. PICK v \in Seq(Msg) : v = IF wthr.pc = "post" THEN <<wthr.msg>> ELSE <<>>
  BY WriterPosting, Zenon
<1>5. OnTheirWay = ioq \o v /\ OnTheirWay' = (ioq \o <<y>>) \o v
  <2>1. ioq' = ioq \o <<y>>
    BY <1>1, <1>2, MessageSeqs, Zenon
  <2> QED
    BY <1>1, <1>4, <2>1, Zenon DEF OnTheirWay
<1>6. KeepsText
  BY <1>1, TextUnchanged, Zenon
<1>7. RoadInsert(y, ioq, v)
  BY <1>1, <1>2, <1>3, <1>4, <1>5, <1>6, Zenon DEF RoadInsert
<1> QED
  BY <1>7, Zenon

(* A session's request is answered by the io thread or posted. *)
LEMMA RoadRead ==
  ASSUME TypeOK, NEW s \in Sessions, NEW op \in Ops, NEW arg \in ArgsOf(op),
         request_read(s, op, arg)
  PROVE  RoadQuiet \/ \E m : RoadAnswer(m)
<1>1. UNCHANGED <<tx, members, wthr, ioq>>
  BY Zenon DEF request_read, queues, threads
<1>2. OnTheirWay' = OnTheirWay
  BY <1>1, Zenon DEF OnTheirWay
<1>3. (\E m : AnswerStep(m)) \/ (\E j : RequestStep(j))
  BY ReadSteps, Zenon
<1>4. ASSUME NEW m, AnswerStep(m) PROVE RoadAnswer(m)
  BY <1>1, <1>2, <1>4, Zenon DEF AnswerStep, RoadAnswer
<1>5. ASSUME NEW j, RequestStep(j) PROVE RoadQuiet
  BY <1>1, <1>2, <1>5, Zenon DEF RequestStep, RoadQuiet
<1> QED
  BY <1>3, <1>4, <1>5, Zenon

(* Every step is one of those. *)
LEMMA RoadSteps ==
  ASSUME TypeOK, TypeOK', ReadersRead, [Next]_vars
  PROVE  \/ RoadQuiet
         \/ \E m : RoadAnswer(m)
         \/ \E y, u, v : RoadInsert(y, u, v)
         \/ \E j, m : RoadAppend(j, m)
         \/ \E m : RoadDeliver(m)
<1> USE DEF session, queues, threads
<1>1. ASSUME UNCHANGED <<ioq, wthr>>, KeepsText, UNCHANGED tx,
             \A n \in NsIds : \A s \in members'[n] :
               s \in members[n] \/ (n = 0 /\ conn[s] = "new" /\ conn'[s] = "open")
      PROVE  RoadQuiet
  <2>1. OnTheirWay' = OnTheirWay
    BY <1>1, Zenon DEF OnTheirWay
  <2> QED
    BY <1>1, <2>1, Zenon DEF RoadQuiet
<1>2. ASSUME NEW s \in Sessions, accept(s) PROVE RoadQuiet
  <2>1. /\ UNCHANGED <<ioq, wthr, tx, sent, wq>> /\ members' = join(0, s)
        /\ conn[s] = "new" /\ conn'[s] = "open"
    BY <1>2, Zenon DEF accept, TypeOK
  <2>2. \A n \in NsIds : \A x \in members'[n] : x \in members[n] \/ (n = 0 /\ x = s)
    BY <2>1, Zenon DEF join, TypeOK
  <2> QED
    BY <1>1, <2>1, <2>2, TextUnchanged, Zenon
<1>3. ASSUME NEW s \in Sessions, read_failed(s) \/ write_failed(s) PROVE RoadQuiet
  <2>1. UNCHANGED <<ioq, wthr, tx, sent, wq>> /\ members' = leave(ns[s], s)
    BY <1>3, Zenon DEF read_failed, write_failed, end
  <2>2. \A n \in NsIds : \A x \in members'[n] : x \in members[n]
    BY <2>1, Zenon DEF leave, TypeOK
  <2> QED
    BY <1>1, <2>1, <2>2, TextUnchanged, Zenon
<1>4. ASSUME NEW s \in Sessions, write_done(s) PROVE RoadQuiet
  <2>1. UNCHANGED <<ioq, wthr, tx, members>>
    BY <1>4, Zenon DEF write_done
  <2> QED
    BY <1>1, <1>4, <2>1, WriteDoneText, Zenon
<1>5. ASSUME NEW s \in Sessions, disconnect(s) PROVE RoadQuiet
  <2>1. UNCHANGED <<ioq, wthr, tx, members, sent, wq>>
    BY <1>5, Zenon DEF disconnect
  <2> QED
    BY <1>1, <2>1, TextUnchanged, Zenon
<1>6. CASE writer_take \/ writer_exit
  <2>1. PICK thr : /\ wthr' = thr /\ thr.pc # "post" /\ wthr.pc = "idle"
                   /\ UNCHANGED <<ioq, tx, members, sent, wq>>
    <3>1. At("gone").pc # "post" /\ \A j : Run(j).pc # "post"
      BY Zenon DEF At, Run
    <3> QED
      BY <1>6, <3>1, Zenon DEF writer_take, writer_exit
  <2>2. OnTheirWay' = OnTheirWay
    BY <2>1, Zenon DEF OnTheirWay
  <2>3. KeepsText
    BY <2>1, TextUnchanged, Zenon
  <2> QED
    BY <2>1, <2>2, <2>3, Zenon DEF RoadQuiet
<1>7. CASE writer_post
  <2>1. /\ wthr.pc = "post" /\ ioq' = Append(ioq, wthr.msg) /\ wthr' = At("idle")
        /\ UNCHANGED <<tx, members, sent, wq>>
    BY <1>7, Zenon DEF writer_post
  <2>2. wthr'.pc # "post"
    BY <2>1, Zenon DEF At
  <2>3. OnTheirWay' = ioq'
    <3>1. ioq' \o <<>> = ioq'
      BY DEF TypeOK
    <3> QED
      BY <2>2, <3>1, Zenon DEF OnTheirWay
  <2>4. OnTheirWay' = OnTheirWay
    BY <2>1, <2>3, OnTheirWayForm, Zenon
  <2>5. KeepsText
    BY <2>1, TextUnchanged, Zenon
  <2> QED
    BY <2>1, <2>4, <2>5, Zenon DEF RoadQuiet
<1>8. ASSUME NEW r \in Readers,
             \/ reader_start(r) \/ reader_take(r) \/ reader_exit(r)
             \/ handle_select(r) \/ handle_facts(r)
      PROVE  RoadQuiet
  <2>1. UNCHANGED <<ioq, wthr, tx, members, sent, wq>>
    BY <1>8, Zenon DEF reader_start, reader_take, reader_exit, handle_select,
                       handle_facts, ReaderReplies
  <2> QED
    BY <1>1, <2>1, TextUnchanged, Zenon
<1>9. CASE signal \/ MainStep \/ UNCHANGED vars
  <2>1. UNCHANGED <<ioq, wthr, tx, sent, wq>>
    BY <1>9, Zenon DEF signal, MainStep, channels_clear, writer_joined, readers_joined, vars
  <2>2. members' = members \/ members' = [n \in NsIds |-> {}]
    BY <1>9, Zenon DEF signal, MainStep, channels_clear, writer_joined, readers_joined, vars
  <2>3. \A n \in NsIds : \A x \in members'[n] : x \in members[n]
    BY <2>2, Zenon
  <2> QED
    BY <1>1, <2>1, <2>3, TextUnchanged, Zenon
<1>10. ASSUME NEW s \in Sessions, SessionStep(s)
       PROVE  RoadQuiet \/ \E m : RoadAnswer(m)
  BY <1>2, <1>3, <1>4, <1>5, <1>10, RoadRead, Zenon DEF SessionStep
<1>11. CASE WriterStep
  BY <1>6, <1>7, <1>11, RoadHandled, Zenon DEF WriterStep
<1>12. ASSUME NEW r \in Readers, ReaderStep(r)
       PROVE  RoadQuiet \/ \E y, u, v : RoadInsert(y, u, v)
  BY <1>8, <1>12, RoadPosted, Zenon DEF ReaderStep
<1> QED
  BY <1>9, <1>10, <1>11, <1>12, RoadDelivered, Zenon DEF Next

(* A session that was not accepted yet was told nothing and is in no channel. *)
Newcomers ==
  \A s \in Sessions : conn[s] = "new" =>
    Written(s) = <<>> /\ \A n \in NsIds : s \notin members[n]

(* Replies and events go to sessions that were accepted. *)
LEMMA NewcomersStep ==
  TypeOK /\ TypeOK' /\ OneInFlight /\ ReadersRead /\ Newcomers /\ [Next]_vars => Newcomers'
<1> SUFFICES ASSUME TypeOK, TypeOK', OneInFlight, ReadersRead, Newcomers, [Next]_vars,
                    NEW s \in Sessions, conn'[s] = "new"
             PROVE  Written(s)' = <<>> /\ \A n \in NsIds : s \notin members'[n]
  BY Zenon DEF Newcomers
<1>1. conn[s] = "new"
  <2> USE DEF session, queues, threads
  <2>1. ASSUME NEW x \in Sessions, accept(x) \/ disconnect(x) PROVE conn[s] = "new"
    <3>1. PICK c \in {"open", "broken"} : conn' = [conn EXCEPT ![x] = c]
      BY <2>1, Zenon DEF accept, disconnect
    <3> QED
      BY <3>1, Zenon DEF TypeOK
  <2>2. ASSUME NEW x \in Sessions,
               \/ \E op \in Ops : \E arg \in ArgsOf(op) : request_read(x, op, arg)
               \/ read_failed(x) \/ write_done(x) \/ write_failed(x)
        PROVE  conn' = conn
    BY <2>2, Zenon DEF request_read, read_failed, write_done, write_failed
  <2>3. CASE run_posted \/ WriterStep \/ signal \/ MainStep \/ UNCHANGED vars
    BY <2>3, Zenon DEF run_posted, WriterStep, writer_take, handle_namespace,
       handle_transact, WriterReplies, writer_post, writer_exit, signal, MainStep,
       channels_clear, writer_joined, readers_joined, vars
  <2>4. ASSUME NEW r \in Readers, ReaderStep(r) PROVE conn' = conn
    BY <2>4, Zenon DEF ReaderStep, reader_start, reader_take, reader_exit, reader_post,
                       handle_select, handle_facts, ReaderReplies
  <2> QED
    BY <2>1, <2>2, <2>3, <2>4, Zenon DEF Next, SessionStep
<1>2. Written(s) = <<>> /\ \A n \in NsIds : s \notin members[n]
  BY <1>1, Zenon DEF Newcomers
<1>3. s \notin reading /\ \A m \in Msg : OnItsWay(m) => m.s # s
  <2>1. s \notin reading
    BY <1>1, SingleForm, Zenon DEF Absent
  <2>2. ASSUME NEW m \in Msg, OnItsWay(m), m.s = s PROVE FALSE
    BY <1>1, <2>2, OneCarried, Zenon
  <2> QED
    BY <2>1, <2>2, Zenon
<1>4. CASE RoadQuiet
  BY <1>2, <1>4, Zenon DEF RoadQuiet, KeepsText
<1>5. ASSUME NEW m, RoadAnswer(m)
      PROVE  Written(s)' = <<>> /\ \A n \in NsIds : s \notin members'[n]
  BY <1>2, <1>3, <1>5, Zenon DEF RoadAnswer
<1>6. ASSUME NEW y, NEW u, NEW v, RoadInsert(y, u, v)
      PROVE  Written(s)' = <<>> /\ \A n \in NsIds : s \notin members'[n]
  BY <1>2, <1>6, Zenon DEF RoadInsert, KeepsText
<1>7. ASSUME NEW j, NEW m, RoadAppend(j, m)
      PROVE  Written(s)' = <<>> /\ \A n \in NsIds : s \notin members'[n]
  BY <1>2, <1>7, Zenon DEF RoadAppend, KeepsText
<1>8. ASSUME NEW m, RoadDeliver(m)
      PROVE  Written(s)' = <<>> /\ \A n \in NsIds : s \notin members'[n]
  <2>1. m \in Msg /\ m.ns \in NsIds /\ m.s # s
    BY <1>3, <1>8, Zenon DEF RoadDeliver, Msg
  <2> QED
    BY <1>2, <1>8, <2>1, Zenon DEF RoadDeliver
<1> QED
  BY <1>4, <1>5, <1>6, <1>7, <1>8, RoadSteps, Zenon

(* Newcomers holds at all times. *)
LEMMA NewcomersInvariant == Spec => []Newcomers
<1>1. Init => Newcomers
  <2> SUFFICES ASSUME Init PROVE Newcomers
    BY Zenon
  <2>1. members = [n \in NsIds |-> {}]
    BY Zenon DEF Init
  <2> QED
    BY <2>1, SilentInit, Zenon DEF Newcomers
<1> QED
  BY <1>1, ServerTyped, OneRequestInFlight, ReadersReadInvariant, NewcomersStep, PTL DEF Spec

(* The strengthening of EventsComplete: one who joined now would miss      *)
(* nothing either.                                                         *)
Reported ==
  /\ EventsComplete
  /\ \A n \in DOMAIN tx : ReportsUpTo(OnTheirWay, n, tx[n] - 1)

(* What was told in a text, with what is on its way. *)
Tells(q, n) == ReportsUpTo(q \o OnTheirWay, n, tx[n] - 1)

(* And in the next state. *)
LEMMA TellsNext ==
  ASSUME NEW s, NEW n, NEW p
  PROVE  /\ Tells(p, n)' <=> ReportsUpTo(p \o OnTheirWay', n, tx'[n] - 1)
         /\ Tells(<<>>, n)' <=> ReportsUpTo(<<>> \o OnTheirWay', n, tx'[n] - 1)
         /\ Tells(Written(s), n)' <=> ReportsUpTo(Written(s)' \o OnTheirWay', n, tx'[n] - 1)
<1>0. Tells(p, n)' <=> ReportsUpTo(p \o OnTheirWay', n, tx'[n] - 1)
  BY Zenon DEF Tells, ReportsUpTo, Reports
<1>1. Tells(<<>>, n)' <=> ReportsUpTo(<<>> \o OnTheirWay', n, tx'[n] - 1)
  BY Zenon DEF Tells, ReportsUpTo, Reports
<1>2. Tells(Written(s), n)' <=> ReportsUpTo(Written(s)' \o OnTheirWay', n, tx'[n] - 1)
  BY Zenon DEF Tells, ReportsUpTo, Reports
<1> QED
  BY <1>0, <1>1, <1>2, Zenon

(* Messages carry transaction numbers. *)
LEMMA MessageTx == ASSUME NEW q \in Seq(Msg) PROVE \A i \in DOMAIN q : q[i].tx \in Int
<1>1. \A i \in DOMAIN q : q[i] \in Msg
  OBVIOUS
<1>2. \A x \in Msg : x.tx \in Nat
  BY Zenon DEF Msg
<1> QED
  BY <1>1, <1>2

(* A reply the writer is about to post, and what it says of a namespace. *)
LEMMA TellsAppend ==
  ASSUME TypeOK, TypeOK', Bounded, NEW j, NEW m, RoadAppend(j, m), NEW n \in DOMAIN tx',
         NEW p \in Seq(Msg), n \in DOMAIN tx => Tells(p, n),
         \A i \in DOMAIN p : Said(p[i]),
         \A i \in DOMAIN OnTheirWay : Said(OnTheirWay[i])
  PROVE  Tells(p, n)'
<1> DEFINE z == p \o OnTheirWay
<1>1. /\ j \in Job /\ m \in Msg /\ m.op = j.op /\ j.op \in {"namespace", "transact"}
      /\ OnTheirWay' = Append(OnTheirWay, m) /\ Effect(j, m) /\ <<m>> \in Seq(Msg)
  BY DEF RoadAppend
<1>2. OnTheirWay \in Seq(Msg) /\ z \in Seq(Msg)
  BY OnTheirWayForm
<1>3. p \o OnTheirWay' = z \o <<m>>
  BY <1>1, <1>2, MessageSeqs, SMTT(30)
<1>4. /\ Tells(p, n)' <=> ReportsUpTo(z \o <<m>>, n, tx'[n] - 1)
      /\ n \in DOMAIN tx => ReportsUpTo(z, n, tx[n] - 1)
  <2>1. Tells(p, n)' <=> ReportsUpTo(p \o OnTheirWay', n, tx'[n] - 1)
    BY TellsNext, Zenon
  <2>2. Tells(p, n)' <=> ReportsUpTo(z \o <<m>>, n, tx'[n] - 1)
    BY <1>3, <2>1, Zenon
  <2>3. n \in DOMAIN tx => ReportsUpTo(z, n, tx[n] - 1)
    BY Zenon DEF Tells
  <2> QED
    BY <2>2, <2>3, Zenon
<1> HIDE DEF z
<1>5. CASE n \in DOMAIN tx /\ Reports(m, n)
  <2>1. m.op = "transact" /\ m.ok /\ m.ns = n
    BY <1>1, <1>5, ServerAssumption, Zenon DEF Reports
  <2>2. m.tx = tx[n] /\ tx'[n] = tx[n] + 1 /\ tx[n] \in Nat
    BY <1>1, <1>5, <2>1, ZenonT(30) DEF Effect, TypeOK
  <2>3. \A i \in DOMAIN z : z[i].tx \in Int
    BY <1>2, MessageTx, Zenon
  <2>4. ReportsUpTo(z, n, tx[n] - 1) /\ tx[n] - 1 \in Int /\ m.tx = (tx[n] - 1) + 1
    <3>1. ReportsUpTo(z, n, tx[n] - 1)
      BY <1>4, <1>5, Zenon
    <3>2. tx[n] - 1 \in Int /\ m.tx = (tx[n] - 1) + 1
      BY <2>2
    <3> QED
      BY <3>1, <3>2, Zenon
  <2>5. ReportsUpTo(Append(z, m), n, (tx[n] - 1) + 1)
    BY <1>1, <1>2, <1>5, <2>3, <2>4, ReportsNext, Zenon
  <2>6. (tx[n] - 1) + 1 = tx'[n] - 1 /\ Append(z, m) = z \o <<m>>
    BY <1>1, <1>2, <2>2, MessageSeqs, SMTT(30)
  <2> QED
    BY <1>4, <2>5, <2>6, Zenon
<1>6. CASE n \in DOMAIN tx /\ ~Reports(m, n)
  <2>1. tx'[n] = tx[n]
    <3>1. CASE m.ok /\ j.op = "transact"
      <4>1. m.ns # n /\ tx' = [tx EXCEPT ![m.ns] = @ + 1]
        BY <1>1, <1>6, <3>1, Zenon DEF Effect, Reports
      <4> QED
        BY <1>6, <4>1, Zenon DEF TypeOK
    <3>2. CASE ~(m.ok /\ j.op = "transact")
      <4>1. \/ tx' = tx
            \/ n \in DOMAIN tx' /\ \A k \in DOMAIN tx' : tx'[k] = IF k \in DOMAIN tx THEN tx[k] ELSE 1
        BY <1>1, <1>6, <3>2, Zenon DEF Effect
      <4> QED
        BY <1>6, <4>1, Zenon
    <3> QED
      BY <3>1, <3>2, Zenon
  <2>2. z \o <<>> = z /\ (z \o <<m>>) \o <<>> = z \o <<m>> /\ <<>> \in Seq(Msg)
    BY <1>1, <1>2, MessageSeqs
  <2>3. ReportsUpTo(z \o <<>>, n, tx[n] - 1) <=> ReportsUpTo((z \o <<m>>) \o <<>>, n, tx[n] - 1)
    BY <1>1, <1>2, <1>6, <2>2, ReportsInsert, Zenon
  <2> QED
    BY <1>4, <1>6, <2>1, <2>2, <2>3, Zenon
<1>7. CASE n \notin DOMAIN tx
  <2>1. ~Reports(m, n)
    <3>1. ns[j.s] \in DOMAIN tx
      BY <1>1, Zenon DEF TypeOK, Job
    <3> QED
      BY <1>1, <1>7, <3>1, ServerAssumption, Zenon DEF Reports, Effect
  <2>2. ASSUME NEW x \in Msg, Said(x) PROVE ~Reports(x, n)
    BY <1>7, <2>2, Zenon DEF Bounded, Truthful, Reports
  <2>3. \A i \in DOMAIN z : ~Reports(z[i], n)
    <3>1. \A i \in DOMAIN z : \/ i \in DOMAIN p /\ z[i] = p[i]
                              \/ \E k \in DOMAIN OnTheirWay : z[i] = OnTheirWay[k]
      <4>1. \A a, b \in Seq(Msg) : \A i \in DOMAIN (a \o b) :
              \/ i \in DOMAIN a /\ (a \o b)[i] = a[i]
              \/ i - Len(a) \in DOMAIN b /\ (a \o b)[i] = b[i - Len(a)]
        OBVIOUS
      <4> QED
        BY <1>2, <4>1, Zenon DEF z
    <3>2. \A i \in DOMAIN z : z[i] \in Msg
      BY <1>2
    <3> QED
      BY <2>2, <3>1, <3>2, Zenon
  <2>4. \A i \in DOMAIN (z \o <<m>>) : ~Reports((z \o <<m>>)[i], n)
    <3>1. z \o <<m>> = Append(z, m)
      BY <1>1, <1>2, MessageSeqs, Zenon
    <3>2. \A i \in DOMAIN Append(z, m) : Append(z, m)[i] = m \/ (i \in DOMAIN z /\ Append(z, m)[i] = z[i])
      BY <1>1, <1>2
    <3> QED
      BY <2>1, <2>3, <3>1, <3>2, Zenon
  <2>5. Told(z \o <<m>>, n) = {}
    BY <2>4, Zenon DEF Told
  <2> QED
    BY <1>4, <2>5, ReportsForm, Zenon
<1> QED
  BY <1>5, <1>6, <1>7, Zenon

(* A reply that the io thread delivers, and what it says of a namespace. *)
LEMMA TellsDelivered ==
  ASSUME TypeOK, TypeOK', Numbered, NEW m, RoadDeliver(m), NEW n \in DOMAIN tx,
         Tells(<<>>, n), \A s \in members[n] : Tells(Written(s), n)
  PROVE  /\ Tells(<<>>, n)'
         /\ \A s \in members'[n] : Tells(Written(s), n)'
<1>1. PICK r : r = OnTheirWay'
  BY Zenon
<1>2. /\ m \in Msg /\ m.s \in Sessions /\ tx' = tx /\ OnTheirWay = <<m>> \o r
      /\ <<m>> \in Seq(Msg)
      /\ m.op # "event"
  BY <1>1 DEF RoadDeliver, Msg, Numbered, IsReply
<1>3. n \in NsIds /\ tx[n] - 1 \in Int /\ members[n] \subseteq Sessions
      /\ members'[n] \subseteq members[n]
  BY SMTT(30) DEF TypeOK, RoadDeliver
<1>4. r \in Seq(Msg)
  BY <1>1, OnTheirWayNext, Zenon
<1>5. ASSUME NEW p \in Seq(Msg)
      PROVE  /\ Tells(p, n) <=> ReportsUpTo((p \o <<m>>) \o r, n, tx[n] - 1)
             /\ Append(p, m) = p \o <<m>>
  <2>1. p \o OnTheirWay = (p \o <<m>>) \o r
    BY <1>2, <1>4, MessageSeqs, Zenon
  <2> QED
    BY <1>2, <2>1, MessageSeqs, Zenon DEF Tells
<1>6. ASSUME NEW s \in Sessions
      PROVE  Tells(Written(s), n)' <=> ReportsUpTo(Written(s)' \o r, n, tx[n] - 1)
  BY <1>1, <1>2, TellsNext, Zenon
<1>7. Tells(<<>>, n)'
  <2>1. <<>> \in Seq(Msg) /\ <<>> \o <<m>> = <<m>> /\ <<>> \o r = r
    BY <1>2, <1>4
  <2>2. ReportsUpTo(<<m>> \o r, n, tx[n] - 1)
    BY <1>5, <2>1, Zenon
  <2>3. (\A i \in DOMAIN r : r[i].tx \in Int) /\ m.tx \in Int
    <3>1. m.tx \in Nat
      BY <1>2, Zenon DEF Msg
    <3> QED
      BY <1>4, <3>1, MessageTx
  <2>4. ReportsUpTo(r, n, tx[n] - 1)
    BY <1>2, <1>3, <1>4, <2>2, <2>3, ReportsRest, Zenon
  <2>5. Tells(<<>>, n)' <=> ReportsUpTo(<<>> \o r, n, tx[n] - 1)
    BY <1>1, <1>2, TellsNext, Zenon
  <2> QED
    BY <2>1, <2>4, <2>5, Zenon
<1>8. ASSUME NEW s \in members'[n] PROVE Tells(Written(s), n)'
  <2>1. s \in Sessions /\ s \in members[n] /\ Written(s) \in Seq(Msg) /\ Tells(Written(s), n)
    BY <1>3, <1>8, WrittenType, Zenon
  <2>2. PICK p \in Seq(Msg) : p = Written(s)
    BY <2>1, Zenon
  <2>3. /\ ReportsUpTo((p \o <<m>>) \o r, n, tx[n] - 1)
        /\ Tells(Written(s), n)' <=> ReportsUpTo(Written(s)' \o r, n, tx[n] - 1)
    BY <1>5, <1>6, <2>1, <2>2, Zenon
  <2>4. CASE s = m.s
    <3>1. Written(s)' = p \o <<m>>
      BY <1>5, <2>2, <2>4, Zenon DEF RoadDeliver
    <3> QED
      BY <2>3, <3>1, Zenon
  <2>5. CASE s # m.s /\ m.op = "transact" /\ m.ok /\ s \in members[m.ns]
    <3>1. PICK e \in Msg : e = Event(m)
      BY <1>2, EventType, Zenon
    <3>2. e.op = "event" /\ e.ok = m.ok /\ e.ns = m.ns /\ e.tx = m.tx
      BY <1>2, <3>1, Zenon DEF Event, Msg
    <3>3. (Reports(m, n) <=> Reports(e, n)) /\ m.tx = e.tx
      BY <2>5, <3>2, Zenon DEF Reports
    <3>4. ReportsUpTo((p \o <<e>>) \o r, n, tx[n] - 1)
      BY <1>2, <1>4, <2>3, <3>3, ReportsReplace, Zenon
    <3>5. Written(s)' = Append(p, e)
      BY <2>1, <2>2, <2>5, <3>1, Zenon DEF RoadDeliver
    <3>6. Written(s)' = p \o <<e>>
      BY <3>5, MessageSeqs, Zenon
    <3> QED
      BY <2>3, <3>4, <3>6, Zenon
  <2>6. CASE s # m.s /\ ~(m.op = "transact" /\ m.ok /\ s \in members[m.ns])
    <3>1. ~Reports(m, n)
      BY <1>2, <2>1, <2>6, Zenon DEF Reports
    <3>2. Written(s)' = p
      BY <2>1, <2>2, <2>6, Zenon DEF RoadDeliver
    <3>3. ReportsUpTo(p \o r, n, tx[n] - 1)
      BY <1>2, <1>4, <2>3, <3>1, ReportsInsert, Zenon
    <3> QED
      BY <2>3, <3>2, <3>3, Zenon
  <2> QED
    BY <2>4, <2>5, <2>6, Zenon
<1> QED
  BY <1>7, <1>8, Zenon

(* Reported in the next state. *)
LEMMA ReportedNext ==
  ASSUME \A n \in DOMAIN tx' :
           /\ ReportsUpTo(OnTheirWay', n, tx'[n] - 1)
           /\ \A s \in members'[n] : ReportsUpTo(Written(s)' \o OnTheirWay', n, tx'[n] - 1)
  PROVE  Reported'
  BY Zenon DEF Reported, EventsComplete, ReportsUpTo, Reports

(* No step makes a member miss a transaction or see it twice. *)
LEMMA ReportedStep ==
  /\ TypeOK /\ TypeOK' /\ OneInFlight /\ Numbered /\ Bounded /\ ReadersRead /\ Newcomers
  /\ Reported /\ [Next]_vars
  => Reported'
<1> SUFFICES ASSUME TypeOK, TypeOK', OneInFlight, Numbered, Bounded, ReadersRead,
                    Newcomers, Reported, [Next]_vars
             PROVE  Reported'
  BY Zenon
<1>1. /\ OnTheirWay \in Seq(Msg) /\ <<>> \in Seq(Msg) /\ <<>> \o OnTheirWay = OnTheirWay
      /\ \A s \in Sessions : Written(s) \in Seq(Msg)
      /\ DOMAIN tx \subseteq NsIds
      /\ \A n \in NsIds : members[n] \subseteq Sessions
  <2>1. OnTheirWay \in Seq(Msg)
    BY OnTheirWayForm, Zenon
  <2>2. <<>> \in Seq(Msg) /\ <<>> \o OnTheirWay = OnTheirWay
    BY <2>1
  <2>3. DOMAIN tx \subseteq NsIds /\ \A n \in NsIds : members[n] \subseteq Sessions
    BY Zenon DEF TypeOK
  <2> QED
    BY <2>1, <2>2, <2>3, WrittenType, Zenon
<1>2. \A n \in DOMAIN tx : Tells(<<>>, n) /\ \A s \in members[n] : Tells(Written(s), n)
  BY <1>1, Zenon DEF Reported, EventsComplete, Tells
<1>3. SUFFICES ASSUME NEW n \in DOMAIN tx'
               PROVE  Tells(<<>>, n)' /\ \A s \in members'[n] : Tells(Written(s), n)'
  <2>1. OnTheirWay' \in Seq(Msg)
    BY OnTheirWayNext, Zenon
  <2>2. <<>> \o OnTheirWay' = OnTheirWay'
    BY <2>1
  <2>3. \A n \in DOMAIN tx' :
          /\ ReportsUpTo(OnTheirWay', n, tx'[n] - 1)
          /\ \A s \in members'[n] : ReportsUpTo(Written(s)' \o OnTheirWay', n, tx'[n] - 1)
    BY <1>3, <2>2, TellsNext, Zenon
  <2> QED
    BY <2>3, ReportedNext, Zenon
<1>4. n \in NsIds
  BY <1>3, Zenon DEF TypeOK
<1>5. CASE RoadQuiet
  <2>1. /\ OnTheirWay' = OnTheirWay /\ tx' = tx /\ n \in DOMAIN tx
        /\ \A s \in Sessions : Written(s)' = Written(s)
    BY <1>3, <1>5, Zenon DEF RoadQuiet, KeepsText
  <2>2. Tells(<<>>, n)' <=> Tells(<<>>, n)
    BY <2>1, TellsNext, Zenon DEF Tells
  <2>3. ASSUME NEW s \in members'[n] PROVE Tells(Written(s), n)'
    <3>1. s \in Sessions
      BY <1>4, <2>3, Zenon DEF TypeOK
    <3>2. Tells(Written(s), n)' <=> Tells(Written(s), n)
      BY <2>1, <3>1, TellsNext, Zenon DEF Tells
    <3>3. s \in members[n] \/ conn[s] = "new"
      BY <1>4, <1>5, <2>3, Zenon DEF RoadQuiet
    <3>4. conn[s] = "new" => Written(s) = <<>>
      BY <3>1, Zenon DEF Newcomers
    <3> QED
      BY <1>2, <2>1, <3>2, <3>3, <3>4, Zenon
  <2> QED
    BY <1>2, <2>1, <2>2, <2>3, Zenon
<1>6. ASSUME NEW m, RoadAnswer(m)
      PROVE  Tells(<<>>, n)' /\ \A s \in members'[n] : Tells(Written(s), n)'
  <2>1. /\ OnTheirWay' = OnTheirWay /\ tx' = tx /\ members' = members /\ n \in DOMAIN tx
        /\ m \in Msg /\ m.op \in {"ping", "bad"}
        /\ \A s \in Sessions :
             Written(s)' = IF s = m.s THEN Append(Written(s), m) ELSE Written(s)
    BY <1>3, <1>6, Zenon DEF RoadAnswer
  <2>2. Tells(<<>>, n)' <=> Tells(<<>>, n)
    BY <2>1, TellsNext, Zenon DEF Tells
  <2>3. ASSUME NEW s \in members'[n] PROVE Tells(Written(s), n)'
    <3>1. s \in Sessions /\ s \in members[n] /\ Written(s) \in Seq(Msg)
      BY <1>1, <1>4, <2>1, <2>3, Zenon
    <3>2. Tells(Written(s), n)' <=> ReportsUpTo(Written(s)' \o OnTheirWay, n, tx[n] - 1)
      BY <2>1, <3>1, TellsNext, Zenon DEF Tells
    <3>3. ReportsUpTo(Written(s) \o OnTheirWay, n, tx[n] - 1)
      BY <1>2, <2>1, <3>1, Zenon DEF Tells
    <3>4. ~Reports(m, n)
      BY <2>1, Zenon DEF Reports
    <3>5. ReportsUpTo((Written(s) \o <<m>>) \o OnTheirWay, n, tx[n] - 1)
      BY <1>1, <2>1, <3>1, <3>3, <3>4, ReportsInsert, Zenon
    <3>6. Written(s)' = Written(s) \/ Written(s)' = Written(s) \o <<m>>
      BY <2>1, <3>1, MessageSeqs, Zenon
    <3> QED
      BY <3>2, <3>3, <3>5, <3>6, Zenon
  <2> QED
    BY <1>2, <2>1, <2>2, <2>3, Zenon
<1>7. ASSUME NEW y, NEW u, NEW v, RoadInsert(y, u, v)
      PROVE  Tells(<<>>, n)' /\ \A s \in members'[n] : Tells(Written(s), n)'
  <2>1. /\ y \in Msg /\ u \in Seq(Msg) /\ v \in Seq(Msg) /\ <<y>> \in Seq(Msg)
        /\ OnTheirWay = u \o v /\ OnTheirWay' = (u \o <<y>>) \o v
        /\ tx' = tx /\ members' = members /\ n \in DOMAIN tx
        /\ \A s \in Sessions : Written(s)' = Written(s)
    BY <1>3, <1>7 DEF RoadInsert, KeepsText
  <2>2. ~Reports(y, n)
    BY <1>7, Zenon DEF RoadInsert, Reads, Reports
  <2>3. ASSUME NEW p \in Seq(Msg), Tells(p, n)
        PROVE  ReportsUpTo(p \o OnTheirWay', n, tx[n] - 1)
    <3>1. p \o u \in Seq(Msg)
      BY <2>1
    <3>2. ReportsUpTo((p \o u) \o v, n, tx[n] - 1)
      BY <2>1, <2>3, MessageSeqs, ZenonT(30) DEF Tells
    <3>3. ReportsUpTo(((p \o u) \o <<y>>) \o v, n, tx[n] - 1)
      BY <2>1, <2>2, <3>1, <3>2, ReportsInsert, Zenon
    <3>4. u \o <<y>> \in Seq(Msg) /\ (p \o u) \o <<y>> = p \o (u \o <<y>>)
      BY <2>1, MessageSeqs, SMTT(30)
    <3>5. (p \o (u \o <<y>>)) \o v = p \o ((u \o <<y>>) \o v)
      BY <2>1, <3>4, MessageSeqs, ZenonT(60)
    <3> QED
      BY <2>1, <3>3, <3>4, <3>5, Zenon
  <2>4. Tells(<<>>, n)' <=> ReportsUpTo(<<>> \o OnTheirWay', n, tx[n] - 1)
    BY <2>1, TellsNext, Zenon DEF Tells
  <2>5. ASSUME NEW s \in members'[n] PROVE Tells(Written(s), n)'
    <3>1. s \in Sessions /\ s \in members[n] /\ Written(s) \in Seq(Msg)
      BY <1>1, <1>4, <2>1, <2>5, Zenon
    <3>2. Tells(Written(s), n)' <=> ReportsUpTo(Written(s) \o OnTheirWay', n, tx[n] - 1)
      BY <2>1, <3>1, TellsNext, Zenon DEF Tells
    <3> QED
      BY <1>2, <2>1, <2>3, <3>1, <3>2, Zenon
  <2> QED
    BY <1>1, <1>2, <2>1, <2>3, <2>4, <2>5, Zenon
<1>8. ASSUME NEW j, NEW m, RoadAppend(j, m)
      PROVE  Tells(<<>>, n)' /\ \A s \in members'[n] : Tells(Written(s), n)'
  <2>1. \A i \in DOMAIN OnTheirWay : Said(OnTheirWay[i])
    <3>1. \A i \in DOMAIN OnTheirWay : OnTheirWay[i] \in Msg
      BY <1>1
    <3> QED
      BY <3>1, OnePlacePosted, Zenon DEF Said, In
  <2>2. Tells(<<>>, n)'
    <3>1. PICK p \in Seq(Msg) : p = <<>>
      BY <1>1, Zenon
    <3>2. \A i \in DOMAIN p : Said(p[i])
      BY <3>1
    <3>3. Tells(p, n)'
      BY <1>2, <1>8, <2>1, <3>1, <3>2, TellsAppend, Zenon
    <3> QED
      BY <3>1, <3>3, Zenon
  <2>3. ASSUME NEW s \in members'[n] PROVE Tells(Written(s), n)'
    <3>1. s \in Sessions /\ s \in members[n] /\ Written(s) \in Seq(Msg) /\ Written(s)' = Written(s)
      BY <1>1, <1>4, <1>8, <2>3, Zenon DEF RoadAppend, KeepsText
    <3>2. \A i \in DOMAIN Written(s) : Said(Written(s)[i])
      BY <3>1, Zenon DEF Said, In
    <3>3. PICK p \in Seq(Msg) : p = Written(s)
      BY <3>1, Zenon
    <3>4. Tells(p, n)'
      BY <1>2, <1>8, <2>1, <3>1, <3>2, <3>3, TellsAppend, Zenon
    <3>5. Tells(Written(s), n)' <=> Tells(p, n)'
      BY <3>1, <3>3 DEF Tells, ReportsUpTo, Reports
    <3> QED
      BY <3>4, <3>5, Zenon
  <2> QED
    BY <2>2, <2>3, Zenon
<1>9. ASSUME NEW m, RoadDeliver(m)
      PROVE  Tells(<<>>, n)' /\ \A s \in members'[n] : Tells(Written(s), n)'
  <2>1. n \in DOMAIN tx
    BY <1>3, <1>9, Zenon DEF RoadDeliver
  <2> QED
    BY <1>2, <1>9, <2>1, TellsDelivered, Zenon
<1> QED
  BY <1>5, <1>6, <1>7, <1>8, <1>9, RoadSteps, Zenon

(* A member of a channel misses no transaction and sees none twice, for    *)
(* any number of sessions, namespaces and threads: publish() runs on the   *)
(* io thread in the order in which the writer committed.                   *)
THEOREM MembersMissNothing == Spec => []EventsComplete
<1>1. Init => Reported
  <2> SUFFICES ASSUME Init PROVE Reported
    BY Zenon
  <2>1. members = [n \in NsIds |-> {}] /\ ioq = <<>> /\ wthr = At("idle") /\ DOMAIN tx = {0}
    BY Zenon DEF Init
  <2>2. OnTheirWay = <<>>
    BY <2>1 DEF OnTheirWay, At
  <2>3. \A n, t : ReportsUpTo(<<>>, n, t)
    BY DEF ReportsUpTo
  <2>4. 0 \in NsIds
    BY ServerAssumption, Zenon
  <2> QED
    BY <2>1, <2>2, <2>3, <2>4, Zenon DEF Reported, EventsComplete
<1>2. Reported => EventsComplete
  BY Zenon DEF Reported
<1> QED
  BY <1>1, <1>2, ServerTyped, OneRequestInFlight, NumberedInvariant, BoundedInvariant,
     ReadersReadInvariant, NewcomersInvariant, ReportedStep, PTL DEF Spec

=============================================================================
