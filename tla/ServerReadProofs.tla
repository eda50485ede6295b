-------------------------- MODULE ServerReadProofs --------------------------
(***************************************************************************)
(* What a session can count on, for every choice of the constants of Server: *)
(* reads never go back, a select takes effect on the requests after it,    *)
(* every transaction that commits has one response, and a session that     *)
(* ended is a member of no channel.                                        *)
(***************************************************************************)
EXTENDS ServerStepProofs

-----------------------------------------------------------------------------
(* Reads never go back. *)

(* An answer compared with messages to which one is added. *)
LEMMA AsNewAppend ==
  ASSUME NEW q \in Seq(Msg), NEW y \in Msg, NEW m \in Msg
  PROVE  /\ \A k \in 0 .. Len(q) : AsNewAs(m, Append(q, y), k) <=> AsNewAs(m, q, k)
         /\ ~IsReply(y) /\ AsNewAs(m, q, Len(q)) => AsNewAs(m, Append(q, y), Len(q) + 1)
<1> DEFINE w == Append(q, y)
           l == Len(q)
<1>1. l \in Nat /\ (\A i \in 1 .. l : w[i] = q[i]) /\ w[l + 1] = y
  OBVIOUS
<1> HIDE DEF w, l
<1>2. ASSUME NEW k \in 0 .. l PROVE AsNewAs(m, w, k) <=> AsNewAs(m, q, k)
  <2>1. \A i \in 1 .. k : w[i] = q[i]
    BY <1>1
  <2>2. \A i \in 1 .. k : \A h \in i .. k : w[h] = q[h]
    BY <1>1
  <2> QED
    BY <2>1, <2>2, ZenonT(30) DEF AsNewAs
<1>3. ASSUME ~IsReply(y), AsNewAs(m, q, l) PROVE AsNewAs(m, w, l + 1)
  <2> SUFFICES ASSUME NEW i \in 1 .. l + 1, w[i].ok, w[i].ns = m.ns
               PROVE  /\ w[i].op = "facts" => w[i].tx <= m.tx
                      /\ w[i].op = "transact" => w[i].tx < m.tx
                      /\ w[i].op = "event" /\ (\E h \in i .. l + 1 : IsReply(w[h])) =>
                           w[i].tx < m.tx
    BY Zenon DEF AsNewAs
  <2>1. CASE i = l + 1
    <3>1. y.op = "event" /\ w[i] = y /\ \A h \in i .. l + 1 : w[h] = y
      BY <1>1, <1>3, <2>1 DEF IsReply
    <3> QED
      BY <1>3, <3>1, Zenon
  <2>2. CASE i \in 1 .. l
    <3>1. (\E h \in i .. l + 1 : IsReply(w[h])) => \E h \in i .. l : IsReply(q[h])
      BY <1>1, <1>3, <2>2
    <3>2. w[i] = q[i]
      BY <1>1, <2>2, Zenon
    <3> QED
      BY <1>3, <2>2, <3>1, <3>2, Zenon DEF AsNewAs
  <2> QED
    BY <1>1, <2>1, <2>2
<1> QED
  BY <1>2, <1>3, Zenon DEF w, l

FreshIn(q) ==
  \A j \in DOMAIN q : q[j].op = "facts" /\ q[j].ok => AsNewAs(q[j], q, j - 1)

(* A message is added to messages among which no answer goes back. *)
LEMMA FreshAppend ==
  ASSUME NEW q \in Seq(Msg), NEW y \in Msg, FreshIn(q),
         y.op = "facts" /\ y.ok => AsNewAs(y, q, Len(q))
  PROVE  FreshIn(Append(q, y))
<1> DEFINE w == Append(q, y)
           l == Len(q)
<1>1. /\ l \in Nat /\ DOMAIN q = 1 .. l /\ DOMAIN w = 1 .. l + 1 /\ w[l + 1] = y
      /\ \A i \in 1 .. l : w[i] = q[i] /\ q[i] \in Msg /\ i - 1 \in 0 .. l
  OBVIOUS
<1>2. \A m \in Msg : \A k \in 0 .. l : AsNewAs(m, w, k) <=> AsNewAs(m, q, k)
  BY AsNewAppend, Zenon
<1> HIDE DEF w, l
<1>3. ASSUME NEW j \in 1 .. l + 1, w[j].op = "facts", w[j].ok PROVE AsNewAs(w[j], w, j - 1)
  <2>1. CASE j = l + 1
    <3>1. AsNewAs(y, q, l) /\ j - 1 = l /\ l \in 0 .. l
      BY <1>1, <1>3, <2>1 DEF l
    <3> QED
      BY <1>1, <1>2, <2>1, <3>1, Zenon
  <2>2. CASE j \in 1 .. l
    BY <1>1, <1>2, <1>3, <2>2, Zenon DEF FreshIn
  <2> QED
    BY <1>1, <2>1, <2>2
<1>4. FreshIn(w)
  BY <1>1, <1>3, Zenon DEF FreshIn
<1> QED
  BY <1>4, Zenon DEF w

(* The strengthening of AnswersFresh: an answer on its way is as new as    *)
(* all that was written to its session.                                    *)
Fresh ==
  /\ \A s \in Sessions : FreshIn(Written(s))
  /\ \A m \in Msg : OnItsWay(m) /\ m.op = "facts" /\ m.ok =>
       AsNewAs(m, Written(m.s), Len(Written(m.s)))

(* An answer from the current snapshot is as new as all that was written. *)
LEMMA CurrentIsNewest ==
  ASSUME TypeOK, Bounded, NEW m \in Msg, m.ns \in DOMAIN tx, m.tx = tx[m.ns],
         NEW s \in Sessions
  PROVE  AsNewAs(m, Written(s), Len(Written(s)))
<1> DEFINE q == Written(s)
<1>1. q \in Seq(Msg)
  BY WrittenType, Zenon
<1>2. ASSUME NEW i \in 1 .. Len(q) PROVE q[i] \in Msg /\ Said(q[i])
  BY <1>1 DEF Said, In
<1>3. \A i \in 1 .. Len(q) : Truthful(q[i])
  BY <1>2, Zenon DEF Bounded
<1> HIDE DEF q
<1>4. AsNewAs(m, q, Len(q))
  BY <1>3, Zenon DEF AsNewAs, Truthful
<1> QED
  BY <1>4, Zenon DEF q

(* An answer stays as new until it is written: meanwhile its session is    *)
(* written nothing but events.                                             *)
LEMMA FreshStep ==
  TypeOK /\ OneInFlight /\ Numbered /\ Bounded /\ Fresh /\ [Next]_vars => Fresh'
<1> SUFFICES ASSUME TypeOK, OneInFlight, Numbered, Bounded, Fresh, [Next]_vars
             PROVE  Fresh'
  BY Zenon
<1>0. SUFFICES /\ \A s \in Sessions : FreshIn(Written(s)')
               /\ \A x \in Msg : OnItsWay(x)' /\ x.op = "facts" /\ x.ok =>
                    AsNewAs(x, Written(x.s)', Len(Written(x.s)'))
  BY Zenon DEF Fresh, FreshIn, AsNewAs, IsReply
<1>1. /\ \A s \in Sessions : FreshIn(Written(s)) /\ Written(s) \in Seq(Msg)
      /\ \A x \in Msg : OnItsWay(x) /\ x.op = "facts" /\ x.ok =>
           AsNewAs(x, Written(x.s), Len(Written(x.s)))
      /\ \A x \in Msg : x.s \in Sessions
  BY WrittenType, Zenon DEF Fresh, Msg
<1>2. CASE Quiet \/ \E j : RequestStep(j)
  BY <1>1, <1>2, ZenonT(30) DEF Quiet, RequestStep, KeepsText, KeepsReplies
<1>3. ASSUME NEW m, AnswerStep(m)
      PROVE  /\ \A s \in Sessions : FreshIn(Written(s)')
             /\ \A x \in Msg : OnItsWay(x)' /\ x.op = "facts" /\ x.ok =>
                  AsNewAs(x, Written(x.s)', Len(Written(x.s)'))
  <2>1. /\ m \in Msg /\ m.s \in Sessions /\ m.s \in reading /\ m.op # "facts"
        /\ \A s \in Sessions :
             Written(s)' = IF s = m.s THEN Append(Written(s), m) ELSE Written(s)
        /\ \A x : OnItsWay(x)' <=> OnItsWay(x)
    BY <1>1, <1>3, Zenon DEF AnswerStep, KeepsReplies
  <2>2. \A x : x.s = m.s => ~OnItsWay(x)
    BY <2>1, OneCarried, Zenon
  <2>3. \A s \in Sessions : FreshIn(Append(Written(s), m))
    BY <1>1, <2>1, FreshAppend, Zenon
  <2> QED
    BY <1>1, <2>1, <2>2, <2>3, Zenon
<1>4. ASSUME NEW j, NEW m, HandleStep(j, m)
      PROVE  /\ \A s \in Sessions : FreshIn(Written(s)')
             /\ \A x \in Msg : OnItsWay(x)' /\ x.op = "facts" /\ x.ok =>
                  AsNewAs(x, Written(x.s)', Len(Written(x.s)'))
  <2>1. /\ j \in Job /\ m \in Msg /\ j.s \in Sessions /\ m.op = j.op /\ Effect(j, m)
        /\ \A x : OnItsWay(x)' <=> OnItsWay(x) \/ x = m
        /\ \A s \in Sessions : Written(s)' = Written(s)
    BY <1>4, Zenon DEF HandleStep, KeepsText, Job
  <2>2. ASSUME m.op = "facts", m.ok PROVE AsNewAs(m, Written(m.s), Len(Written(m.s)))
    <3>1. m.ns \in DOMAIN tx /\ m.tx = tx[m.ns]
      BY <2>1, <2>2, Zenon DEF Effect, TypeOK
    <3> QED
      BY <1>1, <2>1, <3>1, CurrentIsNewest, Zenon
  <2> QED
    BY <1>1, <2>1, <2>2, Zenon
<1>5. ASSUME NEW m, DeliverStep(m)
      PROVE  /\ \A s \in Sessions : FreshIn(Written(s)')
             /\ \A x \in Msg : OnItsWay(x)' /\ x.op = "facts" /\ x.ok =>
                  AsNewAs(x, Written(x.s)', Len(Written(x.s)'))
  <2>1. /\ m \in Msg /\ m.s \in Sessions /\ OnItsWay(m)
        /\ \A x : OnItsWay(x)' => OnItsWay(x)
        /\ m.s \in reading'
        /\ Written(m.s)' = Append(Written(m.s), m)
        /\ \A s \in Sessions \ {m.s} :
             Written(s)' = Written(s) \/ Written(s)' = Append(Written(s), Event(m))
    BY <1>1, <1>5, Zenon DEF DeliverStep
  <2>2. Event(m) \in Msg /\ Event(m).op = "event" /\ ~IsReply(Event(m))
    BY <2>1, EventType, Zenon DEF Event, Msg, IsReply
  <2>3. FreshIn(Written(m.s)')
    BY <1>1, <2>1, FreshAppend, Zenon
  <2>4. ASSUME NEW s \in Sessions \ {m.s} PROVE FreshIn(Written(s)')
    BY <1>1, <2>1, <2>2, FreshAppend, Zenon
  <2>5. \A x : OnItsWay(x)' => x.s # m.s
    <3>1. OneInFlight'
      BY OneInFlightStep, Zenon
    <3>2. ~InFlight(m.s)'
      BY <2>1, <3>1, ReadingNotInFlightNext, Zenon
    <3> QED
      BY <3>2, InFlightFormsNext, Zenon
  <2>6. ASSUME NEW x \in Msg, OnItsWay(x)', x.op = "facts", x.ok
        PROVE  AsNewAs(x, Written(x.s)', Len(Written(x.s)'))
    <3>1. /\ x.s \in Sessions \ {m.s} /\ Written(x.s) \in Seq(Msg)
          /\ AsNewAs(x, Written(x.s), Len(Written(x.s)))
      BY <1>1, <2>1, <2>5, <2>6, Zenon
    <3>2. Len(Append(Written(x.s), Event(m))) = Len(Written(x.s)) + 1
      BY <2>2, <3>1
    <3>3. AsNewAs(x, Append(Written(x.s), Event(m)), Len(Written(x.s)) + 1)
      BY <2>2, <3>1, AsNewAppend, Zenon
    <3>4. Written(x.s)' = Written(x.s) \/ Written(x.s)' = Append(Written(x.s), Event(m))
      BY <2>1, <3>1, Zenon
    <3> QED
      BY <3>1, <3>2, <3>3, <3>4, Zenon
  <2> QED
    BY <2>1, <2>3, <2>4, <2>6, Zenon
<1> QED
  BY <1>2, <1>3, <1>4, <1>5, Steps, Zenon

(* The answers to the reads of a session never go back: each has all the   *)
(* transactions the session knew of when it asked.                         *)
THEOREM ReadsNeverGoBack == Spec => []AnswersFresh
<1>1. Init => Fresh
  BY SilentInit DEF Fresh, FreshIn
<1>2. Fresh => AnswersFresh
  BY Zenon DEF Fresh, FreshIn, AnswersFresh
<1> QED
  BY <1>1, <1>2, ServerTyped, OneRequestInFlight, NumberedInvariant,
     BoundedInvariant, FreshStep, PTL DEF Spec

-----------------------------------------------------------------------------
(* Selects take effect. *)

InSelected(q) ==
  \A j \in DOMAIN q : q[j].op \in {"facts", "transact"} /\ q[j].ok =>
    SelectedIn(q, j - 1, q[j].ns)

(* The namespace selected, when a message is added. *)
LEMMA SelectedAppend ==
  ASSUME NEW q \in Seq(Msg), NEW y \in Msg, NEW n
  PROVE  /\ \A k \in 0 .. Len(q) : SelectedIn(Append(q, y), k, n) <=> SelectedIn(q, k, n)
         /\ ~IsSelect(y) /\ SelectedIn(q, Len(q), n) =>
              SelectedIn(Append(q, y), Len(q) + 1, n)
         /\ IsSelect(y) /\ y.ns = n => SelectedIn(Append(q, y), Len(q) + 1, n)
<1> DEFINE w == Append(q, y)
           l == Len(q)
<1>1. l \in Nat /\ (\A i \in 1 .. l : w[i] = q[i]) /\ w[l + 1] = y
  OBVIOUS
<1> HIDE DEF w, l
<1>2. ASSUME NEW k \in 0 .. l PROVE SelectedIn(w, k, n) <=> SelectedIn(q, k, n)
  <2>1. \A i \in 1 .. k : w[i] = q[i]
    BY <1>1
  <2>2. \A i \in 1 .. k : \A h \in i + 1 .. k : w[h] = q[h]
    BY <1>1
  <2> QED
    BY <2>1, <2>2, ZenonT(30) DEF SelectedIn
<1>3. ASSUME ~IsSelect(y), SelectedIn(q, l, n) PROVE SelectedIn(w, l + 1, n)
  <2>1. CASE n = 0 /\ \A i \in 1 .. l : ~IsSelect(q[i])
    <3>1. \A i \in 1 .. l + 1 : ~IsSelect(w[i])
      BY <1>1, <1>3, <2>1, SMTT(30)
    <3> QED
      BY <2>1, <3>1, Zenon DEF SelectedIn
  <2>2. ASSUME NEW i \in 1 .. l, IsSelect(q[i]), q[i].ns = n,
               \A h \in i + 1 .. l : ~IsSelect(q[h])
        PROVE  SelectedIn(w, l + 1, n)
    <3>1. i \in 1 .. l + 1 /\ w[i] = q[i]
      BY <1>1
    <3>2. \A h \in i + 1 .. l + 1 : ~IsSelect(w[h])
      BY <1>1, <1>3, <2>2, SMTT(30)
    <3> QED
      BY <2>2, <3>1, <3>2, Zenon DEF SelectedIn
  <2> QED
    BY <1>3, <2>1, <2>2, Zenon DEF SelectedIn
<1>4. ASSUME IsSelect(y), y.ns = n PROVE SelectedIn(w, l + 1, n)
  <2>1. l + 1 \in 1 .. l + 1 /\ \A h \in l + 1 + 1 .. l + 1 : FALSE
    BY <1>1
  <2> QED
    BY <1>1, <1>4, <2>1, Zenon DEF SelectedIn
<1> QED
  BY <1>2, <1>3, <1>4, Zenon DEF w, l

(* A message is added to messages that are about the namespace selected. *)
LEMMA InSelectedAppend ==
  ASSUME NEW q \in Seq(Msg), NEW y \in Msg, InSelected(q),
         y.op \in {"facts", "transact"} /\ y.ok => SelectedIn(q, Len(q), y.ns)
  PROVE  InSelected(Append(q, y))
<1> DEFINE w == Append(q, y)
           l == Len(q)
<1>1. /\ l \in Nat /\ DOMAIN q = 1 .. l /\ DOMAIN w = 1 .. l + 1 /\ w[l + 1] = y
      /\ \A i \in 1 .. l : w[i] = q[i] /\ q[i] \in Msg /\ i - 1 \in 0 .. l
  OBVIOUS
<1>2. \A n : \A k \in 0 .. l : SelectedIn(w, k, n) <=> SelectedIn(q, k, n)
  BY SelectedAppend, Zenon
<1> HIDE DEF w, l
<1>3. ASSUME NEW j \in 1 .. l + 1, w[j].op \in {"facts", "transact"}, w[j].ok
      PROVE  SelectedIn(w, j - 1, w[j].ns)
  <2>1. CASE j = l + 1
    <3>1. SelectedIn(q, l, y.ns) /\ j - 1 = l /\ l \in 0 .. l
      BY <1>1, <1>3, <2>1 DEF l
    <3> QED
      BY <1>1, <1>2, <2>1, <3>1, Zenon
  <2>2. CASE j \in 1 .. l
    BY <1>1, <1>2, <1>3, <2>2, Zenon DEF InSelected
  <2> QED
    BY <1>1, <2>1, <2>2
<1>4. InSelected(w)
  BY <1>1, <1>3, Zenon DEF InSelected
<1> QED
  BY <1>4, Zenon DEF w

(* The strengthening of SelectTakesEffect: session::ns is the namespace    *)
(* selected last as the client knows it, unless the acknowledgement of a   *)
(* select is on its way.                                                   *)
SelectPosted(s) == \E m \in Msg : OnItsWay(m) /\ m.s = s /\ IsSelect(m)

Selected ==
  /\ \A s \in Sessions : InSelected(Written(s))
  /\ \A s \in Sessions :
       SelectPosted(s) \/ SelectedIn(Written(s), Len(Written(s)), ns[s])
  /\ \A m \in Msg : OnItsWay(m) /\ m.ok /\ m.op \in {"select", "facts", "transact"} =>
       m.ns = ns[m.s]

(* session::ns changes when a select is handled, and its acknowledgement   *)
(* is written before anything else of the session.                         *)
LEMMA SelectedStep ==
  TypeOK /\ OneInFlight /\ Selected /\ [Next]_vars => Selected'
<1> SUFFICES ASSUME TypeOK, OneInFlight, Selected, [Next]_vars PROVE Selected'
  BY Zenon
<1> DEFINE A(s) == InSelected(Written(s)')
           P(s) == \E x \in Msg : OnItsWay(x)' /\ x.s = s /\ IsSelect(x)
           B(s) == P(s) \/ SelectedIn(Written(s)', Len(Written(s)'), ns'[s])
           C(x) == OnItsWay(x)' /\ x.ok /\ x.op \in {"select", "facts", "transact"} =>
                     x.ns = ns'[x.s]
<1>0. SUFFICES (\A s \in Sessions : A(s) /\ B(s)) /\ (\A x \in Msg : C(x))
  BY Zenon DEF Selected, SelectPosted, InSelected, SelectedIn, IsSelect
<1>1. /\ \A s \in Sessions : /\ InSelected(Written(s)) /\ Written(s) \in Seq(Msg)
                             /\ SelectPosted(s) \/ SelectedIn(Written(s), Len(Written(s)), ns[s])
      /\ \A x \in Msg : OnItsWay(x) /\ x.ok /\ x.op \in {"select", "facts", "transact"} =>
           x.ns = ns[x.s]
      /\ \A x \in Msg : x.s \in Sessions
  BY WrittenType, Zenon DEF Selected, Msg
<1>2. ASSUME KeepsText, KeepsReplies, ns' = ns
      PROVE  (\A s \in Sessions : A(s) /\ B(s)) /\ (\A x \in Msg : C(x))
  BY <1>1, <1>2, Zenon DEF KeepsText, KeepsReplies, SelectPosted
<1>3. CASE Quiet \/ \E j : RequestStep(j)
  BY <1>2, <1>3, Zenon DEF Quiet, RequestStep
<1>4. ASSUME NEW m, AnswerStep(m)
      PROVE  (\A s \in Sessions : A(s) /\ B(s)) /\ (\A x \in Msg : C(x))
  <2>1. /\ m \in Msg /\ m.s \in Sessions /\ ~IsSelect(m)
        /\ m.op \notin {"facts", "transact"} /\ ns' = ns
        /\ \A s \in Sessions :
             Written(s)' = IF s = m.s THEN Append(Written(s), m) ELSE Written(s)
        /\ \A x : OnItsWay(x)' <=> OnItsWay(x)
    BY <1>1, <1>4, Zenon DEF AnswerStep, KeepsReplies, IsSelect
  <2>2. \A s \in Sessions : A(s)
    BY <1>1, <2>1, InSelectedAppend, Zenon
  <2>3. ASSUME NEW s \in Sessions PROVE B(s)
    <3>1. CASE SelectPosted(s)
      BY <2>1, <3>1, Zenon DEF SelectPosted
    <3>2. CASE SelectedIn(Written(s), Len(Written(s)), ns[s])
      <4>1. /\ Len(Append(Written(s), m)) = Len(Written(s)) + 1
            /\ SelectedIn(Append(Written(s), m), Len(Written(s)) + 1, ns[s])
        BY <1>1, <2>1, <3>2, SelectedAppend
      <4> QED
        BY <2>1, <3>2, <4>1, Zenon
    <3> QED
      BY <1>1, <3>1, <3>2, Zenon
  <2>4. \A x \in Msg : C(x)
    BY <1>1, <2>1, Zenon
  <2> QED
    BY <2>2, <2>3, <2>4, Zenon
<1>5. ASSUME NEW j, NEW m, HandleStep(j, m)
      PROVE  (\A s \in Sessions : A(s) /\ B(s)) /\ (\A x \in Msg : C(x))
  <2>1. /\ j \in Job /\ m \in Msg /\ m.s \in Sessions /\ m.s = j.s /\ m.op = j.op
        /\ Pending(j) /\ Effect(j, m)
        /\ \A x : OnItsWay(x)' <=> OnItsWay(x) \/ x = m
        /\ \A s \in Sessions : Written(s)' = Written(s)
    BY <1>1, <1>5, Zenon DEF HandleStep, KeepsText
  <2>2. \A x : x.s = m.s => ~OnItsWay(x)
    BY <2>1, OneCarried, Zenon
  <2>3. /\ \A s \in Sessions \ {m.s} : ns'[s] = ns[s]
        /\ IsSelect(m) => m.ns = ns'[m.s]
        /\ ~IsSelect(m) => ns' = ns
        /\ m.ok /\ m.op \in {"facts", "transact"} => m.ns = ns[m.s] /\ ns' = ns
    BY <2>1, ZenonT(60) DEF Effect, IsSelect, TypeOK
  <2>4. \A s \in Sessions : A(s)
    BY <1>1, <2>1, Zenon
  <2>5. ASSUME NEW s \in Sessions PROVE B(s)
    <3>1. CASE SelectPosted(s)
      BY <2>1, <3>1, Zenon DEF SelectPosted
    <3>2. CASE s = m.s /\ IsSelect(m)
      BY <2>1, <3>2, Zenon
    <3>3. CASE ~SelectPosted(s) /\ ~(s = m.s /\ IsSelect(m))
      <4>1. ns'[s] = ns[s]
        BY <2>3, <3>3, Zenon
      <4> QED
        BY <1>1, <2>1, <3>3, <4>1, Zenon
    <3> QED
      BY <3>1, <3>2, <3>3, Zenon
  <2>6. ASSUME NEW x \in Msg PROVE C(x)
    <3>1. CASE x = m
      BY <2>3, <3>1, Zenon DEF IsSelect
    <3>2. CASE x # m
      BY <1>1, <2>1, <2>2, <2>3, <3>2, Zenon
    <3> QED
      BY <3>1, <3>2, Zenon
  <2> QED
    BY <2>4, <2>5, <2>6, Zenon
<1>6. ASSUME NEW m, DeliverStep(m)
      PROVE  (\A s \in Sessions : A(s) /\ B(s)) /\ (\A x \in Msg : C(x))
  <2>1. /\ m \in Msg /\ m.s \in Sessions /\ OnItsWay(m) /\ ns' = ns
        /\ \A x : (OnItsWay(x) => OnItsWay(x)' \/ x = m) /\ (OnItsWay(x)' => OnItsWay(x))
        /\ Written(m.s)' = Append(Written(m.s), m)
        /\ \A s \in Sessions \ {m.s} :
             Written(s)' = Written(s) \/ Written(s)' = Append(Written(s), Event(m))
    BY <1>1, <1>6, Zenon DEF DeliverStep
  <2>2. /\ Event(m) \in Msg /\ ~IsSelect(Event(m))
        /\ Event(m).op \notin {"facts", "transact"}
    BY <2>1, EventType, Zenon DEF Event, Msg, IsSelect
  <2>3. ~IsSelect(m) => SelectedIn(Written(m.s), Len(Written(m.s)), ns[m.s])
    <3>1. \A x : OnItsWay(x) /\ x.s = m.s => x = m
      BY <2>1, OneCarried, Zenon
    <3> QED
      BY <1>1, <2>1, <3>1, Zenon DEF SelectPosted
  <2>4. /\ IsSelect(m) => m.ns = ns[m.s]
        /\ m.ok /\ m.op \in {"facts", "transact"} => m.ns = ns[m.s] /\ ~IsSelect(m)
    BY <1>1, <2>1, Zenon DEF IsSelect
  <2>5. ASSUME NEW s \in Sessions PROVE A(s)
    <3>1. CASE s = m.s
      <4>1. m.op \in {"facts", "transact"} /\ m.ok =>
              SelectedIn(Written(m.s), Len(Written(m.s)), m.ns)
        BY <2>3, <2>4, Zenon
      <4>2. InSelected(Append(Written(m.s), m))
        BY <1>1, <2>1, <4>1, InSelectedAppend, Zenon
      <4> QED
        BY <2>1, <3>1, <4>2, Zenon
    <3>2. CASE s # m.s
      <4>1. InSelected(Append(Written(s), Event(m)))
        BY <1>1, <2>2, InSelectedAppend, Zenon
      <4> QED
        BY <1>1, <2>1, <3>2, <4>1, Zenon
    <3> QED
      BY <3>1, <3>2, Zenon
  <2>6. ASSUME NEW s \in Sessions PROVE B(s)
    <3>1. CASE s = m.s
      <4>1. Len(Append(Written(m.s), m)) = Len(Written(m.s)) + 1
        BY <1>1, <2>1
      <4>2. CASE IsSelect(m)
        <5>1. SelectedIn(Append(Written(m.s), m), Len(Written(m.s)) + 1, m.ns)
          BY <1>1, <2>1, <4>2, SelectedAppend, Zenon
        <5> QED
          BY <2>1, <2>4, <3>1, <4>1, <4>2, <5>1, Zenon
      <4>3. CASE ~IsSelect(m)
        <5>1. SelectedIn(Append(Written(m.s), m), Len(Written(m.s)) + 1, ns[m.s])
          BY <1>1, <2>1, <2>3, <4>3, SelectedAppend, Zenon
        <5> QED
          BY <2>1, <3>1, <4>1, <5>1, Zenon
      <4> QED
        BY <4>2, <4>3, Zenon
    <3>2. CASE s # m.s /\ SelectPosted(s)
      <4>1. PICK x \in Msg : OnItsWay(x) /\ x.s = s /\ IsSelect(x)
        BY <3>2, Zenon DEF SelectPosted
      <4>2. OnItsWay(x)'
        BY <2>1, <3>2, <4>1, Zenon
      <4> QED
        BY <4>1, <4>2, Zenon
    <3>3. CASE s # m.s /\ SelectedIn(Written(s), Len(Written(s)), ns[s])
      <4>1. /\ Len(Append(Written(s), Event(m))) = Len(Written(s)) + 1
            /\ SelectedIn(Append(Written(s), Event(m)), Len(Written(s)) + 1, ns[s])
        BY <1>1, <2>2, <3>3, SelectedAppend
      <4>2. Written(s)' = Written(s) \/ Written(s)' = Append(Written(s), Event(m))
        BY <2>1, <3>3, Zenon
      <4>3. SelectedIn(Written(s)', Len(Written(s)'), ns[s])
        BY <3>3, <4>1, <4>2, Zenon
      <4> QED
        BY <2>1, <4>3, Zenon
    <3> QED
      BY <1>1, <3>1, <3>2, <3>3, Zenon
  <2>7. \A x \in Msg : C(x)
    BY <1>1, <2>1, Zenon
  <2> QED
    BY <2>5, <2>6, <2>7, Zenon
<1> QED
  BY <1>3, <1>4, <1>5, <1>6, Steps, Zenon

(* A request is about the namespace of the last select its client saw      *)
(* acknowledged, though session::ns is assigned on another thread.         *)
THEOREM SelectsTakeEffect == Spec => []SelectTakesEffect
<1>1. Init => Selected
  <2> SUFFICES ASSUME Init PROVE Selected
    BY Zenon
  <2>1. ASSUME NEW s \in Sessions
        PROVE  InSelected(Written(s)) /\ SelectedIn(Written(s), Len(Written(s)), ns[s])
    <3>1. Written(s) = <<>> /\ ns[s] = 0
      BY SilentInit, Zenon DEF Init
    <3>2. InSelected(<<>>) /\ SelectedIn(<<>>, Len(<<>>), 0)
      BY DEF InSelected, SelectedIn
    <3> QED
      BY <3>1, <3>2, Zenon
  <2> QED
    BY <2>1, SilentInit, Zenon DEF Selected
<1>2. Selected => SelectTakesEffect
  BY Zenon DEF Selected, InSelected, SelectTakesEffect
<1> QED
  BY <1>1, <1>2, ServerTyped, OneRequestInFlight, SelectedStep, PTL DEF Spec

-----------------------------------------------------------------------------
(* One response for each commit. *)

Commits(m) == m.op = "transact" /\ m.ok

(* The strengthening of CommitsAnswered, about messages and not yet about  *)
(* the places they are at.                                                 *)
OneResponse ==
  /\ \A n \in DOMAIN tx : \A t \in 1 .. tx[n] - 1 :
       \E m \in Msg : Said(m) /\ IsResponse(m, n, t)
  /\ \A x, y \in Msg :
       Said(x) /\ Said(y) /\ Commits(x) /\ Commits(y) /\ x.ns = y.ns /\ x.tx = y.tx
         => x = y

(* A transaction gets its response when it commits, and it is then the     *)
(* last of its namespace.                                                  *)
LEMMA OneResponseStep ==
  TypeOK /\ Bounded /\ OneResponse /\ [Next]_vars => OneResponse'
<1> SUFFICES ASSUME TypeOK, Bounded, OneResponse, [Next]_vars PROVE OneResponse'
  BY Zenon
<1> DEFINE A == \A n \in DOMAIN tx' : \A t \in 1 .. tx'[n] - 1 :
                  \E m \in Msg : Said(m)' /\ IsResponse(m, n, t)
           B == \A x, y \in Msg :
                  Said(x)' /\ Said(y)' /\ Commits(x) /\ Commits(y)
                  /\ x.ns = y.ns /\ x.tx = y.tx => x = y
<1>0. SUFFICES A /\ B
  BY Zenon DEF OneResponse, IsResponse, Commits
<1>1. /\ \A n \in DOMAIN tx : \A t \in 1 .. tx[n] - 1 :
           \E m \in Msg : Said(m) /\ IsResponse(m, n, t)
      /\ \A x, y \in Msg :
           Said(x) /\ Said(y) /\ Commits(x) /\ Commits(y) /\ x.ns = y.ns /\ x.tx = y.tx
             => x = y
  BY Zenon DEF OneResponse
<1>2. ASSUME tx' = tx, \A x \in Msg : /\ Said(x) => Said(x)'
                                      /\ Said(x)' /\ Commits(x) => Said(x)
      PROVE  A /\ B
  BY <1>1, <1>2, Zenon
<1>3. CASE Quiet \/ \E j : RequestStep(j)
  <2>1. tx' = tx /\ \A x : Said(x)' <=> Said(x)
    BY <1>3, SaidSteps, Zenon DEF Quiet, RequestStep
  <2> QED
    BY <1>2, <2>1, Zenon
<1>4. ASSUME NEW m, AnswerStep(m) PROVE A /\ B
  <2>1. tx' = tx /\ ~Commits(m) /\ \A x : Said(x)' <=> Said(x) \/ x = m
    BY <1>4, SaidSteps, Zenon DEF AnswerStep, Commits
  <2> QED
    BY <1>2, <2>1, Zenon
<1>5. ASSUME NEW m, DeliverStep(m) PROVE A /\ B
  <2>1. /\ tx' = tx /\ m \in Msg
        /\ \A x : (Said(x) => Said(x)') /\ (Said(x)' => Said(x) \/ x = Event(m))
    BY <1>5, SaidSteps, Zenon DEF DeliverStep
  <2>2. ~Commits(Event(m))
    BY <2>1, Zenon DEF Commits, Event, Msg
  <2> QED
    BY <1>2, <2>1, <2>2, Zenon
<1>6. ASSUME NEW j, NEW m, HandleStep(j, m) PROVE A /\ B
  <2>1. /\ j \in Job /\ j.s \in Sessions /\ m \in Msg /\ m.op = j.op /\ Effect(j, m)
        /\ \A x : Said(x)' <=> Said(x) \/ x = m
    BY <1>6, SaidSteps, Zenon DEF HandleStep, Job
  <2>2. CASE ~Commits(m)
    <3>1. /\ DOMAIN tx \subseteq DOMAIN tx'
          /\ \A n \in DOMAIN tx : tx'[n] = tx[n]
          /\ \A n \in DOMAIN tx' \ DOMAIN tx : tx'[n] = 1
      BY <2>1, <2>2, Zenon DEF Effect, Commits
    <3>2. A
      <4> SUFFICES ASSUME NEW n \in DOMAIN tx', NEW t \in 1 .. tx'[n] - 1
                   PROVE  \E x \in Msg : Said(x)' /\ IsResponse(x, n, t)
        BY Zenon
      <4>1. n \in DOMAIN tx /\ t \in 1 .. tx[n] - 1
        BY <3>1
      <4> QED
        BY <1>1, <2>1, <4>1, Zenon
    <3>3. B
      BY <1>1, <2>1, <2>2, Zenon
    <3> QED
      BY <3>2, <3>3, Zenon
  <2>3. CASE Commits(m)
    <3>1. /\ m.ns \in DOMAIN tx /\ m.tx = tx[m.ns] /\ tx[m.ns] \in Nat
          /\ tx' = [tx EXCEPT ![m.ns] = @ + 1]
      BY <2>1, <2>3, Zenon DEF Effect, Commits, TypeOK
    <3>2. /\ DOMAIN tx' = DOMAIN tx /\ tx'[m.ns] = tx[m.ns] + 1
          /\ \A n \in DOMAIN tx \ {m.ns} : tx'[n] = tx[n]
      BY <3>1, Zenon
    <3>3. A
      <4> SUFFICES ASSUME NEW n \in DOMAIN tx', NEW t \in 1 .. tx'[n] - 1
                   PROVE  \E x \in Msg : Said(x)' /\ IsResponse(x, n, t)
        BY Zenon
      <4>1. CASE n = m.ns /\ t = tx[n]
        <5>1. IsResponse(m, n, t) /\ Said(m)'
          BY <2>1, <2>3, <3>1, <4>1, Zenon DEF IsResponse, Commits
        <5> QED
          BY <2>1, <5>1, Zenon
      <4>2. CASE ~(n = m.ns /\ t = tx[n])
        <5>1. n \in DOMAIN tx /\ t \in 1 .. tx[n] - 1
          BY <3>1, <3>2, <4>2
        <5> QED
          BY <1>1, <2>1, <5>1, Zenon
      <4> QED
        BY <4>1, <4>2, Zenon
    <3>4. \A x \in Msg : Said(x) /\ Commits(x) /\ x.ns = m.ns => x.tx # m.tx
      <4> SUFFICES ASSUME NEW x \in Msg, Said(x), Commits(x), x.ns = m.ns
                   PROVE  x.tx # m.tx
        BY Zenon
      <4>1. x.tx \in Nat /\ x.tx < tx[x.ns]
        BY Zenon DEF Bounded, Truthful, Commits, Msg
      <4> QED
        BY <3>1, <4>1
    <3>5. B
      BY <1>1, <2>1, <3>4, Zenon
    <3> QED
      BY <3>3, <3>5, Zenon
  <2> QED
    BY <2>2, <2>3, Zenon
<1> QED
  BY <1>3, <1>4, <1>5, <1>6, Steps, Zenon

(* Each commit has one response, as a message. *)
LEMMA OneResponseInvariant == Spec => []OneResponse
<1>1. Init => OneResponse
  <2> SUFFICES ASSUME Init PROVE OneResponse
    BY Zenon
  <2>1. \A x : ~Said(x)
    BY SilentInit DEF Said, In
  <2>2. \A n \in DOMAIN tx : tx[n] = 1
    BY Zenon DEF Init
  <2> QED
    BY <2>1, <2>2 DEF OneResponse
<1> QED
  BY <1>1, ServerTyped, BoundedInvariant, OneResponseStep, PTL DEF Spec

(* The places of a response, one by one. *)
WrittenAt(n, t, p) ==
  \E s \in Sessions : \E i \in DOMAIN Written(s) :
    IsResponse(Written(s)[i], n, t) /\ p = <<"written", s, i>>

PostedAt(n, t, p) ==
  \E i \in DOMAIN OnTheirWay :
    IsResponse(OnTheirWay[i], n, t) /\ p = <<"posted", 0, i>>

(* Responses is the set of them. *)
LEMMA ResponseCases ==
  ASSUME NEW n, NEW t, NEW p
  PROVE  p \in Responses(n, t) <=> WrittenAt(n, t, p) \/ PostedAt(n, t, p)
<1> DEFINE W(s) == {<<"written", s, i>> :
                      i \in {j \in DOMAIN Written(s) : IsResponse(Written(s)[j], n, t)}}
           O == {<<"posted", 0, i>> :
                   i \in {j \in DOMAIN OnTheirWay : IsResponse(OnTheirWay[j], n, t)}}
<1>1. Responses(n, t) = (UNION {W(s) : s \in Sessions}) \cup O
  BY Zenon DEF Responses
<1>2. ASSUME NEW s \in Sessions
      PROVE  p \in W(s) <=> \E i \in DOMAIN Written(s) :
               IsResponse(Written(s)[i], n, t) /\ p = <<"written", s, i>>
  BY Zenon
<1>3. p \in O <=> PostedAt(n, t, p)
  BY Zenon DEF PostedAt
<1> HIDE DEF W, O
<1>4. p \in UNION {W(s) : s \in Sessions} <=> \E s \in Sessions : p \in W(s)
  BY Zenon
<1>5. (\E s \in Sessions : p \in W(s)) <=> WrittenAt(n, t, p)
  BY <1>2, Zenon DEF WrittenAt
<1> QED
  BY <1>1, <1>3, <1>4, <1>5, Zenon

(* A reply that was written is at one place, and no longer on its way. *)
LEMMA OnePlaceWritten ==
  ASSUME TypeOK, OneInFlight, Numbered, NEW m \in Msg, IsReply(m)
  PROVE  /\ \A r, s \in Sessions : \A i \in DOMAIN Written(r) : \A j \in DOMAIN Written(s) :
              Written(r)[i] = m /\ Written(s)[j] = m => r = s /\ i = j
         /\ \A s \in Sessions : In(Written(s), m) => ~OnItsWay(m)
<1>1. /\ \A s \in Sessions : /\ RepliesTo(Written(s), s, Answered(s))
                             /\ Written(s) \in Seq(Msg)
      /\ \A x \in Msg : x.s \in Sessions /\ x.no \in Nat
      /\ nreq \in [Sessions -> Nat]
  BY WrittenType, Zenon DEF Numbered, RepliesInOrder, Answered, TypeOK, Msg
<1>2. ASSUME NEW r \in Sessions, NEW s \in Sessions, NEW i \in DOMAIN Written(r),
             NEW j \in DOMAIN Written(s), Written(r)[i] = m, Written(s)[j] = m
      PROVE  r = s /\ i = j
  <2>1. r = m.s /\ s = m.s
    BY <1>1, <1>2 DEF RepliesTo
  <2>2. i \in Nat /\ j \in Nat
    BY <1>1
  <2>3. ~(i < j) /\ ~(j < i)
    BY <1>1, <1>2, <2>1 DEF RepliesTo
  <2> QED
    BY <2>1, <2>2, <2>3
<1>3. ASSUME NEW s \in Sessions, In(Written(s), m), OnItsWay(m) PROVE FALSE
  <2>1. s = m.s /\ m.no \in 1 .. Answered(s)
    BY <1>1, <1>3 DEF RepliesTo, In
  <2>2. InFlight(s)
    BY <1>3, <2>1, InFlightForm, Zenon
  <2>3. m.no = nreq[s]
    BY <1>3, <2>1, Zenon DEF Numbered
  <2> QED
    BY <1>1, <2>1, <2>2, <2>3 DEF Answered
<1> QED
  BY <1>2, <1>3, Zenon

(* Every transaction that commits has one response at one place, whoever   *)
(* leaves and whenever the server is stopped.                              *)
THEOREM CommitsAnsweredOnce == Spec => []CommitsAnswered
<1>1. TypeOK /\ OneInFlight /\ Numbered /\ OneResponse /\ ReadersRead => CommitsAnswered
  <2> SUFFICES ASSUME TypeOK, OneInFlight, Numbered, OneResponse, ReadersRead,
                      NEW n \in DOMAIN tx, NEW t \in 1 .. tx[n] - 1
               PROVE  \E p \in Responses(n, t) : Responses(n, t) = {p}
    BY Zenon DEF CommitsAnswered
  <2>1. PICK m \in Msg : Said(m) /\ IsResponse(m, n, t)
    BY Zenon DEF OneResponse
  <2>2. IsReply(m) /\ ~Reads(m) /\ Commits(m)
    BY <2>1, Zenon DEF IsReply, Reads, Commits, IsResponse
  <2>3. /\ OnTheirWay \in Seq(Msg)
        /\ \A s \in Sessions : Written(s) \in Seq(Msg)
    BY WrittenType, OnTheirWayForm, Zenon
  <2>4. \A x \in Msg : Said(x) /\ IsResponse(x, n, t) => x = m
    BY <2>1, Zenon DEF OneResponse, IsResponse, Commits
  <2>5. ASSUME NEW s \in Sessions, NEW i \in DOMAIN Written(s),
               IsResponse(Written(s)[i], n, t)
        PROVE  Written(s)[i] = m
    BY <2>3, <2>4, <2>5 DEF Said, In
  <2>6. ASSUME NEW i \in DOMAIN OnTheirWay, IsResponse(OnTheirWay[i], n, t)
        PROVE  OnTheirWay[i] = m
    <3>1. OnTheirWay[i] \in Msg /\ In(OnTheirWay, OnTheirWay[i])
      BY <2>3 DEF In
    <3> QED
      BY <2>4, <2>6, <3>1, OnePlacePosted, Zenon DEF Said
  <2>7. CASE OnItsWay(m)
    <3>1. PICK i \in DOMAIN OnTheirWay : OnTheirWay[i] = m
      BY <2>2, <2>7, OnePlacePosted, Zenon DEF In
    <3>2. \A s \in Sessions : \A j \in DOMAIN Written(s) : Written(s)[j] # m
      BY <2>2, <2>7, OnePlaceWritten, Zenon DEF In
    <3>3. \A j \in DOMAIN OnTheirWay : OnTheirWay[j] = m => j = i
      BY <3>1, OnePlacePosted, Zenon
    <3>4. <<"posted", 0, i>> \in Responses(n, t)
      <4>1. PostedAt(n, t, <<"posted", 0, i>>)
        BY <2>1, <3>1, Zenon DEF PostedAt
      <4> QED
        BY <4>1, ResponseCases, Zenon
    <3>5. ASSUME NEW p \in Responses(n, t) PROVE p = <<"posted", 0, i>>
      <4>0. ~WrittenAt(n, t, p)
        BY <2>5, <3>2, Zenon DEF WrittenAt
      <4>1. PostedAt(n, t, p)
        BY <4>0, ResponseCases, Zenon
      <4>2. PICK j \in DOMAIN OnTheirWay :
              IsResponse(OnTheirWay[j], n, t) /\ p = <<"posted", 0, j>>
        BY <4>1, Zenon DEF PostedAt
      <4>3. OnTheirWay[j] = m
        BY <2>6, <4>2, Zenon
      <4>4. j = i
        BY <3>3, <4>3, Zenon
      <4> QED
        BY <4>2, <4>4, Zenon
    <3>6. Responses(n, t) = {<<"posted", 0, i>>}
      BY <3>4, <3>5, Zenon
    <3> QED
      BY <3>4, <3>6, Zenon
  <2>8. CASE ~OnItsWay(m)
    <3>1. PICK s \in Sessions : \E i \in DOMAIN Written(s) : Written(s)[i] = m
      BY <2>1, <2>8, Zenon DEF Said, In
    <3>2. PICK i \in DOMAIN Written(s) : Written(s)[i] = m
      BY <3>1, Zenon
    <3>3. \A r \in Sessions : \A j \in DOMAIN Written(r) :
            Written(r)[j] = m => r = s /\ j = i
      BY <2>2, <3>2, OnePlaceWritten, Zenon
    <3>4. \A j \in DOMAIN OnTheirWay : OnTheirWay[j] # m
      BY <2>8, OnePlacePosted, Zenon DEF In
    <3>5. <<"written", s, i>> \in Responses(n, t)
      <4>1. WrittenAt(n, t, <<"written", s, i>>)
        BY <2>1, <3>2, Zenon DEF WrittenAt
      <4> QED
        BY <4>1, ResponseCases, Zenon
    <3>6. ASSUME NEW p \in Responses(n, t) PROVE p = <<"written", s, i>>
      <4>0. ~PostedAt(n, t, p)
        BY <2>6, <3>4, Zenon DEF PostedAt
      <4>1. WrittenAt(n, t, p)
        BY <4>0, ResponseCases, Zenon
      <4>2. PICK r \in Sessions : \E j \in DOMAIN Written(r) :
              IsResponse(Written(r)[j], n, t) /\ p = <<"written", r, j>>
        BY <4>1, Zenon DEF WrittenAt
      <4>3. PICK j \in DOMAIN Written(r) :
              IsResponse(Written(r)[j], n, t) /\ p = <<"written", r, j>>
        BY <4>2, Zenon
      <4>4. Written(r)[j] = m
        BY <2>5, <4>3, Zenon
      <4>5. r = s /\ j = i
        BY <3>3, <4>4, Zenon
      <4> QED
        BY <4>3, <4>5, Zenon
    <3>7. Responses(n, t) = {<<"written", s, i>>}
      BY <3>5, <3>6, Zenon
    <3> QED
      BY <3>5, <3>7, Zenon
  <2> QED
    BY <2>7, <2>8, Zenon
<1> QED
  BY <1>1, ServerTyped, OneRequestInFlight, NumberedInvariant, OneResponseInvariant,
     ReadersReadInvariant, PTL

-----------------------------------------------------------------------------
(* Sessions that ended. *)

Gone(s) == s \notin reading /\ ~InFlight(s)

(* The strengthening of EndedLeave: only channel 0 is joined, and a        *)
(* session whose connection is open has its next request read or handled.  *)
Ended ==
  /\ \A n \in NsIds : n # 0 => members[n] = {}
  /\ \A s \in Sessions : conn[s] = "open" => ~Gone(s)
  /\ \A s \in Sessions : conn[s] = "broken" /\ Gone(s) /\ s \in members[0] => ns[s] # 0

(* Who joins a channel. *)
LEMMA MembersStep ==
  ASSUME TypeOK, [Next]_vars
  PROVE  \A n \in NsIds : \A s \in members'[n] :
           s \in members[n] \/ (n = 0 /\ conn[s] = "new" /\ conn'[s] = "open")
<1> USE DEF session, queues, threads
<1> DEFINE Goal == \A n \in NsIds : \A s \in members'[n] :
             s \in members[n] \/ (n = 0 /\ conn[s] = "new" /\ conn'[s] = "open")
<1>1. (members' = members) => Goal
  BY Zenon
<1>2. ASSUME NEW x \in Sessions, accept(x) PROVE Goal
  <2>1. members' = join(0, x) /\ conn[x] = "new" /\ conn'[x] = "open"
    BY <1>2, Zenon DEF accept, TypeOK
  <2> QED
    BY <2>1, Zenon DEF join, TypeOK
<1>3. ASSUME NEW n, NEW x, members' = leave(n, x) PROVE Goal
  BY <1>3, Zenon DEF leave, TypeOK
<1>4. ASSUME run_posted PROVE Goal
  <2>1. members' = leave(Head(ioq).ns, Head(ioq).s) \/ members' = members
    BY <1>4, Zenon DEF run_posted
  <2> QED
    BY <1>1, <1>3, <2>1, Zenon
<1>5. ASSUME signal \/ MainStep \/ UNCHANGED vars PROVE Goal
  <2>1. members' = members \/ members' = [n \in NsIds |-> {}]
    BY <1>5, Zenon DEF signal, MainStep, channels_clear, writer_joined, readers_joined, vars
  <2> QED
    BY <1>1, <2>1, Zenon
<1> HIDE DEF Goal
<1>6. ASSUME NEW x \in Sessions, SessionStep(x) PROVE Goal
  <2>1. \A op \in Ops : \A arg \in ArgsOf(op) : request_read(x, op, arg) => members' = members
    BY Zenon DEF request_read
  <2>2. disconnect(x) \/ write_done(x) => members' = members
    BY Zenon DEF disconnect, write_done
  <2>3. read_failed(x) \/ write_failed(x) => members' = leave(ns[x], x)
    BY Zenon DEF read_failed, write_failed, end
  <2> QED
    BY <1>1, <1>2, <1>3, <1>6, <2>1, <2>2, <2>3, Zenon DEF SessionStep
<1>7. ASSUME WriterStep PROVE Goal
  <2>1. members' = members
    BY <1>7, Zenon DEF WriterStep, writer_take, handle_namespace, handle_transact,
                       WriterReplies, writer_post, writer_exit
  <2> QED
    BY <1>1, <2>1, Zenon
<1>8. ASSUME NEW r \in Readers, ReaderStep(r) PROVE Goal
  <2>1. members' = members
    BY <1>8, Zenon DEF ReaderStep, reader_start, reader_take, reader_exit, reader_post,
                       handle_select, handle_facts, ReaderReplies
  <2> QED
    BY <1>1, <2>1, Zenon
<1>9. Goal
  BY <1>4, <1>5, <1>6, <1>7, <1>8, Zenon DEF Next
<1> QED
  BY <1>9, Zenon DEF Goal

(* How a connection changes. *)
LEMMA ConnStep ==
  ASSUME TypeOK, [Next]_vars, NEW s \in Sessions
  PROVE  \/ conn'[s] = conn[s]
         \/ conn[s] = "new" /\ conn'[s] = "open" /\ s \in reading'
         \/ conn[s] = "open" /\ conn'[s] = "broken" /\ Quiet /\ reading' = reading /\ members' = members
<1> USE DEF session, queues, threads
<1>1. ASSUME NEW x \in Sessions, accept(x)
      PROVE  conn'[s] = conn[s] \/ (conn[s] = "new" /\ conn'[s] = "open" /\ s \in reading')
  BY <1>1, Zenon DEF accept, TypeOK
<1>2. ASSUME NEW x \in Sessions, disconnect(x)
      PROVE  \/ conn'[s] = conn[s]
             \/ /\ conn[s] = "open" /\ conn'[s] = "broken" /\ Quiet /\ reading' = reading
                /\ members' = members
  <2>1. /\ conn[x] = "open" /\ conn' = [conn EXCEPT ![x] = "broken"]
        /\ UNCHANGED <<reading, nreq, ns, wq, sent, members, ioq, writerq, readerq, wthr, rthr, tx>>
    BY <1>2, Zenon DEF disconnect
  <2>2. Quiet
    BY <2>1, TextUnchanged, WorkUnchanged, Zenon DEF Quiet
  <2> QED
    BY <2>1, <2>2, Zenon DEF TypeOK
<1>3. ASSUME NEW x \in Sessions,
             \/ \E op \in Ops : \E arg \in ArgsOf(op) : request_read(x, op, arg)
             \/ read_failed(x) \/ write_done(x) \/ write_failed(x)
      PROVE  conn' = conn
  BY <1>3, Zenon DEF request_read, read_failed, write_done, write_failed
<1>4. CASE run_posted \/ WriterStep \/ signal \/ MainStep \/ UNCHANGED vars
  BY <1>4, Zenon DEF run_posted, WriterStep, writer_take, handle_namespace,
     handle_transact, WriterReplies, writer_post, writer_exit, signal, MainStep,
     channels_clear, writer_joined, readers_joined, vars
<1>5. ASSUME NEW r \in Readers, ReaderStep(r) PROVE conn' = conn
  BY <1>5, Zenon DEF ReaderStep, reader_start, reader_take, reader_exit, reader_post,
                     handle_select, handle_facts, ReaderReplies
<1> QED
  BY <1>1, <1>2, <1>3, <1>4, <1>5, Zenon DEF Next, SessionStep

(* A step that neither reads a request nor fails to leaves the reads alone. *)
LEMMA QuietReading ==
  ASSUME TypeOK, [Next]_vars, UNCHANGED nreq, NEW s \in Sessions,
         s \in reading, s \notin reading'
  PROVE  read_failed(s)
<1> USE DEF session, queues, threads
<1>1. ASSUME NEW x \in Sessions, NEW op \in Ops, NEW arg \in ArgsOf(op), request_read(x, op, arg)
      PROVE  FALSE
  <2>1. nreq' = [nreq EXCEPT ![x] = @ + 1]
    BY <1>1, Zenon DEF request_read
  <2>2. nreq[x] \in Nat /\ nreq'[x] = nreq[x] + 1
    BY <2>1, Zenon DEF TypeOK
  <2> QED
    BY <2>2
<1>2. ASSUME NEW x \in Sessions, read_failed(x) PROVE read_failed(s)
  <2>1. reading' = reading \ {x}
    BY <1>2, Zenon DEF read_failed
  <2>2. x = s
    BY <2>1, Zenon
  <2> QED
    BY <1>2, <2>2, Zenon
<1>3. ASSUME NEW x \in Sessions, accept(x) \/ disconnect(x) \/ write_done(x) \/ write_failed(x)
      PROVE  reading \subseteq reading'
  BY <1>3, Zenon DEF accept, disconnect, write_done, write_failed
<1>4. CASE run_posted
  BY <1>4, Zenon DEF run_posted
<1>5. CASE WriterStep \/ signal \/ MainStep \/ UNCHANGED vars
  BY <1>5, Zenon DEF WriterStep, writer_take, handle_namespace,
     handle_transact, WriterReplies, writer_post, writer_exit, signal, MainStep,
     channels_clear, writer_joined, readers_joined, vars
<1>6. ASSUME NEW r \in Readers, ReaderStep(r) PROVE reading' = reading
  BY <1>6, Zenon DEF ReaderStep, reader_start, reader_take, reader_exit, reader_post,
                     handle_select, handle_facts, ReaderReplies
<1> QED
  BY <1>1, <1>2, <1>3, <1>4, <1>5, <1>6, Zenon DEF Next, SessionStep

(* Only a read that fails leaves a session with nothing to do. *)
LEMMA OnlyFailedReadsEnd ==
  ASSUME TypeOK, OneInFlight, OneInFlight', [Next]_vars, NEW s \in Sessions,
         ~Gone(s), Gone(s)'
  PROVE  read_failed(s)
<1>0. (s \in reading \/ InFlight(s)) /\ s \notin reading' /\ ~InFlight(s)'
  BY Zenon DEF Gone
<1>1. CASE Quiet
  <2>1. ~InFlight(s) /\ UNCHANGED nreq
    BY <1>0, <1>1, FlightSteps, Zenon DEF Quiet
  <2> QED
    BY <1>0, <2>1, QuietReading, Zenon
<1>2. ASSUME NEW m, AnswerStep(m) PROVE FALSE
  <2>1. reading' = reading /\ (InFlight(s)' <=> InFlight(s))
    BY <1>2, FlightSteps, Zenon DEF AnswerStep
  <2> QED
    BY <1>0, <2>1, Zenon
<1>3. ASSUME NEW j, RequestStep(j) PROVE FALSE
  <2>1. reading' = reading \ {j.s}
    BY <1>3, Zenon DEF RequestStep
  <2>2. IF s = j.s THEN InFlight(s)' /\ ~InFlight(s) ELSE InFlight(s)' <=> InFlight(s)
    BY <1>3, FlightSteps, Zenon
  <2> QED
    BY <1>0, <2>1, <2>2, Zenon
<1>4. ASSUME NEW j, NEW m, HandleStep(j, m) PROVE FALSE
  <2>1. reading' = reading /\ (InFlight(s)' <=> InFlight(s))
    BY <1>4, FlightSteps, Zenon DEF HandleStep
  <2> QED
    BY <1>0, <2>1, Zenon
<1>5. ASSUME NEW m, DeliverStep(m) PROVE FALSE
  <2>1. reading' = reading \cup {m.s}
    BY <1>5, Zenon DEF DeliverStep
  <2>2. IF s = m.s THEN ~InFlight(s)' /\ InFlight(s) ELSE InFlight(s)' <=> InFlight(s)
    BY <1>5, FlightSteps, Zenon
  <2> QED
    BY <1>0, <2>1, <2>2, Zenon
<1> QED
  BY <1>1, <1>2, <1>3, <1>4, <1>5, Steps, Zenon

(* The namespace of a session with nothing to do does not change. *)
LEMMA IdleKeepsNamespace ==
  ASSUME TypeOK, OneInFlight, OneInFlight', [Next]_vars, NEW s \in Sessions, ~InFlight(s)
  PROVE  ns'[s] = ns[s]
<1>1. Quiet \/ (\E m : AnswerStep(m)) \/ (\E j : RequestStep(j)) \/ (\E m : DeliverStep(m))
        => ns' = ns
  BY Zenon DEF Quiet, AnswerStep, RequestStep, DeliverStep
<1>2. ASSUME NEW j, NEW m, HandleStep(j, m) PROVE ns'[s] = ns[s]
  <2>1. s # j.s /\ j.s \in Sessions
    BY <1>2, FlightSteps, Zenon DEF HandleStep, Job
  <2>2. ns' = ns \/ \E n : ns' = [ns EXCEPT ![j.s] = n]
    BY <1>2, Zenon DEF HandleStep, Effect
  <2> QED
    BY <2>1, <2>2, Zenon DEF TypeOK
<1> QED
  BY <1>1, <1>2, Steps, Zenon

(* session::end leaves the channel of the namespace selected then. *)
LEMMA EndedStep ==
  TypeOK /\ TypeOK' /\ OneInFlight /\ OneInFlight' /\ Ended /\ [Next]_vars => Ended'
<1> SUFFICES ASSUME TypeOK, TypeOK', OneInFlight, OneInFlight', Ended, [Next]_vars
             PROVE  Ended'
  BY Zenon
<1>1. /\ \A n \in NsIds : n # 0 => members[n] = {}
      /\ \A s \in Sessions : conn[s] = "open" => ~Gone(s)
      /\ \A s \in Sessions : conn[s] = "broken" /\ Gone(s) /\ s \in members[0] => ns[s] # 0
      /\ 0 \in NsIds
  BY ServerAssumption, Zenon DEF Ended
<1>2. \A n \in NsIds : n # 0 => members'[n] = {}
  BY <1>1, MembersStep, Zenon
<1>3. ASSUME NEW s \in Sessions, conn'[s] = "open" PROVE ~Gone(s)'
  <2>1. CASE conn[s] = "open"
    <3>1. ~Gone(s)
      BY <1>1, <2>1, Zenon
    <3>2. ~read_failed(s)
      BY <2>1, Zenon DEF read_failed
    <3> QED
      BY <3>1, <3>2, OnlyFailedReadsEnd, Zenon
  <2>2. CASE conn[s] # "open"
    <3>1. s \in reading'
      BY <1>3, <2>2, ConnStep, Zenon
    <3> QED
      BY <3>1, Zenon DEF Gone
  <2> QED
    BY <2>1, <2>2, Zenon
<1>4. ASSUME NEW s \in Sessions, conn'[s] = "broken", Gone(s)', s \in members'[0]
      PROVE  ns'[s] # 0
  <2>1. s \in members[0]
    <3>1. s \in members[0] \/ conn'[s] = "open"
      BY <1>1, <1>4, MembersStep, Zenon
    <3> QED
      BY <1>4, <3>1, Zenon
  <2>2. CASE Gone(s)
    <3>1. conn[s] = "broken"
      <4>1. conn[s] # "open"
        BY <1>1, <2>2, Zenon
      <4> QED
        BY <1>4, <4>1, ConnStep, Zenon
    <3>2. ns[s] # 0
      BY <1>1, <2>1, <2>2, <3>1, Zenon
    <3>3. ns'[s] = ns[s]
      BY <2>2, IdleKeepsNamespace, Zenon DEF Gone
    <3> QED
      BY <3>2, <3>3, Zenon
  <2>3. CASE ~Gone(s)
    <3>1. read_failed(s)
      BY <1>4, <2>3, OnlyFailedReadsEnd, Zenon
    <3>2. members' = [members EXCEPT ![ns[s]] = @ \ {s}] /\ ns' = ns
      BY <3>1, Zenon DEF read_failed, end, leave
    <3>3. ns[s] = 0 => s \notin members'[0]
      BY <1>1, <3>2, Zenon DEF TypeOK
    <3> QED
      BY <1>4, <3>2, <3>3, Zenon
  <2> QED
    BY <2>2, <2>3, Zenon
<1>5. /\ \A s \in Sessions : conn'[s] = "open" => ~Gone(s)'
      /\ \A s \in Sessions : conn'[s] = "broken" /\ Gone(s)' /\ s \in members'[0] => ns'[s] # 0
  BY <1>3, <1>4, Zenon
<1> QED
  BY <1>2, <1>5, Zenon DEF Ended

(* A session whose connection was found gone is in no channel, unless it   *)
(* had selected another namespace, for any sessions, requests and faults.  *)
THEOREM EndedSessionsLeave == Spec => []EndedLeave
<1>1. Init => Ended
  <2> SUFFICES ASSUME Init PROVE Ended
    BY Zenon
  <2>1. members = [n \in NsIds |-> {}] /\ conn = [s \in Sessions |-> "new"]
    BY Zenon DEF Init
  <2>2. 0 \in NsIds
    BY ServerAssumption, Zenon
  <2> QED
    BY <2>1, <2>2, Zenon DEF Ended
<1>2. Ended => EndedLeave
  <2> SUFFICES ASSUME Ended, NEW s \in Sessions, conn[s] = "broken", Places(s) = {},
                      NEW n \in NsIds, s \in members[n]
               PROVE  n = 0 /\ ns[s] # 0
    BY Zenon DEF EndedLeave
  <2>1. Gone(s)
    <3>1. Absent(s)
      BY AbsentPlaces, Zenon
    <3> QED
      BY <3>1, Zenon DEF Gone, Absent, InFlight
  <2>2. n = 0
    BY Zenon DEF Ended
  <2> QED
    BY <2>1, <2>2, Zenon DEF Ended
<1> QED
  BY <1>1, <1>2, ServerTyped, OneRequestInFlight, EndedStep, PTL DEF Spec

=============================================================================
