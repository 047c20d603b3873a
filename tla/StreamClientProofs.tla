--------------------------- MODULE StreamClientProofs ---------------------------
(***************************************************************************)
(* Proofs about the frontend stream client, for every set of calls and     *)
(* chats, both line endings and every way the network may cut the answers: *)
(* the events that reach the client are those the server wrote, in order   *)
(* (EventsSurvive), the live turn shows the answer of its own call         *)
(* (LiveTurn), and the cache of a chat holds only what the server has      *)
(* saved there, once (CacheIsTrue).                                        *)
(*                                                                         *)
(* The loops of the client (the lines of feed, the frames of the reader,   *)
(* the tokens of a turn, the merge of the cache) are folds; FoldLaws gives *)
(* the run of each.                                                        *)
(***************************************************************************)
EXTENDS StreamClient, SequenceTheorems, TLAPS

-----------------------------------------------------------------------------
(* The text of the events *)

AnyName == {"meta", "token", "done", "error", "message"}
Data == Seq(Calls \cup Nat)
Event == [event : AnyName, data : Data]
Symbol == {CR, LF} \cup ({"event"} \X AnyName) \cup ({"data"} \X Data \X {1, 2})

N == Len(Newline)
EventLen == 3 + 3 * N
LineLen(p) == IF p = 0 THEN 1 ELSE IF p = 1 THEN 2 ELSE 0
Off(p) == IF p = 0 THEN 0 ELSE IF p = 1 THEN 1 + N ELSE IF p = 2 THEN 3 + 2 * N ELSE 3 + 3 * N
Content(p, e) ==
    IF p = 0 THEN <<<<"event", e.event>>>>
    ELSE IF p = 1 THEN <<<<"data", e.data, 1>>, <<"data", e.data, 2>>>>
    ELSE <<>>

LEMMA Newlines ==
    /\ Newline \in Seq({CR, LF})
    /\ \/ Newline = <<LF>> /\ N = 1 /\ Newline[1] = LF
       \/ Newline = <<CR>> /\ N = 1 /\ Newline[1] = CR
       \/ Newline = <<CR, LF>> /\ N = 2 /\ Newline[1] = CR /\ Newline[2] = LF
    /\ CR # LF
<1>1. CR # LF
    BY DEF CR, LF
<1>2. CASE Newline = <<LF>>
    BY <1>1, <1>2 DEF N
<1>3. CASE Newline = <<CR>>
    BY <1>1, <1>3 DEF N
<1>4. CASE Newline = <<CR, LF>>
    BY <1>1, <1>4 DEF N
<1> QED  BY <1>1, <1>2, <1>3, <1>4, NewlineAssumption

LEMMA Lines ==
    ASSUME NEW e \in Event, NEW p \in 0 .. 2
    PROVE  /\ Content(p, e) \in Seq(Symbol) /\ Len(Content(p, e)) = LineLen(p)
           /\ \A i \in 1 .. LineLen(p) : Content(p, e)[i] \notin {CR, LF}
           /\ Off(p + 1) = Off(p) + LineLen(p) + N
<1>1. CASE p = 0
  <2>1. <<"event", e.event>> \in Symbol
      BY DEF Symbol, Event
  <2>2. <<"event", e.event>> # CR /\ <<"event", e.event>> # LF
      BY DEF CR, LF
  <2> QED  BY <1>1, <2>1, <2>2, Newlines DEF Content, LineLen, Off
<1>2. CASE p = 1
  <2>1. <<"data", e.data, 1>> \in Symbol /\ <<"data", e.data, 2>> \in Symbol
      BY DEF Symbol, Event
  <2>2. \A h \in {1, 2} : <<"data", e.data, h>> # CR /\ <<"data", e.data, h>> # LF
      BY DEF CR, LF
  <2> QED  BY <1>2, <2>1, <2>2, Newlines DEF Content, LineLen, Off
<1>3. CASE p = 2
    BY <1>3, Newlines DEF Content, LineLen, Off
<1> QED  BY <1>1, <1>2, <1>3

\* A text with one more piece.
LEMMA Longer ==
    ASSUME NEW S, NEW s \in Seq(S), NEW t \in Seq(S), NEW w, w = s \o t
    PROVE  /\ w \in Seq(S) /\ Len(w) = Len(s) + Len(t)
           /\ \A i \in 1 .. Len(s) : w[i] = s[i]
           /\ \A i \in 1 .. Len(t) : w[Len(s) + i] = t[i]
<1>1. Len(s) \in Nat /\ Len(t) \in Nat
    OBVIOUS
<1>2. /\ s \o t \in Seq(S) /\ Len(s \o t) = Len(s) + Len(t)
      /\ \A i \in 1 .. Len(s) + Len(t) : (s \o t)[i] = IF i <= Len(s) THEN s[i] ELSE t[i - Len(s)]
    BY ConcatProperties, Zenon
<1> QED  BY <1>1, <1>2

FiveOf(w, a, b, nl) ==
    \A n \in Nat, m \in Nat :
        Len(a) = 1 /\ Len(b) = 2 /\ Len(nl) = n /\ m = 2 * n =>
            /\ Len(w) = 3 + m + n
            /\ w[1] = a[1] /\ w[2 + n] = b[1] /\ w[3 + n] = b[2]
            /\ \A i \in 1 .. n : w[1 + i] = nl[i] /\ w[3 + n + i] = nl[i] /\ w[3 + m + i] = nl[i]

LEMMA FivePieces ==
    ASSUME NEW S, NEW a \in Seq(S), NEW b \in Seq(S), NEW nl \in Seq(S),
           NEW w, w = (((a \o nl) \o b) \o nl) \o nl
    PROVE  w \in Seq(S) /\ FiveOf(w, a, b, nl)
<1>1. PICK u : u = a \o nl
    OBVIOUS
<1>2. PICK v : v = u \o b
    OBVIOUS
<1>3. PICK x : x = v \o nl
    OBVIOUS
<1>4. w = x \o nl
    BY <1>1, <1>2, <1>3
<1>a. u \in Seq(S) /\ v \in Seq(S) /\ x \in Seq(S) /\ w \in Seq(S)
  <2>1. u \in Seq(S)
      BY <1>1
  <2>2. v \in Seq(S)
      BY <1>2, <2>1
  <2>3. x \in Seq(S)
      BY <1>3, <2>2
  <2> QED  BY <1>4, <2>1, <2>2, <2>3
<1>5. /\ u \in Seq(S) /\ Len(u) = Len(a) + Len(nl)
      /\ \A i \in 1 .. Len(a) : u[i] = a[i]
      /\ \A i \in 1 .. Len(nl) : u[Len(a) + i] = nl[i]
    BY <1>1, Longer
<1>6. /\ v \in Seq(S) /\ Len(v) = Len(u) + Len(b)
      /\ \A i \in 1 .. Len(u) : v[i] = u[i]
      /\ \A i \in 1 .. Len(b) : v[Len(u) + i] = b[i]
    BY <1>2, <1>a, Longer
<1>7. /\ x \in Seq(S) /\ Len(x) = Len(v) + Len(nl)
      /\ \A i \in 1 .. Len(v) : x[i] = v[i]
      /\ \A i \in 1 .. Len(nl) : x[Len(v) + i] = nl[i]
    BY <1>3, <1>a, Longer
<1>8. /\ w \in Seq(S) /\ Len(w) = Len(x) + Len(nl)
      /\ \A i \in 1 .. Len(x) : w[i] = x[i]
      /\ \A i \in 1 .. Len(nl) : w[Len(x) + i] = nl[i]
    BY <1>4, <1>a, Longer
<1> SUFFICES ASSUME NEW n \in Nat, NEW m \in Nat, Len(a) = 1, Len(b) = 2, Len(nl) = n, m = 2 * n
             PROVE  /\ Len(w) = 3 + m + n
                    /\ w[1] = a[1] /\ w[2 + n] = b[1] /\ w[3 + n] = b[2]
                    /\ \A i \in 1 .. n :
                          w[1 + i] = nl[i] /\ w[3 + n + i] = nl[i] /\ w[3 + m + i] = nl[i]
    BY <1>a DEF FiveOf
<1>9. Len(u) = 1 + n /\ Len(v) = 3 + n /\ Len(x) = 3 + m
    BY <1>5, <1>6, <1>7, SMTT(30)
<1>10. ASSUME NEW i \in 1 .. 1 + n PROVE w[i] = u[i]
  <2>1. i \in 1 .. Len(u) /\ i \in 1 .. Len(v) /\ i \in 1 .. Len(x)
      BY <1>9
  <2> QED  BY <1>6, <1>7, <1>8, <2>1
<1>11. \A i \in 1 .. 2 : w[1 + n + i] = b[i]
    BY <1>6, <1>7, <1>8, <1>9, SMTT(30)
<1>12. \A i \in 1 .. n : w[3 + n + i] = nl[i]
    BY <1>7, <1>8, <1>9
<1>13. \A i \in 1 .. n : w[3 + m + i] = nl[i]
    BY <1>8, <1>9
<1>14. u[1] = a[1] /\ \A i \in 1 .. n : u[1 + i] = nl[i]
    BY <1>5
<1>15. w[1] = a[1] /\ \A i \in 1 .. n : w[1 + i] = nl[i]
  <2>1. 1 \in 1 .. 1 + n /\ \A i \in 1 .. n : 1 + i \in 1 .. 1 + n
      BY <1>9
  <2> QED  BY <1>10, <1>14, <2>1
<1>16. w[2 + n] = b[1] /\ w[3 + n] = b[2]
  <2>1. 1 \in 1 .. 2 /\ 2 \in 1 .. 2 /\ 1 + n + 1 = 2 + n /\ 1 + n + 2 = 3 + n
      BY <1>9
  <2> QED  BY <1>11, <2>1
<1> QED  BY <1>8, <1>9, <1>12, <1>13, <1>15, <1>16

LEMMA Layout ==
    ASSUME NEW e \in Event
    PROVE  /\ Written(e) \in Seq(Symbol) /\ Len(Written(e)) = EventLen
           /\ \A p \in 0 .. 2 :
                /\ \A i \in 1 .. LineLen(p) : Written(e)[Off(p) + i] = Content(p, e)[i]
                /\ \A i \in 1 .. N : Written(e)[Off(p) + LineLen(p) + i] = Newline[i]
<1>1. PICK a : a = Content(0, e)
    OBVIOUS
<1>2. PICK b : b = Content(1, e)
    OBVIOUS
<1>3. PICK w : w = Written(e)
    OBVIOUS
<1>4. Len(a) = 1 /\ Len(b) = 2
    BY <1>1, <1>2, Lines DEF LineLen
<1>a. a \in Seq(Symbol) /\ b \in Seq(Symbol)
    BY <1>1, <1>2, Lines
<1>b. Newline \in Seq(Symbol)
  <2>1. {CR, LF} \subseteq Symbol
      BY DEF Symbol
  <2> QED  BY <2>1, Newlines, SeqMonotonic
<1>5. N \in {1, 2} /\ N = Len(Newline)
    BY Newlines DEF N
<1>6. w = (((a \o Newline) \o b) \o Newline) \o Newline
  <2>1. a = <<<<"event", e.event>>>>
      BY <1>1 DEF Content
  <2>2. b = <<<<"data", e.data, 1>>, <<"data", e.data, 2>>>>
      BY <1>2 DEF Content
  <2> QED  BY <1>3, <2>1, <2>2, Zenon DEF Written
<1>7. /\ w \in Seq(Symbol) /\ Len(w) = 3 + 2 * N + N
      /\ w[1] = a[1] /\ w[2 + N] = b[1] /\ w[3 + N] = b[2]
      /\ \A i \in 1 .. N : /\ w[1 + i] = Newline[i]
                           /\ w[3 + N + i] = Newline[i]
                           /\ w[3 + 2 * N + i] = Newline[i]
  <2>1. PICK m \in Nat : m = 2 * N
      BY <1>5
  <2>2. /\ w \in Seq(Symbol) /\ Len(w) = 3 + m + N
        /\ w[1] = a[1] /\ w[2 + N] = b[1] /\ w[3 + N] = b[2]
        /\ \A i \in 1 .. N : /\ w[1 + i] = Newline[i]
                             /\ w[3 + N + i] = Newline[i]
                             /\ w[3 + m + i] = Newline[i]
    <3>1. FiveOf(w, a, b, Newline)
        BY <1>a, <1>b, <1>6, FivePieces
    <3>2. w \in Seq(Symbol)
        BY <1>a, <1>b, <1>6
    <3>3. N \in Nat
        BY <1>5
    <3> QED  BY <1>4, <1>5, <2>1, <3>1, <3>2, <3>3, ZenonT(60) DEF FiveOf
  <2> QED  BY <2>1, <2>2
<1>8. ASSUME NEW p \in 0 .. 2, NEW i \in 1 .. LineLen(p)
      PROVE  w[Off(p) + i] = Content(p, e)[i]
  <2>1. CASE p = 0
      BY <1>1, <1>7, <2>1 DEF LineLen, Off
  <2>2. CASE p = 1
      BY <1>2, <1>5, <1>7, <2>2 DEF LineLen, Off
  <2>3. CASE p = 2
      BY <2>3 DEF LineLen
  <2> QED  BY <2>1, <2>2, <2>3
<1>9. ASSUME NEW p \in 0 .. 2, NEW i \in 1 .. N
      PROVE  w[Off(p) + LineLen(p) + i] = Newline[i]
  <2>1. CASE p = 0
      BY <1>5, <1>7, <2>1 DEF LineLen, Off
  <2>2. CASE p = 1
      BY <1>5, <1>7, <2>2 DEF LineLen, Off
  <2>3. CASE p = 2
      BY <1>5, <1>7, <2>3 DEF LineLen, Off
  <2> QED  BY <2>1, <2>2, <2>3
<1> QED  BY <1>3, <1>5, <1>7, <1>8, <1>9 DEF EventLen

-----------------------------------------------------------------------------
(* The text of the events E is a grid: its symbols are counted from 1, and  *)
(* event k + 1 has the EventLen symbols after At(k).                        *)

At(k) == k * EventLen
Sym(E, x) == LET k == (x - 1) \div EventLen IN Written(E[k + 1])[x - At(k)]

LEMMA EventLens == EventLen \in {6, 9}
BY Newlines DEF EventLen

LEMMA Grid ==
    ASSUME NEW k \in Nat
    PROVE  /\ At(k) \in Nat /\ At(k + 1) = At(k) + EventLen /\ At(0) = 0
           /\ \A h \in Nat : k < h => At(k) + EventLen <= At(h)
           /\ \A o \in 1 .. EventLen : (At(k) + o - 1) \div EventLen = k
           /\ \A x \in Nat \ {0} : \E h \in Nat : \E o \in 1 .. EventLen : x = At(h) + o
<1>1. CASE EventLen = 6
  <2>1. \A h \in Nat : At(h) = h * 6
      BY <1>1 DEF At
  <2>2. \A h \in Nat : k < h => k * 6 + 6 <= h * 6
      OBVIOUS
  <2>3. \A o \in 1 .. 6 : (k * 6 + o - 1) \div 6 = k
      OBVIOUS
  <2>4. ASSUME NEW x \in Nat \ {0} PROVE \E h \in Nat : \E o \in 1 .. 6 : x = h * 6 + o
    <3>1. /\ (x - 1) \div 6 \in Nat
          /\ x - ((x - 1) \div 6) * 6 \in 1 .. 6
        OBVIOUS
    <3>2. x = ((x - 1) \div 6) * 6 + (x - ((x - 1) \div 6) * 6)
        BY <3>1
    <3> QED  BY <3>1, <3>2
  <2>5. k + 1 \in Nat /\ (k + 1) * 6 = k * 6 + 6 /\ k * 6 \in Nat
      OBVIOUS
  <2>6. At(k) \in Nat /\ At(k + 1) = At(k) + 6 /\ At(0) = 0
      BY <2>1, <2>5
  <2>7. \A h \in Nat : k < h => At(k) + 6 <= At(h)
      BY <2>1, <2>2
  <2>8. \A o \in 1 .. 6 : (At(k) + o - 1) \div 6 = k
      BY <2>1, <2>3
  <2>9. \A x \in Nat \ {0} : \E h \in Nat : \E o \in 1 .. 6 : x = At(h) + o
      BY <2>1, <2>4
  <2> QED  BY <1>1, <2>6, <2>7, <2>8, <2>9
<1>2. CASE EventLen = 9
  <2>1. \A h \in Nat : At(h) = h * 9
      BY <1>2 DEF At
  <2>2. \A h \in Nat : k < h => k * 9 + 9 <= h * 9
      OBVIOUS
  <2>3. \A o \in 1 .. 9 : (k * 9 + o - 1) \div 9 = k
      OBVIOUS
  <2>4. ASSUME NEW x \in Nat \ {0} PROVE \E h \in Nat : \E o \in 1 .. 9 : x = h * 9 + o
    <3>1. /\ (x - 1) \div 9 \in Nat
          /\ x - ((x - 1) \div 9) * 9 \in 1 .. 9
        OBVIOUS
    <3>2. x = ((x - 1) \div 9) * 9 + (x - ((x - 1) \div 9) * 9)
        BY <3>1
    <3> QED  BY <3>1, <3>2
  <2>5. k + 1 \in Nat /\ (k + 1) * 9 = k * 9 + 9 /\ k * 9 \in Nat
      OBVIOUS
  <2>6. At(k) \in Nat /\ At(k + 1) = At(k) + 9 /\ At(0) = 0
      BY <2>1, <2>5
  <2>7. \A h \in Nat : k < h => At(k) + 9 <= At(h)
      BY <2>1, <2>2
  <2>8. \A o \in 1 .. 9 : (At(k) + o - 1) \div 9 = k
      BY <2>1, <2>3
  <2>9. \A x \in Nat \ {0} : \E h \in Nat : \E o \in 1 .. 9 : x = At(h) + o
      BY <2>1, <2>4, ZenonT(60)
  <2> QED  BY <1>2, <2>6, <2>7, <2>8, <2>9
<1> QED  BY <1>1, <1>2, EventLens

LEMMA SymAt ==
    ASSUME NEW E, NEW k \in Nat, NEW o \in 1 .. EventLen
    PROVE  Sym(E, At(k) + o) = Written(E[k + 1])[o]
<1>1. (At(k) + o - 1) \div EventLen = k /\ At(k) \in Nat
    BY Grid
<1>2. At(k) + o - At(k) = o
    BY <1>1, EventLens
<1> QED  BY <1>1, <1>2 DEF Sym

\* Symbol o of line p of event q + 1.
LEMMA LineAt ==
    ASSUME NEW E \in Seq(Event), NEW q \in 0 .. Len(E) - 1, NEW p \in 0 .. 2,
           NEW o \in 1 .. LineLen(p) + N
    PROVE  /\ o <= LineLen(p) => /\ Sym(E, At(q) + Off(p) + o) = Content(p, E[q + 1])[o]
                                 /\ Sym(E, At(q) + Off(p) + o) \notin {CR, LF}
           /\ o > LineLen(p) => Sym(E, At(q) + Off(p) + o) = Newline[o - LineLen(p)]
<1>1. PICK e \in Event : e = E[q + 1]
    OBVIOUS
<1>a. q \in Nat /\ N \in {1, 2}
    BY Newlines
<1>2. /\ N \in {1, 2} /\ LineLen(p) \in {0, 1, 2} /\ Off(p) \in 0 .. EventLen
      /\ At(q) \in Nat
  <2>1. At(q) \in Nat
      BY <1>a, Grid
  <2> QED  BY <1>a, <2>1 DEF LineLen, Off, EventLen
<1>3. Off(p) + o \in 1 .. EventLen
    BY <1>2 DEF LineLen, Off, EventLen
<1>4. Sym(E, At(q) + Off(p) + o) = Written(e)[Off(p) + o]
  <2>1. At(q) + Off(p) + o = At(q) + (Off(p) + o)
      BY <1>2
  <2>2. Sym(E, At(q) + (Off(p) + o)) = Written(E[q + 1])[Off(p) + o]
      BY <1>a, <1>3, SymAt
  <2> QED  BY <1>1, <2>1, <2>2
<1>5. CASE o <= LineLen(p)
  <2>1. o \in 1 .. LineLen(p)
      BY <1>2, <1>5
  <2>2. Written(e)[Off(p) + o] = Content(p, e)[o]
      BY <2>1, Layout
  <2>3. Content(p, e)[o] \notin {CR, LF}
      BY <2>1, Lines
  <2> QED  BY <1>1, <1>2, <1>4, <1>5, <2>2, <2>3, SMTT(30)
<1>6. CASE o > LineLen(p)
  <2>1. o - LineLen(p) \in 1 .. N /\ Off(p) + o = Off(p) + LineLen(p) + (o - LineLen(p))
      BY <1>2, <1>6, SMTT(30)
  <2>2. Written(e)[Off(p) + LineLen(p) + (o - LineLen(p))] = Newline[o - LineLen(p)]
      BY <2>1, Layout
  <2> QED  BY <1>2, <1>4, <1>6, <2>1, <2>2, SMTT(30)
<1> QED  BY <1>2, <1>5, <1>6

\* Every symbol lies in a line.
LEMMA InALine ==
    ASSUME NEW E \in Seq(Event), NEW x \in 1 .. At(Len(E))
    PROVE  \E q \in 0 .. Len(E) - 1, p \in 0 .. 2 : \E o \in 1 .. LineLen(p) + N :
               x = At(q) + Off(p) + o
<1>1. PICK k \in Nat : \E o \in 1 .. EventLen : x = At(k) + o
  <2>1. 0 \in Nat /\ Len(E) \in Nat
      OBVIOUS
  <2>2. At(Len(E)) \in Nat
      BY <2>1, Grid
  <2>3. x \in Nat \ {0}
      BY <2>2
  <2> QED  BY <2>1, <2>3, Grid
<1>2. PICK o \in 1 .. EventLen : x = At(k) + o
    BY <1>1
<1>3. k \in 0 .. Len(E) - 1
  <2>1. At(k) \in Nat /\ At(Len(E)) \in Nat /\ Len(E) \in Nat
    <3>1. Len(E) \in Nat
        OBVIOUS
    <3> QED  BY <3>1, Grid
  <2>2. At(k) < At(Len(E))
      BY <1>2, <2>1, EventLens
  <2>3. Len(E) < k => At(Len(E)) + EventLen <= At(k)
      BY <2>1, Grid
  <2>4. k < Len(E)
      BY <2>1, <2>2, <2>3, EventLens
  <2> QED  BY <2>4
<1>4. N \in {1, 2} /\ At(k) \in Nat
    BY Newlines, Grid
<1>5. CASE o <= Off(1)
  <2>1. o \in 1 .. LineLen(0) + N /\ At(k) + Off(0) + o = At(k) + o
      BY <1>4, <1>5 DEF Off, LineLen
  <2> QED  BY <1>2, <1>3, <2>1
<1>6. CASE o > Off(1) /\ o <= Off(2)
  <2>1. o - Off(1) \in 1 .. LineLen(1) + N /\ At(k) + Off(1) + (o - Off(1)) = At(k) + o
      BY <1>4, <1>6 DEF Off, LineLen
  <2> QED  BY <1>2, <1>3, <2>1
<1>7. CASE o > Off(2)
  <2>1. o - Off(2) \in 1 .. LineLen(2) + N /\ At(k) + Off(2) + (o - Off(2)) = At(k) + o
      BY <1>4, <1>7 DEF Off, LineLen, EventLen
  <2> QED  BY <1>2, <1>3, <2>1
<1> QED  BY <1>4, <1>5, <1>6, <1>7 DEF Off

LEMMA NoLineFeed ==
    ASSUME NEW E \in Seq(Event), NEW x \in 1 .. At(Len(E)), Newline = <<CR>>
    PROVE  Sym(E, x) # LF
<1>a. PICK q \in 0 .. Len(E) - 1, p \in 0 .. 2 :
          \E o \in 1 .. LineLen(p) + N : x = At(q) + Off(p) + o
    BY InALine
<1>1. PICK o \in 1 .. LineLen(p) + N : x = At(q) + Off(p) + o
    BY <1>a
<1>2. N = 1 /\ LineLen(p) \in {0, 1, 2} /\ Newline[1] = CR /\ CR # LF
    BY Newlines DEF LineLen
<1>3. CASE o <= LineLen(p)
    BY <1>1, <1>3, LineAt
<1>4. CASE o > LineLen(p)
  <2>1. o - LineLen(p) = 1
      BY <1>2, <1>4
  <2>2. Sym(E, At(q) + Off(p) + o) = Newline[o - LineLen(p)]
      BY <1>4, LineAt
  <2> QED  BY <1>1, <1>2, <2>1, <2>2
<1> QED  BY <1>2, <1>3, <1>4

\* t is the text of E after its first a symbols, up to symbol b.
Shows(t, E, a, b) ==
    /\ t \in Seq(Symbol) /\ a \in Nat /\ b \in Nat /\ a <= b /\ Len(t) = b - a
    /\ \A j \in 1 .. Len(t) : t[j] = Sym(E, a + j)

LEMMA ShowsMore ==
    ASSUME NEW E, NEW a, NEW b, NEW c, NEW s, NEW t, Shows(s, E, a, b), Shows(t, E, b, c)
    PROVE  Shows(s \o t, E, a, c)
<1>1. /\ s \in Seq(Symbol) /\ t \in Seq(Symbol) /\ a \in Nat /\ b \in Nat /\ c \in Nat
      /\ a <= b /\ b <= c
    BY DEF Shows
<1>2. PICK w : w = s \o t
    OBVIOUS
<1>3. /\ w \in Seq(Symbol) /\ Len(w) = Len(s) + Len(t)
      /\ \A i \in 1 .. Len(s) : w[i] = s[i]
      /\ \A i \in 1 .. Len(t) : w[Len(s) + i] = t[i]
    BY <1>1, <1>2, Longer
<1>4. Len(s) = b - a /\ Len(t) = c - b
    BY DEF Shows
<1>5. ASSUME NEW j \in 1 .. Len(w) PROVE w[j] = Sym(E, a + j)
  <2>1. CASE j <= Len(s)
    <3>1. j \in 1 .. Len(s)
        BY <1>1, <1>3, <1>4, <2>1
    <3> QED  BY <1>3, <3>1 DEF Shows
  <2>2. CASE j > Len(s)
    <3>1. j - Len(s) \in 1 .. Len(t) /\ Len(s) + (j - Len(s)) = j /\ b + (j - Len(s)) = a + j
        BY <1>1, <1>3, <1>4, <2>2
    <3>2. t[j - Len(s)] = Sym(E, b + (j - Len(s)))
        BY <3>1 DEF Shows
    <3>3. w[Len(s) + (j - Len(s))] = t[j - Len(s)]
        BY <1>3, <3>1
    <3> QED  BY <3>1, <3>2, <3>3
  <2>3. Len(s) \in Nat /\ j \in Nat
      BY <1>1, <1>3, <1>4
  <2> QED  BY <2>1, <2>2, <2>3
<1>6. a <= c /\ Len(w) = c - a
    BY <1>1, <1>3, <1>4
<1> QED  BY <1>1, <1>2, <1>3, <1>5, <1>6 DEF Shows

LEMMA ShowsPart ==
    ASSUME NEW E, NEW a, NEW b, NEW t, Shows(t, E, a, b),
           NEW i \in Nat, NEW j \in Nat, i <= j, a + j <= b
    PROVE  Shows(SubSeq(t, i + 1, j), E, a + i, a + j)
<1>1. /\ t \in Seq(Symbol) /\ a \in Nat /\ b \in Nat /\ a <= b /\ Len(t) = b - a
      /\ \A k \in 1 .. Len(t) : t[k] = Sym(E, a + k)
    BY DEF Shows
<1>2. PICK w : w = SubSeq(t, i + 1, j)
    OBVIOUS
<1>3. i + 1 \in Int /\ j \in Int /\ \A k \in i + 1 .. j : t[k] \in Symbol
    BY <1>1
<1>4. /\ w \in Seq(Symbol) /\ Len(w) = IF i + 1 <= j THEN j - (i + 1) + 1 ELSE 0
      /\ \A k \in 1 .. j - (i + 1) + 1 : w[k] = t[i + 1 + k - 1]
    BY <1>2, <1>3, SubSeqProperties
<1>5. Len(w) = j - i
    BY <1>4
<1>6. ASSUME NEW k \in 1 .. Len(w) PROVE w[k] = Sym(E, (a + i) + k)
  <2>1. k \in 1 .. j - (i + 1) + 1 /\ i + 1 + k - 1 = i + k /\ i + k \in 1 .. Len(t)
      BY <1>1, <1>5
  <2>2. a + (i + k) = (a + i) + k
      BY <1>1, <2>1
  <2> QED  BY <1>1, <1>4, <2>1, <2>2
<1>7. a + i \in Nat /\ a + j \in Nat /\ a + i <= a + j /\ Len(w) = (a + j) - (a + i)
    BY <1>1, <1>5
<1> QED  BY <1>2, <1>4, <1>6, <1>7 DEF Shows

\* What was written stays as it is when another event follows it.
LEMMA ShowsLonger ==
    ASSUME NEW E \in Seq(Event), NEW e \in Event, NEW a, NEW b, NEW t, Shows(t, E, a, b),
           b <= At(Len(E))
    PROVE  Shows(t, Append(E, e), a, b)
<1>1. /\ t \in Seq(Symbol) /\ a \in Nat /\ b \in Nat /\ a <= b /\ Len(t) = b - a
      /\ \A k \in 1 .. Len(t) : t[k] = Sym(E, a + k)
    BY DEF Shows
<1>2. Len(E) \in Nat /\ At(Len(E)) \in Nat
    BY Grid
<1>3. ASSUME NEW x \in 1 .. At(Len(E)) PROVE Sym(Append(E, e), x) = Sym(E, x)
  <2>1. PICK k \in Nat : \E o \in 1 .. EventLen : x = At(k) + o
    <3>1. 0 \in Nat /\ x \in Nat \ {0}
        BY <1>2
    <3> QED  BY <3>1, Grid
  <2>2. PICK o \in 1 .. EventLen : x = At(k) + o
      BY <2>1
  <2>3. k + 1 \in 1 .. Len(E)
    <3>1. At(k) \in Nat /\ (Len(E) < k => At(Len(E)) + EventLen <= At(k))
        BY <1>2, Grid
    <3>2. At(k) < At(Len(E))
        BY <1>2, <2>2, <3>1, EventLens
    <3> QED  BY <1>2, <3>1, <3>2, EventLens
  <2>4. Append(E, e)[k + 1] = E[k + 1]
      BY <2>3
  <2> QED  BY <2>2, <2>4, SymAt
<1>4. ASSUME NEW k \in 1 .. Len(t) PROVE t[k] = Sym(Append(E, e), a + k)
  <2>1. a + k \in 1 .. At(Len(E))
      BY <1>1, <1>2
  <2> QED  BY <1>1, <1>3, <2>1
<1> QED  BY <1>1, <1>4 DEF Shows

LEMMA ShowsWritten ==
    ASSUME NEW E \in Seq(Event), NEW e \in Event
    PROVE  Shows(Written(e), Append(E, e), At(Len(E)), At(Len(Append(E, e))))
<1>1. Len(E) \in Nat /\ Len(Append(E, e)) = Len(E) + 1 /\ Append(E, e)[Len(E) + 1] = e
    OBVIOUS
<1>2. /\ At(Len(E)) \in Nat /\ At(Len(E) + 1) \in Nat
      /\ At(Len(E) + 1) = At(Len(E)) + EventLen
    BY <1>1, Grid
<1>3. Written(e) \in Seq(Symbol) /\ Len(Written(e)) = EventLen
    BY Layout
<1>4. \A o \in 1 .. EventLen : Written(e)[o] = Sym(Append(E, e), At(Len(E)) + o)
    BY <1>1, SymAt
<1>5. At(Len(E)) <= At(Len(E) + 1) /\ At(Len(E) + 1) - At(Len(E)) = EventLen
    BY <1>2, EventLens
<1> QED  BY <1>1, <1>2, <1>3, <1>4, <1>5 DEF Shows

-----------------------------------------------------------------------------
(* The parser, line by line *)

Parser == [buffer : Seq(Symbol), event : AnyName, data : Seq(Data)]
Loop == [parser : Parser, out : Seq(Event), from : Nat]

\* The parser between two lines: it has read q events and p lines of the next.
AtLine(P, E, q, p) ==
    /\ q \in 0 .. Len(E) /\ p \in 0 .. 2 /\ (q = Len(E) => p = 0)
    /\ P.event = IF p = 0 THEN "message" ELSE E[q + 1].event
    /\ P.data = IF p = 2 THEN <<E[q + 1].data>> ELSE <<>>

\* s is what E tells after its first i events, up to event j.
Tells(s, E, i, j) ==
    /\ s \in Seq(Event) /\ i \in Nat /\ j \in 0 .. Len(E) /\ i <= j /\ Len(s) = j - i
    /\ \A k \in 1 .. Len(s) : s[k] = E[i + k]

LEMMA EventLine ==
    ASSUME NEW s \in Loop, NEW e \in Event, NEW t, t = Processed(s, Content(0, e))
    PROVE  /\ t \in Loop /\ t.from = s.from /\ t.out = s.out
           /\ t.parser.buffer = s.parser.buffer
           /\ t.parser.event = e.event /\ t.parser.data = s.parser.data
<1>1. Content(0, e) = <<<<"event", e.event>>>>
    BY DEF Content
<1>2. Content(0, e) # <<>> /\ Content(0, e)[1][1] = "event" /\ Content(0, e)[1][2] = e.event
    BY <1>1
<1>3. t = [s EXCEPT !.parser.event = e.event]
    BY <1>2 DEF Processed
<1> QED  BY <1>3 DEF Loop, Parser, Event

LEMMA DataLine ==
    ASSUME NEW s \in Loop, NEW line, line # <<>>, line[1][1] = "data",
           NEW d \in Data, d = DataOf(line), NEW t, t = Processed(s, line)
    PROVE  /\ t \in Loop /\ t.from = s.from /\ t.out = s.out
           /\ t.parser.buffer = s.parser.buffer
           /\ t.parser.event = s.parser.event /\ t.parser.data = Append(s.parser.data, d)
<1>1. PICK more : more = Append(s.parser.data, d)
    OBVIOUS
<1>2. t = [s EXCEPT !.parser.data = more]
    BY <1>1 DEF Processed
<1>3. s = [parser |-> s.parser, out |-> s.out, from |-> s.from] /\ s.parser \in Parser
    BY DEF Loop
<1>4. more \in Seq(Data)
  <2>1. s.parser.data \in Seq(Data)
      BY <1>3 DEF Parser
  <2> QED  BY <1>1, <2>1, AppendProperties
<1>5. t = [parser |-> [s.parser EXCEPT !.data = more], out |-> s.out, from |-> s.from]
    BY <1>2, <1>3
<1>6. /\ [s.parser EXCEPT !.data = more] \in Parser
      /\ [s.parser EXCEPT !.data = more].buffer = s.parser.buffer
      /\ [s.parser EXCEPT !.data = more].event = s.parser.event
      /\ [s.parser EXCEPT !.data = more].data = more
    BY <1>3, <1>4 DEF Parser
<1>7. t \in Loop /\ t.parser = [s.parser EXCEPT !.data = more]
      /\ t.out = s.out /\ t.from = s.from
    BY <1>5, <1>6 DEF Loop
<1> QED  BY <1>1, <1>6, <1>7

LEMMA EmptyLine ==
    ASSUME NEW s \in Loop, NEW t, t = Processed(s, <<>>)
    PROVE  /\ t.from = s.from /\ t.parser.buffer = s.parser.buffer
           /\ t.parser \in Parser
           /\ t.parser.event = "message" /\ t.parser.data = <<>>
           /\ s.parser.data = <<>> => t.out = s.out
           /\ s.parser.data # <<>> =>
                t.out = Append(s.out, [event |-> s.parser.event, data |-> Last(s.parser.data)])
           /\ t = [parser |-> t.parser, out |-> t.out, from |-> t.from]
<1>1. PICK o : o = IF s.parser.data = <<>> THEN s.out
                    ELSE Append(s.out, [event |-> s.parser.event, data |-> Last(s.parser.data)])
    OBVIOUS
<1>2. t = [s EXCEPT !.parser.event = "message", !.parser.data = <<>>, !.out = o]
    BY <1>1 DEF Processed
<1>3. s = [parser |-> s.parser, out |-> s.out, from |-> s.from] /\ s.parser \in Parser
    BY DEF Loop
<1>4. t = [parser |-> [s.parser EXCEPT !.event = "message", !.data = <<>>], out |-> o,
           from |-> s.from]
    BY <1>2, <1>3
<1>5. /\ t.from = s.from /\ t.out = o
      /\ t.parser = [s.parser EXCEPT !.event = "message", !.data = <<>>]
      /\ t = [parser |-> t.parser, out |-> t.out, from |-> t.from]
    BY <1>4
<1>6. <<>> \in Seq(Data)
    OBVIOUS
<1> QED  BY <1>1, <1>3, <1>5, <1>6 DEF Parser, AnyName

\* One more line, at the end of the last event or within it.
LEMMA NextLine ==
    ASSUME NEW E \in Seq(Event), NEW q \in 0 .. Len(E) - 1, NEW p \in 0 .. 2,
           NEW s \in Loop, AtLine(s.parser, E, q, p),
           NEW t, t = Processed(s, Content(p, E[q + 1]))
    PROVE  /\ t \in Loop /\ t.from = s.from /\ t.parser.buffer = s.parser.buffer
           /\ p # 2 => t.out = s.out /\ AtLine(t.parser, E, q, p + 1)
           /\ p = 2 => t.out = Append(s.out, E[q + 1]) /\ AtLine(t.parser, E, q + 1, 0)
<1>1. PICK e \in Event : e = E[q + 1]
    OBVIOUS
<1>2. /\ q \in Nat /\ q + 1 \in 0 .. Len(E) /\ q \in 0 .. Len(E) /\ q # Len(E)
      /\ Len(E) \in Nat
    OBVIOUS
<1>3. CASE p = 0
  <2>1. t = Processed(s, Content(0, e))
      BY <1>1, <1>3
  <2>2. /\ t \in Loop /\ t.from = s.from /\ t.out = s.out
        /\ t.parser.buffer = s.parser.buffer
        /\ t.parser.event = e.event /\ t.parser.data = s.parser.data
      BY <2>1, EventLine
  <2>3. AtLine(t.parser, E, q, 1)
      BY <1>1, <1>2, <1>3, <2>2 DEF AtLine
  <2> QED  BY <1>3, <2>2, <2>3
<1>4. CASE p = 1
  <2>1. PICK line : line = <<<<"data", e.data, 1>>, <<"data", e.data, 2>>>>
      OBVIOUS
  <2>2. line = Content(p, E[q + 1])
      BY <1>1, <1>4, <2>1 DEF Content
  <2>3. line # <<>> /\ line[1][1] = "data" /\ e.data = DataOf(line) /\ e.data \in Data
      BY <2>1 DEF DataOf, Event
  <2>4. /\ t \in Loop /\ t.from = s.from /\ t.out = s.out
        /\ t.parser.buffer = s.parser.buffer
        /\ t.parser.event = s.parser.event /\ t.parser.data = Append(s.parser.data, e.data)
      BY <2>2, <2>3, DataLine, SMTT(30)
  <2>5. s.parser.data = <<>> /\ s.parser.event = E[q + 1].event
      BY <1>4 DEF AtLine
  <2>6. t.parser.data = <<E[q + 1].data>>
      BY <1>1, <2>4, <2>5
  <2>7. t.parser.event = E[q + 1].event
      BY <2>4, <2>5
  <2>8. AtLine(t.parser, E, q, 2)
      BY <1>2, <2>6, <2>7 DEF AtLine
  <2> QED  BY <1>4, <2>4, <2>8
<1>5. CASE p = 2
  <2>1. t = Processed(s, <<>>)
      BY <1>5 DEF Content
  <2>2. s.parser.data = <<e.data>> /\ s.parser.event = e.event
      BY <1>1, <1>5 DEF AtLine
  <2>3. s.parser.data # <<>> /\ Last(s.parser.data) = e.data
      BY <2>2 DEF Last
  <2>4. [event |-> e.event, data |-> e.data] = e
      BY DEF Event
  <2>5. /\ t.from = s.from /\ t.parser.buffer = s.parser.buffer /\ t.parser \in Parser
        /\ t.parser.event = "message" /\ t.parser.data = <<>>
        /\ t.out = Append(s.out, e)
      BY <2>1, <2>2, <2>3, <2>4, EmptyLine
  <2>6. t \in Loop
    <3>1. t = [parser |-> t.parser, out |-> t.out, from |-> t.from]
        BY <2>1, EmptyLine
    <3>2. t.out \in Seq(Event) /\ t.from \in Nat
        BY <2>5 DEF Loop
    <3> QED  BY <2>5, <3>1, <3>2 DEF Loop
  <2>7. AtLine(t.parser, E, q + 1, 0)
      BY <1>2, <2>5 DEF AtLine
  <2> QED  BY <1>1, <1>5, <2>5, <2>6, <2>7
<1> QED  BY <1>3, <1>4, <1>5

\* The text of a line that has been read up to symbol w, a CR at its end or not.
LEMMA OpenLine ==
    ASSUME NEW E \in Seq(Event), NEW q \in 0 .. Len(E) - 1, NEW p \in 0 .. 2,
           NEW w \in 0 .. LineLen(p), NEW line,
           Shows(line, E, At(q) + Off(p), At(q) + Off(p) + w)
    PROVE  /\ WithoutCR(line) = line /\ Len(line) = w /\ line \in Seq(Symbol)
           /\ \A j \in 1 .. w : line[j] = Content(p, E[q + 1])[j]
<1>1. N \in {1, 2} /\ LineLen(p) \in {0, 1, 2} /\ At(q) + Off(p) \in Nat
  <2>1. q \in Nat
      OBVIOUS
  <2>2. At(q) \in Nat /\ N \in {1, 2}
      BY <2>1, Grid, Newlines
  <2> QED  BY <2>2 DEF LineLen, Off
<1>2. /\ line \in Seq(Symbol) /\ Len(line) = w
      /\ \A j \in 1 .. Len(line) : line[j] = Sym(E, At(q) + Off(p) + j)
    BY <1>1 DEF Shows
<1>3. ASSUME NEW j \in 1 .. w
      PROVE  line[j] = Content(p, E[q + 1])[j] /\ line[j] \notin {CR, LF}
  <2>1. j \in 1 .. LineLen(p) + N /\ j <= LineLen(p)
      BY <1>1
  <2> QED  BY <1>2, <2>1, LineAt
<1>4. WithoutCR(line) = line
  <2>1. CASE line = <<>>
      BY <2>1 DEF WithoutCR
  <2>2. CASE line # <<>>
    <3>1. w \in 1 .. w
        BY <1>1, <1>2, <2>2
    <3>2. Last(line) # CR
        BY <1>2, <1>3, <3>1 DEF Last
    <3> QED  BY <3>2 DEF WithoutCR
  <2> QED  BY <2>1, <2>2
<1> QED  BY <1>2, <1>3, <1>4

LEMMA WholeLine ==
    ASSUME NEW E \in Seq(Event), NEW q \in 0 .. Len(E) - 1, NEW p \in 0 .. 2,
           NEW w \in {LineLen(p), LineLen(p) + 1}, w = LineLen(p) \/ Newline[1] = CR, NEW line,
           Shows(line, E, At(q) + Off(p), At(q) + Off(p) + w)
    PROVE  WithoutCR(line) = Content(p, E[q + 1])
<1>1. N \in {1, 2} /\ LineLen(p) \in {0, 1, 2} /\ At(q) + Off(p) \in Nat
  <2>1. q \in Nat
      OBVIOUS
  <2>2. At(q) \in Nat /\ N \in {1, 2}
      BY <2>1, Grid, Newlines
  <2> QED  BY <2>2 DEF LineLen, Off
<1>2. E[q + 1] \in Event
    OBVIOUS
<1>3. PICK c \in Seq(Symbol) : c = Content(p, E[q + 1]) /\ Len(c) = LineLen(p)
    BY <1>2, Lines
<1>4. CASE w = LineLen(p)
  <2>1. w \in 0 .. LineLen(p)
      BY <1>1, <1>4
  <2>2. /\ WithoutCR(line) = line /\ Len(line) = w /\ line \in Seq(Symbol)
        /\ \A j \in 1 .. w : line[j] = c[j]
      BY <1>3, <2>1, OpenLine
  <2>3. line = c
      BY <1>3, <1>4, <2>2, SeqEqual
  <2> QED  BY <1>3, <2>2, <2>3
<1>5. CASE w = LineLen(p) + 1
  <2>1. /\ line \in Seq(Symbol) /\ Len(line) = w
        /\ \A j \in 1 .. Len(line) : line[j] = Sym(E, At(q) + Off(p) + j)
      BY <1>1 DEF Shows
  <2>2. line[w] = CR
    <3>1. w \in 1 .. LineLen(p) + N /\ w > LineLen(p) /\ w - LineLen(p) = 1 /\ w \in 1 .. Len(line)
        BY <1>1, <1>5, <2>1, SMTT(30)
    <3>2. Sym(E, At(q) + Off(p) + w) = Newline[1]
        BY <3>1, LineAt
    <3>3. Newline[1] = CR
        BY <1>1, <1>5
    <3> QED  BY <2>1, <3>1, <3>2, <3>3
  <2>3. line # <<>> /\ Last(line) = CR
      BY <1>1, <1>5, <2>1, <2>2 DEF Last
  <2>4. WithoutCR(line) = SubSeq(line, 1, LineLen(p))
    <3>1. Len(line) - 1 = LineLen(p)
        BY <1>1, <1>5, <2>1
    <3> QED  BY <2>3, <3>1 DEF WithoutCR, Front
  <2>5. PICK front : front = SubSeq(line, 1, LineLen(p))
      OBVIOUS
  <2>6. \A j \in 1 .. LineLen(p) : line[j] \in Symbol
      BY <1>1, <1>5, <2>1
  <2>7. /\ front \in Seq(Symbol) /\ Len(front) = LineLen(p)
        /\ \A j \in 1 .. LineLen(p) : front[j] = line[j]
    <3>1. 1 \in Int /\ LineLen(p) \in Int
        BY <1>1
    <3>2. /\ front \in Seq(Symbol)
          /\ Len(front) = IF 1 <= LineLen(p) THEN LineLen(p) - 1 + 1 ELSE 0
          /\ \A j \in 1 .. LineLen(p) - 1 + 1 : front[j] = line[1 + j - 1]
        BY <2>5, <2>6, <3>1, SubSeqProperties
    <3> QED  BY <1>1, <3>2
  <2>8. \A j \in 1 .. LineLen(p) : line[j] = c[j]
    <3> SUFFICES ASSUME NEW j \in 1 .. LineLen(p) PROVE line[j] = c[j]
        OBVIOUS
    <3>1. j \in 1 .. LineLen(p) + N /\ j <= LineLen(p) /\ j \in 1 .. Len(line)
        BY <1>1, <1>5, <2>1
    <3> QED  BY <1>3, <2>1, <3>1, LineAt
  <2>9. front = c
      BY <1>3, <2>7, <2>8, SeqEqual
  <2> QED  BY <1>3, <2>4, <2>5, <2>9
<1> QED  BY <1>4, <1>5

-----------------------------------------------------------------------------
(* The loop of feed over a text that shows E from symbol a on *)

\* Where line p of event q + 1 starts, and where its newline ends.
From(q, p) == At(q) + Off(p)
To(q, p) == At(q) + Off(p) + LineLen(p) + N

\* Having looked at k symbols, the loop stands in line p of event q + 1: all lines
\* before it are read and no line end has been missed, but for a CR at the end.
Stands(s, all, E, a, i, k, q, p) ==
    /\ s \in Loop /\ AtLine(s.parser, E, q, p) /\ Tells(s.out, E, i, q)
    /\ s.from \in 1 .. k + 1 /\ a + s.from - 1 = From(q, p)
    /\ \/ a + k < To(q, p)
       \/ k = Len(all) /\ a + k = To(q, p) /\ Newline = <<CR>>

LEMMA Places ==
    ASSUME NEW q \in Nat, NEW p \in 0 .. 2
    PROVE  /\ N \in {1, 2} /\ LineLen(p) \in {0, 1, 2} /\ From(q, p) \in Nat /\ At(q) \in Nat
           /\ To(q, p) = From(q, p) + LineLen(p) + N
           /\ From(q, p) >= At(q) /\ (p = 0 => From(q, p) = At(q))
           /\ p # 2 => From(q, p + 1) = To(q, p)
           /\ p = 2 => From(q + 1, 0) = To(q, p)
<1>1. At(q) \in Nat /\ At(q + 1) = At(q) + EventLen
    BY Grid
<1>2. N \in {1, 2}
    BY Newlines
<1> QED  BY <1>1, <1>2 DEF From, To, LineLen, Off, EventLen

\* A text that has more symbols has another line.
LEMMA HasLine ==
    ASSUME NEW E \in Seq(Event), NEW q \in 0 .. Len(E), NEW p \in 0 .. 2, q = Len(E) => p = 0,
           NEW x \in Nat, From(q, p) < x, x <= At(Len(E))
    PROVE  q \in 0 .. Len(E) - 1
<1>1. At(q) \in Nat /\ (p = 0 => From(q, p) = At(q))
    BY Places
<1> QED  BY <1>1

\* The end of a line is where the parser sees it.
LEMMA EndSeen ==
    ASSUME NEW E \in Seq(Event), NEW q \in 0 .. Len(E) - 1, NEW p \in 0 .. 2,
           NEW a, NEW b, NEW all, Shows(all, E, a, b), b <= At(Len(E)),
           NEW i \in 1 .. Len(all), From(q, p) < a + i, a + i <= To(q, p)
    PROVE  /\ EndsLine(all, i) => a + i = To(q, p)
           /\ a + i = To(q, p) =>
                EndsLine(all, i) \/ (i = Len(all) /\ Newline = <<CR>>)
<1>1. /\ N \in {1, 2} /\ LineLen(p) \in {0, 1, 2} /\ From(q, p) \in Nat
      /\ To(q, p) = From(q, p) + LineLen(p) + N
  <2>1. q \in Nat
      OBVIOUS
  <2> QED  BY <2>1, Places
<1>2. a \in Nat /\ b \in Nat /\ Len(all) = b - a /\ a <= b
    BY DEF Shows
<1>3. PICK o \in 1 .. LineLen(p) + N : a + i = From(q, p) + o
  <2>1. a + i - From(q, p) \in 1 .. LineLen(p) + N
      BY <1>1, <1>2, SMTT(30)
  <2> QED  BY <1>1, <1>2, <2>1
<1>4. /\ o <= LineLen(p) => all[i] \notin {CR, LF}
      /\ o > LineLen(p) => all[i] = Newline[o - LineLen(p)]
  <2>1. all[i] = Sym(E, From(q, p) + o)
      BY <1>3 DEF Shows
  <2> QED  BY <2>1, LineAt DEF From
<1>5. a + i = To(q, p) <=> o = LineLen(p) + N
    BY <1>1, <1>3, SMTT(30)
<1>6. CASE o <= LineLen(p)
    BY <1>1, <1>4, <1>5, <1>6 DEF EndsLine
<1>7. CASE o > LineLen(p) /\ Newline = <<LF>>
  <2>1. N = 1 /\ Newline[1] = LF
      BY <1>7 DEF N
  <2>2. o = LineLen(p) + 1 /\ o - LineLen(p) = 1
      BY <1>1, <1>7, <2>1
  <2> QED  BY <1>4, <1>5, <1>7, <2>1, <2>2 DEF EndsLine
<1>8. CASE o > LineLen(p) /\ Newline = <<CR>>
  <2>1. N = 1 /\ Newline[1] = CR
      BY <1>8 DEF N
  <2>2. o = LineLen(p) + 1 /\ o - LineLen(p) = 1
      BY <1>1, <1>8, <2>1
  <2>3. i < Len(all) => all[i + 1] # LF
    <3> SUFFICES ASSUME i < Len(all) PROVE all[i + 1] # LF
        OBVIOUS
    <3>1. i + 1 \in 1 .. Len(all) /\ a + (i + 1) \in 1 .. At(Len(E))
      <4>1. Len(E) \in Nat
          OBVIOUS
      <4>2. At(Len(E)) \in Nat
          BY <4>1, Grid
      <4> QED  BY <1>2, <4>2
    <3>2. all[i + 1] = Sym(E, a + (i + 1))
        BY <3>1 DEF Shows
    <3> QED  BY <1>8, <3>1, <3>2, NoLineFeed
  <2>4. all[i] = CR
      BY <1>4, <1>8, <2>1, <2>2
  <2>5. EndsLine(all, i) <=> i < Len(all)
      BY <2>3, <2>4, Newlines DEF EndsLine
  <2> QED  BY <1>2, <1>5, <1>8, <2>1, <2>2, <2>5
<1>9. CASE o > LineLen(p) /\ Newline = <<CR, LF>>
  <2>1. N = 2 /\ Newline[1] = CR /\ Newline[2] = LF /\ CR # LF
      BY <1>9, Newlines DEF N
  <2>2. CASE o = LineLen(p) + 1
    <3>1. all[i] = CR
      <4>1. o - LineLen(p) = 1
          BY <1>1, <2>2
      <4> QED  BY <1>4, <1>9, <2>1, <4>1
    <3>2. i < Len(all) => all[i + 1] = LF
      <4> SUFFICES ASSUME i < Len(all) PROVE all[i + 1] = LF
          OBVIOUS
      <4>1. PICK r \in 1 .. LineLen(p) + N : r = o + 1
          BY <1>1, <2>1, <2>2
      <4>2. r > LineLen(p) /\ r - LineLen(p) = 2
          BY <1>1, <2>2, <4>1, SMTT(30)
      <4>3. i + 1 \in 1 .. Len(all)
          BY <1>2
      <4>4. a + (i + 1) = From(q, p) + r
        <5>1. From(q, p) \in Nat /\ a \in Nat /\ i \in Nat /\ o \in Nat
            BY <1>1, <1>2
        <5>2. a + (i + 1) = (a + i) + 1 /\ From(q, p) + (o + 1) = (From(q, p) + o) + 1
            BY <5>1
        <5> QED  BY <1>3, <4>1, <5>2
      <4>5. all[i + 1] = Sym(E, From(q, p) + r)
          BY <4>3, <4>4 DEF Shows
      <4>6. Sym(E, From(q, p) + r) = Newline[r - LineLen(p)]
          BY <4>2, LineAt DEF From
      <4> QED  BY <2>1, <4>2, <4>5, <4>6
    <3>3. ~EndsLine(all, i)
        BY <2>1, <3>1, <3>2 DEF EndsLine
    <3> QED  BY <1>1, <1>5, <2>1, <2>2, <3>3
  <2>3. CASE o = LineLen(p) + 2
    <3>1. all[i] = LF
      <4>1. o - LineLen(p) = 2
          BY <1>1, <2>3
      <4> QED  BY <1>4, <1>9, <2>1, <4>1
    <3> QED  BY <1>5, <2>1, <2>3, <3>1 DEF EndsLine
  <2> QED  BY <1>1, <1>9, <2>1, <2>2, <2>3
<1> QED  BY <1>1, <1>6, <1>7, <1>8, <1>9, NewlineAssumption

LEMMA TellsOneMore ==
    ASSUME NEW E \in Seq(Event), NEW s, NEW i, NEW q \in 0 .. Len(E) - 1, Tells(s, E, i, q)
    PROVE  Tells(Append(s, E[q + 1]), E, i, q + 1)
<1>1. /\ s \in Seq(Event) /\ i \in Nat /\ i <= q /\ Len(s) = q - i
      /\ \A k \in 1 .. Len(s) : s[k] = E[i + k]
    BY DEF Tells
<1>2. PICK r : r = Append(s, E[q + 1])
    OBVIOUS
<1>3. /\ r \in Seq(Event) /\ Len(r) = Len(s) + 1
      /\ \A k \in 1 .. Len(s) : r[k] = s[k]
      /\ r[Len(s) + 1] = E[q + 1]
    BY <1>1, <1>2, AppendProperties
<1>4. Len(s) + 1 = (q + 1) - i /\ i + (Len(s) + 1) = q + 1 /\ q + 1 \in 0 .. Len(E)
    BY <1>1
<1>5. ASSUME NEW k \in 1 .. Len(r) PROVE r[k] = E[i + k]
  <2>1. k \in 1 .. Len(s) \/ k = Len(s) + 1
      BY <1>1, <1>3
  <2> QED  BY <1>1, <1>3, <1>4, <2>1
<1> QED  BY <1>1, <1>2, <1>3, <1>4, <1>5 DEF Tells

LEMMA ScanStep ==
    ASSUME NEW E \in Seq(Event), NEW a, NEW b, NEW all, Shows(all, E, a, b), b <= At(Len(E)),
           NEW i \in Nat, NEW k \in 0 .. Len(all) - 1, NEW q, NEW p, NEW s,
           Stands(s, all, E, a, i, k, q, p), NEW t, t = Scan(all, s, k + 1)
    PROVE  \E h, l : Stands(t, all, E, a, i, k + 1, h, l)
<1>1. /\ s \in Loop /\ AtLine(s.parser, E, q, p) /\ Tells(s.out, E, i, q)
      /\ s.from \in 1 .. k + 1 /\ a + s.from - 1 = From(q, p)
      /\ q \in 0 .. Len(E) /\ p \in 0 .. 2 /\ (q = Len(E) => p = 0)
    BY DEF Stands, AtLine
<1>2. /\ a \in Nat /\ b \in Nat /\ Len(all) = b - a /\ a <= b /\ Len(all) \in Nat
      /\ k \in Nat /\ k + 1 \in 1 .. Len(all) /\ k # Len(all)
    BY DEF Shows
<1>3. a + k < To(q, p)
    BY <1>2 DEF Stands
<1>4. q \in Nat /\ From(q, p) \in Nat /\ To(q, p) \in Nat
  <2>1. q \in Nat
      BY <1>1
  <2>2. /\ N \in {1, 2} /\ LineLen(p) \in {0, 1, 2} /\ From(q, p) \in Nat
        /\ To(q, p) = From(q, p) + LineLen(p) + N
      BY <1>1, <2>1, Places
  <2> QED  BY <2>1, <2>2
<1>5. From(q, p) < a + (k + 1) /\ a + (k + 1) <= To(q, p) /\ a + (k + 1) \in Nat
    BY <1>1, <1>2, <1>3, <1>4
<1>6. q \in 0 .. Len(E) - 1
  <2>1. Len(E) \in Nat
      OBVIOUS
  <2>2. At(Len(E)) \in Nat
      BY <2>1, Grid
  <2>3. a + (k + 1) <= At(Len(E))
      BY <1>2, <2>2
  <2> QED  BY <1>1, <1>5, <2>3, HasLine
<1>7. /\ EndsLine(all, k + 1) => a + (k + 1) = To(q, p)
      /\ a + (k + 1) = To(q, p) =>
           EndsLine(all, k + 1) \/ (k + 1 = Len(all) /\ Newline = <<CR>>)
    BY <1>1, <1>2, <1>5, <1>6, EndSeen
<1>8. CASE ~EndsLine(all, k + 1)
  <2>1. t = s
      BY <1>8 DEF Scan
  <2>2. s.from \in 1 .. (k + 1) + 1
      BY <1>1, <1>2
  <2>3. \/ a + (k + 1) < To(q, p)
        \/ k + 1 = Len(all) /\ a + (k + 1) = To(q, p) /\ Newline = <<CR>>
      BY <1>4, <1>5, <1>7, <1>8
  <2>4. Stands(t, all, E, a, i, k + 1, q, p)
      BY <1>1, <2>1, <2>2, <2>3 DEF Stands
  <2> QED  BY <2>4
<1>9. CASE EndsLine(all, k + 1)
  <2>1. PICK line : line = SubSeq(all, s.from, k)
      OBVIOUS
  <2>2. Shows(line, E, From(q, p), a + k)
    <3>1. PICK f \in Nat : f = s.from - 1 /\ f <= k
        BY <1>1, <1>2
    <3>2. s.from = f + 1 /\ a + f = From(q, p) /\ a + k <= b
        BY <1>1, <1>2, <3>1, SMTT(30)
    <3>3. Shows(SubSeq(all, f + 1, k), E, a + f, a + k)
        BY <1>2, <3>1, <3>2, ShowsPart
    <3> QED  BY <2>1, <3>2, <3>3
  <2>3. WithoutCR(line) = Content(p, E[q + 1])
    <3>1. N \in {1, 2} /\ LineLen(p) \in {0, 1, 2} /\ To(q, p) = From(q, p) + LineLen(p) + N
        BY <1>1, <1>4, Places
    <3>2. PICK w : w = LineLen(p) + N - 1
        OBVIOUS
    <3>3. w \in {LineLen(p), LineLen(p) + 1} /\ (w = LineLen(p) \/ N = 2)
        BY <3>1, <3>2
    <3>4. N = 2 => Newline[1] = CR
        BY Newlines
    <3>5. a + k = From(q, p) + w
      <4>1. a + (k + 1) = To(q, p) /\ a \in Nat /\ k \in Nat /\ From(q, p) \in Nat
          BY <1>2, <1>4, <1>7, <1>9
      <4>2. PICK f \in Nat : f = From(q, p)
          BY <4>1
      <4>3. PICK l \in {0, 1, 2} : l = LineLen(p)
          BY <3>1
      <4>4. PICK n \in {1, 2} : n = N
          BY <3>1
      <4>5. a + (k + 1) = f + l + n
          BY <3>1, <4>1, <4>2, <4>3, <4>4
      <4>6. a + k = f + (l + n - 1)
          BY <4>1, <4>5
      <4> QED  BY <3>2, <4>2, <4>3, <4>4, <4>6
    <3>6. Shows(line, E, At(q) + Off(p), At(q) + Off(p) + w)
        BY <2>2, <3>5 DEF From
    <3> QED  BY <1>1, <1>6, <3>3, <3>4, <3>6, WholeLine
  <2>4. PICK u : u = Processed(s, Content(p, E[q + 1]))
      OBVIOUS
  <2>5. /\ u \in Loop /\ u.from = s.from
        /\ p # 2 => u.out = s.out /\ AtLine(u.parser, E, q, p + 1)
        /\ p = 2 => u.out = Append(s.out, E[q + 1]) /\ AtLine(u.parser, E, q + 1, 0)
    <3>1. s \in Loop /\ AtLine(s.parser, E, q, p) /\ p \in 0 .. 2
        BY <1>1
    <3> QED  BY <1>6, <2>4, <3>1, NextLine
  <2>6. t = [u EXCEPT !.from = (k + 1) + 1]
    <3>1. (k + 1) - 1 = k
        BY <1>2
    <3>2. t = [Processed(s, WithoutCR(SubSeq(all, s.from, (k + 1) - 1))) EXCEPT !.from = (k + 1) + 1]
        BY <1>9, Zenon DEF Scan
    <3> QED  BY <2>1, <2>3, <2>4, <3>1, <3>2
  <2>7. t \in Loop /\ t.parser = u.parser /\ t.out = u.out /\ t.from = (k + 1) + 1
      BY <1>2, <2>5, <2>6, SMTT(30) DEF Loop
  <2>8. t.from \in 1 .. (k + 1) + 1 /\ a + t.from - 1 = To(q, p) /\ a + (k + 1) = To(q, p)
      BY <1>2, <1>7, <1>9, <2>7
  <2>9. CASE p # 2
    <3>a. q \in Nat /\ p \in 0 .. 2 /\ p + 1 \in 0 .. 2
        BY <1>1, <1>4, <2>9
    <3>b. From(q, p + 1) = To(q, p)
        BY <2>9, <3>a, Places
    <3>1. From(q, p + 1) = To(q, p) /\ p + 1 \in 0 .. 2
        BY <3>a, <3>b
    <3>2. a + (k + 1) < To(q, p + 1)
      <4>1. /\ N \in {1, 2} /\ LineLen(p + 1) \in {0, 1, 2}
            /\ To(q, p + 1) = From(q, p + 1) + LineLen(p + 1) + N
          BY <1>4, <3>1, Places
      <4> QED  BY <1>4, <2>8, <3>1, <4>1, SMTT(30)
    <3>3. Stands(t, all, E, a, i, k + 1, q, p + 1)
        BY <1>1, <2>5, <2>7, <2>8, <2>9, <3>1, <3>2 DEF Stands
    <3> QED  BY <3>3
  <2>10. CASE p = 2
    <3>1. From(q + 1, 0) = To(q, p) /\ q + 1 \in Nat
        BY <1>1, <1>4, <2>10, Places
    <3>2. a + (k + 1) < To(q + 1, 0)
      <4>1. /\ N \in {1, 2} /\ LineLen(0) \in {0, 1, 2}
            /\ To(q + 1, 0) = From(q + 1, 0) + LineLen(0) + N
          BY <3>1, Places
      <4> QED  BY <1>4, <2>8, <3>1, <4>1, SMTT(30)
    <3>3. Tells(u.out, E, i, q + 1)
        BY <1>1, <1>6, <2>5, <2>10, TellsOneMore
    <3>4. Stands(t, all, E, a, i, k + 1, q + 1, 0)
        BY <2>5, <2>7, <2>8, <2>10, <3>1, <3>2, <3>3 DEF Stands
    <3> QED  BY <3>4
  <2> QED  BY <2>9, <2>10
<1> QED  BY <1>8, <1>9

Scans == INSTANCE FoldLaws WITH Op <- Scan

Looped(all, P) == Scans!Fold(all, Start(P), [i \in DOMAIN all |-> i])

LEMMA LoopReads ==
    ASSUME NEW E \in Seq(Event), NEW a, NEW b, NEW all, Shows(all, E, a, b), b <= At(Len(E)),
           NEW q, NEW p, NEW P \in Parser, AtLine(P, E, q, p), a = From(q, p),
           NEW end, end = Looped(all, P)
    PROVE  \E h, l : Stands(end, all, E, a, q, Len(all), h, l)
<1>1. PICK S : S = [i \in DOMAIN all |-> i]
    OBVIOUS
<1>2. PICK n \in Nat : n = Len(all)
    BY DEF Shows
<1>3. DOMAIN S = 1 .. n /\ \A k \in 1 .. n : S[k] = k
    BY <1>1, <1>2 DEF Shows
<1>4. end = Scans!Fold(all, Start(P), S)
    BY <1>1 DEF Looped
<1>5. PICK r : Scans!IsRun(all, Start(P), S, n, r) /\ Scans!Fold(all, Start(P), S) = r[n]
    BY <1>3, Scans!FoldRuns
<1>6. r[0] = Start(P) /\ \A k \in 1 .. n : r[k] = Scan(all, r[k - 1], S[k])
    BY <1>5 DEF Scans!IsRun
<1> DEFINE T == {k \in Nat : \E h, l : Stands(r[k], all, E, a, q, k, h, l)}
<1>7. 0 \in T
  <2>1. q \in 0 .. Len(E) /\ p \in 0 .. 2 /\ q \in Nat
      BY DEF AtLine
  <2>2. /\ N \in {1, 2} /\ LineLen(p) \in {0, 1, 2} /\ From(q, p) \in Nat
        /\ To(q, p) = From(q, p) + LineLen(p) + N
      BY <2>1, Places
  <2>3. PICK s : s = Start(P)
      OBVIOUS
  <2>4. s \in Loop /\ s.parser = P /\ s.out = <<>> /\ s.from = 1
      BY <2>3 DEF Start, Loop
  <2>5. Tells(s.out, E, q, q)
    <3>1. <<>> \in Seq(Event) /\ Len(<<>>) = 0 /\ q - q = 0
        BY <2>1
    <3> QED  BY <2>1, <2>4, <3>1 DEF Tells
  <2>6. s.from \in 1 .. 0 + 1 /\ a + s.from - 1 = From(q, p) /\ a + 0 < To(q, p)
      BY <2>2, <2>4
  <2>7. Stands(s, all, E, a, q, 0, q, p)
      BY <2>4, <2>5, <2>6 DEF Stands
  <2> QED  BY <1>6, <2>3, <2>7
<1>8. ASSUME NEW k \in 0 .. n - 1, k \in T PROVE k + 1 \in T
  <2>1. PICK h, l : Stands(r[k], all, E, a, q, k, h, l)
      BY <1>8
  <2>2. k + 1 \in 1 .. n /\ (k + 1) - 1 = k /\ k \in 0 .. Len(all) - 1
      BY <1>2
  <2>3. r[k + 1] = Scan(all, r[k], k + 1)
      BY <1>3, <1>6, <2>2
  <2>4. q \in Nat
      BY DEF AtLine
  <2>5. \E g, m : Stands(r[k + 1], all, E, a, q, k + 1, g, m)
      BY <2>1, <2>2, <2>3, <2>4, ScanStep
  <2> QED  BY <2>2, <2>5
<1>9. \A k \in 0 .. n : k \in T
  <2> HIDE DEF T
  <2> QED  BY <1>7, <1>8, Scans!NatsOfSet
<1>10. n \in T
    BY <1>9
<1> QED  BY <1>2, <1>4, <1>5, <1>10

\* The parser after it has been fed the text up to symbol b: what it holds back is
\* the line that is not over.
Ready(P, E, q, p, b) ==
    /\ P \in Parser /\ AtLine(P, E, q, p) /\ Shows(P.buffer, E, From(q, p), b)
    /\ b < To(q, p) \/ (b = To(q, p) /\ Newline = <<CR>>)

LEMMA FeedReads ==
    ASSUME NEW E \in Seq(Event), NEW P, NEW q, NEW p, NEW b, Ready(P, E, q, p, b),
           NEW chunk, NEW c, Shows(chunk, E, b, c), c <= At(Len(E)), NEW f, f = Feed(P, chunk)
    PROVE  \E h, l : Ready(f.parser, E, h, l, c) /\ Tells(f.out, E, q, h)
<1>1. PICK a : a = From(q, p)
    OBVIOUS
<1>2. PICK all : all = P.buffer \o chunk
    OBVIOUS
<1>3. Shows(all, E, a, c)
    BY <1>1, <1>2, ShowsMore DEF Ready
<1>4. PICK end : end = Looped(all, P)
    OBVIOUS
<1>5. f = [parser |-> [end.parser EXCEPT !.buffer = SubSeq(all, end.from, Len(all))],
           out |-> end.out]
  <2>1. Feed(P, chunk) =
          [parser |-> [Looped(P.buffer \o chunk, P).parser EXCEPT !.buffer =
                         SubSeq(P.buffer \o chunk, Looped(P.buffer \o chunk, P).from,
                                Len(P.buffer \o chunk))],
           out |-> Looped(P.buffer \o chunk, P).out]
      BY Zenon DEF Feed, Looped, Scans!Fold, FoldLeft, MapThenFoldSet, Max, Scans!Greatest
  <2> QED  BY <1>2, <1>4, <2>1
<1>6. PICK h, l : Stands(end, all, E, a, q, Len(all), h, l)
    BY <1>1, <1>3, <1>4, LoopReads DEF Ready
<1>7. PICK rest : rest = SubSeq(all, end.from, Len(all))
    OBVIOUS
<1>8. /\ end \in Loop /\ AtLine(end.parser, E, h, l) /\ Tells(end.out, E, q, h)
      /\ end.from \in 1 .. Len(all) + 1 /\ a + end.from - 1 = From(h, l)
      /\ \/ a + Len(all) < To(h, l)
         \/ a + Len(all) = To(h, l) /\ Newline = <<CR>>
    BY <1>6 DEF Stands
<1>9. a \in Nat /\ c \in Nat /\ a <= c /\ Len(all) = c - a /\ Len(all) \in Nat
      /\ a + Len(all) = c
    BY <1>3 DEF Shows
<1>10. Shows(rest, E, From(h, l), c)
  <2>1. PICK i \in Nat : i = end.from - 1
      BY <1>8, <1>9
  <2>2. i <= Len(all) /\ end.from = i + 1 /\ a + i = From(h, l) /\ a + Len(all) <= c
      BY <1>8, <1>9, <2>1
  <2>3. Shows(SubSeq(all, i + 1, Len(all)), E, a + i, a + Len(all))
      BY <1>3, <1>9, <2>1, <2>2, ShowsPart
  <2> QED  BY <1>7, <1>9, <2>2, <2>3
<1>11. rest \in Seq(Symbol)
    BY <1>10 DEF Shows
<1>12. PICK Q : Q = [end.parser EXCEPT !.buffer = rest]
    OBVIOUS
<1>13. Q \in Parser /\ Q.buffer = rest /\ Q.event = end.parser.event /\ Q.data = end.parser.data
    BY <1>8, <1>11, <1>12 DEF Loop, Parser
<1>14. AtLine(Q, E, h, l)
    BY <1>8, <1>13 DEF AtLine
<1>15. f.parser = Q /\ f.out = end.out
    BY <1>5, <1>7, <1>12
<1>16. Ready(Q, E, h, l, c)
    BY <1>8, <1>9, <1>10, <1>13, <1>14 DEF Ready
<1> QED  BY <1>8, <1>15, <1>16

-----------------------------------------------------------------------------
(* The other loops of the client *)

AcceptIn(ctx, events, e) == Accept(events, e)
TokenIn(ctx, answer, e) == WithToken(answer, e)
KeptOf(more, messages, m) == Kept(more, messages, m)

Accepts == INSTANCE FoldLaws WITH Op <- AcceptIn
Tokens == INSTANCE FoldLaws WITH Op <- TokenIn
Keeps == INSTANCE FoldLaws WITH Op <- KeptOf

LEMMA AcceptedFolds ==
    ASSUME NEW s PROVE Accepted(s) = Accepts!Fold(0, <<>>, s)
BY Zenon DEF Accepted, AcceptIn, Accepts!Fold, FoldLeft, MapThenFoldSet, Max, Accepts!Greatest

LEMMA TokensFold ==
    ASSUME NEW s PROVE TokensOf(s) = Tokens!Fold(0, <<>>, s)
BY Zenon DEF TokensOf, TokenIn, Tokens!Fold, FoldLeft, MapThenFoldSet, Max, Tokens!Greatest

LEMMA MergedFolds ==
    ASSUME NEW messages, NEW more
    PROVE  Merged(messages, more) = Keeps!Fold(more, <<>>, messages) \o more
BY Zenon DEF Merged, KeptOf, Keeps!Fold, FoldLeft, MapThenFoldSet, Max, Keeps!Greatest

\* What a server may write: known events with their data, and nothing after the end.
Sound(e) == e \in Event /\ e.event \in {"meta", "token", "done", "error"} /\ e.data # Broken
SoundAnswer(E) ==
    /\ E \in Seq(Event)
    /\ \A k \in 1 .. Len(E) :
         Sound(E[k]) /\ (E[k].event \in {"done", "error"} => k = Len(E))

\* The start of a sequence.
LEMMA OneLonger ==
    ASSUME NEW S, NEW s \in Seq(S), NEW k \in 0 .. Len(s) - 1
    PROVE  /\ SubSeq(s, 1, k) \in Seq(S) /\ Len(SubSeq(s, 1, k)) = k
           /\ \A i \in 1 .. k : SubSeq(s, 1, k)[i] = s[i]
           /\ Append(SubSeq(s, 1, k), s[k + 1]) = SubSeq(s, 1, k + 1)
<1>1. k \in Nat /\ Len(s) \in Nat /\ k + 1 \in 1 .. Len(s) /\ 1 \in Int /\ k \in Int
    OBVIOUS
<1>2. PICK v : v = SubSeq(s, 1, k)
    OBVIOUS
<1>3. \A i \in 1 .. k : s[i] \in S
    BY <1>1
<1>4. /\ v \in Seq(S) /\ Len(v) = IF 1 <= k THEN k - 1 + 1 ELSE 0
      /\ \A i \in 1 .. k - 1 + 1 : v[i] = s[1 + i - 1]
    BY <1>1, <1>2, <1>3, SubSeqProperties
<1>5. Len(v) = k /\ \A i \in 1 .. k : v[i] = s[i]
    BY <1>1, <1>4
<1>6. PICK w : w = SubSeq(s, 1, k + 1)
    OBVIOUS
<1>7. k + 1 \in Int /\ \A i \in 1 .. k + 1 : s[i] \in S
    BY <1>1
<1>8. /\ w \in Seq(S) /\ Len(w) = IF 1 <= k + 1 THEN (k + 1) - 1 + 1 ELSE 0
      /\ \A i \in 1 .. (k + 1) - 1 + 1 : w[i] = s[1 + i - 1]
    BY <1>1, <1>6, <1>7, SubSeqProperties
<1>9. Len(w) = k + 1 /\ \A i \in 1 .. k + 1 : w[i] = s[i]
    BY <1>1, <1>8
<1>10. PICK x : x = Append(v, s[k + 1])
    OBVIOUS
<1>11. s[k + 1] \in S
    BY <1>1
<1>12. /\ x \in Seq(S) /\ Len(x) = Len(v) + 1
       /\ \A i \in 1 .. Len(v) : x[i] = v[i]
       /\ x[Len(v) + 1] = s[k + 1]
    BY <1>4, <1>10, <1>11, AppendProperties
<1>13. Len(x) = Len(w) /\ \A i \in 1 .. Len(x) : x[i] = w[i]
    BY <1>1, <1>5, <1>9, <1>12
<1>14. x = w
    BY <1>8, <1>12, <1>13, SeqEqual
<1> QED  BY <1>2, <1>4, <1>5, <1>6, <1>10, <1>14

\* Of what a sound answer tells, nothing is skipped.
LEMMA AcceptsAll ==
    ASSUME NEW E, SoundAnswer(E), NEW s, NEW i, NEW j, Tells(s, E, i, j)
    PROVE  Accepted(s) = s
<1>1. /\ s \in Seq(Event) /\ i \in Nat /\ Len(s) = j - i /\ j \in 0 .. Len(E) /\ i <= j
      /\ \A k \in 1 .. Len(s) : s[k] = E[i + k]
    BY DEF Tells
<1>2. E \in Seq(Event) /\ Len(E) \in Nat
    BY DEF SoundAnswer
<1>3. PICK n \in Nat : n = Len(s)
    BY <1>1
<1>4. ASSUME NEW k \in 1 .. n
      PROVE  Sound(s[k]) /\ (s[k].event = "error" => k = n)
  <2>1. i + k \in 1 .. Len(E) /\ s[k] = E[i + k] /\ (i + k = Len(E) => k = n)
      BY <1>1, <1>2, <1>3
  <2> QED  BY <2>1 DEF SoundAnswer
<1>5. PICK r : Accepts!IsRun(0, <<>>, s, n, r) /\ Accepts!Fold(0, <<>>, s) = r[n]
  <2>1. DOMAIN s = 1 .. n
      BY <1>1, <1>3
  <2> QED  BY <2>1, Accepts!FoldRuns
<1>6. r[0] = <<>> /\ \A k \in 1 .. n : r[k] = Accept(r[k - 1], s[k])
    BY <1>5 DEF Accepts!IsRun, AcceptIn
<1> DEFINE T == {k \in Nat : r[k] = SubSeq(s, 1, k)}
<1>7. 0 \in T
  <2>1. SubSeq(s, 1, 0) = <<>>
      BY SubSeqEmpty
  <2> QED  BY <1>6, <2>1
<1>8. ASSUME NEW k \in 0 .. n - 1, k \in T PROVE k + 1 \in T
  <2>1. k + 1 \in 1 .. n /\ (k + 1) - 1 = k /\ k \in 0 .. Len(s) - 1 /\ k \in Nat /\ k + 1 \in Nat
      BY <1>3
  <2>2. PICK v : v = SubSeq(s, 1, k)
      OBVIOUS
  <2>3. /\ v \in Seq(Event) /\ Len(v) = k /\ \A h \in 1 .. k : v[h] = s[h]
        /\ Append(v, s[k + 1]) = SubSeq(s, 1, k + 1)
      BY <1>1, <2>1, <2>2, OneLonger
  <2>4. r[k + 1] = Accept(v, s[k + 1])
      BY <1>6, <1>8, <2>1, <2>2
  <2>5. ~(v # <<>> /\ Last(v).event = "error")
    <3>1. SUFFICES ASSUME v # <<>>, Last(v).event = "error" PROVE FALSE
        OBVIOUS
    <3>2. k # 0
        BY <2>3, <3>1
    <3>3. k \in 1 .. k /\ k \in 1 .. n /\ k # n
        BY <2>1, <3>2
    <3>4. Last(v) = s[k]
        BY <2>3, <3>3 DEF Last
    <3> QED  BY <1>4, <3>1, <3>3, <3>4
  <2>6. Accept(v, s[k + 1]) = Append(v, s[k + 1])
    <3>1. Sound(s[k + 1])
        BY <1>4, <2>1
    <3> QED  BY <2>5, <3>1 DEF Accept, Sound
  <2> QED  BY <2>1, <2>3, <2>4, <2>6
<1>9. \A k \in 0 .. n : k \in T
  <2> HIDE DEF T
  <2> QED  BY <1>7, <1>8, Accepts!NatsOfSet
<1>10. r[n] = SubSeq(s, 1, n)
    BY <1>9
<1>11. SubSeq(s, 1, Len(s)) = s
    BY <1>1, SubSeqFull
<1> QED  BY <1>3, <1>5, <1>10, <1>11, AcceptedFolds

LEMMA AcceptsOne ==
    ASSUME NEW e \in Event
    PROVE  /\ Accepted(<<>>) = <<>>
           /\ e.data = Broken => Accepted(<<e>>) = <<>>
<1>1. PICK r : Accepts!IsRun(0, <<>>, <<>>, 0, r) /\ Accepts!Fold(0, <<>>, <<>>) = r[0]
  <2>1. DOMAIN <<>> = 1 .. 0 /\ 0 \in Nat
      OBVIOUS
  <2> QED  BY <2>1, Accepts!FoldRuns
<1>2. Accepted(<<>>) = <<>>
    BY <1>1, AcceptedFolds DEF Accepts!IsRun
<1>3. PICK s : s = <<e>>
    OBVIOUS
<1>4. DOMAIN s = 1 .. 1 /\ s[1] = e
    BY <1>3
<1>5. PICK u : Accepts!IsRun(0, <<>>, s, 1, u) /\ Accepts!Fold(0, <<>>, s) = u[1]
  <2>1. PICK n \in Nat : n = 1
      OBVIOUS
  <2>2. DOMAIN s = 1 .. n
      BY <1>4, <2>1
  <2>3. \E u : Accepts!IsRun(0, <<>>, s, n, u) /\ Accepts!Fold(0, <<>>, s) = u[n]
      BY <2>2, Accepts!FoldRuns
  <2> QED  BY <2>1, <2>3
<1>6. u[1] = Accept(<<>>, e)
  <2>1. 1 \in 1 .. 1 /\ 1 - 1 = 0
      OBVIOUS
  <2> QED  BY <1>4, <1>5, <2>1 DEF Accepts!IsRun, AcceptIn
<1>7. e.data = Broken => Accept(<<>>, e) = <<>>
    BY DEF Accept
<1> QED  BY <1>2, <1>3, <1>5, <1>6, <1>7, AcceptedFolds

LEMMA AppendLast ==
    ASSUME NEW S, NEW x \in Seq(S), NEW y \in Seq(S), NEW d \in S
    PROVE  Append(x \o y, d) = x \o Append(y, d) /\ Append(y, d) \in Seq(S)
<1>0. <<d>> \in Seq(S)
    OBVIOUS
<1>1. PICK z \in Seq(S) : z = <<d>>
    BY <1>0
<1>2. x \o y \in Seq(S) /\ Append(y, d) = y \o z /\ Append(y, d) \in Seq(S)
    BY <1>1, AppendIsConcat
<1>3. Append(x \o y, d) = (x \o y) \o z
    BY <1>1, <1>2, AppendIsConcat
<1> QED  BY <1>2, <1>3, ConcatAssociative

LEMMA TokensJoin ==
    ASSUME NEW s \in Seq(Event), NEW t \in Seq(Event)
    PROVE  TokensOf(s \o t) = TokensOf(s) \o TokensOf(t)
<1>0. \A u \in Seq(Data), v \in Seq(Data), d \in Data :
         Append(u \o v, d) = u \o Append(v, d) /\ Append(v, d) \in Seq(Data)
    BY AppendLast
<1>1. PICK w : w = s \o t
    OBVIOUS
<1>2. /\ w \in Seq(Event) /\ Len(w) = Len(s) + Len(t)
      /\ \A i \in 1 .. Len(s) : w[i] = s[i]
      /\ \A i \in 1 .. Len(t) : w[Len(s) + i] = t[i]
    BY <1>1, Longer
<1>3. PICK n \in Nat : n = Len(s)
    OBVIOUS
<1>4. PICK m \in Nat : m = Len(t)
    OBVIOUS
<1>5. n + m \in Nat /\ DOMAIN s = 1 .. n /\ DOMAIN t = 1 .. m /\ DOMAIN w = 1 .. n + m
    BY <1>2, <1>3, <1>4
<1>6. PICK a : Tokens!IsRun(0, <<>>, s, n, a) /\ Tokens!Fold(0, <<>>, s) = a[n]
    BY <1>5, Tokens!FoldRuns
<1>7. PICK b : Tokens!IsRun(0, <<>>, t, m, b) /\ Tokens!Fold(0, <<>>, t) = b[m]
    BY <1>5, Tokens!FoldRuns
<1>8. PICK c : Tokens!IsRun(0, <<>>, w, n + m, c) /\ Tokens!Fold(0, <<>>, w) = c[n + m]
    BY <1>5, Tokens!FoldRuns
<1>9. /\ a[0] = <<>> /\ \A k \in 1 .. n : a[k] = WithToken(a[k - 1], s[k])
      /\ b[0] = <<>> /\ \A k \in 1 .. m : b[k] = WithToken(b[k - 1], t[k])
      /\ c[0] = <<>> /\ \A k \in 1 .. n + m : c[k] = WithToken(c[k - 1], w[k])
    BY <1>6, <1>7, <1>8 DEF Tokens!IsRun, TokenIn
<1> DEFINE F == {k \in Nat : a[k] \in Seq(Data) /\ c[k] = a[k]}
           G == {k \in Nat : b[k] \in Seq(Data) /\ c[n + k] = a[n] \o b[k]}
<1>10. \A k \in 0 .. n : k \in F
  <2>1. 0 \in F
    <3>1. <<>> \in Seq(Data)
        OBVIOUS
    <3> QED  BY <1>9, <3>1
  <2>2. ASSUME NEW k \in 0 .. n - 1, k \in F PROVE k + 1 \in F
    <3>1. k + 1 \in 1 .. n /\ k + 1 \in 1 .. n + m /\ (k + 1) - 1 = k /\ k + 1 \in Nat
        OBVIOUS
    <3>2. w[k + 1] = s[k + 1] /\ s[k + 1] \in Event
        BY <1>2, <1>3, <3>1
    <3>3. a[k + 1] = WithToken(a[k], s[k + 1]) /\ c[k + 1] = WithToken(a[k], s[k + 1])
        BY <1>9, <2>2, <3>1, <3>2
    <3>4. s[k + 1].data \in Data
        BY <3>2 DEF Event
    <3>5. a[k] \in Seq(Data) /\ c[k] = a[k]
        BY <2>2
    <3>6. Append(a[k], s[k + 1].data) \in Seq(Data)
        BY <3>4, <3>5, AppendProperties
    <3>7. a[k + 1] \in Seq(Data) /\ c[k + 1] = a[k + 1]
        BY <3>3, <3>5, <3>6 DEF WithToken
    <3> QED  BY <3>1, <3>7
  <2> HIDE DEF F
  <2> QED  BY <2>1, <2>2, Tokens!NatsOfSet
<1>11. a[n] \in Seq(Data) /\ c[n] = a[n]
    BY <1>10
<1>12. \A k \in 0 .. m : k \in G
  <2>1. 0 \in G
    <3>1. <<>> \in Seq(Data) /\ n + 0 = n
        OBVIOUS
    <3>2. a[n] \o <<>> = a[n]
        BY <1>11, ConcatEmptySeq
    <3> QED  BY <1>9, <1>11, <3>1, <3>2
  <2>2. ASSUME NEW k \in 0 .. m - 1, k \in G PROVE k + 1 \in G
    <3>1. /\ k + 1 \in 1 .. m /\ n + (k + 1) \in 1 .. n + m /\ (k + 1) - 1 = k
          /\ (n + (k + 1)) - 1 = n + k /\ k + 1 \in Nat
        OBVIOUS
    <3>2. w[n + (k + 1)] = t[k + 1] /\ t[k + 1] \in Event
        BY <1>2, <1>3, <1>4, <3>1
    <3>3. b[k + 1] = WithToken(b[k], t[k + 1])
        BY <1>9, <3>1
    <3>a. c[n + (k + 1)] = WithToken(a[n] \o b[k], t[k + 1])
        BY <1>9, <2>2, <3>1, <3>2
    <3>4. PICK d \in Data : d = t[k + 1].data
        BY <3>2 DEF Event
    <3>5. PICK x \in Seq(Data) : x = a[n]
        BY <1>11
    <3>6. PICK y \in Seq(Data) : y = b[k]
        BY <2>2
    <3>7. Append(x \o y, d) = x \o Append(y, d) /\ Append(y, d) \in Seq(Data)
        BY <1>0, <3>4, <3>5, <3>6
    <3>8. CASE t[k + 1].event = "token"
        BY <3>1, <3>3, <3>a, <3>4, <3>5, <3>6, <3>7, <3>8 DEF WithToken
    <3>9. CASE t[k + 1].event # "token"
        BY <3>1, <3>3, <3>a, <3>5, <3>6, <3>9 DEF WithToken
    <3> QED  BY <3>8, <3>9
  <2> HIDE DEF G
  <2> QED  BY <2>1, <2>2, Tokens!NatsOfSet
<1>13. b[m] \in Seq(Data) /\ c[n + m] = a[n] \o b[m]
  <2>1. m \in 0 .. m
      OBVIOUS
  <2>2. m \in G
      BY <1>12, <2>1
  <2> QED  BY <2>2
<1>14. TokensOf(w) = c[n + m] /\ TokensOf(s) = a[n] /\ TokensOf(t) = b[m]
    BY <1>6, <1>7, <1>8, TokensFold
<1> QED  BY <1>1, <1>13, <1>14

LEMMA TokensTyped ==
    ASSUME NEW s \in Seq(Event) PROVE TokensOf(s) \in Seq(Data)
<1>a. PICK n \in Nat : n = Len(s)
    OBVIOUS
<1>b. DOMAIN s = 1 .. n
    BY <1>a
<1>1. DOMAIN s = 1 .. n /\ \A k \in 1 .. n : s[k] \in Event
    BY <1>a
<1>2. PICK r : Tokens!IsRun(0, <<>>, s, n, r) /\ Tokens!Fold(0, <<>>, s) = r[n]
    BY <1>b, Tokens!FoldRuns
<1>3. r[0] = <<>> /\ \A k \in 1 .. n : r[k] = WithToken(r[k - 1], s[k])
    BY <1>2 DEF Tokens!IsRun, TokenIn
<1> DEFINE T == {k \in Nat : r[k] \in Seq(Data)}
<1>4. 0 \in T
  <2>1. <<>> \in Seq(Data)
      OBVIOUS
  <2> QED  BY <1>3, <2>1
<1>5. ASSUME NEW k \in 0 .. n - 1, k \in T PROVE k + 1 \in T
  <2>1. k + 1 \in 1 .. n /\ (k + 1) - 1 = k /\ k + 1 \in Nat
      OBVIOUS
  <2>a. s[k + 1] \in Event
      BY <1>1, <2>1
  <2>2. s[k + 1].data \in Data
      BY <2>a DEF Event
  <2>3. r[k] \in Seq(Data)
      BY <1>5
  <2>4. Append(r[k], s[k + 1].data) \in Seq(Data)
      BY <2>2, <2>3, AppendProperties
  <2>5. r[k + 1] \in Seq(Data)
      BY <1>3, <2>1, <2>3, <2>4 DEF WithToken
  <2> QED  BY <2>1, <2>5
<1>6. \A k \in 0 .. n : k \in T
  <2> HIDE DEF T
  <2> QED  BY <1>4, <1>5, Tokens!NatsOfSet
<1>7. r[n] \in Seq(Data)
    BY <1>6
<1> QED  BY <1>2, <1>7, TokensFold

LEMMA NoTokens == TokensOf(<<>>) = <<>>
<1>1. PICK r : Tokens!IsRun(0, <<>>, <<>>, 0, r) /\ Tokens!Fold(0, <<>>, <<>>) = r[0]
  <2>1. DOMAIN <<>> = 1 .. 0 /\ 0 \in Nat
      OBVIOUS
  <2> QED  BY <2>1, Tokens!FoldRuns
<1> QED  BY <1>1, TokensFold DEF Tokens!IsRun

\* No message is twice after a merge, and none comes from elsewhere.
LEMMA MergesOnce ==
    ASSUME NEW S, NEW messages \in Seq(S), NEW more \in Seq(S),
           IsInjective(messages), IsInjective(more)
    PROVE  /\ IsInjective(Merged(messages, more)) /\ Merged(messages, more) \in Seq(S)
           /\ ToSet(Merged(messages, more)) \subseteq ToSet(messages) \cup ToSet(more)
<1>1. PICK n \in Nat : n = Len(messages) /\ DOMAIN messages = 1 .. n
    OBVIOUS
<1>2. PICK r : Keeps!IsRun(more, <<>>, messages, n, r) /\ Keeps!Fold(more, <<>>, messages) = r[n]
    BY <1>1, Keeps!FoldRuns
<1>3. r[0] = <<>> /\ \A k \in 1 .. n : r[k] = Kept(more, r[k - 1], messages[k])
    BY <1>2 DEF Keeps!IsRun, KeptOf
<1> DEFINE Part(v, k) == /\ v \in Seq(S) /\ IsInjective(v)
                         /\ \A i \in 1 .. Len(v) : ~Contains(more, v[i])
                         /\ \A i \in 1 .. Len(v) : \E j \in 1 .. k : v[i] = messages[j]
           T == {k \in Nat : Part(r[k], k)}
<1>4. 0 \in T
  <2>1. <<>> \in Seq(S) /\ 1 .. Len(<<>>) = {} /\ DOMAIN <<>> = {}
      OBVIOUS
  <2>2. IsInjective(<<>>)
      BY <2>1 DEF IsInjective
  <2> QED  BY <1>3, <2>1, <2>2
<1>5. ASSUME NEW k \in 0 .. n - 1, k \in T PROVE k + 1 \in T
  <2>1. k + 1 \in 1 .. n /\ (k + 1) - 1 = k /\ k + 1 \in Nat
      OBVIOUS
  <2>2. PICK v : v = r[k]
      OBVIOUS
  <2>3. /\ v \in Seq(S) /\ IsInjective(v)
        /\ \A i \in 1 .. Len(v) : ~Contains(more, v[i])
        /\ \A i \in 1 .. Len(v) : \E j \in 1 .. k : v[i] = messages[j]
      BY <1>5, <2>2
  <2>4. PICK m \in S : m = messages[k + 1]
      BY <1>1, <2>1
  <2>5. r[k + 1] = Kept(more, v, m)
      BY <1>3, <2>1, <2>2, <2>4
  <2>6. CASE Contains(more, m)
    <3>1. r[k + 1] = v
        BY <2>5, <2>6 DEF Kept
    <3>2. \A i \in 1 .. Len(v) : \E j \in 1 .. k + 1 : v[i] = messages[j]
        BY <2>3
    <3> QED  BY <2>1, <2>3, <3>1, <3>2
  <2>7. CASE ~Contains(more, m)
    <3>1. PICK w : w = Append(v, m)
        OBVIOUS
    <3>2. r[k + 1] = w
        BY <2>5, <2>7, <3>1 DEF Kept
    <3>3. /\ w \in Seq(S) /\ Len(w) = Len(v) + 1
          /\ \A i \in 1 .. Len(v) : w[i] = v[i]
          /\ w[Len(v) + 1] = m
        BY <2>3, <3>1, AppendProperties
    <3>4. PICK l \in Nat : l = Len(v)
        BY <2>3
    <3>5. \A i \in 1 .. l : w[i] = v[i] /\ w[i] # m
      <4>1. \A j \in 1 .. k : messages[j] # m
        <5>1. \A j \in 1 .. k : j \in 1 .. n /\ j # k + 1
            OBVIOUS
        <5> QED  BY <1>1, <2>1, <2>4, <5>1 DEF IsInjective
      <4> QED  BY <2>3, <3>3, <3>4, <4>1
    <3>6. DOMAIN w = 1 .. l + 1 /\ DOMAIN v = 1 .. l
        BY <2>3, <3>3, <3>4
    <3>7. IsInjective(w)
      <4> SUFFICES ASSUME NEW x \in 1 .. l + 1, NEW y \in 1 .. l + 1, w[x] = w[y] PROVE x = y
          BY <3>6 DEF IsInjective
      <4>1. x \in 1 .. l \/ x = l + 1
          OBVIOUS
      <4>2. y \in 1 .. l \/ y = l + 1
          OBVIOUS
      <4>3. CASE x \in 1 .. l /\ y \in 1 .. l
          BY <2>3, <3>5, <3>6, <4>3 DEF IsInjective
      <4>4. w[l + 1] = m
          BY <3>3, <3>4
      <4> QED  BY <3>5, <4>1, <4>2, <4>3, <4>4
    <3>8. \A i \in 1 .. l + 1 : ~Contains(more, w[i]) /\ \E j \in 1 .. k + 1 : w[i] = messages[j]
      <4> SUFFICES ASSUME NEW i \in 1 .. l + 1
                   PROVE  ~Contains(more, w[i]) /\ \E j \in 1 .. k + 1 : w[i] = messages[j]
          OBVIOUS
      <4>1. CASE i \in 1 .. l
        <5>1. PICK j \in 1 .. k : v[i] = messages[j]
            BY <2>3, <3>4, <4>1
        <5>2. j \in 1 .. k + 1
            OBVIOUS
        <5> QED  BY <2>3, <3>4, <3>5, <4>1, <5>1, <5>2
      <4>2. CASE i = l + 1
        <5>1. w[i] = m /\ k + 1 \in 1 .. k + 1
            BY <3>3, <3>4, <4>2
        <5> QED  BY <2>4, <2>7, <5>1
      <4> QED  BY <4>1, <4>2
    <3>9. Len(w) = l + 1
        BY <3>3, <3>4
    <3> QED  BY <2>1, <3>2, <3>3, <3>7, <3>8, <3>9
  <2> QED  BY <2>6, <2>7
<1>6. \A k \in 0 .. n : k \in T
  <2> HIDE DEF T
  <2> QED  BY <1>4, <1>5, Keeps!NatsOfSet
<1>7. PICK v : v = r[n]
    OBVIOUS
<1>8. /\ v \in Seq(S) /\ IsInjective(v)
      /\ \A i \in 1 .. Len(v) : ~Contains(more, v[i])
      /\ \A i \in 1 .. Len(v) : \E j \in 1 .. n : v[i] = messages[j]
    BY <1>6, <1>7
<1> HIDE DEF T, Part
<1>9. PICK w : w = v \o more
    OBVIOUS
<1>10. Merged(messages, more) = w
    BY <1>2, <1>7, <1>9, MergedFolds
<1>11. /\ w \in Seq(S) /\ Len(w) = Len(v) + Len(more)
       /\ \A i \in 1 .. Len(v) : w[i] = v[i]
       /\ \A i \in 1 .. Len(more) : w[Len(v) + i] = more[i]
    BY <1>8, <1>9, Longer
<1>12. PICK a \in Nat : a = Len(v)
    BY <1>8
<1>13. PICK b \in Nat : b = Len(more)
    OBVIOUS
<1>14. DOMAIN w = 1 .. a + b /\ DOMAIN v = 1 .. a /\ DOMAIN more = 1 .. b
    BY <1>8, <1>11, <1>12, <1>13
<1>15. ASSUME NEW x \in 1 .. a + b
       PROVE  \/ x \in 1 .. a /\ w[x] = v[x] /\ ~Contains(more, w[x])
              \/ x \notin 1 .. a /\ x - a \in 1 .. b /\ w[x] = more[x - a] /\ Contains(more, w[x])
  <2>1. CASE x <= a
    <3>1. x \in 1 .. a
        BY <2>1
    <3> QED  BY <1>8, <1>11, <1>12, <3>1
  <2>2. CASE ~(x <= a)
    <3>1. x \notin 1 .. a /\ x - a \in 1 .. b /\ a + (x - a) = x
        BY <2>2
    <3>2. w[x] = more[x - a]
        BY <1>11, <1>12, <1>13, <3>1
    <3> QED  BY <1>13, <3>1, <3>2 DEF Contains
  <2> QED  BY <2>1, <2>2
<1>16. IsInjective(w)
  <2> SUFFICES ASSUME NEW x \in 1 .. a + b, NEW y \in 1 .. a + b, w[x] = w[y] PROVE x = y
      BY <1>14 DEF IsInjective
  <2>1. CASE x \in 1 .. a /\ y \in 1 .. a
      BY <1>8, <1>14, <1>15, <2>1 DEF IsInjective
  <2>2. CASE x \notin 1 .. a /\ y \notin 1 .. a
    <3>1. /\ x - a \in 1 .. b /\ y - a \in 1 .. b
          /\ more[x - a] = more[y - a]
        BY <1>15, <2>2
    <3>2. x - a = y - a
        BY <1>14, <3>1 DEF IsInjective
    <3> QED  BY <3>2
  <2> QED  BY <1>15, <2>1, <2>2
<1>17. ToSet(w) \subseteq ToSet(messages) \cup ToSet(more)
  <2> SUFFICES ASSUME NEW x \in 1 .. a + b PROVE w[x] \in ToSet(messages) \cup ToSet(more)
      BY <1>14 DEF ToSet
  <2>1. CASE x \in 1 .. a
      BY <1>1, <1>8, <1>12, <1>15, <2>1 DEF ToSet
  <2>2. CASE x \notin 1 .. a
      BY <1>14, <1>15, <2>2 DEF ToSet
  <2> QED  BY <2>1, <2>2
<1> QED  BY <1>10, <1>11, <1>16, <1>17

\* What flush finds in the line that is open: nothing, the event that lacked only
\* an end of line, or one whose data was cut off.
Left(r, E, q, b) ==
    \/ r = <<>>
    \/ q < Len(E) /\ r = <<E[q + 1]>>
    \/ /\ q < Len(E) /\ b < At(Len(E))
       /\ \E e \in Event : e.event = E[q + 1].event /\ e.data = Broken /\ r = <<e>>

LEMMA FlushLine ==
    ASSUME NEW P \in Parser, NEW line, line = WithoutCR(P.buffer)
    PROVE  /\ line = <<>> => Flush(P) = Processed(Start(P), <<>>).out
           /\ line # <<>> => Flush(P) = Processed(Processed(Start(P), line), <<>>).out
           /\ Start(P) \in Loop /\ Start(P).parser = P /\ Start(P).out = <<>>
<1>1. line = <<>> => Flush(P) = Processed(Start(P), <<>>).out
    BY DEF Flush
<1>2. line # <<>> => Flush(P) = Processed(Processed(Start(P), line), <<>>).out
    BY DEF Flush
<1>3. Start(P) \in Loop /\ Start(P).parser = P /\ Start(P).out = <<>>
    BY DEF Start, Loop
<1> QED  BY <1>1, <1>2, <1>3

\* The line that is open is whole: only its newline is missing, or a part of it.
LEMMA FlushWhole ==
    ASSUME NEW E \in Seq(Event), NEW P \in Parser, NEW q \in 0 .. Len(E) - 1, NEW p \in 0 .. 2,
           AtLine(P, E, q, p), WithoutCR(P.buffer) = Content(p, E[q + 1])
    PROVE  Flush(P) = <<>> \/ Flush(P) = <<E[q + 1]>>
<1>1. PICK line : line = Content(p, E[q + 1])
    OBVIOUS
<1>2. PICK s \in Loop : s = Start(P) /\ s.parser = P /\ s.out = <<>>
    BY FlushLine
<1>3. PICK u : u = Processed(s, line)
    OBVIOUS
<1>4. /\ u \in Loop
      /\ p # 2 => u.out = s.out /\ AtLine(u.parser, E, q, p + 1)
      /\ p = 2 => u.out = Append(s.out, E[q + 1])
    BY <1>1, <1>2, <1>3, NextLine
<1>5. CASE p = 2
  <2>1. line = <<>>
      BY <1>1, <1>5 DEF Content
  <2>2. Flush(P) = u.out
      BY <1>1, <1>2, <1>3, <2>1, FlushLine
  <2> QED  BY <1>2, <1>4, <1>5, <2>2
<1>6. CASE p = 0
  <2>1. line # <<>>
      BY <1>1, <1>6 DEF Content
  <2>2. Flush(P) = Processed(u, <<>>).out
      BY <1>1, <1>2, <1>3, <2>1, FlushLine
  <2>3. u.parser.data = <<>>
      BY <1>4, <1>6 DEF AtLine
  <2>4. Processed(u, <<>>).out = u.out
      BY <1>4, <2>3, EmptyLine
  <2> QED  BY <1>2, <1>4, <1>6, <2>2, <2>4
<1>7. CASE p = 1
  <2>1. line # <<>>
      BY <1>1, <1>7 DEF Content
  <2>2. Flush(P) = Processed(u, <<>>).out
      BY <1>1, <1>2, <1>3, <2>1, FlushLine
  <2>3. AtLine(u.parser, E, q, 2) /\ 2 \in 0 .. 2 /\ u.out = <<>>
      BY <1>2, <1>4, <1>7
  <2>4. PICK v : v = Processed(u, Content(2, E[q + 1]))
      OBVIOUS
  <2>5. v.out = Append(u.out, E[q + 1])
      BY <1>4, <2>3, <2>4, NextLine
  <2>6. Content(2, E[q + 1]) = <<>>
      BY DEF Content
  <2> QED  BY <2>2, <2>3, <2>4, <2>5, <2>6
<1> QED  BY <1>5, <1>6, <1>7

LEMMA FlushNothing ==
    ASSUME NEW P \in Parser, P.buffer = <<>>, P.data = <<>>
    PROVE  Flush(P) = <<>>
<1>1. PICK s \in Loop : s = Start(P) /\ s.parser = P /\ s.out = <<>>
    BY FlushLine
<1>2. WithoutCR(P.buffer) = <<>>
    BY DEF WithoutCR
<1>3. Flush(P) = Processed(s, <<>>).out
    BY <1>1, <1>2, FlushLine
<1>4. Processed(s, <<>>).out = s.out
    BY <1>1, EmptyLine
<1> QED  BY <1>1, <1>3, <1>4

\* The data line was cut.
LEMMA FlushBroken ==
    ASSUME NEW P \in Parser, NEW line, line = WithoutCR(P.buffer), Len(line) = 1,
           line # <<>>, line[1][1] = "data", P.data = <<>>
    PROVE  \E e \in Event : e.event = P.event /\ e.data = Broken /\ Flush(P) = <<e>>
<1>1. PICK s \in Loop : s = Start(P) /\ s.parser = P /\ s.out = <<>>
    BY FlushLine
<1>2. PICK d \in Data : d = Broken
  <2>1. <<>> \in Data
      BY EmptySeq, Zenon DEF Data
  <2> QED  BY <2>1 DEF Broken
<1>3. d = DataOf(line)
    BY <1>2 DEF DataOf
<1>4. PICK u : u = Processed(s, line)
    OBVIOUS
<1>5. u \in Loop /\ u.out = s.out /\ u.parser.event = P.event /\ u.parser.data = Append(P.data, d)
    BY <1>1, <1>3, <1>4, DataLine
<1>6. Flush(P) = Processed(u, <<>>).out
    BY <1>1, <1>4, FlushLine
<1>7. u.parser.data = <<d>>
    BY <1>5
<1>8. u.parser.data # <<>> /\ Last(u.parser.data) = d
    BY <1>7 DEF Last
<1>9. PICK e : e = [event |-> P.event, data |-> d]
    OBVIOUS
<1>10. Processed(u, <<>>).out = Append(u.out, e)
    BY <1>5, <1>8, <1>9, EmptyLine
<1>11. e \in Event /\ e.event = P.event /\ e.data = Broken
    BY <1>2, <1>9 DEF Event, Parser
<1> QED  BY <1>1, <1>5, <1>6, <1>10, <1>11

LEMMA FlushReads ==
    ASSUME NEW E \in Seq(Event), NEW P, NEW q, NEW p, NEW b, Ready(P, E, q, p, b),
           b <= At(Len(E))
    PROVE  Left(Flush(P), E, q, b)
<1>1. /\ P \in Parser /\ AtLine(P, E, q, p) /\ Shows(P.buffer, E, From(q, p), b)
      /\ b < To(q, p) \/ (b = To(q, p) /\ Newline = <<CR>>)
    BY DEF Ready
<1>2. q \in 0 .. Len(E) /\ p \in 0 .. 2 /\ (q = Len(E) => p = 0) /\ q \in Nat
    BY <1>1 DEF AtLine
<1>3. /\ N \in {1, 2} /\ LineLen(p) \in {0, 1, 2} /\ From(q, p) \in Nat /\ At(q) \in Nat
      /\ To(q, p) = From(q, p) + LineLen(p) + N
      /\ (p = 0 => From(q, p) = At(q))
    BY <1>2, Places
<1>4. b \in Nat /\ From(q, p) <= b /\ Len(P.buffer) = b - From(q, p) /\ P.buffer \in Seq(Symbol)
    BY <1>1 DEF Shows
<1>5. CASE q = Len(E)
  <2>1. p = 0 /\ From(q, p) = At(q) /\ b = From(q, p)
      BY <1>2, <1>3, <1>4, <1>5
  <2>2. P.buffer = <<>>
      BY <1>4, <2>1
  <2>3. P.data = <<>>
      BY <1>1, <2>1 DEF AtLine
  <2> QED  BY <1>1, <2>2, <2>3, FlushNothing DEF Left
<1>6. CASE q # Len(E)
  <2>1. q \in 0 .. Len(E) - 1 /\ q < Len(E)
      BY <1>2, <1>6
  <2>2. PICK w \in Nat : b = From(q, p) + w
    <3>1. b - From(q, p) \in Nat /\ b = From(q, p) + (b - From(q, p))
        BY <1>3, <1>4
    <3> QED  BY <3>1
  <2>3. Shows(P.buffer, E, At(q) + Off(p), At(q) + Off(p) + w)
      BY <1>1, <2>2 DEF From
  <2>4. \/ w < LineLen(p)
        \/ w \in {LineLen(p), LineLen(p) + 1} /\ (w = LineLen(p) \/ Newline[1] = CR)
    <3>1. w < LineLen(p) + N \/ (w = LineLen(p) + N /\ Newline = <<CR>>)
        BY <1>1, <1>3, <2>2
    <3>2. N = 2 => Newline[1] = CR
        BY Newlines
    <3>3. Newline = <<CR>> => N = 1 /\ Newline[1] = CR
        BY Newlines DEF N
    <3> QED  BY <1>3, <3>1, <3>2, <3>3
  <2>5. CASE w \in {LineLen(p), LineLen(p) + 1} /\ (w = LineLen(p) \/ Newline[1] = CR)
    <3>1. WithoutCR(P.buffer) = Content(p, E[q + 1])
        BY <1>2, <2>1, <2>3, <2>5, WholeLine
    <3>2. Flush(P) = <<>> \/ Flush(P) = <<E[q + 1]>>
        BY <1>1, <1>2, <2>1, <3>1, FlushWhole
    <3> QED  BY <2>1, <3>2 DEF Left
  <2>6. CASE w < LineLen(p)
    <3>1. w \in 0 .. LineLen(p)
        BY <1>3, <2>6
    <3>2. PICK line : line = P.buffer
        OBVIOUS
    <3>3. /\ WithoutCR(line) = line /\ Len(line) = w /\ line \in Seq(Symbol)
          /\ \A j \in 1 .. w : line[j] = Content(p, E[q + 1])[j]
        BY <1>2, <2>1, <2>3, <3>1, <3>2, OpenLine
    <3>4. p # 2 /\ P.data = <<>>
        BY <1>1, <1>2, <2>6 DEF AtLine, LineLen
    <3>5. CASE w = 0
      <4>1. P.buffer = <<>>
          BY <3>2, <3>3, <3>5
      <4> QED  BY <1>1, <3>4, <4>1, FlushNothing DEF Left
    <3>6. CASE w # 0
      <4>1. p = 1 /\ w = 1
          BY <1>2, <2>6, <3>4, <3>6 DEF LineLen
      <4>2. line[1] = Content(p, E[q + 1])[1] /\ Content(p, E[q + 1])[1][1] = "data"
        <5>1. 1 \in 1 .. w
            BY <4>1
        <5>2. line[1] = Content(p, E[q + 1])[1]
            BY <3>3, <5>1
        <5>3. Content(p, E[q + 1])[1] = <<"data", E[q + 1].data, 1>>
            BY <4>1 DEF Content
        <5> QED  BY <5>2, <5>3
      <4>3. line # <<>> /\ Len(line) = 1 /\ line = WithoutCR(P.buffer) /\ line[1][1] = "data"
          BY <3>2, <3>3, <4>1, <4>2
      <4>a. P.event = E[q + 1].event
          BY <1>1, <4>1 DEF AtLine
      <4>4. \E e \in Event : e.event = P.event /\ e.data = Broken /\ Flush(P) = <<e>>
          BY <1>1, <3>4, <4>3, FlushBroken
      <4>5. b < At(Len(E))
        <5>1. b < To(q, p)
            BY <1>3, <2>2, <2>6
        <5>2. To(q, p) <= At(q) + EventLen
            BY <1>3, <4>1 DEF To, Off, LineLen, EventLen
        <5>3. q + 1 \in Nat /\ At(q + 1) = At(q) + EventLen /\ Len(E) \in Nat
            BY <1>2, Grid
        <5>4. At(q + 1) \in Nat /\ At(Len(E)) \in Nat
            BY <5>3, Grid
        <5>5. At(q) + EventLen <= At(Len(E))
            BY <1>2, <2>1, <5>3, Grid
        <5>6. To(q, p) \in Nat
            BY <1>3
        <5> QED  BY <1>3, <1>4, <5>1, <5>2, <5>3, <5>4, <5>5, <5>6
      <4> QED  BY <2>1, <4>a, <4>4, <4>5 DEF Left
    <3> QED  BY <3>5, <3>6
  <2> QED  BY <2>4, <2>5, <2>6
<1> QED  BY <1>5, <1>6

-----------------------------------------------------------------------------
(* One answer on its way: the events E the server has written, the text t on *)
(* the wire, the parser P and the events H the client has handled, where the *)
(* client stands (at) and where the server stands (sv).                      *)

Open == {"idle", "opening", "reading"}
Bears(E, event) == \E k \in 1 .. Len(E) : E[k].event = event

\* The text that has not been read is all that was written, or a start of it when
\* the stream was cut, and then the answer has no "done".
Follows(E, t, P, H, sv) ==
    \E q, p, b, m :
        /\ Ready(P, E, q, p, b) /\ Shows(t, E, b, m) /\ Tells(H, E, 0, q)
        /\ m <= At(Len(E))
        /\ m = At(Len(E)) \/ (sv = "closed" /\ ~Bears(E, "done"))

StreamOk(E, t, P, H, at, sv) ==
    /\ SoundAnswer(E)
    /\ Bears(E, "done") \/ Bears(E, "error") => sv = "closed"
    /\ \E q : Tells(H, E, 0, q)
    /\ at \in {"idle", "opening"} => E = <<>> /\ H = <<>>
    /\ at \in Open => Follows(E, t, P, H, sv)
    /\ at = "answered" => H # <<>> /\ Last(H).event = "done"

LEMMA TellsAll ==
    ASSUME NEW E \in Seq(Event), NEW H, NEW q, Tells(H, E, 0, q)
    PROVE  /\ H \in Seq(Event) /\ Len(H) = q /\ q \in 0 .. Len(E) /\ \A k \in 1 .. q : H[k] = E[k]
           /\ IsPrefix(H, E)
           /\ q = Len(E) => H = E
<1>1. /\ H \in Seq(Event) /\ Len(H) = q - 0 /\ q \in 0 .. Len(E)
      /\ \A k \in 1 .. Len(H) : H[k] = E[0 + k]
    BY DEF Tells
<1>2. Len(H) = q /\ \A k \in 1 .. q : 0 + k = k
    BY <1>1
<1>3. \A k \in 1 .. q : H[k] = E[k]
    BY <1>1, <1>2
<1>4. SubSeq(H, 1, Len(H)) = SubSeq(E, 1, Len(H))
  <2>1. 1 \in Int /\ q \in Int /\ Len(E) \in Nat
      BY <1>1
  <2>2. PICK v : v = SubSeq(H, 1, q)
      OBVIOUS
  <2>3. PICK w : w = SubSeq(E, 1, q)
      OBVIOUS
  <2>4. /\ \A k \in 1 .. q : H[k] \in Event
        /\ \A k \in 1 .. q : E[k] \in Event
      BY <1>1, <1>2, <2>1
  <2>5. /\ v \in Seq(Event) /\ Len(v) = IF 1 <= q THEN q - 1 + 1 ELSE 0
        /\ \A i \in 1 .. q - 1 + 1 : v[i] = H[1 + i - 1]
      BY <2>1, <2>2, <2>4, SubSeqProperties
  <2>6. /\ w \in Seq(Event) /\ Len(w) = IF 1 <= q THEN q - 1 + 1 ELSE 0
        /\ \A i \in 1 .. q - 1 + 1 : w[i] = E[1 + i - 1]
      BY <2>1, <2>3, <2>4, SubSeqProperties
  <2>7. \A i \in 1 .. Len(v) : i \in 1 .. q /\ i \in 1 .. q - 1 + 1 /\ 1 + i - 1 = i
      BY <2>1, <2>5
  <2>8. Len(v) = Len(w) /\ \A i \in 1 .. Len(v) : v[i] = w[i]
      BY <1>3, <2>5, <2>6, <2>7
  <2>9. v = w
      BY <2>5, <2>6, <2>8, SeqEqual
  <2> QED  BY <1>2, <2>2, <2>3, <2>9
<1>5. IsPrefix(H, E)
    BY <1>1, <1>2, <1>4 DEF IsPrefix
<1>6. q = Len(E) => H = E
    BY <1>1, <1>2, <1>3, SeqEqual
<1> QED  BY <1>1, <1>2, <1>3, <1>5, <1>6

\* What has been told, told again with the next events.
LEMMA TellsOn ==
    ASSUME NEW E \in Seq(Event), NEW H, NEW q, NEW s, NEW r,
           Tells(H, E, 0, q), Tells(s, E, q, r)
    PROVE  Tells(H \o s, E, 0, r)
<1>1. /\ H \in Seq(Event) /\ Len(H) = q /\ q \in 0 .. Len(E) /\ \A k \in 1 .. q : H[k] = E[k]
    BY TellsAll
<1>2. /\ s \in Seq(Event) /\ q \in Nat /\ r \in 0 .. Len(E) /\ q <= r /\ Len(s) = r - q
      /\ \A k \in 1 .. Len(s) : s[k] = E[q + k]
    BY DEF Tells
<1>3. PICK w : w = H \o s
    OBVIOUS
<1>4. /\ w \in Seq(Event) /\ Len(w) = Len(H) + Len(s)
      /\ \A i \in 1 .. Len(H) : w[i] = H[i]
      /\ \A i \in 1 .. Len(s) : w[Len(H) + i] = s[i]
    BY <1>1, <1>2, <1>3, Longer, SMTT(30)
<1>5. Len(w) = r - 0 /\ 0 \in Nat /\ 0 <= r
    BY <1>1, <1>2, <1>4
<1>6. ASSUME NEW k \in 1 .. Len(w) PROVE w[k] = E[0 + k]
  <2>1. 0 + k = k
      OBVIOUS
  <2>2. CASE k <= q
    <3>1. k \in 1 .. q
        BY <1>1, <2>2
    <3> QED  BY <1>1, <1>4, <2>1, <3>1
  <2>3. CASE ~(k <= q)
    <3>1. k - q \in 1 .. Len(s) /\ q + (k - q) = k
        BY <1>1, <1>2, <1>4, <2>3
    <3>2. PICK h \in 1 .. Len(s) : h = k - q /\ q + h = k
        BY <3>1
    <3>3. w[q + h] = s[h]
        BY <1>1, <1>4
    <3>4. s[h] = E[q + h]
        BY <1>2
    <3> QED  BY <2>1, <3>2, <3>3, <3>4
  <2> QED  BY <2>2, <2>3
<1> QED  BY <1>2, <1>3, <1>4, <1>5, <1>6 DEF Tells

\* What has been told stays told when another event is written.
LEMMA TellsStill ==
    ASSUME NEW E \in Seq(Event), NEW e \in Event, NEW s, NEW i, NEW j, Tells(s, E, i, j)
    PROVE  Tells(s, Append(E, e), i, j)
<1>1. /\ s \in Seq(Event) /\ i \in Nat /\ j \in 0 .. Len(E) /\ i <= j /\ Len(s) = j - i
      /\ \A k \in 1 .. Len(s) : s[k] = E[i + k]
    BY DEF Tells
<1>2. PICK F : F = Append(E, e)
    OBVIOUS
<1>3. Len(F) = Len(E) + 1 /\ \A k \in 1 .. Len(E) : F[k] = E[k]
    BY <1>2, AppendProperties
<1>4. j \in 0 .. Len(F) /\ \A k \in 1 .. Len(s) : i + k \in 1 .. Len(E)
    BY <1>1, <1>3
<1>5. \A k \in 1 .. Len(s) : s[k] = F[i + k]
    BY <1>1, <1>3, <1>4
<1> QED  BY <1>1, <1>2, <1>4, <1>5 DEF Tells

LEMMA AtLineStill ==
    ASSUME NEW E \in Seq(Event), NEW e \in Event, NEW P, NEW q, NEW p, AtLine(P, E, q, p)
    PROVE  AtLine(P, Append(E, e), q, p)
<1>1. /\ q \in 0 .. Len(E) /\ p \in 0 .. 2 /\ (q = Len(E) => p = 0)
      /\ P.event = (IF p = 0 THEN "message" ELSE E[q + 1].event)
      /\ P.data = (IF p = 2 THEN <<E[q + 1].data>> ELSE <<>>)
    BY DEF AtLine
<1>2. PICK F : F = Append(E, e)
    OBVIOUS
<1>3. Len(F) = Len(E) + 1 /\ \A k \in 1 .. Len(E) : F[k] = E[k]
    BY <1>2, AppendProperties
<1>4. q \in 0 .. Len(F) /\ (q = Len(F) => p = 0)
    BY <1>1, <1>3
<1>5. p # 0 => q + 1 \in 1 .. Len(E)
    BY <1>1
<1>6. /\ P.event = (IF p = 0 THEN "message" ELSE F[q + 1].event)
      /\ P.data = (IF p = 2 THEN <<F[q + 1].data>> ELSE <<>>)
  <2>1. CASE p = 0
      BY <1>1, <2>1
  <2>2. CASE p # 0
    <3>1. F[q + 1] = E[q + 1]
        BY <1>3, <1>5, <2>2
    <3> QED  BY <1>1, <2>2, <3>1
  <2> QED  BY <2>1, <2>2
<1> QED  BY <1>1, <1>2, <1>4, <1>6 DEF AtLine

LEMMA HasMore ==
    ASSUME NEW E \in Seq(Event), NEW e, NEW event
    PROVE  Bears(Append(E, e), event) <=> Bears(E, event) \/ e.event = event
<1>1. PICK F : F = Append(E, e)
    OBVIOUS
<1>2. PICK n \in Nat : n = Len(E)
    OBVIOUS
<1>0. E \in Seq(Event \cup {e}) /\ e \in Event \cup {e}
    BY SeqMonotonic
<1>3. Len(F) = n + 1 /\ F[n + 1] = e /\ \A k \in 1 .. n : F[k] = E[k]
    BY <1>0, <1>1, <1>2, AppendProperties
<1>4. \A k : k \in 1 .. n + 1 <=> k \in 1 .. n \/ k = n + 1
    OBVIOUS
<1>5. Bears(F, event) <=> \E k \in 1 .. n + 1 : F[k].event = event
    BY <1>3 DEF Bears
<1>6. Bears(E, event) <=> \E k \in 1 .. n : E[k].event = event
    BY <1>2 DEF Bears
<1> QED  BY <1>1, <1>3, <1>4, <1>5, <1>6

LEMMA SoundMore ==
    ASSUME NEW E, SoundAnswer(E), ~Bears(E, "done"), ~Bears(E, "error"), NEW e, Sound(e)
    PROVE  SoundAnswer(Append(E, e))
<1>1. E \in Seq(Event) /\ e \in Event
    BY DEF SoundAnswer, Sound
<1>2. PICK F : F = Append(E, e)
    OBVIOUS
<1>3. PICK n \in Nat : n = Len(E)
    BY <1>1
<1>4. F \in Seq(Event) /\ Len(F) = n + 1 /\ F[n + 1] = e /\ \A k \in 1 .. n : F[k] = E[k]
    BY <1>1, <1>2, <1>3, AppendProperties
<1>5. ASSUME NEW k \in 1 .. n + 1
      PROVE  Sound(F[k]) /\ (F[k].event \in {"done", "error"} => k = n + 1)
  <2>1. CASE k = n + 1
      BY <1>4, <2>1
  <2>2. CASE k # n + 1
    <3>1. k \in 1 .. n /\ k \in 1 .. Len(E)
        BY <1>3, <2>2
    <3>2. Sound(E[k]) /\ E[k].event \notin {"done", "error"}
        BY <3>1 DEF SoundAnswer, Bears
    <3> QED  BY <1>4, <3>1, <3>2
  <2> QED  BY <2>1, <2>2
<1> QED  BY <1>2, <1>4, <1>5 DEF SoundAnswer

LEMMA NothingYet ==
    ASSUME NEW sv
    PROVE  Follows(<<>>, <<>>, NewParser, <<>>, sv) /\ Tells(<<>>, <<>>, 0, 0)
           /\ SoundAnswer(<<>>) /\ ~Bears(<<>>, "done") /\ ~Bears(<<>>, "error")
<1>1. PICK E \in Seq(Event) : E = <<>> /\ Len(E) = 0
    BY EmptySeq
<1>2. PICK t \in Seq(Symbol) : t = <<>> /\ Len(t) = 0
    BY EmptySeq
<1>3. Tells(E, E, 0, 0)
    BY <1>1 DEF Tells
<1>4. Shows(t, E, 0, 0)
    BY <1>2 DEF Shows
<1>5. SoundAnswer(E) /\ ~Bears(E, "done") /\ ~Bears(E, "error")
    BY <1>1 DEF SoundAnswer, Bears
<1>6. NewParser \in Parser /\ NewParser.buffer = <<>> /\ NewParser.event = "message" /\ NewParser.data = <<>>
  <2>1. <<>> \in Seq(Symbol) /\ <<>> \in Seq(Data)
      OBVIOUS
  <2> QED  BY <2>1 DEF NewParser, Parser, AnyName
<1>7. AtLine(NewParser, E, 0, 0)
    BY <1>1, <1>6 DEF AtLine
<1>8. At(0) = 0 /\ From(0, 0) = 0 /\ 0 < To(0, 0)
  <2>1. 0 \in Nat /\ 0 \in 0 .. 2
      OBVIOUS
  <2>2. At(0) = 0
      BY <2>1, Grid
  <2>3. /\ N \in {1, 2} /\ LineLen(0) \in {0, 1, 2} /\ From(0, 0) = At(0)
        /\ To(0, 0) = From(0, 0) + LineLen(0) + N
      BY <2>1, Places
  <2> QED  BY <2>2, <2>3
<1>9. Ready(NewParser, E, 0, 0, 0)
    BY <1>2, <1>4, <1>6, <1>7, <1>8 DEF Ready
<1>10. Follows(E, t, NewParser, E, sv)
    BY <1>1, <1>3, <1>4, <1>8, <1>9 DEF Follows
<1> QED  BY <1>1, <1>2, <1>3, <1>5, <1>10

LEMMA StreamStarts ==
    ASSUME NEW sv PROVE StreamOk(<<>>, <<>>, NewParser, <<>>, "idle", sv)
BY NothingYet DEF StreamOk

LEMMA StreamOpens ==
    ASSUME NEW E, NEW t, NEW P, NEW H, NEW sv, StreamOk(E, t, P, H, "idle", sv)
    PROVE  StreamOk(E, <<>>, NewParser, H, "opening", sv)
<1>1. E = <<>> /\ H = <<>>
    BY DEF StreamOk
<1> QED  BY <1>1, NothingYet DEF StreamOk

LEMMA StreamServed ==
    ASSUME NEW E, NEW t, NEW P, NEW H, NEW at, NEW sv, StreamOk(E, t, P, H, at, sv),
           sv # "closed", NEW to, to # "closed"
    PROVE  /\ StreamOk(E, t, P, H, at, to)
           /\ at = "opening" => StreamOk(E, t, P, H, "reading", to)
<1>1. at \in Open => Follows(E, t, P, H, to)
    BY DEF StreamOk, Follows
<1>2. "opening" \in Open /\ "reading" \in Open
    BY DEF Open
<1> QED  BY <1>1, <1>2 DEF StreamOk

LEMMA StreamStops ==
    ASSUME NEW E, NEW t, NEW P, NEW H, NEW at, NEW sv, StreamOk(E, t, P, H, at, sv),
           NEW u, NEW Q, NEW to \in {"stopped", "refreshing", "failed"}
    PROVE  StreamOk(E, u, Q, H, to, sv)
BY DEF StreamOk, Open

LEMMA StreamWrites ==
    ASSUME NEW E, NEW t, NEW P, NEW H, NEW sv, StreamOk(E, t, P, H, "reading", sv),
           sv # "closed", NEW e, Sound(e),
           NEW to, e.event \in {"done", "error"} => to = "closed"
    PROVE  StreamOk(Append(E, e), t \o Written(e), P, H, "reading", to)
<1>1. /\ E \in Seq(Event) /\ e \in Event /\ SoundAnswer(E)
      /\ ~Bears(E, "done") /\ ~Bears(E, "error")
      /\ Follows(E, t, P, H, sv)
    BY DEF StreamOk, SoundAnswer, Sound, Open
<1>2. SoundAnswer(Append(E, e))
    BY <1>1, SoundMore
<1>3. Bears(Append(E, e), "done") \/ Bears(Append(E, e), "error") => to = "closed"
    BY <1>1, HasMore
<1>4. PICK q, p, b, m : /\ Ready(P, E, q, p, b) /\ Shows(t, E, b, m) /\ Tells(H, E, 0, q)
                        /\ m = At(Len(E))
    BY <1>1 DEF Follows
<1>5. PICK F : F = Append(E, e)
    OBVIOUS
<1>6. At(Len(E)) \in Nat /\ At(Len(F)) \in Nat /\ At(Len(E)) <= At(Len(E))
  <2>1. Len(E) \in Nat /\ Len(F) \in Nat
      BY <1>1, <1>5
  <2>2. At(Len(E)) \in Nat /\ At(Len(F)) \in Nat
      BY <2>1, Grid
  <2> QED  BY <2>2
<1>7. b <= m /\ b \in Nat
    BY <1>4 DEF Shows
<1>8. Shows(t, F, b, m)
    BY <1>1, <1>4, <1>5, <1>6, ShowsLonger
<1>9. Shows(t \o Written(e), F, b, At(Len(F)))
  <2>1. Shows(Written(e), F, m, At(Len(F)))
      BY <1>1, <1>4, <1>5, ShowsWritten
  <2> QED  BY <1>8, <2>1, ShowsMore
<1>10. Ready(P, F, q, p, b)
  <2>1. AtLine(P, F, q, p)
      BY <1>1, <1>4, <1>5, AtLineStill DEF Ready
  <2>2. Shows(P.buffer, F, From(q, p), b)
      BY <1>1, <1>4, <1>5, <1>6, <1>7, ShowsLonger DEF Ready
  <2> QED  BY <1>4, <2>1, <2>2 DEF Ready
<1>11. Tells(H, F, 0, q)
    BY <1>1, <1>4, <1>5, TellsStill
<1>12. At(Len(F)) <= At(Len(F))
    BY <1>6
<1>13. Follows(F, t \o Written(e), P, H, to)
    BY <1>9, <1>10, <1>11, <1>12 DEF Follows
<1> QED  BY <1>2, <1>3, <1>5, <1>11, <1>13 DEF StreamOk

LEMMA StreamCut ==
    ASSUME NEW E, NEW t, NEW P, NEW H, NEW sv, StreamOk(E, t, P, H, "reading", sv),
           sv # "closed", NEW n \in 0 .. Len(t)
    PROVE  StreamOk(E, SubSeq(t, 1, n), P, H, "reading", "closed")
<1>1. E \in Seq(Event) /\ ~Bears(E, "done") /\ Follows(E, t, P, H, sv)
    BY DEF StreamOk, SoundAnswer, Open
<1>2. PICK q, p, b, m : /\ Ready(P, E, q, p, b) /\ Shows(t, E, b, m) /\ Tells(H, E, 0, q)
                        /\ m <= At(Len(E))
    BY <1>1 DEF Follows
<1>3. b \in Nat /\ m \in Nat /\ Len(t) = m - b /\ b <= m
    BY <1>2 DEF Shows
<1>4. n \in Nat /\ 0 \in Nat /\ 0 <= n /\ b + n <= m /\ 0 + 1 = 1 /\ b + 0 = b
    BY <1>3
<1>5. Shows(SubSeq(t, 0 + 1, n), E, b + 0, b + n)
    BY <1>2, <1>4, ShowsPart
<1>6. b + n <= At(Len(E))
  <2>1. Len(E) \in Nat
      BY <1>1
  <2>2. At(Len(E)) \in Nat
      BY <2>1, Grid
  <2> QED  BY <1>2, <1>3, <1>4, <2>2
<1>7. Shows(SubSeq(t, 1, n), E, b, b + n)
    BY <1>4, <1>5
<1>8. Follows(E, SubSeq(t, 1, n), P, H, "closed")
    BY <1>1, <1>2, <1>6, <1>7 DEF Follows
<1> QED  BY <1>8 DEF StreamOk

LEMMA StreamReads ==
    ASSUME NEW E, NEW t, NEW P, NEW H, NEW sv, StreamOk(E, t, P, H, "reading", sv),
           NEW n \in 0 .. Len(t), NEW f, f = Feed(P, SubSeq(t, 1, n))
    PROVE  /\ StreamOk(E, SubSeq(t, n + 1, Len(t)), f.parser, H \o Accepted(f.out), "reading", sv)
           /\ H \in Seq(Event) /\ Accepted(f.out) \in Seq(Event)
<1>1. SoundAnswer(E) /\ E \in Seq(Event) /\ Follows(E, t, P, H, sv)
    BY DEF StreamOk, SoundAnswer, Open
<1>2. PICK q, p, b, m : /\ Ready(P, E, q, p, b) /\ Shows(t, E, b, m) /\ Tells(H, E, 0, q)
                        /\ m <= At(Len(E))
                        /\ m = At(Len(E)) \/ (sv = "closed" /\ ~Bears(E, "done"))
    BY <1>1 DEF Follows
<1>3. b \in Nat /\ m \in Nat /\ Len(t) = m - b /\ b <= m
    BY <1>2 DEF Shows
<1>4. /\ n \in Nat /\ 0 \in Nat /\ 0 <= n /\ b + n <= m /\ 0 + 1 = 1 /\ b + 0 = b
      /\ Len(t) \in Nat /\ n <= Len(t) /\ b + Len(t) = m
    BY <1>3
<1>5. Shows(SubSeq(t, 0 + 1, n), E, b + 0, b + n)
    BY <1>2, <1>4, ShowsPart
<1>6. Shows(SubSeq(t, 1, n), E, b, b + n)
    BY <1>4, <1>5
<1>7. Shows(SubSeq(t, n + 1, Len(t)), E, b + n, m)
  <2>1. m <= m
      BY <1>3
  <2>2. Shows(SubSeq(t, n + 1, Len(t)), E, b + n, b + Len(t))
      BY <1>2, <1>4, <2>1, ShowsPart
  <2> QED  BY <1>4, <2>2
<1>8. b + n <= At(Len(E))
  <2>1. Len(E) \in Nat
      BY <1>1
  <2>2. At(Len(E)) \in Nat
      BY <2>1, Grid
  <2> QED  BY <1>2, <1>3, <1>4, <2>2
<1>9. PICK h, l : Ready(f.parser, E, h, l, b + n) /\ Tells(f.out, E, q, h)
    BY <1>1, <1>2, <1>6, <1>8, FeedReads
<1>10. Accepted(f.out) = f.out
    BY <1>1, <1>9, AcceptsAll
<1>11. Tells(H \o f.out, E, 0, h)
    BY <1>1, <1>2, <1>9, TellsOn
<1>12. Follows(E, SubSeq(t, n + 1, Len(t)), f.parser, H \o f.out, sv)
    BY <1>2, <1>7, <1>9, <1>11 DEF Follows
<1>13. H \in Seq(Event) /\ f.out \in Seq(Event)
    BY <1>2, <1>9 DEF Tells
<1> QED  BY <1>10, <1>11, <1>12, <1>13 DEF StreamOk

LEMMA FlushTells ==
    ASSUME NEW E, SoundAnswer(E), NEW q \in 0 .. Len(E), NEW b, NEW r, Left(r, E, q, b)
    PROVE  /\ Tells(Accepted(r), E, q, q) \/ (q < Len(E) /\ r = <<E[q + 1]>> /\ Tells(Accepted(r), E, q, q + 1))
           /\ r # <<>> => q < Len(E)
           /\ \A k \in DOMAIN r : r[k].event = E[q + 1].event
           /\ ~(b < At(Len(E))) /\ r # <<>> => r = <<E[q + 1]>>
<1>1. E \in Seq(Event) /\ q \in Nat
    BY DEF SoundAnswer
<1>2. Tells(<<>>, E, q, q)
  <2>1. PICK t \in Seq(Event) : t = <<>> /\ Len(t) = 0
      BY EmptySeq
  <2>2. Tells(t, E, q, q)
      BY <1>1, <2>1 DEF Tells
  <2> QED  BY <2>1, <2>2
<1>3. CASE r = <<>>
  <2>1. Accepted(r) = <<>>
    <3>1. Tells(r, E, q, q)
        BY <1>2, <1>3
    <3> QED  BY <1>3, <3>1, AcceptsAll
  <2>2. DOMAIN r = {}
      BY <1>3
  <2> QED  BY <1>2, <1>3, <2>1, <2>2
<1>4. CASE q < Len(E) /\ r = <<E[q + 1]>>
  <2>1. q \in 0 .. Len(E) - 1 /\ E[q + 1] \in Event
      BY <1>1, <1>4
  <2>2. Tells(Append(<<>>, E[q + 1]), E, q, q + 1)
      BY <1>1, <1>2, <2>1, TellsOneMore
  <2>3. Append(<<>>, E[q + 1]) = r
      BY <1>4
  <2>4. Tells(r, E, q, q + 1)
      BY <2>2, <2>3
  <2>5. Accepted(r) = r
      BY <2>4, AcceptsAll
  <2>6. \A k \in DOMAIN r : r[k] = E[q + 1]
      BY <1>4
  <2> QED  BY <1>4, <2>4, <2>5, <2>6
<1>5. CASE /\ q < Len(E) /\ b < At(Len(E))
           /\ \E e \in Event : e.event = E[q + 1].event /\ e.data = Broken /\ r = <<e>>
  <2>1. PICK e \in Event : e.event = E[q + 1].event /\ e.data = Broken /\ r = <<e>>
      BY <1>5
  <2>2. Accepted(r) = <<>>
      BY <2>1, AcceptsOne
  <2>3. \A k \in DOMAIN r : r[k] = e
      BY <2>1
  <2> QED  BY <1>2, <1>5, <2>1, <2>2, <2>3
<1> QED  BY <1>3, <1>4, <1>5 DEF Left

LEMMA StreamEnds ==
    ASSUME NEW E, NEW P, NEW H, NEW sv, StreamOk(E, <<>>, P, H, "reading", sv),
           NEW r, r = Flush(P)
    PROVE  /\ StreamOk(E, <<>>, NewParser, H \o Accepted(r), "refreshing", sv)
           /\ H \in Seq(Event) /\ Accepted(r) \in Seq(Event)
           /\ Bears(H, "done") \/ (\E k \in DOMAIN r : r[k].event = "done") =>
                /\ StreamOk(E, <<>>, NewParser, H \o Accepted(r), "answered", sv)
                /\ Bears(E, "done")
<1>1. SoundAnswer(E) /\ E \in Seq(Event) /\ Len(E) \in Nat /\ Follows(E, <<>>, P, H, sv)
    BY DEF StreamOk, SoundAnswer, Open
<1>2. PICK q, p, b, m : /\ Ready(P, E, q, p, b) /\ Shows(<<>>, E, b, m) /\ Tells(H, E, 0, q)
                        /\ m <= At(Len(E))
                        /\ m = At(Len(E)) \/ (sv = "closed" /\ ~Bears(E, "done"))
    BY <1>1 DEF Follows
<1>3. b \in Nat /\ m = b
  <2>1. Len(<<>>) = 0
      OBVIOUS
  <2> QED  BY <1>2, <2>1 DEF Shows
<1>4. q \in 0 .. Len(E) /\ q \in Nat
    BY <1>2 DEF Tells
<1>5. Left(r, E, q, b)
    BY <1>1, <1>2, <1>3, FlushReads
<1>6. PICK s : s = Accepted(r)
    OBVIOUS
<1>7. /\ Tells(s, E, q, q) \/ (q < Len(E) /\ r = <<E[q + 1]>> /\ Tells(s, E, q, q + 1))
      /\ r # <<>> => q < Len(E)
      /\ \A k \in DOMAIN r : r[k].event = E[q + 1].event
      /\ ~(b < At(Len(E))) /\ r # <<>> => r = <<E[q + 1]>>
    BY <1>1, <1>4, <1>5, <1>6, FlushTells
<1>8. PICK h : Tells(s, E, q, h) /\ (h = q \/ (h = q + 1 /\ q < Len(E) /\ r = <<E[q + 1]>>))
    BY <1>7
<1>9. PICK G : G = H \o s
    OBVIOUS
<1>10. Tells(G, E, 0, h)
    BY <1>1, <1>2, <1>8, <1>9, TellsOn
<1>11. StreamOk(E, <<>>, NewParser, G, "refreshing", sv)
    BY <1>10 DEF StreamOk, Open
<1>12. H \in Seq(Event) /\ s \in Seq(Event)
    BY <1>2, <1>8 DEF Tells
<1>13. ASSUME Bears(H, "done") \/ (\E k \in DOMAIN r : r[k].event = "done")
       PROVE  StreamOk(E, <<>>, NewParser, G, "answered", sv) /\ Bears(E, "done")
  <2>1. h = Len(E) /\ h # 0 /\ E[h].event = "done"
    <3>1. CASE Bears(H, "done")
      <4>1. H \in Seq(Event) /\ Len(H) = q /\ \A k \in 1 .. q : H[k] = E[k]
          BY <1>1, <1>2, TellsAll
      <4>2. PICK k \in 1 .. q : E[k].event = "done"
          BY <3>1, <4>1 DEF Bears
      <4>3. k \in 1 .. Len(E)
          BY <1>1, <1>4
      <4>4. k = Len(E)
          BY <1>1, <4>2, <4>3 DEF SoundAnswer
      <4>5. q = Len(E) /\ k = q /\ q # 0 /\ ~(q < Len(E))
          BY <1>1, <1>4, <4>4
      <4> QED  BY <1>8, <4>2, <4>5
    <3>2. CASE \E k \in DOMAIN r : r[k].event = "done"
      <4>1. r # <<>> /\ E[q + 1].event = "done"
        <5>1. PICK k \in DOMAIN r : r[k].event = "done"
            BY <3>2
        <5>2. E[q + 1].event = "done"
            BY <1>7, <5>1
        <5>3. DOMAIN <<>> = {}
            OBVIOUS
        <5> QED  BY <5>1, <5>2, <5>3
      <4>2. q < Len(E) /\ q + 1 \in 1 .. Len(E)
          BY <1>1, <1>4, <1>7, <4>1
      <4>3. q + 1 = Len(E)
          BY <4>1, <4>2, <1>1 DEF SoundAnswer
      <4>4. Bears(E, "done")
          BY <4>1, <4>2 DEF Bears
      <4>5. b = At(Len(E))
          BY <1>2, <1>3, <4>4
      <4>6. ~(b < At(Len(E)))
          BY <1>3, <4>5
      <4>7. r = <<E[q + 1]>>
          BY <1>7, <4>1, <4>6
      <4>8. h = q + 1
        <5>1. SUFFICES ASSUME h = q PROVE FALSE
            BY <1>8
        <5>2. Len(s) = 0
            BY <1>4, <1>8, <5>1 DEF Tells
        <5>3. Accepted(r) = r
          <6>1. q \in 0 .. Len(E) - 1
              BY <1>1, <1>4, <4>2
          <6>2. Tells(<<>>, E, q, q)
            <7>1. PICK t \in Seq(Event) : t = <<>> /\ Len(t) = 0
                BY EmptySeq
            <7>2. Tells(t, E, q, q)
                BY <1>4, <7>1 DEF Tells
            <7> QED  BY <7>1, <7>2
          <6>3. Tells(Append(<<>>, E[q + 1]), E, q, q + 1)
              BY <1>1, <6>1, <6>2, TellsOneMore
          <6>4. Append(<<>>, E[q + 1]) = r
              BY <4>7
          <6> QED  BY <1>1, <6>3, <6>4, AcceptsAll
        <5> QED  BY <1>6, <4>7, <5>2, <5>3
      <4> QED  BY <1>4, <4>1, <4>3, <4>8
    <3> QED  BY <1>13, <3>1, <3>2
  <2>2. G = E /\ Len(G) = h
      BY <1>1, <1>10, <2>1, TellsAll
  <2>3. G # <<>> /\ Last(G).event = "done"
      BY <2>1, <2>2 DEF Last
  <2>4. h \in 1 .. Len(E)
      BY <1>1, <2>1
  <2>5. Bears(E, "done")
      BY <2>1, <2>4 DEF Bears
  <2>6. StreamOk(E, <<>>, NewParser, G, "answered", sv)
      BY <1>10, <1>11, <2>3 DEF StreamOk, Open
  <2> QED  BY <2>5, <2>6
<1> QED  BY <1>6, <1>9, <1>11, <1>12, <1>13

\* What the property asks of one answer.
LEMMA StreamSays ==
    ASSUME NEW E, NEW t, NEW P, NEW H, NEW at, NEW sv, StreamOk(E, t, P, H, at, sv)
    PROVE  /\ IsPrefix(H, E)
           /\ at = "reading" => Len(t) \in Nat /\ Len(P.buffer) \in Nat
           /\ at = "reading" /\ Len(t) = 0 /\ Len(P.buffer) = 0 /\ sv # "closed" => H = E
           /\ at = "answered" => Last(H).event = "done"
           /\ H # <<>> => E # <<>>
<1>1. E \in Seq(Event) /\ Len(E) \in Nat
    BY DEF StreamOk, SoundAnswer
<1>2. PICK h : Tells(H, E, 0, h)
    BY DEF StreamOk
<1>3. /\ IsPrefix(H, E) /\ H \in Seq(Event) /\ Len(H) = h /\ h \in 0 .. Len(E)
    BY <1>1, <1>2, TellsAll
<1>4. H # <<>> => E # <<>>
    BY <1>1, <1>3
<1>a. at = "reading" => Len(t) \in Nat /\ Len(P.buffer) \in Nat
    BY DEF StreamOk, Follows, Open, Ready, Shows
<1>5. ASSUME at = "reading", Len(t) = 0, Len(P.buffer) = 0, sv # "closed" PROVE H = E
  <2>1. PICK q, p, b, m : /\ Ready(P, E, q, p, b) /\ Shows(t, E, b, m) /\ Tells(H, E, 0, q)
                          /\ m = At(Len(E))
      BY <1>5 DEF StreamOk, Follows, Open
  <2>2. /\ From(q, p) \in Nat /\ b \in Nat /\ m \in Nat /\ From(q, p) <= b /\ b <= m
        /\ Len(t) = m - b /\ Len(P.buffer) = b - From(q, p)
      BY <2>1 DEF Ready, Shows
  <2>3. From(q, p) = At(Len(E)) /\ b = m
      BY <1>5, <2>1, <2>2
  <2>4. q \in 0 .. Len(E) /\ p \in 0 .. 2 /\ q \in Nat
      BY <2>1 DEF Ready, AtLine
  <2>5. q = Len(E)
    <3>1. SUFFICES ASSUME q < Len(E) PROVE FALSE
        BY <1>1, <2>4
    <3>2. At(q) + EventLen <= At(Len(E))
        BY <1>1, <2>4, <3>1, Grid
    <3>3. From(q, p) < At(q) + EventLen
      <4>1. At(q) \in Nat /\ N \in {1, 2}
          BY <2>4, Grid, Newlines
      <4> QED  BY <2>4, <4>1 DEF From, Off, EventLen
    <3>4. At(q) \in Nat /\ EventLen \in Nat /\ At(Len(E)) \in Nat
        BY <1>1, <2>4, Grid, EventLens
    <3> QED  BY <2>2, <2>3, <3>2, <3>3, <3>4
  <2> QED  BY <1>1, <2>1, <2>5, TellsAll
<1> QED  BY <1>3, <1>4, <1>5, <1>a DEF StreamOk

-----------------------------------------------------------------------------
(* The invariant of all answers *)

Shapes ==
    /\ DOMAIN serving = Calls /\ DOMAIN written = Calls /\ DOMAIN wire = Calls
    /\ DOMAIN pc = Calls /\ DOMAIN parser = Calls /\ DOMAIN handled = Calls

Stream(c) == StreamOk(written[c], wire[c], parser[c], handled[c], pc[c], serving[c])
StreamInv == Shapes /\ \A c \in Calls : Stream(c)

LEMMA StreamInit == Init => StreamInv
<1> SUFFICES ASSUME Init PROVE StreamInv
    OBVIOUS
<1>1. Shapes
    BY DEF Init, Shapes
<1>2. ASSUME NEW c \in Calls PROVE Stream(c)
  <2>1. /\ written[c] = <<>> /\ wire[c] = <<>> /\ parser[c] = NewParser
        /\ handled[c] = <<>> /\ pc[c] = "idle" /\ serving[c] = "none"
      BY DEF Init
  <2> QED  BY <2>1, StreamStarts DEF Stream
<1> QED  BY <1>1, <1>2 DEF StreamInv

\* What a step leaves alone.
LEMMA StreamSame ==
    ASSUME StreamInv, NEW c \in Calls,
           written'[c] = written[c], wire'[c] = wire[c], parser'[c] = parser[c],
           handled'[c] = handled[c], pc'[c] = pc[c], serving'[c] = serving[c]
    PROVE  Stream(c)'
<1>1. Stream(c)
    BY DEF StreamInv
<1> QED  BY <1>1 DEF Stream

LEMMA StreamServing ==
    ASSUME StreamInv, NEW c \in Calls, Serving(c)
    PROVE  StreamInv'
<1>1. Shapes /\ Stream(c)
    BY DEF StreamInv
<1>2. CASE SaveQuestion(c) \/ SaveAnswer(c)
  <2>1. /\ serving[c] # "closed" /\ serving'[c] # "closed"
        /\ \A b \in Calls \ {c} : serving'[b] = serving[b]
        /\ UNCHANGED <<written, wire, parser, handled, pc>> /\ Shapes'
      BY <1>1, <1>2 DEF SaveQuestion, SaveAnswer, Serve, client, Shapes
  <2>2. Stream(c)'
      BY <1>1, <2>1, StreamServed DEF Stream
  <2>3. \A b \in Calls \ {c} : Stream(b)'
      BY <2>1, StreamSame
  <2> QED  BY <2>1, <2>2, <2>3 DEF StreamInv
<1>3. CASE Respond(c)
  <2>1. /\ serving[c] # "closed" /\ serving'[c] # "closed"
        /\ pc'[c] = IF pc[c] = "opening" THEN "reading" ELSE pc[c]
        /\ \A b \in Calls \ {c} : serving'[b] = serving[b] /\ pc'[b] = pc[b]
        /\ UNCHANGED <<written, wire, parser, handled>> /\ Shapes'
      BY <1>1, <1>3 DEF Respond, Serve, Shapes
  <2>2. Stream(c)'
      BY <1>1, <2>1, StreamServed DEF Stream
  <2>3. \A b \in Calls \ {c} : Stream(b)'
      BY <2>1, StreamSame
  <2> QED  BY <2>1, <2>2, <2>3 DEF StreamInv
<1>4. ASSUME NEW event \in {"meta", "token", "done", "error"}, NEW data \in Data, data # <<>>,
             Write(c, event, data), pc[c] = "reading", serving[c] # "closed",
             NEW to, to = serving'[c], event \in {"done", "error"} => to = "closed",
             \A b \in Calls \ {c} : serving'[b] = serving[b], DOMAIN serving' = Calls,
             UNCHANGED client
      PROVE  StreamInv'
  <2>1. PICK e : e = [event |-> event, data |-> data]
      OBVIOUS
  <2>2. Sound(e)
      BY <1>4, <2>1 DEF Sound, Event, AnyName, Broken
  <2>3. /\ written' = [written EXCEPT ![c] = Append(@, e)]
        /\ wire' = [wire EXCEPT ![c] = @ \o Written(e)]
      BY <1>4, <2>1 DEF Write
  <2>4. /\ written'[c] = Append(written[c], e) /\ wire'[c] = wire[c] \o Written(e)
        /\ \A b \in Calls \ {c} : written'[b] = written[b] /\ wire'[b] = wire[b]
        /\ UNCHANGED <<parser, handled, pc>> /\ Shapes'
      BY <1>1, <1>4, <2>3 DEF Shapes, client
  <2>5. Stream(c)'
    <3>1. StreamOk(written[c], wire[c], parser[c], handled[c], "reading", serving[c])
        BY <1>1, <1>4 DEF Stream
    <3>2. e.event \in {"done", "error"} => to = "closed"
        BY <1>4, <2>1
    <3>3. StreamOk(Append(written[c], e), wire[c] \o Written(e), parser[c], handled[c],
                   "reading", to)
        BY <1>4, <2>2, <3>1, <3>2, StreamWrites
    <3> QED  BY <1>4, <2>4, <3>3 DEF Stream
  <2>6. \A b \in Calls \ {c} : Stream(b)'
      BY <1>4, <2>4, StreamSame
  <2> QED  BY <2>4, <2>5, <2>6 DEF StreamInv
<1>a. <<c>> \in Data /\ <<c>> # <<>>
  <2>1. c \in Calls \cup Nat
      OBVIOUS
  <2>2. <<c>> \in Seq(Calls \cup Nat) /\ <<c>> # <<>>
      BY <2>1
  <2> QED  BY <2>2 DEF Data
<1>5. CASE Answer(c)
  <2>1. /\ pc[c] = "reading" /\ serving[c] = "answering" /\ serving'[c] = "answering"
        /\ \A b \in Calls \ {c} : serving'[b] = serving[b]
        /\ DOMAIN serving' = Calls /\ UNCHANGED client
      BY <1>1, <1>5 DEF Answer, Serve, Shapes
  <2>2. CASE Write(c, "meta", <<c>>)
      BY <1>4, <1>a, <2>1, <2>2
  <2>3. CASE Write(c, "token", <<Len(written[c])>>)
    <3>1. written[c] \in Seq(Event)
        BY <1>1 DEF Stream, StreamOk, SoundAnswer
    <3>2. Len(written[c]) \in Calls \cup Nat
        BY <3>1
    <3>3. <<Len(written[c])>> \in Seq(Calls \cup Nat) /\ <<Len(written[c])>> # <<>>
        BY <3>2
    <3>4. PICK d \in Data : d = <<Len(written[c])>> /\ d # <<>>
        BY <3>3 DEF Data
    <3>5. Write(c, "token", d)
        BY <2>3, <3>4
    <3> QED  BY <1>4, <2>1, <3>4, <3>5
  <2> QED  BY <1>5, <2>2, <2>3 DEF Answer
<1>6. CASE EndAnswer(c)
  <2>1. /\ pc[c] = "reading" /\ serving[c] # "closed" /\ serving'[c] = "closed"
        /\ \A b \in Calls \ {c} : serving'[b] = serving[b]
        /\ DOMAIN serving' = Calls /\ UNCHANGED client
      BY <1>1, <1>6 DEF EndAnswer, Serve, Shapes
  <2>2. CASE Write(c, "done", <<c>>)
      BY <1>4, <1>a, <2>1, <2>2
  <2>3. CASE Write(c, "error", <<c>>)
      BY <1>4, <1>a, <2>1, <2>3
  <2>4. ASSUME NEW n \in 0 .. Len(wire[c]), wire' = [wire EXCEPT ![c] = SubSeq(@, 1, n)],
               UNCHANGED written
        PROVE  StreamInv'
    <3>1. /\ wire'[c] = SubSeq(wire[c], 1, n) /\ \A b \in Calls \ {c} : wire'[b] = wire[b]
          /\ UNCHANGED <<written, parser, handled, pc>> /\ Shapes'
        BY <1>1, <2>1, <2>4 DEF Shapes, client
    <3>2. StreamOk(written[c], wire[c], parser[c], handled[c], "reading", serving[c])
        BY <1>1, <2>1 DEF Stream
    <3>3. StreamOk(written[c], SubSeq(wire[c], 1, n), parser[c], handled[c], "reading", "closed")
        BY <2>1, <3>2, StreamCut
    <3>4. Stream(c)'
        BY <2>1, <3>1, <3>3 DEF Stream
    <3>5. \A b \in Calls \ {c} : Stream(b)'
        BY <2>1, <3>1, StreamSame
    <3> QED  BY <3>1, <3>4, <3>5 DEF StreamInv
  <2> QED  BY <1>6, <2>2, <2>3, <2>4 DEF EndAnswer
<1> QED  BY <1>2, <1>3, <1>5, <1>6 DEF Serving

LEMMA StreamForgets ==
    ASSUME StreamInv, NEW ended \in SUBSET Calls, Forget(ended), UNCHANGED handled,
           DOMAIN pc' = Calls,
           \A b \in ended : \/ pc'[b] \in {"stopped", "refreshing", "failed"}
                            \/ pc[b] = "idle" /\ pc'[b] = "opening",
           \A b \in Calls \ ended : pc'[b] = pc[b]
    PROVE  StreamInv'
<1>1. Shapes
    BY DEF StreamInv
<1>2. /\ \A b \in Calls : /\ wire'[b] = IF b \in ended THEN <<>> ELSE wire[b]
                          /\ parser'[b] = IF b \in ended THEN NewParser ELSE parser[b]
      /\ UNCHANGED <<serving, written, handled>> /\ Shapes'
    BY <1>1 DEF Forget, Shapes
<1>3. ASSUME NEW b \in ended PROVE Stream(b)'
  <2>1. b \in Calls /\ StreamOk(written[b], wire[b], parser[b], handled[b], pc[b], serving[b])
      BY DEF StreamInv, Stream
  <2>2. CASE pc'[b] \in {"stopped", "refreshing", "failed"}
      BY <1>2, <2>1, <2>2, StreamStops DEF Stream
  <2>3. CASE pc[b] = "idle" /\ pc'[b] = "opening"
      BY <1>2, <2>1, <2>3, StreamOpens DEF Stream
  <2> QED  BY <2>2, <2>3
<1>4. \A b \in Calls \ ended : Stream(b)'
    BY <1>2, StreamSame
<1> QED  BY <1>2, <1>3, <1>4 DEF StreamInv

LEMMA StreamSending ==
    ASSUME StreamInv, NEW c \in Calls, NEW loaded, Send(c, loaded)
    PROVE  StreamInv'
<1>1. /\ pc[c] = "idle" /\ DOMAIN pc' = Calls
      /\ \A b \in Calls : pc'[b] = IF b = c THEN "opening"
                                   ELSE IF b \in Replaced(c) THEN "stopped" ELSE pc[b]
      /\ Forget({c} \cup Replaced(c)) /\ UNCHANGED handled
    BY DEF Send
<1>2. Replaced(c) \in SUBSET Calls
    BY DEF Replaced
<1> QED  BY <1>1, <1>2, StreamForgets

LEMMA StreamAsking ==
    ASSUME StreamInv, NEW c \in Calls, Asking(c)
    PROVE  StreamInv'
<1>1. CASE Ask(c)
    BY <1>1, StreamSending DEF Ask
<1>2. CASE Created(c)
    BY <1>2, StreamSending DEF Created
<1>3. CASE AskInNewChat(c) \/ CreateFails(c)
  <2>1. UNCHANGED <<written, wire, parser, handled, pc, serving>>
      BY <1>3 DEF AskInNewChat, CreateFails, server
  <2> QED  BY <2>1, StreamSame DEF StreamInv, Shapes
<1>4. CASE Stop(c)
  <2>1. /\ \A b \in Calls : pc'[b] = IF b = c THEN "stopped" ELSE pc[b]
        /\ DOMAIN pc' = Calls /\ Forget({c}) /\ UNCHANGED handled
      BY <1>4 DEF Stop, StreamInv, Shapes
  <2> QED  BY <2>1, StreamForgets
<1> QED  BY <1>1, <1>2, <1>3, <1>4 DEF Asking

\* What a chunk brings: the events that the chunk completes, and the rest waits.
Brings(c, more) ==
    /\ more \in Seq(Event) /\ handled[c] \in Seq(Event)
    /\ handled' = [handled EXCEPT ![c] = @ \o more]
    /\ turn' = IF turn = None THEN None ELSE [turn EXCEPT !.answer = @ \o TokensOf(more)]

LEMMA Reads ==
    ASSUME StreamInv, NEW c \in Calls, Read(c)
    PROVE  StreamInv' /\ \E more : Brings(c, more)
<1>1. Shapes /\ Stream(c) /\ pc[c] = "reading"
    BY DEF StreamInv, Read
<1>2. wire[c] \in Seq(Symbol)
  <2>1. "reading" \in Open
      BY DEF Open
  <2>2. \E b, m : Shows(wire[c], written[c], b, m)
      BY <1>1, <2>1 DEF Stream, StreamOk, Follows
  <2> QED  BY <2>2 DEF Shows
<1>3. PICK size \in Chunks :
          LET n == IF size < Len(wire[c]) THEN size ELSE Len(wire[c])
              f == Feed(parser[c], SubSeq(wire[c], 1, n))
          IN /\ wire' = [wire EXCEPT ![c] = SubSeq(@, n + 1, Len(@))]
             /\ parser' = [parser EXCEPT ![c] = f.parser]
             /\ Handle(c, f.out)
    BY DEF Read
<1>4. size \in Nat
    BY ClientAssumption
<1>5. PICK n : n = IF size < Len(wire[c]) THEN size ELSE Len(wire[c])
    OBVIOUS
<1>6. n \in 0 .. Len(wire[c])
    BY <1>2, <1>4, <1>5
<1>7. PICK f : f = Feed(parser[c], SubSeq(wire[c], 1, n))
    OBVIOUS
<1>8. /\ wire' = [wire EXCEPT ![c] = SubSeq(@, n + 1, Len(@))]
      /\ parser' = [parser EXCEPT ![c] = f.parser]
      /\ Handle(c, f.out)
    BY <1>3, <1>5, <1>7
<1>9. PICK more : more = Accepted(f.out)
    OBVIOUS
<1>10. /\ handled' = [handled EXCEPT ![c] = @ \o more]
       /\ turn' = IF turn = None THEN None ELSE [turn EXCEPT !.answer = @ \o TokensOf(more)]
    BY <1>8, <1>9 DEF Handle
<1>11. StreamOk(written[c], wire[c], parser[c], handled[c], "reading", serving[c])
    BY <1>1 DEF Stream
<1>12. /\ StreamOk(written[c], SubSeq(wire[c], n + 1, Len(wire[c])), f.parser,
                   handled[c] \o more, "reading", serving[c])
       /\ handled[c] \in Seq(Event) /\ more \in Seq(Event)
    BY <1>6, <1>7, <1>9, <1>11, StreamReads
<1>13. Brings(c, more)
    BY <1>10, <1>12 DEF Brings
<1>14. UNCHANGED <<serving, written>> /\ (pc' = pc \/ pc' = [pc EXCEPT ![c] = "refreshing"])
    BY DEF Read, Fails
<1>15. /\ wire'[c] = SubSeq(wire[c], n + 1, Len(wire[c])) /\ parser'[c] = f.parser
       /\ handled'[c] = handled[c] \o more
       /\ \A b \in Calls \ {c} : /\ wire'[b] = wire[b] /\ parser'[b] = parser[b]
                                 /\ handled'[b] = handled[b] /\ pc'[b] = pc[b]
       /\ pc'[c] \in {"reading", "refreshing"} /\ Shapes'
    BY <1>1, <1>8, <1>10, <1>14 DEF Shapes
<1>16. Stream(c)'
  <2>1. CASE pc'[c] = "reading"
      BY <1>12, <1>14, <1>15, <2>1 DEF Stream
  <2>2. CASE pc'[c] = "refreshing"
    <3>1. StreamOk(written[c], SubSeq(wire[c], n + 1, Len(wire[c])), f.parser,
                   handled[c] \o more, "refreshing", serving[c])
        BY <1>12, StreamStops
    <3> QED  BY <1>14, <1>15, <2>2, <3>1 DEF Stream
  <2> QED  BY <1>15, <2>1, <2>2
<1>17. \A b \in Calls \ {c} : Stream(b)'
    BY <1>14, <1>15, StreamSame
<1> QED  BY <1>13, <1>15, <1>16, <1>17 DEF StreamInv

\* The end of a response, with a "done" or without.
LEMMA Finishes ==
    ASSUME StreamInv, NEW c \in Calls, Finish(c)
    PROVE  /\ StreamInv'
           /\ \/ /\ pc' = [pc EXCEPT ![c] = "answered"] /\ turn' = None
                 /\ cache' = Appended(cache, ChatOf[c], <<<<c, "user">>, <<c, "assistant">>>>)
                 /\ Bears(written[c], "done")
                 /\ \A b \in Calls \ {c} : handled'[b] = handled[b]
              \/ /\ pc' = [pc EXCEPT ![c] = "refreshing"] /\ UNCHANGED cache
                 /\ \E more : Brings(c, more)
<1>1. /\ Shapes /\ Stream(c) /\ pc[c] = "reading" /\ serving[c] = "closed" /\ wire[c] = <<>>
      /\ Forget({c})
    BY DEF StreamInv, Finish
<1>2. PICK r : r = Flush(parser[c])
    OBVIOUS
<1>3. PICK more : more = Accepted(r)
    OBVIOUS
<1>4. StreamOk(written[c], <<>>, parser[c], handled[c], "reading", serving[c])
    BY <1>1 DEF Stream
<1>5. /\ StreamOk(written[c], <<>>, NewParser, handled[c] \o more, "refreshing", serving[c])
      /\ handled[c] \in Seq(Event) /\ more \in Seq(Event)
      /\ Bears(handled[c], "done") \/ (\E k \in DOMAIN r : r[k].event = "done") =>
           /\ StreamOk(written[c], <<>>, NewParser, handled[c] \o more, "answered", serving[c])
           /\ Bears(written[c], "done")
    BY <1>2, <1>3, <1>4, StreamEnds
<1>6. Has(c, "done") => Bears(handled[c], "done")
  <2>1. DOMAIN handled[c] = 1 .. Len(handled[c])
      BY <1>5
  <2> QED  BY <2>1 DEF Has, Bears
<1>7. /\ wire'[c] = <<>> /\ parser'[c] = NewParser
      /\ \A b \in Calls \ {c} : wire'[b] = wire[b] /\ parser'[b] = parser[b]
      /\ UNCHANGED <<written, serving>> /\ DOMAIN wire' = Calls /\ DOMAIN parser' = Calls
    BY <1>1 DEF Forget
<1>8. ASSUME handled' = [handled EXCEPT ![c] = @ \o more],
             NEW at, pc' = [pc EXCEPT ![c] = at],
             StreamOk(written[c], <<>>, NewParser, handled[c] \o more, at, serving[c])
      PROVE  StreamInv'
  <2>1. /\ handled'[c] = handled[c] \o more /\ pc'[c] = at
        /\ \A b \in Calls \ {c} : handled'[b] = handled[b] /\ pc'[b] = pc[b]
        /\ Shapes'
      BY <1>1, <1>7, <1>8 DEF Shapes
  <2>2. Stream(c)'
      BY <1>7, <1>8, <2>1 DEF Stream
  <2>3. \A b \in Calls \ {c} : Stream(b)'
      BY <1>7, <2>1, StreamSame
  <2> QED  BY <2>1, <2>2, <2>3 DEF StreamInv
<1>9. CASE Has(c, "done") \/ \E i \in DOMAIN r : r[i].event = "done"
  <2>1. /\ handled' = [handled EXCEPT ![c] = @ \o more]
        /\ pc' = [pc EXCEPT ![c] = "answered"]
        /\ turn' = None
        /\ cache' = Appended(cache, ChatOf[c], <<<<c, "user">>, <<c, "assistant">>>>)
      BY <1>2, <1>3, <1>9 DEF Finish
  <2>2. /\ StreamOk(written[c], <<>>, NewParser, handled[c] \o more, "answered", serving[c])
        /\ Bears(written[c], "done")
      BY <1>5, <1>6, <1>9
  <2>3. \A b \in Calls \ {c} : handled'[b] = handled[b]
      BY <1>1, <2>1 DEF Shapes
  <2>4. StreamInv'
      BY <1>8, <2>1, <2>2
  <2> QED  BY <2>1, <2>2, <2>3, <2>4
<1>10. CASE ~(Has(c, "done") \/ \E i \in DOMAIN r : r[i].event = "done")
  <2>1. Handle(c, r) /\ Fails(c)
      BY <1>2, <1>10 DEF Finish
  <2>2. /\ handled' = [handled EXCEPT ![c] = @ \o more]
        /\ turn' = IF turn = None THEN None ELSE [turn EXCEPT !.answer = @ \o TokensOf(more)]
        /\ pc' = [pc EXCEPT ![c] = "refreshing"] /\ UNCHANGED cache
      BY <1>3, <2>1 DEF Handle, Fails
  <2>3. Brings(c, more)
      BY <1>5, <2>2 DEF Brings
  <2> QED  BY <1>5, <1>8, <2>2, <2>3
<1> QED  BY <1>9, <1>10

LEMMA StreamStreams ==
    ASSUME StreamInv, NEW c \in Calls, Streams(c)
    PROVE  StreamInv'
<1>1. CASE Break(c)
  <2>1. /\ \A b \in Calls : pc'[b] = IF b = c THEN "refreshing" ELSE pc[b]
        /\ DOMAIN pc' = Calls /\ Forget({c}) /\ UNCHANGED handled
      BY <1>1 DEF Break, Fails, StreamInv, Shapes
  <2> QED  BY <2>1, StreamForgets
<1>2. CASE Refreshed(c)
  <2>1. /\ pc'[c] = "failed" /\ \A b \in Calls \ {c} : pc'[b] = pc[b]
        /\ UNCHANGED <<written, wire, parser, handled, serving>> /\ Shapes' /\ Stream(c)
      BY <1>2 DEF Refreshed, StreamInv, Shapes, server
  <2>2. Stream(c)'
      BY <2>1, StreamStops DEF Stream
  <2> QED  BY <2>1, <2>2, StreamSame DEF StreamInv
<1> QED  BY <1>1, <1>2, Reads, Finishes DEF Streams

LEMMA StreamStep == StreamInv /\ [Next]_vars => StreamInv'
<1> SUFFICES ASSUME StreamInv, [Next]_vars PROVE StreamInv'
    OBVIOUS
<1>1. CASE UNCHANGED vars
    BY <1>1, StreamSame DEF vars, server, client, StreamInv, Shapes
<1>2. ASSUME NEW k \in Chats, Refetch(k) PROVE StreamInv'
    BY <1>2, StreamSame DEF Refetch, server, StreamInv, Shapes
<1> QED  BY <1>1, <1>2, StreamServing, StreamAsking, StreamStreams DEF Next

LEMMA StreamMeans == StreamInv => EventsSurviveTheSplit
<1> SUFFICES ASSUME StreamInv, NEW c \in Calls
             PROVE  /\ IsPrefix(handled[c], written[c])
                    /\ pc[c] = "reading" /\ Len(wire[c]) + Len(parser[c].buffer) = 0
                       /\ serving[c] # "closed" => handled[c] = written[c]
                    /\ pc[c] = "answered" => Last(handled[c]).event = "done"
    BY DEF EventsSurviveTheSplit
<1>1. StreamOk(written[c], wire[c], parser[c], handled[c], pc[c], serving[c])
    BY DEF StreamInv, Stream
<1>2. /\ IsPrefix(handled[c], written[c])
      /\ pc[c] = "reading" => Len(wire[c]) \in Nat /\ Len(parser[c].buffer) \in Nat
      /\ pc[c] = "reading" /\ Len(wire[c]) = 0 /\ Len(parser[c].buffer) = 0
         /\ serving[c] # "closed" => handled[c] = written[c]
      /\ pc[c] = "answered" => Last(handled[c]).event = "done"
    BY <1>1, StreamSays
<1>3. ASSUME pc[c] = "reading", Len(wire[c]) + Len(parser[c].buffer) = 0
      PROVE  Len(wire[c]) = 0 /\ Len(parser[c].buffer) = 0
  <2>1. PICK x \in Nat, y \in Nat : x = Len(wire[c]) /\ y = Len(parser[c].buffer)
      BY <1>2, <1>3
  <2>2. x + y = 0
      BY <1>3, <2>1
  <2>3. x = 0 /\ y = 0
      BY <2>2
  <2> QED  BY <2>1, <2>3
<1> QED  BY <1>2, <1>3

\* "events split across chunks", "CRLF/CR/LF line endings" (sse.ts): whatever the
\* newline is and wherever the network cuts the text, the client handles the events
\* the server has written, in order, and misses none.
THEOREM EventsSurvive == Spec => []EventsSurviveTheSplit
BY StreamInit, StreamStep, StreamMeans, PTL DEF Spec

-----------------------------------------------------------------------------
(* The live turn *)

Turn == [call : Calls, shown : BOOLEAN, answer : Seq(Data),
         status : {"streaming", "stopped", "error"}]

\* The one send that is running is the one of the live turn.
TurnInv ==
    turn # None =>
        /\ turn \in Turn
        /\ turn.answer = TokensOf(handled[turn.call])
        /\ turn.status = "streaming" => pc[turn.call] \in Running \cup {"refreshing"}
        /\ turn.status # "streaming" /\ pc[turn.call] \in Running =>
             \E b \in Calls \ {turn.call} : pc[b] \in {"stopped", "failed"}
        /\ \A c \in Calls : pc[c] \in Running => c = turn.call

\* What TurnInv says of a turn t, of the places at and of the events H.
TurnOk(t, at, H) ==
    /\ t \in Turn
    /\ t.answer = TokensOf(H[t.call])
    /\ t.status = "streaming" => at[t.call] \in Running \cup {"refreshing"}
    /\ t.status # "streaming" /\ at[t.call] \in Running =>
         \E b \in Calls \ {t.call} : at[b] \in {"stopped", "failed"}
    /\ \A c \in Calls : at[c] \in Running => c = t.call

LEMMA TurnParts == TurnInv <=> (turn # None => TurnOk(turn, pc, handled))
BY DEF TurnInv, TurnOk

\* A send that ends, or starts to read, leaves the turn as good as it was.
LEMMA TurnEnds ==
    ASSUME NEW t, NEW H, NEW c \in Calls, NEW at, DOMAIN at = Calls, TurnOk(t, at, H),
           NEW bt, at[c] \in Running, bt = [at EXCEPT ![c] = "refreshing"]
    PROVE  TurnOk(t, bt, H)
<1>1. c = t.call /\ t.call \in Calls
    BY DEF TurnOk, Turn
<1>2. bt[c] = "refreshing" /\ \A b \in Calls \ {c} : bt[b] = at[b]
    OBVIOUS
<1>3. "refreshing" \notin Running
    BY DEF Running
<1> QED  BY <1>1, <1>2, <1>3 DEF TurnOk

LEMMA TurnSends ==
    ASSUME StreamInv, NEW c \in Calls, NEW loaded, Send(c, loaded)
    PROVE  TurnInv'
<1>1. PICK new : new = [call |-> c, shown |-> TRUE, answer |-> <<>>, status |-> "streaming"]
    OBVIOUS
<1>2. /\ pc[c] = "idle" /\ UNCHANGED handled
      /\ \A b \in Calls : pc'[b] = IF b = c THEN "opening"
                                   ELSE IF b \in Replaced(c) THEN "stopped" ELSE pc[b]
      /\ \/ Replaced(c) = {} /\ turn' = new
         \/ \E b \in Replaced(c) : turn' = Marked(new, "stopped", ~Has(b, "meta"))
    BY <1>1 DEF Send
<1>3. handled[c] = <<>>
    BY <1>2 DEF StreamInv, Stream, StreamOk
<1>4. new \in Turn /\ new.call = c /\ new.answer = <<>> /\ new.status = "streaming"
  <2>1. <<>> \in Seq(Data)
      OBVIOUS
  <2> QED  BY <1>1, <2>1 DEF Turn
<1>5. \A b \in Calls : pc'[b] \in Running => b = c
    BY <1>2 DEF Replaced, Running
<1>6. pc'[c] = "opening" /\ "opening" \in Running
    BY <1>2 DEF Running
<1>7. CASE turn' = new
  <2>1. TurnOk(new, pc', handled')
      BY <1>2, <1>3, <1>4, <1>5, <1>6, NoTokens DEF TurnOk
  <2> QED  BY <1>7, <2>1 DEF TurnInv, TurnOk
<1>8. ASSUME NEW b \in Replaced(c), turn' = Marked(new, "stopped", ~Has(b, "meta")), turn' # None
      PROVE  TurnOk(turn', pc', handled')
  <2>1. PICK shown \in BOOLEAN : turn' = [new EXCEPT !.status = "stopped", !.shown = shown]
    <3>1. turn' = [new EXCEPT !.status = "stopped", !.shown = ~Has(b, "meta")]
        BY <1>8 DEF Marked
    <3>2. (~Has(b, "meta")) \in BOOLEAN
        OBVIOUS
    <3> QED  BY <3>1, <3>2, Zenon
  <2>2. turn' \in Turn /\ turn'.call = c /\ turn'.answer = <<>> /\ turn'.status = "stopped"
      BY <1>4, <2>1 DEF Turn
  <2>3. b \in Calls \ {c} /\ pc'[b] = "stopped"
      BY <1>2 DEF Replaced
  <2> QED  BY <1>2, <1>3, <1>5, <1>6, <2>2, <2>3, NoTokens DEF TurnOk
<1> QED  BY <1>2, <1>7, <1>8 DEF TurnInv, TurnOk

LEMMA TurnServing ==
    ASSUME StreamInv, TurnInv, NEW c \in Calls, Serving(c)
    PROVE  TurnInv'
<1>1. UNCHANGED <<turn, handled>> /\ Shapes
    BY DEF Serving, SaveQuestion, Respond, Answer, SaveAnswer, EndAnswer, client, StreamInv
<1>2. CASE UNCHANGED pc
    BY <1>1, <1>2 DEF TurnInv
<1>3. CASE pc' = [pc EXCEPT ![c] = IF @ = "opening" THEN "reading" ELSE @]
  <2>1. \A b \in Calls : /\ pc'[b] \in Running <=> pc[b] \in Running
                         /\ pc[b] \in {"refreshing", "stopped", "failed"} => pc'[b] = pc[b]
      BY <1>1, <1>3 DEF Running, Shapes
  <2>2. turn # None => turn.call \in Calls
      BY DEF TurnInv, Turn
  <2> QED  BY <1>1, <2>1, <2>2 DEF TurnInv
<1> QED  BY <1>2, <1>3 DEF Serving, SaveQuestion, Respond, Answer, SaveAnswer, EndAnswer, client

LEMMA TurnAsking ==
    ASSUME StreamInv, TurnInv, NEW c \in Calls, Asking(c)
    PROVE  TurnInv'
<1>1. CASE Ask(c) \/ Created(c)
    BY <1>1, TurnSends DEF Ask, Created
<1>2. CASE AskInNewChat(c) \/ CreateFails(c)
    BY <1>2 DEF AskInNewChat, CreateFails, TurnInv
<1>3. CASE Stop(c)
  <2>1. /\ pc[c] \in Running /\ UNCHANGED handled
        /\ pc' = [pc EXCEPT ![c] = "stopped"]
        /\ turn' = Marked(turn, "stopped", ~Has(c, "meta"))
        /\ Shapes
      BY <1>3 DEF Stop, StreamInv
  <2>2. pc'[c] = "stopped" /\ \A b \in Calls \ {c} : pc'[b] = pc[b]
      BY <2>1 DEF Shapes
  <2>3. SUFFICES ASSUME turn' # None PROVE TurnOk(turn', pc', handled')
      BY DEF TurnInv, TurnOk
  <2>4. turn # None
      BY <2>1, <2>3 DEF Marked
  <2>5. TurnOk(turn, pc, handled)
      BY <2>4, TurnParts
  <2>6. PICK shown \in BOOLEAN : turn' = [turn EXCEPT !.status = "stopped", !.shown = shown]
    <3>1. turn' = [turn EXCEPT !.status = "stopped", !.shown = ~Has(c, "meta")]
        BY <2>1, <2>4 DEF Marked
    <3>2. (~Has(c, "meta")) \in BOOLEAN
        OBVIOUS
    <3> QED  BY <3>1, <3>2, Zenon
  <2>7. /\ turn' \in Turn /\ turn'.call = turn.call /\ turn'.answer = turn.answer
        /\ turn'.status = "stopped"
      BY <2>5, <2>6 DEF TurnOk, Turn
  <2>8. turn.call = c /\ "stopped" \notin Running
      BY <2>1, <2>5 DEF TurnOk, Running
  <2> QED  BY <2>1, <2>2, <2>5, <2>7, <2>8 DEF TurnOk
<1> QED  BY <1>1, <1>2, <1>3 DEF Asking

\* The tokens that come are those of the turn.
LEMMA TurnBrings ==
    ASSUME StreamInv, NEW c \in Calls, pc[c] = "reading", NEW more, Brings(c, more), turn # None,
           TurnOk(turn, pc, handled), turn' # None
    PROVE  TurnOk(turn', pc, handled')
<1>1. /\ more \in Seq(Event) /\ handled[c] \in Seq(Event) /\ Shapes
      /\ handled'[c] = handled[c] \o more
      /\ turn' = [turn EXCEPT !.answer = @ \o TokensOf(more)]
    BY DEF Brings, StreamInv, Shapes
<1>2. turn.call = c /\ turn \in Turn
    BY DEF TurnOk, Running
<1>3. turn.answer = TokensOf(handled[c])
    BY <1>2 DEF TurnOk
<1>4. TokensOf(handled[c] \o more) = TokensOf(handled[c]) \o TokensOf(more)
    BY <1>1, TokensJoin
<1>5. TokensOf(more) \in Seq(Data)
    BY <1>1, TokensTyped
<1>6. PICK answer \in Seq(Data) : answer = turn.answer \o TokensOf(more)
  <2>1. turn.answer \in Seq(Data)
      BY <1>2 DEF Turn
  <2>2. turn.answer \o TokensOf(more) \in Seq(Data)
      BY <1>5, <2>1, ConcatProperties
  <2> QED  BY <2>2
<1>7. turn' = [turn EXCEPT !.answer = answer]
    BY <1>1, <1>6
<1>8. /\ turn' \in Turn /\ turn'.call = c /\ turn'.answer = answer
      /\ turn'.status = turn.status
    BY <1>2, <1>7 DEF Turn
<1>9. turn'.answer = TokensOf(handled'[c])
    BY <1>1, <1>3, <1>4, <1>6, <1>8
<1> QED  BY <1>2, <1>8, <1>9 DEF TurnOk

LEMMA TurnStreams ==
    ASSUME StreamInv, TurnInv, NEW c \in Calls, Streams(c)
    PROVE  TurnInv'
<1>1. Shapes
    BY DEF StreamInv
<1>2. SUFFICES ASSUME turn' # None PROVE TurnOk(turn', pc', handled')
    BY DEF TurnInv, TurnOk
<1>3. "reading" \in Running
    BY DEF Running
<1>4. CASE Read(c)
  <2>1. PICK more : Brings(c, more)
      BY <1>4, Reads
  <2>2. turn # None
      BY <1>2, <2>1 DEF Brings
  <2>3. pc[c] = "reading" /\ (pc' = pc \/ pc' = [pc EXCEPT ![c] = "refreshing"])
      BY <1>4 DEF Read, Fails
  <2>4. TurnOk(turn', pc, handled')
      BY <1>2, <2>1, <2>2, <2>3, TurnParts, TurnBrings
  <2>5. CASE pc' = [pc EXCEPT ![c] = "refreshing"]
      BY <1>1, <1>3, <2>3, <2>4, <2>5, TurnEnds DEF Shapes
  <2> QED  BY <2>3, <2>4, <2>5
<1>5. CASE Finish(c)
  <2>1. pc' = [pc EXCEPT ![c] = "refreshing"] /\ (\E more : Brings(c, more)) /\ pc[c] = "reading"
      BY <1>2, <1>5, Finishes DEF Finish
  <2>2. PICK more : Brings(c, more)
      BY <2>1
  <2>3. turn # None
      BY <1>2, <2>2 DEF Brings
  <2>4. TurnOk(turn', pc, handled')
      BY <1>2, <2>1, <2>2, <2>3, TurnParts, TurnBrings
  <2> QED  BY <1>1, <1>3, <2>1, <2>4, TurnEnds DEF Shapes
<1>6. CASE Break(c)
  <2>1. /\ pc[c] \in Running /\ pc' = [pc EXCEPT ![c] = "refreshing"]
        /\ UNCHANGED <<turn, handled>>
      BY <1>6 DEF Break, Fails
  <2>2. TurnOk(turn, pc, handled)
      BY <1>2, <2>1, TurnParts
  <2>3. TurnOk(turn, pc', handled)
      BY <1>1, <2>1, <2>2, TurnEnds DEF Shapes
  <2> QED  BY <2>1, <2>3
<1>7. CASE Refreshed(c)
  <2>1. /\ pc[c] = "refreshing" /\ pc' = [pc EXCEPT ![c] = "failed"] /\ UNCHANGED handled
        /\ turn' = Marked(turn, "error", FALSE)
      BY <1>7 DEF Refreshed
  <2>2. pc'[c] = "failed" /\ \A b \in Calls \ {c} : pc'[b] = pc[b]
      BY <1>1, <2>1 DEF Shapes
  <2>3. turn # None
      BY <1>2, <2>1 DEF Marked
  <2>4. TurnOk(turn, pc, handled)
      BY <2>3, TurnParts
  <2>5. turn' = [turn EXCEPT !.status = "error", !.shown = FALSE]
      BY <2>1, <2>3 DEF Marked
  <2>6. /\ turn' \in Turn /\ turn'.call = turn.call /\ turn'.answer = turn.answer
        /\ turn'.status = "error"
      BY <2>4, <2>5 DEF TurnOk, Turn
  <2>7. "failed" \notin Running
      BY DEF Running
  <2> QED  BY <2>1, <2>2, <2>4, <2>6, <2>7 DEF TurnOk
<1> QED  BY <1>4, <1>5, <1>6, <1>7 DEF Streams

LEMMA TurnStep == StreamInv /\ TurnInv /\ [Next]_vars => TurnInv'
<1> SUFFICES ASSUME StreamInv, TurnInv, [Next]_vars PROVE TurnInv'
    OBVIOUS
<1>1. CASE UNCHANGED vars
    BY <1>1 DEF vars, server, client, TurnInv
<1>2. ASSUME NEW k \in Chats, Refetch(k) PROVE TurnInv'
    BY <1>2 DEF Refetch, server, TurnInv
<1> QED  BY <1>1, <1>2, TurnServing, TurnAsking, TurnStreams DEF Next

\* "Drives one streamed answer at a time" (useChatStream.ts): the answer on the screen
\* is made of the tokens of its own question, whatever is asked, stopped or replaced.
THEOREM LiveTurn == Spec => []LiveTurnIsItsOwn
<1>1. Init => TurnInv
    BY DEF Init, TurnInv
<1>2. TurnInv => LiveTurnIsItsOwn
    BY DEF TurnInv, LiveTurnIsItsOwn
<1> QED  BY <1>1, <1>2, StreamInit, StreamStep, TurnStep, PTL DEF Spec

-----------------------------------------------------------------------------
(* The messages: what the server has saved, and what the cache says of it *)

Msg == Calls \X {"user", "assistant"}

LEMMA SavesOnce ==
    ASSUME NEW S, NEW s \in Seq(S), NEW m \in S, NEW w, w = Append(s, m)
    PROVE  /\ w \in Seq(S) /\ ToSet(w) = ToSet(s) \cup {m}
           /\ IsInjective(s) /\ m \notin ToSet(s) => IsInjective(w)
<1>1. PICK n \in Nat : n = Len(s)
    OBVIOUS
<1>2. w \in Seq(S) /\ Len(w) = n + 1 /\ w[n + 1] = m /\ \A i \in 1 .. n : w[i] = s[i]
    BY <1>1, AppendProperties
<1>3. DOMAIN s = 1 .. n /\ DOMAIN w = 1 .. n + 1
    BY <1>1, <1>2
<1>4. \A i : i \in 1 .. n + 1 <=> i \in 1 .. n \/ i = n + 1
    OBVIOUS
<1>5. ToSet(w) = ToSet(s) \cup {m}
  <2>1. ToSet(w) = {w[i] : i \in 1 .. n + 1} /\ ToSet(s) = {s[i] : i \in 1 .. n}
      BY <1>3 DEF ToSet
  <2> QED  BY <1>2, <1>4, <2>1
<1>6. ASSUME IsInjective(s), m \notin ToSet(s) PROVE IsInjective(w)
  <2>1. \A i \in 1 .. n : s[i] # m
      BY <1>3, <1>6 DEF ToSet
  <2>2. \A i, j \in 1 .. n : s[i] = s[j] => i = j
      BY <1>3, <1>6 DEF IsInjective
  <2>3. \A i, j \in 1 .. n + 1 : w[i] = w[j] => i = j
      BY <1>2, <1>4, <2>1, <2>2
  <2> QED  BY <1>3, <2>3 DEF IsInjective
<1> QED  BY <1>2, <1>5, <1>6

LEMMA SavesMessage ==
    \A s \in Seq(Msg), m \in Msg :
        /\ Append(s, m) \in Seq(Msg) /\ ToSet(Append(s, m)) = ToSet(s) \cup {m}
        /\ IsInjective(s) /\ m \notin ToSet(s) => IsInjective(Append(s, m))
<1> DEFINE S == Msg
<1>1. \A s \in Seq(S), m \in S :
          /\ Append(s, m) \in Seq(S) /\ ToSet(Append(s, m)) = ToSet(s) \cup {m}
          /\ IsInjective(s) /\ m \notin ToSet(s) => IsInjective(Append(s, m))
  <2> HIDE DEF S
  <2> QED  BY SavesOnce
<1> QED  BY <1>1

SavedInv ==
    /\ DOMAIN saved = Chats
    /\ \A k \in Chats :
         /\ saved[k] \in Seq(Msg) /\ IsInjective(saved[k])
         /\ \A c \in Calls :
              /\ <<c, "user">> \in ToSet(saved[k]) => serving[c] # "none"
              /\ <<c, "assistant">> \in ToSet(saved[k]) => serving[c] \in {"saved", "closed"}
    /\ \A c \in Calls :
         /\ serving[c] # "none" => <<c, "user">> \in ToSet(saved[ChatOf[c]])
         /\ serving[c] = "saved" \/ Bears(written[c], "done") =>
              <<c, "assistant">> \in ToSet(saved[ChatOf[c]])
         /\ written[c] # <<>> => serving[c] # "none"

LEMMA SavedInit == Init => SavedInv
<1> SUFFICES ASSUME Init PROVE SavedInv
    OBVIOUS
<1>1. <<>> \in Seq(Msg) /\ DOMAIN <<>> = {} /\ ToSet(<<>>) = {} /\ IsInjective(<<>>)
    BY DEF ToSet, IsInjective
<1>2. ~Bears(<<>>, "done")
    BY NothingYet
<1> QED  BY <1>1, <1>2 DEF Init, SavedInv

\* Saving a message that nobody has saved, and the place the server is at then.
LEMMA SavedSaves ==
    ASSUME StreamInv, SavedInv, NEW c \in Calls, NEW role \in {"user", "assistant"}, Save(c, role),
           UNCHANGED written, NEW to, serving' = [serving EXCEPT ![c] = to],
           \/ role = "user" /\ serving[c] = "none" /\ to = "preparing"
           \/ role = "assistant" /\ serving[c] = "answering" /\ to = "saved"
    PROVE  SavedInv'
<1>1. PICK m \in Msg : m = <<c, role>>
    BY DEF Msg
<1>2. PICK k \in Chats : k = ChatOf[c]
    BY ClientAssumption
<1>3. /\ DOMAIN saved = Chats /\ DOMAIN serving = Calls
      /\ saved[k] \in Seq(Msg) /\ IsInjective(saved[k])
    BY DEF SavedInv, StreamInv, Shapes
<1>4. /\ saved'[k] = Append(saved[k], m) /\ DOMAIN saved' = Chats
      /\ \A h \in Chats \ {k} : saved'[h] = saved[h]
      /\ serving'[c] = to /\ \A b \in Calls \ {c} : serving'[b] = serving[b]
    BY <1>1, <1>2, <1>3 DEF Save
<1>5. m \notin ToSet(saved[k])
    BY <1>1 DEF SavedInv
<1>6. /\ saved'[k] \in Seq(Msg) /\ ToSet(saved'[k]) = ToSet(saved[k]) \cup {m}
      /\ IsInjective(saved'[k])
  <2>1. PICK s \in Seq(Msg) : s = saved[k]
      BY <1>3
  <2>2. PICK w : w = Append(s, m)
      OBVIOUS
  <2>3. /\ w \in Seq(Msg) /\ ToSet(w) = ToSet(s) \cup {m}
        /\ IsInjective(s) /\ m \notin ToSet(s) => IsInjective(w)
      BY <1>1, <2>1, <2>2, SavesMessage
  <2>4. w = saved'[k]
      BY <1>4, <2>1, <2>2
  <2> QED  BY <1>3, <1>5, <2>1, <2>3, <2>4
<1>7. ASSUME NEW h \in Chats
      PROVE  /\ saved'[h] \in Seq(Msg) /\ IsInjective(saved'[h])
             /\ \A b \in Calls :
                  /\ <<b, "user">> \in ToSet(saved'[h]) => serving'[b] # "none"
                  /\ <<b, "assistant">> \in ToSet(saved'[h]) => serving'[b] \in {"saved", "closed"}
  <2>1. saved'[h] \in Seq(Msg) /\ IsInjective(saved'[h])
      BY <1>4, <1>6 DEF SavedInv
  <2>2. ASSUME NEW b \in Calls, NEW r \in {"user", "assistant"}, <<b, r>> \in ToSet(saved'[h])
        PROVE  <<b, r>> \in ToSet(saved[h]) \/ (b = c /\ r = role)
    <3>1. CASE h = k
      <4>1. <<b, r>> \in ToSet(saved[k]) \/ <<b, r>> = <<c, role>>
          BY <1>1, <1>6, <2>2, <3>1
      <4> QED  BY <3>1, <4>1
    <3>2. CASE h # k
        BY <1>4, <2>2, <3>2
    <3> QED  BY <3>1, <3>2
  <2>3. ASSUME NEW b \in Calls, <<b, "user">> \in ToSet(saved'[h]) PROVE serving'[b] # "none"
    <3>1. <<b, "user">> \in ToSet(saved[h]) \/ (b = c /\ role = "user")
        BY <2>2, <2>3
    <3> QED  BY <1>4, <3>1 DEF SavedInv
  <2>4. ASSUME NEW b \in Calls, <<b, "assistant">> \in ToSet(saved'[h])
        PROVE  serving'[b] \in {"saved", "closed"}
    <3>1. <<b, "assistant">> \in ToSet(saved[h]) \/ (b = c /\ role = "assistant")
        BY <2>2, <2>4
    <3> QED  BY <1>4, <3>1 DEF SavedInv
  <2> QED  BY <2>1, <2>3, <2>4
<1>8. ASSUME NEW b \in Calls
      PROVE  /\ serving'[b] # "none" => <<b, "user">> \in ToSet(saved'[ChatOf[b]])
             /\ serving'[b] = "saved" \/ Bears(written'[b], "done") =>
                  <<b, "assistant">> \in ToSet(saved'[ChatOf[b]])
             /\ written'[b] # <<>> => serving'[b] # "none"
  <2>1. ChatOf[b] \in Chats
      BY ClientAssumption
  <2>2. ToSet(saved[ChatOf[b]]) \subseteq ToSet(saved'[ChatOf[b]])
      BY <1>4, <1>6, <2>1
  <2>3. b = c => <<b, role>> \in ToSet(saved'[ChatOf[b]])
      BY <1>1, <1>2, <1>6
  <2> QED  BY <1>4, <2>2, <2>3 DEF SavedInv
<1> QED  BY <1>4, <1>7, <1>8 DEF SavedInv

\* The other steps of the server.
LEMMA SavedServes ==
    ASSUME StreamInv, SavedInv, NEW c \in Calls, UNCHANGED saved,
           NEW from, NEW to, Serve(c, from, to),
           from # "none" /\ to # "none" /\ to # "saved",
           from \in {"saved", "closed"} => to \in {"saved", "closed"},
           UNCHANGED written \/ \E event, data : /\ Write(c, event, data)
                                                 /\ event = "done" => from = "saved"
    PROVE  SavedInv'
<1>1. DOMAIN serving = Calls /\ DOMAIN written = Calls /\ written[c] \in Seq(Event)
    BY DEF StreamInv, Shapes, Stream, StreamOk, SoundAnswer
<1>2. /\ serving[c] = from /\ serving'[c] = to
      /\ \A b \in Calls \ {c} : serving'[b] = serving[b]
    BY <1>1 DEF Serve
<1>3. \A b \in Calls \ {c} : written'[b] = written[b]
    BY <1>1 DEF Write
<1>4. Bears(written'[c], "done") => from = "saved" \/ Bears(written[c], "done")
  <2>1. CASE UNCHANGED written
      BY <2>1
  <2>2. ASSUME NEW event, NEW data, Write(c, event, data), event = "done" => from = "saved"
        PROVE  Bears(written'[c], "done") => from = "saved" \/ Bears(written[c], "done")
    <3>1. PICK e : e = [event |-> event, data |-> data]
        OBVIOUS
    <3>2. written'[c] = Append(written[c], e) /\ e.event = event
        BY <1>1, <2>2, <3>1 DEF Write
    <3> QED  BY <1>1, <2>2, <3>2, HasMore
  <2> QED  BY <2>1, <2>2
<1>5. ASSUME NEW k \in Chats, NEW b \in Calls
      PROVE  /\ <<b, "user">> \in ToSet(saved[k]) => serving'[b] # "none"
             /\ <<b, "assistant">> \in ToSet(saved[k]) => serving'[b] \in {"saved", "closed"}
    BY <1>2 DEF SavedInv
<1>6. ASSUME NEW b \in Calls
      PROVE  /\ serving'[b] # "none" => <<b, "user">> \in ToSet(saved[ChatOf[b]])
             /\ serving'[b] = "saved" \/ Bears(written'[b], "done") =>
                  <<b, "assistant">> \in ToSet(saved[ChatOf[b]])
             /\ written'[b] # <<>> => serving'[b] # "none"
    BY <1>2, <1>3, <1>4 DEF SavedInv
<1> QED  BY <1>5, <1>6 DEF SavedInv

LEMMA SavedStep == StreamInv /\ SavedInv /\ [Next]_vars => SavedInv'
<1> SUFFICES ASSUME StreamInv, SavedInv, [Next]_vars PROVE SavedInv'
    OBVIOUS
<1>1. CASE UNCHANGED server
    BY <1>1 DEF server, SavedInv
<1>2. CASE UNCHANGED <<saved, serving, written>>
    BY <1>2 DEF SavedInv
<1>3. ASSUME NEW c \in Calls, Serving(c) PROVE SavedInv'
  <2>1. CASE SaveQuestion(c)
      BY <2>1, SavedSaves DEF SaveQuestion, Serve
  <2>2. CASE SaveAnswer(c)
      BY <2>2, SavedSaves DEF SaveAnswer, Serve
  <2>3. CASE Respond(c)
      BY <2>3, SavedServes DEF Respond
  <2>4. CASE Answer(c)
    <3>1. UNCHANGED saved /\ Serve(c, "answering", "answering")
        BY <2>4 DEF Answer
    <3>2. \E event, data : Write(c, event, data) /\ (event = "done" => "answering" = "saved")
        BY <2>4 DEF Answer
    <3> QED  BY <3>1, <3>2, SavedServes
  <2>5. CASE EndAnswer(c)
    <3>1. CASE Serve(c, "saved", "closed") /\ Write(c, "done", <<c>>)
        BY <2>5, <3>1, SavedServes DEF EndAnswer
    <3>2. CASE Serve(c, "answering", "closed") /\ Write(c, "error", <<c>>)
        BY <2>5, <3>2, SavedServes DEF EndAnswer
    <3>3. CASE Serve(c, "answering", "closed") /\ UNCHANGED written
        BY <2>5, <3>3, SavedServes DEF EndAnswer
    <3> QED  BY <2>5, <3>1, <3>2, <3>3 DEF EndAnswer
  <2> QED  BY <1>3, <2>1, <2>2, <2>3, <2>4, <2>5 DEF Serving
<1>4. ASSUME NEW c \in Calls, Asking(c) PROVE UNCHANGED <<saved, serving, written>>
    BY <1>4 DEF Asking, Ask, AskInNewChat, Created, CreateFails, Stop, Send, Forget, server
<1>5. ASSUME NEW c \in Calls, Streams(c) PROVE UNCHANGED <<saved, serving, written>>
    BY <1>5 DEF Streams, Read, Finish, Break, Refreshed, Forget, server
<1>6. ASSUME NEW k \in Chats, Refetch(k) PROVE UNCHANGED server
    BY <1>6 DEF Refetch
<1> QED  BY <1>1, <1>2, <1>3, <1>4, <1>5, <1>6 DEF Next, vars

-----------------------------------------------------------------------------
(* The cache *)

\* A cache that says nothing but the truth of what has been saved.
CacheOk(loaded, s) ==
    /\ DOMAIN loaded = Chats
    /\ \A k \in Chats : loaded[k] # None =>
         loaded[k] \in Seq(Msg) /\ IsInjective(loaded[k]) /\ ToSet(loaded[k]) \subseteq ToSet(s[k])

CacheInv == CacheOk(cache, saved)

LEMMA CacheAppends ==
    ASSUME NEW loaded, NEW s, CacheOk(loaded, s), NEW k \in Chats, NEW more \in Seq(Msg),
           IsInjective(more), ToSet(more) \subseteq ToSet(s[k])
    PROVE  CacheOk(Appended(loaded, k, more), s)
<1>1. CASE loaded[k] = None
    BY <1>1 DEF Appended
<1>2. CASE loaded[k] # None
  <2>1. PICK messages \in Seq(Msg) :
            /\ messages = loaded[k] /\ IsInjective(messages)
            /\ ToSet(messages) \subseteq ToSet(s[k])
      BY <1>2 DEF CacheOk
  <2>2. PICK merged : merged = Merged(messages, more)
      OBVIOUS
  <2>3. /\ IsInjective(merged) /\ merged \in Seq(Msg)
        /\ ToSet(merged) \subseteq ToSet(messages) \cup ToSet(more)
      BY <2>1, <2>2, MergesOnce
  <2>4. Appended(loaded, k, more) = [loaded EXCEPT ![k] = merged]
      BY <1>2, <2>1, <2>2 DEF Appended
  <2>5. ToSet(merged) \subseteq ToSet(s[k])
      BY <2>1, <2>3
  <2> QED  BY <2>3, <2>4, <2>5 DEF CacheOk
<1> QED  BY <1>1, <1>2

\* A question whose "meta" the client has handled is saved.
LEMMA CacheStops ==
    ASSUME StreamInv, SavedInv, NEW b \in Calls, NEW loaded, CacheOk(loaded, saved)
    PROVE  CacheOk(Stopped(b, loaded), saved)
<1>1. CASE ~Has(b, "meta")
    BY <1>1 DEF Stopped
<1>2. CASE Has(b, "meta")
  <2>1. handled[b] # <<>>
    <3>1. DOMAIN <<>> = {}
        OBVIOUS
    <3> QED  BY <1>2, <3>1 DEF Has
  <2>2. written[b] # <<>>
      BY <2>1, StreamSays DEF StreamInv, Stream
  <2>3. <<b, "user">> \in ToSet(saved[ChatOf[b]])
      BY <2>2 DEF SavedInv
  <2>4. PICK more : more = <<<<b, "user">>>>
      OBVIOUS
  <2>5. more \in Seq(Msg)
    <3>1. <<b, "user">> \in Msg
        BY DEF Msg
    <3> QED  BY <2>4, <3>1
  <2>6. DOMAIN more = {1} /\ more[1] = <<b, "user">>
      BY <2>4
  <2>7. IsInjective(more) /\ ToSet(more) \subseteq ToSet(saved[ChatOf[b]])
      BY <2>3, <2>6 DEF IsInjective, ToSet
  <2>8. ChatOf[b] \in Chats
      BY ClientAssumption
  <2>9. Stopped(b, loaded) = Appended(loaded, ChatOf[b], more)
      BY <1>2, <2>4 DEF Stopped
  <2> QED  BY <2>5, <2>7, <2>8, <2>9, CacheAppends
<1> QED  BY <1>1, <1>2

LEMMA CacheSends ==
    ASSUME StreamInv, SavedInv, NEW c \in Calls, NEW loaded, CacheOk(loaded, saved),
           Send(c, loaded)
    PROVE  CacheInv'
<1>1. UNCHANGED saved
    BY DEF Send, Forget
<1>2. CASE cache' = loaded
    BY <1>1, <1>2 DEF CacheInv
<1>3. ASSUME NEW b \in Replaced(c), cache' = Stopped(b, loaded) PROVE CacheInv'
  <2>1. b \in Calls
      BY DEF Replaced
  <2>2. CacheOk(Stopped(b, loaded), saved)
      BY <2>1, CacheStops
  <2> QED  BY <1>1, <1>3, <2>2 DEF CacheInv
<1> QED  BY <1>2, <1>3 DEF Send

LEMMA CacheAsking ==
    ASSUME StreamInv, SavedInv, CacheInv, NEW c \in Calls, Asking(c)
    PROVE  CacheInv'
<1>1. CASE Ask(c)
    BY <1>1, CacheSends DEF Ask, CacheInv
<1>2. CASE AskInNewChat(c) \/ CreateFails(c)
    BY <1>2 DEF AskInNewChat, CreateFails, CacheInv, server
<1>3. CASE Created(c)
  <2>1. PICK loaded : loaded = [cache EXCEPT ![ChatOf[c]] = <<>>]
      OBVIOUS
  <2>2. /\ <<>> \in Seq(Msg) /\ DOMAIN <<>> = {} /\ IsInjective(<<>>)
        /\ \A S : ToSet(<<>>) \subseteq S
      BY DEF IsInjective, ToSet
  <2>3. CacheOk(loaded, saved)
      BY <2>1, <2>2 DEF CacheInv, CacheOk
  <2> QED  BY <1>3, <2>1, <2>3, CacheSends DEF Created
<1>4. CASE Stop(c)
  <2>1. cache' = Stopped(c, cache) /\ UNCHANGED saved
      BY <1>4 DEF Stop, Forget
  <2>2. CacheOk(Stopped(c, cache), saved)
      BY CacheStops DEF CacheInv
  <2> QED  BY <2>1, <2>2 DEF CacheInv
<1> QED  BY <1>1, <1>2, <1>3, <1>4 DEF Asking

\* A snapshot is a beginning of what is saved, and tells the truth as that does.
LEMMA CacheReads ==
    ASSUME SavedInv, CacheInv, NEW k \in Chats, NEW snapshot \in Snapshots(k),
           cache' = [cache EXCEPT ![k] = snapshot], UNCHANGED saved
    PROVE  CacheInv'
<1>1. PICK s \in Seq(Msg) : s = saved[k] /\ IsInjective(s)
    BY DEF SavedInv
<1>2. PICK m \in 0 .. Len(s) : snapshot = SubSeq(s, 1, m)
    BY <1>1 DEF Snapshots
<1>3. /\ snapshot \in Seq(Msg) /\ DOMAIN snapshot = 1 .. m
      /\ \A i \in 1 .. m : i \in DOMAIN s /\ snapshot[i] = s[i]
    BY <1>1, <1>2
<1>4. IsInjective(snapshot)
  <2>1. ASSUME NEW i \in 1 .. m, NEW j \in 1 .. m, snapshot[i] = snapshot[j] PROVE i = j
    <3>1. i \in DOMAIN s /\ j \in DOMAIN s /\ s[i] = s[j]
        BY <1>3, <2>1
    <3> QED  BY <1>1, <3>1 DEF IsInjective
  <2> QED  BY <1>3, <2>1 DEF IsInjective
<1>5. ToSet(snapshot) \subseteq ToSet(saved[k])
    BY <1>1, <1>3 DEF ToSet
<1> QED  BY <1>3, <1>4, <1>5 DEF CacheInv, CacheOk

LEMMA CacheStreams ==
    ASSUME StreamInv, SavedInv, CacheInv, NEW c \in Calls, Streams(c)
    PROVE  CacheInv'
<1>1. UNCHANGED saved
    BY DEF Streams, Read, Finish, Break, Refreshed, Forget, server
<1>2. CASE UNCHANGED cache
    BY <1>1, <1>2 DEF CacheInv
<1>3. CASE Finish(c) /\ ~UNCHANGED cache
  <2>1. PICK more : more = <<<<c, "user">>, <<c, "assistant">>>>
      OBVIOUS
  <2>2. cache' = Appended(cache, ChatOf[c], more) /\ Bears(written[c], "done") /\ serving[c] = "closed"
      BY <1>3, <2>1, Finishes DEF Finish
  <2>3. <<c, "user">> \in ToSet(saved[ChatOf[c]]) /\ <<c, "assistant">> \in ToSet(saved[ChatOf[c]])
      BY <2>2 DEF SavedInv
  <2>4. more \in Seq(Msg)
    <3>1. <<c, "user">> \in Msg /\ <<c, "assistant">> \in Msg
        BY DEF Msg
    <3> QED  BY <2>1, <3>1
  <2>5. DOMAIN more = {1, 2} /\ more[1] = <<c, "user">> /\ more[2] = <<c, "assistant">>
      BY <2>1
  <2>6. IsInjective(more)
    <3>1. more[1] # more[2]
        BY <2>5
    <3> QED  BY <2>5, <3>1 DEF IsInjective
  <2>7. ToSet(more) \subseteq ToSet(saved[ChatOf[c]])
      BY <2>3, <2>5 DEF ToSet
  <2>8. ChatOf[c] \in Chats
      BY ClientAssumption
  <2>9. CacheOk(Appended(cache, ChatOf[c], more), saved)
      BY <2>4, <2>6, <2>7, <2>8, CacheAppends DEF CacheInv
  <2> QED  BY <1>1, <2>2, <2>9 DEF CacheInv
<1>4. CASE Refreshed(c)
  <2>1. UNCHANGED cache \/ \E snapshot \in Snapshots(ChatOf[c]) : cache' = [cache EXCEPT ![ChatOf[c]] = snapshot]
      BY <1>4 DEF Refreshed
  <2>2. ChatOf[c] \in Chats
      BY ClientAssumption
  <2> QED  BY <1>1, <1>2, <2>1, <2>2, CacheReads
<1> QED  BY <1>2, <1>3, <1>4 DEF Streams, Read, Break, Fails

LEMMA CacheStep == StreamInv /\ SavedInv /\ CacheInv /\ [Next]_vars => CacheInv'
<1> SUFFICES ASSUME StreamInv, SavedInv, CacheInv, [Next]_vars PROVE CacheInv'
    OBVIOUS
<1>1. CASE UNCHANGED vars
    BY <1>1 DEF vars, server, client, CacheInv
<1>2. ASSUME NEW k \in Chats, Refetch(k) PROVE CacheInv'
  <2>1. PICK snapshot \in Snapshots(k) : cache' = [cache EXCEPT ![k] = snapshot] /\ UNCHANGED saved
      BY <1>2 DEF Refetch, server
  <2> QED  BY <2>1, CacheReads
<1>3. ASSUME NEW c \in Calls, Serving(c) PROVE CacheInv'
  <2>1. UNCHANGED cache
      BY <1>3 DEF Serving, SaveQuestion, Respond, Answer, SaveAnswer, EndAnswer, client
  <2>2. \A k \in Chats : ToSet(saved[k]) \subseteq ToSet(saved'[k])
    <3>1. CASE UNCHANGED saved
        BY <3>1
    <3>2. ASSUME NEW role \in {"user", "assistant"}, Save(c, role)
          PROVE  \A k \in Chats : ToSet(saved[k]) \subseteq ToSet(saved'[k])
      <4> SUFFICES ASSUME NEW k \in Chats PROVE ToSet(saved[k]) \subseteq ToSet(saved'[k])
          OBVIOUS
      <4>1. PICK m \in Msg : m = <<c, role>>
          BY DEF Msg
      <4>2. saved[k] \in Seq(Msg) /\ DOMAIN saved = Chats
          BY DEF SavedInv
      <4>3. saved'[k] = saved[k] \/ saved'[k] = Append(saved[k], m)
          BY <3>2, <4>1, <4>2 DEF Save
      <4>4. ToSet(Append(saved[k], m)) = ToSet(saved[k]) \cup {m}
          BY <4>1, <4>2, SavesMessage
      <4> QED  BY <4>3, <4>4
    <3> QED  BY <1>3, <3>1, <3>2
             DEF Serving, SaveQuestion, Respond, Answer, SaveAnswer, EndAnswer
  <2> QED  BY <2>1, <2>2 DEF CacheInv, CacheOk
<1> QED  BY <1>1, <1>2, <1>3, CacheAsking, CacheStreams DEF Next

LEMMA CacheMeans == CacheInv => CacheTellsTheTruth
BY DEF CacheInv, CacheOk, CacheTellsTheTruth

\* Through optimistic updates, stops, late refetches and their races, a message in
\* the cache of a chat is one the server has saved there, and none is twice
\* (appendToCache in useChatStream.ts).
THEOREM CacheIsTrue == Spec => []CacheTellsTheTruth
<1>1. Init => CacheInv
    BY DEF Init, CacheInv, CacheOk
<1> QED  BY <1>1, SavedInit, SavedStep, StreamInit, StreamStep, CacheStep, CacheMeans, PTL DEF Spec

================================================================================
