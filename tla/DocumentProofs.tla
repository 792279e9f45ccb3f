--------------------------- MODULE DocumentProofs ---------------------------
(***************************************************************************)
(* Proofs about Undo and Document.  The two lists of a CUndo never outgrow *)
(* the limit, and folded around the current state they are the tape of     *)
(* UndoHistory.  The commands of a document use CUndo as module Undo       *)
(* describes it, and a document that counts as received from the Mirage    *)
(* keeps the rate it came with in everything Undo and Redo can bring back. *)
(***************************************************************************)
EXTENDS Document, SequenceTheorems, TLAPS

-----------------------------------------------------------------------------
(* CUndo.                                                                  *)

UndoInv == UndoTypeOK /\ WithinLevels

\* A sequence without its last element.
LEMMA FrontShape ==
  ASSUME NEW S, NEW s \in Seq(S), s # <<>>
  PROVE  /\ Front(s) \in Seq(S)
         /\ Len(Front(s)) = Len(s) - 1
         /\ \A i \in 1..(Len(s) - 1) : Front(s)[i] = s[i]
<1> DEFINE n == Len(s) - 1
<1>1. n \in Nat /\ Front(s) = SubSeq(s, 1, n) /\ \A i \in 1..n : s[i] \in S
  BY DEF Front
<1> HIDE DEF n
<1>2. n - 1 + 1 = n /\ (~(1 <= n) => n = 0)
  BY <1>1
<1>3. /\ SubSeq(s, 1, n) \in Seq(S)
      /\ Len(SubSeq(s, 1, n)) = IF 1 <= n THEN n - 1 + 1 ELSE 0
      /\ \A i \in 1..(n - 1 + 1) : SubSeq(s, 1, n)[i] = s[1 + i - 1]
  BY <1>1, SubSeqProperties
<1>4. \A i \in 1..n : Front(s)[i] = s[i]
  BY <1>1, <1>2, <1>3
<1>5. Front(s) \in Seq(S) /\ Len(Front(s)) = n
  BY <1>1, <1>2, <1>3
<1> QED  BY <1>4, <1>5 DEF n

\* A sequence with an element put in front.
LEMMA ConsShape ==
  ASSUME NEW S, NEW s \in Seq(S), NEW e \in S
  PROVE  /\ <<e>> \o s \in Seq(S)
         /\ Len(<<e>> \o s) = Len(s) + 1
         /\ (<<e>> \o s)[1] = e
         /\ \A i \in 1..Len(s) : (<<e>> \o s)[i + 1] = s[i]
<1>1. <<e>> \in Seq(S) /\ Len(<<e>>) = 1 /\ <<e>>[1] = e
  OBVIOUS
<1> QED  BY <1>1, ConcatProperties

\* The head and the tail of a sequence.
LEMMA TailShape ==
  ASSUME NEW S, NEW s \in Seq(S), s # <<>>
  PROVE  /\ Head(s) \in S /\ Head(s) = s[1]
         /\ Tail(s) \in Seq(S)
         /\ Len(Tail(s)) = Len(s) - 1
         /\ \A i \in 1..(Len(s) - 1) : Tail(s)[i] = s[i + 1]
OBVIOUS

\* Putting an element in front and taking it away, in either order.
LEMMA ConsTail ==
  ASSUME NEW S, NEW s \in Seq(S), NEW e \in S
  PROVE  /\ Tail(<<e>> \o s) = s /\ Head(<<e>> \o s) = e /\ <<e>> \o s # <<>>
         /\ s # <<>> => <<Head(s)>> \o Tail(s) = s
<1>1. /\ <<e>> \o s \in Seq(S) /\ Len(<<e>> \o s) = Len(s) + 1
      /\ (<<e>> \o s)[1] = e
      /\ \A i \in 1..Len(s) : (<<e>> \o s)[i + 1] = s[i]
  BY ConsShape
<1> DEFINE t == <<e>> \o s
<1> HIDE DEF t
<1>2. /\ t \in Seq(S) /\ Len(t) = Len(s) + 1 /\ t[1] = e
      /\ \A i \in 1..Len(s) : t[i + 1] = s[i]
  BY <1>1 DEF t
<1>3. t # <<>> /\ Head(t) = e /\ Tail(t) = s
  <2>1. t # <<>>
    BY <1>2
  <2>2. /\ Head(t) = e /\ Tail(t) \in Seq(S) /\ Len(Tail(t)) = Len(s)
        /\ \A i \in 1..Len(s) : Tail(t)[i] = s[i]
    BY <1>2, <2>1, TailShape
  <2> QED  BY <2>1, <2>2, SeqEqual
<1>4. ASSUME s # <<>> PROVE <<Head(s)>> \o Tail(s) = s
  BY <1>4
<1> QED  BY <1>3, <1>4 DEF t

\* A reversed sequence.
LEMMA ReverseShape ==
  ASSUME NEW S, NEW s \in Seq(S)
  PROVE  /\ Reverse(s) \in Seq(S)
         /\ Len(Reverse(s)) = Len(s)
         /\ \A i \in 1..Len(s) : Reverse(s)[i] = s[Len(s) - i + 1]
<1>1. \A i \in 1..Len(s) : s[Len(s) - i + 1] \in S
  OBVIOUS
<1> QED  BY <1>1 DEF Reverse

\* What AddUndo returns: the new state first, then the list, which loses its last state when
\* it is over the limit.
LEMMA AddUndoShape ==
  ASSUME NEW list \in Seq(Content), NEW file \in Content
  PROVE  LET kept == IF Len(list) > m_undoLevels THEN Len(list) - 1 ELSE Len(list)
             new == AddUndo(list, file)
         IN  /\ new \in Seq(Content)
             /\ Len(new) = kept + 1
             /\ new[1] = file
             /\ \A i \in 1..kept : new[i + 1] = list[i]
<1>1. CASE Len(list) > m_undoLevels
  <2>1. list # <<>>
    BY <1>1, LevelsAssumption
  <2>2. /\ Front(list) \in Seq(Content) /\ Len(Front(list)) = Len(list) - 1
        /\ \A i \in 1..(Len(list) - 1) : Front(list)[i] = list[i]
    BY <2>1, FrontShape
  <2>3. AddUndo(list, file) = <<file>> \o Front(list)
    BY <1>1 DEF Front, AddUndo
  <2> QED  BY <1>1, <2>2, <2>3, ConsShape
<1>2. CASE ~(Len(list) > m_undoLevels)
  <2>1. AddUndo(list, file) = <<file>> \o list
    BY <1>2 DEF Front, AddUndo
  <2> QED  BY <1>2, <2>1, ConsShape
<1> QED  BY <1>1, <1>2

\* The types and the bound hold in every state: a CheckPoint prunes what is over the limit,
\* Undo and Redo only move states from one list to the other.
LEMMA UndoInvariant == UndoSpec => []UndoInv
<1>1. UndoInit => UndoInv
  BY LevelsAssumption DEF UndoInit, UndoInv, UndoTypeOK, WithinLevels
<1>2. UndoInv /\ [UndoNext]_undoVars => UndoInv'
  <2> SUFFICES ASSUME UndoInv, [UndoNext]_undoVars PROVE UndoInv'
    OBVIOUS
  <2>0. /\ doc \in Content /\ m_undolist \in Seq(Content) /\ m_redolist \in Seq(Content)
        /\ Len(m_undolist) + Len(m_redolist) <= m_undoLevels + 1 /\ m_undolist # <<>>
    BY DEF UndoInv, UndoTypeOK, WithinLevels
  <2>1. ASSUME NEW c \in Content, Edit(c) PROVE UndoInv'
    BY <2>0, <2>1 DEF Edit, UndoInv, UndoTypeOK, WithinLevels
  <2>2. ASSUME NEW c \in Content, CheckPoint(c) PROVE UndoInv'
    <3> DEFINE new == AddUndo(m_undolist, c)
    <3>1. /\ new \in Seq(Content)
          /\ Len(new) = IF Len(m_undolist) > m_undoLevels THEN Len(m_undolist)
                        ELSE Len(m_undolist) + 1
      BY <2>0, AddUndoShape
    <3>2. doc' = c /\ m_undolist' = new /\ m_redolist' = <<>>
      BY <2>2 DEF CheckPoint
    <3> HIDE DEF new
    <3> QED  BY <2>0, <3>1, <3>2, LevelsAssumption DEF UndoInv, UndoTypeOK, WithinLevels
  <2>3. CASE DoUndo
    <3>1. m_undolist # <<>> /\ Tail(m_undolist) # <<>>
      <4>1. Len(m_undolist) > 1 /\ Len(Tail(m_undolist)) = Len(m_undolist) - 1
        BY <2>0, <2>3, TailShape DEF DoUndo, CanUndo
      <4> QED  BY <4>1
    <3>2. /\ m_undolist' \in Seq(Content) /\ Len(m_undolist') = Len(m_undolist) - 1
          /\ doc' \in Content /\ m_undolist' # <<>>
      BY <2>0, <2>3, <3>1, TailShape DEF DoUndo
    <3>3. m_redolist' \in Seq(Content) /\ Len(m_redolist') = Len(m_redolist) + 1
      BY <2>0, <2>3, <3>1, TailShape, ConsShape DEF DoUndo
    <3> QED  BY <2>0, <3>2, <3>3, LevelsAssumption DEF UndoInv, UndoTypeOK, WithinLevels
  <2>4. CASE DoRedo
    <3>1. Head(m_redolist) \in Content /\ Len(m_undolist) <= m_undoLevels
          /\ Tail(m_redolist) \in Seq(Content) /\ Len(Tail(m_redolist)) = Len(m_redolist) - 1
      BY <2>0, <2>4, LevelsAssumption DEF DoRedo, CanRedo
    <3> DEFINE new == AddUndo(m_undolist, Head(m_redolist))
    <3>2. new \in Seq(Content) /\ Len(new) = Len(m_undolist) + 1
      <4>1. ~(Len(m_undolist) > m_undoLevels)
        BY <2>0, <3>1, LevelsAssumption
      <4>2. ASSUME NEW f \in Content
            PROVE  /\ AddUndo(m_undolist, f) \in Seq(Content)
                   /\ Len(AddUndo(m_undolist, f)) = Len(m_undolist) + 1
        BY <2>0, <4>1, AddUndoShape
      <4> QED  BY <3>1, <4>2
    <3>3. doc' = Head(m_redolist) /\ m_undolist' = new /\ m_redolist' = Tail(m_redolist)
      BY <2>4 DEF DoRedo
    <3> HIDE DEF new
    <3> QED  BY <2>0, <3>1, <3>2, <3>3, LevelsAssumption DEF UndoInv, UndoTypeOK, WithinLevels
  <2>5. CASE UNCHANGED undoVars
    BY <2>0, <2>5 DEF undoVars, UndoInv, UndoTypeOK, WithinLevels
  <2> QED  BY <2>1, <2>2, <2>3, <2>4, <2>5 DEF UndoNext
<1> QED  BY <1>1, <1>2, PTL DEF UndoSpec

\* The variables of CUndo keep their types.
THEOREM UndoTypeCorrect == UndoSpec => []UndoTypeOK
<1>1. UndoInv => UndoTypeOK
  BY DEF UndoInv
<1> QED  BY <1>1, UndoInvariant, PTL

\* For any number of levels, CUndo's lists stay within the limit, so a Redo never drops a
\* state, and Undo always has one to load.
THEOREM Bounded == UndoSpec => []WithinLevels
<1>1. UndoInv => WithinLevels
  BY DEF UndoInv
<1> QED  BY <1>1, UndoInvariant, PTL

-----------------------------------------------------------------------------
(* The refinement.                                                         *)

\* Two lists folded around the current state, laid out as a tape.
Tape(undolist, redolist) == Reverse(undolist) \o redolist

LEMMA TapeShape ==
  ASSUME NEW u \in Seq(Content), NEW r \in Seq(Content)
  PROVE  /\ Tape(u, r) \in Seq(Content)
         /\ Len(Tape(u, r)) = Len(u) + Len(r)
         /\ \A i \in 1..Len(u) : Tape(u, r)[i] = u[Len(u) - i + 1]
         /\ \A i \in 1..Len(r) : Tape(u, r)[Len(u) + i] = r[i]
<1>1. /\ Reverse(u) \in Seq(Content) /\ Len(Reverse(u)) = Len(u)
      /\ \A i \in 1..Len(u) : Reverse(u)[i] = u[Len(u) - i + 1]
  BY ReverseShape
<1> DEFINE v == Reverse(u)
<1> HIDE DEF v
<1>2. /\ v \in Seq(Content) /\ Len(v) = Len(u)
      /\ \A i \in 1..Len(u) : v[i] = u[Len(u) - i + 1]
  BY <1>1 DEF v
<1>3. /\ v \o r \in Seq(Content) /\ Len(v \o r) = Len(u) + Len(r)
      /\ \A i \in 1..Len(u) : (v \o r)[i] = u[Len(u) - i + 1]
      /\ \A i \in 1..Len(r) : (v \o r)[Len(u) + i] = r[i]
  <2>0. v \in Seq(Content)
    BY <1>2
  <2>1. /\ v \o r \in Seq(Content) /\ Len(v \o r) = Len(v) + Len(r)
        /\ \A i \in 1..(Len(v) + Len(r)) :
             (v \o r)[i] = IF i <= Len(v) THEN v[i] ELSE r[i - Len(v)]
    BY <2>0, ConcatProperties
  <2>2. Len(u) \in Nat /\ Len(r) \in Nat
    OBVIOUS
  <2>3. ASSUME NEW i \in 1..Len(u) PROVE (v \o r)[i] = u[Len(u) - i + 1]
    <3>1. i \in 1..(Len(v) + Len(r)) /\ i <= Len(v)
      BY <1>2, <2>2, <2>3
    <3> QED  BY <1>2, <2>1, <2>3, <3>1
  <2>4. ASSUME NEW i \in 1..Len(r) PROVE (v \o r)[Len(u) + i] = r[i]
    <3> DEFINE k == Len(u) + i
    <3>1. k \in 1..(Len(v) + Len(r)) /\ ~(k <= Len(v)) /\ k - Len(v) = i
      BY <1>2, <2>2, <2>4
    <3> HIDE DEF k
    <3>2. (v \o r)[k] = r[i]
      BY <2>1, <3>1
    <3> QED  BY <3>2 DEF k
  <2> QED  BY <1>2, <2>1, <2>3, <2>4
<1> QED  BY <1>3 DEF Tape, v

\* Moving the head of one list to the other leaves the tape as it is.
LEMMA TapeMove ==
  ASSUME NEW u \in Seq(Content), NEW r \in Seq(Content), u # <<>>
  PROVE  Tape(Tail(u), <<Head(u)>> \o r) = Tape(u, r)
<1> DEFINE t == Tail(u)
           q == <<Head(u)>> \o r
<1>1. /\ t \in Seq(Content) /\ Len(t) = Len(u) - 1 /\ Len(u) \in Nat \ {0}
      /\ Head(u) = u[1] /\ Head(u) \in Content
      /\ \A i \in 1..(Len(u) - 1) : t[i] = u[i + 1]
  BY TailShape
<1>2. /\ q \in Seq(Content) /\ Len(q) = Len(r) + 1 /\ Len(r) \in Nat
      /\ q[1] = Head(u) /\ \A i \in 1..Len(r) : q[i + 1] = r[i]
  BY <1>1, ConsShape
<1> HIDE DEF t, q
<1>3. /\ Tape(t, q) \in Seq(Content) /\ Len(Tape(t, q)) = Len(u) + Len(r)
      /\ \A i \in 1..Len(t) : Tape(t, q)[i] = t[Len(t) - i + 1]
      /\ \A i \in 1..Len(q) : Tape(t, q)[Len(t) + i] = q[i]
  <2>1. Len(t) + Len(q) = Len(u) + Len(r)
    BY <1>1, <1>2
  <2> QED  BY <1>1, <1>2, <2>1, TapeShape
<1>4. /\ Tape(u, r) \in Seq(Content) /\ Len(Tape(u, r)) = Len(u) + Len(r)
      /\ \A i \in 1..Len(u) : Tape(u, r)[i] = u[Len(u) - i + 1]
      /\ \A i \in 1..Len(r) : Tape(u, r)[Len(u) + i] = r[i]
  BY TapeShape
<1>5. ASSUME NEW i \in 1..(Len(u) + Len(r)) PROVE Tape(t, q)[i] = Tape(u, r)[i]
  <2>1. CASE i \in 1..Len(t)
    <3>1. Len(t) - i + 1 \in 1..(Len(u) - 1) /\ (Len(t) - i + 1) + 1 = Len(u) - i + 1
      BY <1>1, <2>1
    <3>2. i \in 1..Len(u)
      BY <1>1, <2>1
    <3> QED  BY <1>1, <1>3, <1>4, <2>1, <3>1, <3>2
  <2>2. CASE i = Len(u)
    <3>1. 1 \in 1..Len(q) /\ i = Len(t) + 1 /\ i \in 1..Len(u) /\ Len(u) - i + 1 = 1
      BY <1>1, <1>2, <2>2
    <3> QED  BY <1>1, <1>2, <1>3, <1>4, <3>1
  <2>3. CASE i > Len(u)
    <3> DEFINE k == i - Len(u)
    <3>1. k \in 1..Len(r) /\ i = Len(u) + k /\ i = Len(t) + (k + 1) /\ k + 1 \in 1..Len(q)
      BY <1>1, <1>2, <2>3
    <3> HIDE DEF k
    <3> QED  BY <1>2, <1>3, <1>4, <3>1
  <2> QED  BY <1>1, <1>2, <2>1, <2>2, <2>3
<1> QED  BY <1>3, <1>4, <1>5, SeqEqual DEF t, q

\* A CheckPoint cuts the tape behind the cursor, drops its oldest state when it is full and
\* adds the new one.
LEMMA TapeCheckPoint ==
  ASSUME NEW u \in Seq(Content), NEW r \in Seq(Content), NEW c \in Content
  PROVE  LET kept == SubSeq(Tape(u, r), 1, Len(u))
         IN  Tape(AddUndo(u, c), <<>>)
               = Append(IF Len(u) > m_undoLevels THEN Tail(kept) ELSE kept, c)
<1> DEFINE v == Reverse(u)
           new == AddUndo(u, c)
           full == Len(u) > m_undoLevels
           k == IF full THEN Tail(v) ELSE v
           n == IF full THEN Len(u) - 1 ELSE Len(u)
<1>0. Len(u) \in Nat /\ n \in Nat /\ (full => Len(u) > 0)
  BY LevelsAssumption
<1>1. /\ v \in Seq(Content) /\ Len(v) = Len(u)
      /\ \A i \in 1..Len(u) : v[i] = u[Len(u) - i + 1]
  BY ReverseShape
<1>2. SubSeq(Tape(u, r), 1, Len(u)) = v
  <2> DEFINE kept == SubSeq(Tape(u, r), 1, Len(u))
  <2>0. \A i \in 1..Len(u) : u[Len(u) - i + 1] \in Content
    BY <1>0
  <2>1. /\ Tape(u, r) \in Seq(Content)
        /\ \A i \in 1..Len(u) : Tape(u, r)[i] = u[Len(u) - i + 1]
        /\ \A i \in 1..Len(u) : Tape(u, r)[i] \in Content
    BY <2>0, TapeShape
  <2>2. kept \in Seq(Content) /\ Len(kept) = Len(u)
        /\ \A i \in 1..Len(u) : kept[i] = Tape(u, r)[i]
    BY <1>0, <2>1, SubSeqProperties
  <2> HIDE DEF v, kept
  <2> QED  BY <1>1, <2>1, <2>2, SeqEqual DEF kept
<1>3. /\ new \in Seq(Content) /\ Len(new) = n + 1 /\ new[1] = c
      /\ \A i \in 1..n : new[i + 1] = u[i]
  BY AddUndoShape
<1>4. /\ k \in Seq(Content) /\ Len(k) = n
      /\ \A i \in 1..n : k[i] = u[n - i + 1]
  <2>1. CASE full
    <3>1. v # <<>>
      BY <1>0, <1>1, <2>1
    <3>2. /\ Tail(v) \in Seq(Content) /\ Len(Tail(v)) = Len(u) - 1
          /\ \A i \in 1..(Len(u) - 1) : Tail(v)[i] = v[i + 1]
      BY <1>1, <3>1, TailShape
    <3>3. ASSUME NEW i \in 1..n PROVE Tail(v)[i] = u[n - i + 1]
      <4>1. i \in 1..(Len(u) - 1) /\ i + 1 \in 1..Len(u)
            /\ Len(u) - (i + 1) + 1 = n - i + 1
        BY <1>0, <2>1
      <4> HIDE DEF v
      <4> QED  BY <1>1, <3>2, <4>1
    <3> HIDE DEF v
    <3> QED  BY <2>1, <3>2, <3>3
  <2>2. CASE ~full
    BY <1>1, <2>2
  <2> QED  BY <2>1, <2>2
<1> HIDE DEF v, new, k, n
<1>5. /\ Tape(new, <<>>) \in Seq(Content) /\ Len(Tape(new, <<>>)) = n + 1
      /\ \A i \in 1..(n + 1) : Tape(new, <<>>)[i] = new[(n + 1) - i + 1]
  <2>1. <<>> \in Seq(Content) /\ Len(<<>>) = 0
    OBVIOUS
  <2>2. Tape(new, <<>>) \in Seq(Content) /\ Len(Tape(new, <<>>)) = Len(new) + Len(<<>>)
        /\ \A i \in 1..Len(new) : Tape(new, <<>>)[i] = new[Len(new) - i + 1]
    BY <1>3, <2>1, TapeShape
  <2> QED  BY <1>0, <1>3, <2>1, <2>2
<1>6. /\ Append(k, c) \in Seq(Content) /\ Len(Append(k, c)) = n + 1
      /\ Append(k, c)[n + 1] = c /\ \A i \in 1..n : Append(k, c)[i] = k[i]
  BY <1>4
<1>7. ASSUME NEW i \in 1..(n + 1) PROVE Tape(new, <<>>)[i] = Append(k, c)[i]
  <2>1. CASE i = n + 1
    <3>1. (n + 1) - i + 1 = 1
      BY <1>0, <2>1
    <3> QED  BY <1>3, <1>5, <1>6, <2>1, <3>1
  <2>2. CASE i \in 1..n
    <3>1. n - i + 1 \in 1..n /\ (n + 1) - i + 1 = (n - i + 1) + 1
      BY <1>0, <2>2
    <3>2. Tape(new, <<>>)[i] = new[(n - i + 1) + 1]
      BY <1>5, <3>1
    <3>3. k[i] = u[n - i + 1] /\ Append(k, c)[i] = k[i]
      BY <1>4, <1>6, <2>2
    <3>4. new[(n - i + 1) + 1] = u[n - i + 1]
      BY <1>3, <3>1
    <3> QED  BY <3>2, <3>3, <3>4
  <2>3. i \in Nat /\ 1 <= i /\ i <= n + 1 /\ n \in Nat
    BY <1>0
  <2>4. i = n + 1 \/ i \in 1..n
    BY <2>3
  <2> QED  BY <2>1, <2>2, <2>4
<1>8. Tape(new, <<>>) = Append(k, c)
  BY <1>5, <1>6, <1>7, SeqEqual
<1> QED  BY <1>2, <1>8 DEF new, k, v

\* Every step of CUndo is a step of the tape.
LEMMA StepImplements == UndoInv /\ [UndoNext]_undoVars => [History!Next]_(History!vars)
<1> SUFFICES ASSUME UndoInv, [UndoNext]_undoVars PROVE [History!Next]_(History!vars)
  OBVIOUS
<1>0. /\ m_undolist \in Seq(Content) /\ m_redolist \in Seq(Content)
      /\ Len(m_undolist) + Len(m_redolist) <= m_undoLevels + 1 /\ m_undolist # <<>>
  BY DEF UndoInv, UndoTypeOK, WithinLevels
<1> DEFINE t == Tape(m_undolist, m_redolist)
<1>t. /\ t \in Seq(Content) /\ Len(t) = Len(m_undolist) + Len(m_redolist)
      /\ \A i \in 1..Len(m_undolist) : t[i] = m_undolist[Len(m_undolist) - i + 1]
      /\ \A i \in 1..Len(m_redolist) : t[Len(m_undolist) + i] = m_redolist[i]
  BY <1>0, TapeShape
<1>1. ASSUME NEW c \in Content, Edit(c) PROVE History!Next
  BY <1>1 DEF Edit, History!Next, History!Edit
<1>2. ASSUME NEW c \in Content, CheckPoint(c) PROVE History!Next
  <2>1. doc' = c /\ m_undolist' = AddUndo(m_undolist, c) /\ m_redolist' = <<>>
    BY <1>2 DEF CheckPoint
  <2>2. t' = Append(IF Len(m_undolist) > m_undoLevels
                    THEN Tail(SubSeq(t, 1, Len(m_undolist)))
                    ELSE SubSeq(t, 1, Len(m_undolist)), c)
    BY <1>0, <2>1, TapeCheckPoint
  <2>3. Len(m_undolist') = Len(t')
    <3>1. m_undolist' \in Seq(Content) /\ <<>> \in Seq(Content) /\ Len(<<>>) = 0
      BY <1>0, <2>1, AddUndoShape
    <3>2. Len(Tape(m_undolist', <<>>)) = Len(m_undolist') + 0
      BY <3>1, TapeShape
    <3> QED  BY <2>1, <3>1, <3>2
  <2>4. History!Commit(c)
    BY <2>1, <2>2, <2>3 DEF History!Commit, Tape, Reverse
  <2> QED  BY <2>4 DEF History!Next
<1>3. CASE DoUndo
  <2>1. /\ Len(m_undolist) > 1 /\ m_undolist' = Tail(m_undolist)
        /\ m_redolist' = <<Head(m_undolist)>> \o m_redolist /\ doc' = Head(m_undolist')
    BY <1>3 DEF DoUndo, CanUndo
  <2>2. t' = t
    BY <1>0, <2>1, TapeMove
  <2>3. Len(m_undolist') = Len(m_undolist) - 1 /\ doc' = m_undolist[2]
    <3>1. Tail(m_undolist) # <<>>
      BY <1>0, <2>1, TailShape
    <3> QED  BY <1>0, <2>1, <3>1, TailShape
  <2>4. doc' = t[Len(m_undolist')]
    <3>1. Len(m_undolist) - 1 \in 1..Len(m_undolist)
          /\ Len(m_undolist) - (Len(m_undolist) - 1) + 1 = 2
      BY <1>0, <2>1
    <3> QED  BY <1>t, <2>3, <3>1
  <2>5. History!Undo
    BY <2>1, <2>2, <2>3, <2>4 DEF History!Undo, Tape, Reverse
  <2> QED  BY <2>5 DEF History!Next
<1>4. CASE DoRedo
  <2>1. /\ Len(m_redolist) > 0 /\ m_redolist' = Tail(m_redolist)
        /\ m_undolist' = AddUndo(m_undolist, Head(m_redolist)) /\ doc' = Head(m_redolist)
    BY <1>4 DEF DoRedo, CanRedo
  <2>2. ~(Len(m_undolist) > m_undoLevels) /\ m_redolist # <<>>
    BY <1>0, <2>1, LevelsAssumption
  <2>3. m_undolist' = <<Head(m_redolist)>> \o m_undolist
    BY <2>1, <2>2 DEF Front, AddUndo
  <2>4. /\ Head(m_redolist) \in Content /\ Head(m_redolist) = m_redolist[1]
        /\ m_redolist' \in Seq(Content)
    BY <1>0, <2>1, <2>2, TailShape
  <2>5. /\ m_undolist' \in Seq(Content) /\ Len(m_undolist') = Len(m_undolist) + 1
        /\ Tail(m_undolist') = m_undolist /\ Head(m_undolist') = Head(m_redolist)
        /\ m_undolist' # <<>>
    BY <1>0, <2>3, <2>4, ConsShape, ConsTail
  <2>6. <<Head(m_undolist')>> \o m_redolist' = m_redolist
    BY <1>0, <2>1, <2>2, <2>4, <2>5, ConsTail
  <2>7. t' = t
    BY <2>4, <2>5, <2>6, TapeMove
  <2>8. doc' = t[Len(m_undolist')] /\ Len(m_undolist) < Len(t)
    <3>1. 1 \in 1..Len(m_redolist) /\ Len(m_undolist) \in Nat
      BY <1>0, <2>1
    <3>2. t[Len(m_undolist) + 1] = m_redolist[1]
      BY <1>t, <3>1
    <3>3. Len(m_undolist) < Len(t)
      BY <1>t, <3>1
    <3> QED  BY <2>1, <2>4, <2>5, <3>2, <3>3
  <2>9. History!Redo
    BY <2>5, <2>7, <2>8 DEF History!Redo, Tape, Reverse
  <2> QED  BY <2>9 DEF History!Next
<1>5. CASE UNCHANGED undoVars
  BY <1>5 DEF undoVars, History!vars
<1> QED  BY <1>1, <1>2, <1>3, <1>4, <1>5 DEF UndoNext

\* CUndo implements the promise of UndoHistory for any contents and any number of levels:
\* what Undo and Redo load is what was saved at that place, and they forget nothing.
THEOREM Refinement == UndoSpec => Implements
<1>1. UndoInit => History!Init
  <2> SUFFICES ASSUME UndoInit PROVE History!Init
    OBVIOUS
  <2>1. <<doc>> \in Seq(Content) /\ <<>> \in Seq(Content) /\ Len(<<doc>>) = 1
        /\ Len(<<>>) = 0 /\ <<doc>>[1] = doc
    BY DEF UndoInit
  <2>2. /\ Tape(<<doc>>, <<>>) \in Seq(Content) /\ Len(Tape(<<doc>>, <<>>)) = 1
        /\ Tape(<<doc>>, <<>>)[1] = doc
    <3>1. ASSUME NEW u \in Seq(Content), NEW r \in Seq(Content), Len(u) = 1, Len(r) = 0
          PROVE  /\ Tape(u, r) \in Seq(Content) /\ Len(Tape(u, r)) = 1
                 /\ Tape(u, r)[1] = u[1]
      <4>1. /\ Tape(u, r) \in Seq(Content) /\ Len(Tape(u, r)) = Len(u) + Len(r)
            /\ \A i \in 1..Len(u) : Tape(u, r)[i] = u[Len(u) - i + 1]
        BY TapeShape
      <4>2. 1 \in 1..Len(u) /\ Len(u) - 1 + 1 = 1 /\ Len(u) + Len(r) = 1
        BY <3>1
      <4>3. Tape(u, r)[1] = u[Len(u) - 1 + 1]
        BY <4>1, <4>2
      <4> QED  BY <4>1, <4>2, <4>3
    <3> QED  BY <2>1, <3>1
  <2>3. Tape(<<doc>>, <<>>) = <<doc>>
    BY <2>1, <2>2, SeqEqual
  <2> QED  BY <2>1, <2>3 DEF UndoInit, History!Init, Tape, Reverse
<1> QED  BY <1>1, UndoInvariant, StepImplements, PTL DEF UndoSpec, Implements, History!Spec

-----------------------------------------------------------------------------
(* The document.                                                           *)

\* A document whose wave and saved states all belong to S.
Holds(S) == doc \in S /\ m_undolist \in Seq(S) /\ m_redolist \in Seq(S)

\* The waves of the rate the document was received with.
Kept == [rate : {received}, data : Data]

\* FlagKeepsRate, said of the sequences instead of their elements.
KeepsRate == received # NoRate /\ m_FromMirage => Holds(Kept)

IInv == TypeOK /\ KeepsRate

-----------------------------------------------------------------------------
\* What is in a list of elements of S is in S.
LEMMA ToSetType ==
  ASSUME NEW S, NEW s \in Seq(S)
  PROVE  ToSet(s) \subseteq S
BY DEF ToSet

\* AddUndo adds one state and, at most, drops one.
LEMMA AddUndoHolds ==
  ASSUME NEW S, NEW list \in Seq(S), NEW file \in S
  PROVE  AddUndo(list, file) \in Seq(S)
<1>1. CASE Len(list) > m_undoLevels
  <2>1. list # <<>>
    BY <1>1, LevelsAssumption
  <2>2. Front(list) \in Seq(S)
    BY <2>1, FrontShape DEF Front
  <2> QED  BY <1>1, <2>2, ConsShape DEF AddUndo
<1>2. CASE ~(Len(list) > m_undoLevels)
  BY <1>2, ConsShape DEF AddUndo
<1> QED  BY <1>1, <1>2

\* Saving or changing a wave of S keeps the document within S.
LEMMA ChangeHolds ==
  ASSUME NEW S, Holds(S), NEW c \in S, CheckPoint(c) \/ Edit(c)
  PROVE  Holds(S)'
<1>1. CASE CheckPoint(c)
  BY <1>1, AddUndoHolds DEF Holds, CheckPoint
<1>2. CASE Edit(c)
  BY <1>2 DEF Holds, Edit
<1> QED  BY <1>1, <1>2

\* Undo and Redo only move states from one list to the other.
LEMMA MoveHolds ==
  ASSUME NEW S, Holds(S), DoUndo \/ DoRedo
  PROVE  Holds(S)'
<1>1. CASE DoUndo
  <2>0. m_undolist \in Seq(S) /\ Len(m_undolist) > 1
    BY <1>1 DEF Holds, DoUndo, CanUndo
  <2>1. /\ Tail(m_undolist) \in Seq(S) /\ Len(Tail(m_undolist)) > 0
        /\ Head(m_undolist) \in S
    BY <2>0, HeadTailProperties
  <2>2. Head(Tail(m_undolist)) \in S
    BY <2>1, HeadTailProperties
  <2>3. <<Head(m_undolist)>> \o m_redolist \in Seq(S)
    BY <2>1, ConsShape DEF Holds
  <2> QED  BY <1>1, <2>1, <2>2, <2>3 DEF Holds, DoUndo
<1>2. CASE DoRedo
  <2>1. Head(m_redolist) \in S /\ Tail(m_redolist) \in Seq(S)
    BY <1>2 DEF Holds, DoRedo, CanRedo
  <2>2. AddUndo(m_undolist, Head(m_redolist)) \in Seq(S)
    BY <2>1, AddUndoHolds DEF Holds
  <2> QED  BY <1>2, <2>1, <2>2 DEF Holds, DoRedo
<1> QED  BY <1>1, <1>2

-----------------------------------------------------------------------------
\* What a step does to the document and its lists: it changes the data of the wave and not
\* its rate, or moves between saved states, or resamples and clears the flag.
LEMMA StepKinds ==
  ASSUME IInv, [Next]_vars
  PROVE  \/ \E d \in Data : /\ \/ CheckPoint([doc EXCEPT !.data = d])
                               \/ Edit([doc EXCEPT !.data = d])
                            /\ UNCHANGED <<m_FromMirage, received>>
         \/ (DoUndo \/ DoRedo) /\ UNCHANGED <<m_FromMirage, received>>
         \/ \E c \in Wave : CheckPoint(c) /\ m_FromMirage' = FALSE
                            /\ UNCHANGED received
         \/ UNCHANGED <<doc, m_undolist, m_redolist, m_FromMirage, received>>
<1>1. CASE EditMenu
  BY <1>1 DEF EditMenu, OnEditCut, OnEditPaste, OnPastespecial, OnTruncateAfterloop, OnTruncate,
              OnEditCopy, OnEditUndo, OnEditRedo, originVars, undoVars
<1>2. CASE ToolsMenu
  <2>1. ASSUME NEW d \in Data, NEW r \in Rate, Resample(d, r)
        PROVE  \E c \in Wave : CheckPoint(c) /\ m_FromMirage' = FALSE
                               /\ UNCHANGED received
    <3>1. [rate |-> r, data |-> d] \in Wave
      BY DEF Wave
    <3> QED  BY <2>1, <3>1 DEF Resample
  <2> QED  BY <1>2, <2>1 DEF ToolsMenu, OnTools, LoopToggle, originVars
<1>3. CASE Mouse
  <2>1. ASSUME CheckPoint(doc), UNCHANGED <<m_FromMirage, received>>
        PROVE  \E d \in Data : /\ CheckPoint([doc EXCEPT !.data = d])
                               /\ UNCHANGED <<m_FromMirage, received>>
    <3>1. doc.data \in Data /\ [doc EXCEPT !.data = doc.data] = doc
      BY DEF IInv, TypeOK, Wave
    <3> QED  BY <2>1, <3>1
  <2> QED  BY <1>3, <2>1 DEF Mouse, OnLButtonDown, DragSelection, DragLoopPoint, OnLButtonUp,
                             OnRButtonUp, originVars, undoVars
<1>4. CASE OnSaveDocument
  BY <1>4 DEF OnSaveDocument, originVars, undoVars
<1>5. ASSUME NEW r \in Rate \cup {NoRate}, ClipboardElsewhere(r)
      PROVE  UNCHANGED <<doc, m_undolist, m_redolist, m_FromMirage, received>>
  BY <1>5 DEF ClipboardElsewhere, originVars, undoVars
<1>6. CASE UNCHANGED vars
  BY <1>6 DEF vars, undoVars
<1> QED  BY <1>1, <1>2, <1>3, <1>4, <1>5, <1>6 DEF Next

\* The document's waves stay waves, and stay at the received rate while the flag is set.
LEMMA HistoryInvariant ==
  ASSUME IInv, [Next]_vars
  PROVE  Holds(Wave)' /\ KeepsRate'
<1>0. Holds(Wave)
  BY DEF IInv, TypeOK, Holds
<1>1. ASSUME NEW d \in Data, UNCHANGED <<m_FromMirage, received>>,
             \/ CheckPoint([doc EXCEPT !.data = d])
             \/ Edit([doc EXCEPT !.data = d])
      PROVE  Holds(Wave)' /\ KeepsRate'
  <2>1. [doc EXCEPT !.data = d] \in Wave
    BY <1>0 DEF Holds, Wave
  <2>2. Holds(Wave)'
    BY <1>0, <1>1, <2>1, ChangeHolds
  <2>3. ASSUME Holds(Kept) PROVE Holds(Kept)'
    <3>1. [doc EXCEPT !.data = d] \in Kept
      BY <2>3 DEF Holds, Kept
    <3>2. ASSUME NEW S, S = Kept PROVE Holds(S)'
      BY <1>1, <2>3, <3>1, <3>2, ChangeHolds
    <3>3. Kept' = Kept
      BY <1>1 DEF Kept
    <3> QED  BY <3>2, <3>3 DEF Holds
  <2> QED  BY <1>1, <2>2, <2>3 DEF IInv, KeepsRate
<1>2. ASSUME DoUndo \/ DoRedo, UNCHANGED <<m_FromMirage, received>>
      PROVE  Holds(Wave)' /\ KeepsRate'
  <2>1. Holds(Wave)'
    BY <1>0, <1>2, MoveHolds
  <2>2. ASSUME Holds(Kept) PROVE Holds(Kept)'
    <3>1. ASSUME NEW S, S = Kept PROVE Holds(S)'
      BY <1>2, <2>2, <3>1, MoveHolds
    <3>2. Kept' = Kept
      BY <1>2 DEF Kept
    <3> QED  BY <3>1, <3>2 DEF Holds
  <2> QED  BY <1>2, <2>1, <2>2 DEF IInv, KeepsRate
<1>3. ASSUME NEW c \in Wave, CheckPoint(c), m_FromMirage' = FALSE, UNCHANGED received
      PROVE  Holds(Wave)' /\ KeepsRate'
  BY <1>0, <1>3, ChangeHolds DEF KeepsRate
<1>4. ASSUME UNCHANGED <<doc, m_undolist, m_redolist, m_FromMirage, received>>
      PROVE  Holds(Wave)' /\ KeepsRate'
  BY <1>0, <1>4 DEF IInv, KeepsRate, Holds, Kept
<1> QED  BY <1>1, <1>2, <1>3, <1>4, StepKinds

\* The variables of the view and the file keep their types.
LEMMA ViewTypes ==
  ASSUME IInv, [Next]_vars
  PROVE  /\ saved' \in Wave /\ m_FromMirage' \in BOOLEAN /\ m_Modified' \in BOOLEAN
         /\ m_selection' \in BOOLEAN /\ selected' \in BOOLEAN
         /\ received' \in Rate \cup {NoRate} /\ clip' \in Rate \cup {NoRate}
<1>0. TypeOK /\ doc.rate \in Rate
  BY DEF IInv, TypeOK, Wave
<1>1. CASE EditMenu
  BY <1>0, <1>1 DEF TypeOK, EditMenu, OnEditCut, OnEditPaste, OnPastespecial, OnTruncateAfterloop,
      OnTruncate, OnEditCopy, OnEditUndo, OnEditRedo, originVars, fileVars, viewVars
<1>2. CASE ToolsMenu
  BY <1>0, <1>2 DEF TypeOK, ToolsMenu, OnTools, LoopToggle, Resample, originVars, fileVars, viewVars
<1>3. CASE Mouse
  BY <1>0, <1>3 DEF TypeOK, Mouse, OnLButtonDown, DragSelection, DragLoopPoint, OnLButtonUp,
      OnRButtonUp, originVars, fileVars, viewVars
<1>4. CASE OnSaveDocument
  BY <1>0, <1>4 DEF TypeOK, OnSaveDocument, originVars, viewVars
<1>5. ASSUME NEW r \in Rate \cup {NoRate}, ClipboardElsewhere(r)
      PROVE  /\ UNCHANGED <<saved, m_FromMirage, m_Modified, m_selection, selected, received>>
             /\ clip' = r
  BY <1>5 DEF ClipboardElsewhere, originVars, fileVars, viewVars
<1>6. CASE UNCHANGED vars
  BY <1>0, <1>6 DEF TypeOK, vars
<1> QED  BY <1>0, <1>1, <1>2, <1>3, <1>4, <1>5, <1>6 DEF Next, TypeOK

LEMMA Invariant == Spec => []IInv
<1>1. Init => IInv
  <2> SUFFICES ASSUME Init PROVE IInv
    OBVIOUS
  <2>0. InitView
    BY DEF Init, CreateNewFromMirage, OnOpenDocument
  <2>1. /\ doc \in Wave /\ m_undolist = <<doc>> /\ m_redolist = <<>>
        /\ saved = doc /\ clip \in Rate \cup {NoRate}
        /\ m_Modified = FALSE /\ m_selection = FALSE /\ selected = FALSE
    BY <2>0, WaveAssumption DEF InitView, UndoInit
  <2>2. /\ m_FromMirage \in BOOLEAN
        /\ received = NoRate \/ received = doc.rate
    BY DEF Init, CreateNewFromMirage, OnOpenDocument
  <2>3. TypeOK
    <3>1. doc.rate \in Rate
      BY <2>1 DEF Wave
    <3>2. m_undolist \in Seq(Wave) /\ m_redolist \in Seq(Wave)
      BY <2>1
    <3>3. received \in Rate \cup {NoRate}
      BY <2>2, <3>1
    <3>4. m_Modified \in BOOLEAN /\ m_selection \in BOOLEAN /\ selected \in BOOLEAN
      BY <2>1, Zenon
    <3> QED  BY <2>1, <2>2, <3>2, <3>3, <3>4, Zenon DEF TypeOK
  <2>4. ASSUME received = doc.rate PROVE Holds(Kept)
    <3>1. doc \in Kept
      BY <2>1, <2>4 DEF Kept, Wave
    <3> QED  BY <2>1, <3>1 DEF Holds
  <2> QED  BY <2>2, <2>3, <2>4 DEF IInv, KeepsRate
<1>2. IInv /\ [Next]_vars => IInv'
  BY HistoryInvariant, ViewTypes DEF IInv, TypeOK, Holds
<1> QED  BY <1>1, <1>2, PTL DEF Spec

-----------------------------------------------------------------------------
\* The document's variables keep their types: Undo and Redo load waves.
THEOREM TypeCorrect == Spec => []TypeOK
<1>1. IInv => TypeOK
  BY DEF IInv
<1> QED  BY <1>1, Invariant, PTL

\* A sample received from the Mirage whose flag is set has its old rate, and so has every
\* state in its history, for any data, rates and number of levels.
THEOREM RateKept == Spec => []FlagKeepsRate
<1>1. IInv => FlagKeepsRate
  <2> SUFFICES ASSUME IInv, received # NoRate, m_FromMirage, NEW w \in Reachable
               PROVE  w.rate = received
    BY DEF FlagKeepsRate
  <2>1. Holds(Kept)
    BY DEF IInv, KeepsRate
  <2>2. ToSet(m_undolist) \subseteq Kept /\ ToSet(m_redolist) \subseteq Kept
    BY <2>1, ToSetType DEF Holds
  <2>3. w \in Kept
    BY <2>1, <2>2 DEF Reachable, Holds
  <2> QED  BY <2>3 DEF Kept
<1> QED  BY <1>1, Invariant, PTL

\* Every command is a CheckPoint, an Undo, a Redo or a change of the wave between two of
\* them, so what is proved of CUndo holds for the document's history.
THEOREM HistoryImplements == Spec => UsesUndo
<1>1. Init => UndoInit
  BY DEF Init, CreateNewFromMirage, OnOpenDocument, InitView
<1>2. IInv /\ [Next]_vars => [UndoNext]_undoVars
  <2> SUFFICES ASSUME IInv, [Next]_vars PROVE [UndoNext]_undoVars
    OBVIOUS
  <2>1. ASSUME NEW d \in Data PROVE [doc EXCEPT !.data = d] \in Wave
    BY DEF IInv, TypeOK, Wave
  <2> QED  BY <2>1, StepKinds, WaveAssumption DEF UndoNext, undoVars
<1> QED  BY <1>1, <1>2, Invariant, PTL DEF Spec, UsesUndo, UndoSpec

\* So Undo and Redo of a document walk over its saved waves and forget none of them, whatever
\* the commands between them were.
THEOREM DocumentHistory == Spec => Implements
BY HistoryImplements, Refinement DEF UsesUndo

\* And a document always has a state for Undo to go back to, within the limit.
THEOREM DocumentBounded == Spec => []WithinLevels
BY HistoryImplements, Bounded DEF UsesUndo

\* A document without the modified flag is the one in its file after every command but those
\* named: the others that change the wave set the flag, and the end of a drag saves a state
\* of the wave as it is.
THEOREM ModifiedTold == Spec => FlagTold
<1> DEFINE Named == EditMenu \/ \E d \in Data : LoopToggle(d) \/ DragLoopPoint(d)
<1>1. [Next]_vars => [Told => Told' \/ Named]_vars
  <2> SUFFICES ASSUME Next, Told, ~Named PROVE Told'
    OBVIOUS
  <2>1. ASSUME NEW d \in Data, OnTools(d) PROVE Told'
    BY <2>1 DEF OnTools, Told
  <2>2. ASSUME NEW d \in Data, NEW r \in Rate, Resample(d, r) PROVE Told'
    BY <2>2 DEF Resample, Told
  <2>3. CASE OnLButtonUp \/ OnRButtonUp
    BY <2>3 DEF OnLButtonUp, OnRButtonUp, CheckPoint, fileVars, Told
  <2>4. CASE DragSelection \/ \E shift \in BOOLEAN : OnLButtonDown(shift)
    BY <2>4 DEF DragSelection, OnLButtonDown, undoVars, fileVars, Told
  <2>5. CASE OnSaveDocument
    BY <2>5 DEF OnSaveDocument, undoVars, Told
  <2>6. CASE \E r \in Rate \cup {NoRate} : ClipboardElsewhere(r)
    BY <2>6 DEF ClipboardElsewhere, undoVars, fileVars, Told
  <2> QED  BY <2>1, <2>2, <2>3, <2>4, <2>5, <2>6 DEF Next, ToolsMenu, Mouse
<1> QED  BY <1>1, PTL DEF Spec, FlagTold

=============================================================================
