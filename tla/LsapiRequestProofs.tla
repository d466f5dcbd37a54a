-------------------------- MODULE LsapiRequestProofs --------------------------
(***************************************************************************)
(* Proofs about the request I/O of a child process, for every size of its  *)
(* buffers, packets, headers and iovec.                                    *)
(***************************************************************************)
EXTENDS LsapiRequest, SequenceTheorems, WellFoundedInduction, TLAPS

----------------------------------------------------------------------------
(* Natural numbers *)

\* A set of natural numbers has a smallest one.
LEMMA Smallest ==
  ASSUME NEW T \in SUBSET Nat, T # {}
  PROVE  \E x \in T : \A y \in T : x <= y
  <1>1. PICK x \in T : \A y \in T : ~(<<y, x>> \in OpToRel(<, Nat))
    BY NatLessThanWellFounded, WFMin, Zenon
  <1>2. ASSUME NEW y \in T PROVE ~(y < x)
    <2>1. y \in Nat /\ x \in Nat
      OBVIOUS
    <2> QED
      BY <1>1, <2>1, Zenon DEF OpToRel
  <1>3. \A y \in T : x <= y
    BY <1>2
  <1> QED
    BY <1>3

\* A set that holds the numbers up to m one after the other holds them all.
LEMMA UpTo ==
  ASSUME NEW m \in Nat, NEW T, 0 \in T,
         \A k \in 0..m : k < m /\ k \in T => k + 1 \in T
  PROVE  \A k \in 0..m : k \in T
  <1> SUFFICES ASSUME NEW k \in 0..m, k \notin T PROVE FALSE
    OBVIOUS
  <1> DEFINE U == {j \in 0..m : j \notin T}
  <1>1. U \in SUBSET Nat /\ U # {}
    OBVIOUS
  <1>2. PICK x \in U : \A y \in U : x <= y
    BY <1>1, Smallest
  <1>3. x # 0 /\ x \in 0..m /\ x \notin T
    OBVIOUS
  <1>4. x - 1 \in 0..m /\ x - 1 < m /\ (x - 1) + 1 = x /\ ~(x <= x - 1)
    BY <1>3
  <1>5. x - 1 \in T
    BY <1>2, <1>4
  <1> QED
    BY <1>3, <1>4, <1>5

----------------------------------------------------------------------------
(* Sequences *)

\* A function on 1..n is a sequence of length n.
LEMMA MakeSeq ==
  ASSUME NEW n \in Nat, NEW S, NEW f \in [1..n -> S]
  PROVE  f \in Seq(S) /\ Len(f) = n
  OBVIOUS

\* The elements of a joined sequence.
LEMMA JoinElements ==
  ASSUME NEW S, NEW s \in Seq(S), NEW t \in Seq(S)
  PROVE  /\ s \o t \in Seq(S) /\ Len(s \o t) = Len(s) + Len(t)
         /\ \A i \in 1..Len(s) : (s \o t)[i] = s[i]
         /\ \A i \in 1..Len(t) : (s \o t)[Len(s) + i] = t[i]
  OBVIOUS

\* Nothing joined to a sequence.
LEMMA JoinEmpty ==
  ASSUME NEW S, NEW s \in Seq(S)
  PROVE  s \o <<>> = s /\ <<>> \o s = s
  OBVIOUS

\* Two sequences are the same if they have the same elements.
LEMMA SameSeq ==
  ASSUME NEW S, NEW s \in Seq(S), NEW t \in Seq(S), Len(s) = Len(t),
         \A i \in 1..Len(s) : s[i] = t[i]
  PROVE  s = t
  BY SeqEqual

\* A sequence cut in two.
LEMMA CutSeq ==
  ASSUME NEW S, NEW s \in Seq(S), NEW n \in 0..Len(s)
  PROVE  /\ SubSeq(s, 1, n) \in Seq(S) /\ Len(SubSeq(s, 1, n)) = n
         /\ \A i \in 1..n : SubSeq(s, 1, n)[i] = s[i]
         /\ SubSeq(s, n + 1, Len(s)) \in Seq(S)
         /\ Len(SubSeq(s, n + 1, Len(s))) = Len(s) - n
         /\ \A i \in 1..(Len(s) - n) : SubSeq(s, n + 1, Len(s))[i] = s[n + i]
  OBVIOUS

----------------------------------------------------------------------------
(* Joined(C, n) *)

\* v[j] is what the first j sequences of C give.
Joins(v, m, C) ==
  v = [j \in 0..m |-> IF j = 0 THEN <<>> ELSE v[j - 1] \o C[j]]

\* There is such a v.
LEMMA JoinExists ==
  ASSUME NEW m \in Nat, NEW C
  PROVE  \E v : Joins(v, m, C)
  <1> DEFINE T == {k \in 0..m : \E v : Joins(v, k, C)}
  <1>1. 0 \in T
    <2>1. PICK v : v = [j \in 0..0 |-> <<>>]
      OBVIOUS
    <2>2. \A j \in 0..0 : j = 0
      OBVIOUS
    <2>3. Joins(v, 0, C)
      BY <2>1, <2>2 DEF Joins
    <2> QED
      BY <2>3
  <1>2. ASSUME NEW n \in 0..m, n < m, n \in T PROVE n + 1 \in T
    <2>1. PICK v : Joins(v, n, C)
      BY <1>2
    <2>2. PICK w : w = [j \in 0..(n + 1) |->
                          IF j = n + 1 THEN v[n] \o C[n + 1] ELSE v[j]]
      OBVIOUS
    <2>3. \A j \in 0..(n + 1) :
            w[j] = IF j = n + 1 THEN v[n] \o C[n + 1] ELSE v[j]
      BY <2>2
    <2>4. \A j \in 0..n : v[j] = IF j = 0 THEN <<>> ELSE v[j - 1] \o C[j]
      BY <2>1 DEF Joins
    <2>5. ASSUME NEW j \in 0..(n + 1)
          PROVE  w[j] = IF j = 0 THEN <<>> ELSE w[j - 1] \o C[j]
      <3>1. CASE j = n + 1
        <4>1. j - 1 = n /\ n \in 0..(n + 1) /\ n # n + 1 /\ j # 0
          BY <3>1
        <4> QED
          BY <2>3, <3>1, <4>1
      <3>2. CASE j = 0
        BY <2>3, <2>4, <3>2
      <3>3. CASE j # n + 1 /\ j # 0
        <4>1. j \in 0..n /\ j - 1 \in 0..(n + 1) /\ j - 1 # n + 1
          BY <3>3
        <4> QED
          BY <2>3, <2>4, <3>3, <4>1
      <3> QED
        BY <3>1, <3>2, <3>3
    <2>6. Joins(w, n + 1, C)
      BY <2>2, <2>5 DEF Joins
    <2>7. n + 1 \in 0..m
      BY <1>2
    <2> QED
      BY <2>6, <2>7
  <1> HIDE DEF T
  <1>3. m \in T
    BY <1>1, <1>2, UpTo
  <1> QED
    BY <1>3 DEF T

\* Joined(C, m) is, although it is defined by a choice.
LEMMA JoinedIs ==
  ASSUME NEW m \in Nat, NEW C
  PROVE  /\ Joined(C, m)[0] = <<>>
         /\ \A j \in 1..m : Joined(C, m)[j] = Joined(C, m)[j - 1] \o C[j]
  <1> DEFINE P(v) == v = [j \in 0..m |-> IF j = 0 THEN <<>> ELSE v[j - 1] \o C[j]]
  <1>1. PICK v : P(v)
    BY JoinExists DEF Joins
  <1>2. Joined(C, m) = CHOOSE w : P(w)
    BY DEF Joined
  <1> HIDE DEF P
  <1>3. P(Joined(C, m))
    BY <1>1, <1>2
  <1>4. \A j \in 0..m : Joined(C, m)[j] =
          IF j = 0 THEN <<>> ELSE Joined(C, m)[j - 1] \o C[j]
    BY <1>3 DEF P
  <1>5. 0 \in 0..m /\ \A j \in 1..m : j \in 0..m /\ j # 0
    OBVIOUS
  <1> QED
    BY <1>4, <1>5

\* It is a sequence if the parts are.
LEMMA JoinedType ==
  ASSUME NEW m \in Nat, NEW C, NEW S, \A j \in 1..m : C[j] \in Seq(S)
  PROVE  \A j \in 0..m : Joined(C, m)[j] \in Seq(S)
  <1> DEFINE T == {j \in 0..m : Joined(C, m)[j] \in Seq(S)}
  <1>1. 0 \in T
    <2>1. Joined(C, m)[0] = <<>>
      BY JoinedIs, Zenon
    <2>2. <<>> \in Seq(S) /\ 0 \in 0..m
      OBVIOUS
    <2> QED
      BY <2>1, <2>2, Zenon
  <1>2. ASSUME NEW k \in 0..m, k < m, k \in T PROVE k + 1 \in T
    <2>1. k + 1 \in 1..m /\ k + 1 \in 0..m /\ (k + 1) - 1 = k
      BY <1>2
    <2>2. Joined(C, m)[k + 1] = Joined(C, m)[k] \o C[k + 1]
      BY <2>1, JoinedIs
    <2>3. C[k + 1] \in Seq(S) /\ Joined(C, m)[k] \in Seq(S)
      BY <1>2, <2>1
    <2>4. Joined(C, m)[k + 1] \in Seq(S)
      BY <2>2, <2>3, JoinElements
    <2> QED
      BY <2>1, <2>4
  <1> HIDE DEF T
  <1>3. \A j \in 0..m : j \in T
    BY <1>1, <1>2, UpTo
  <1> QED
    BY <1>3 DEF T

\* Only the parts that are joined matter.
Agree(C, D, k) == \A j \in 1..k : C[j] = D[j]

\* Two joins of the same parts are the same.
LEMMA JoinedAgree ==
  ASSUME NEW m \in Nat, NEW n \in Nat, NEW C, NEW D, NEW k \in 0..m, k <= n,
         Agree(C, D, k)
  PROVE  Joined(C, m)[k] = Joined(D, n)[k]
  <1> DEFINE T == {j \in 0..k : Joined(C, m)[j] = Joined(D, n)[j]}
  <1>0. k \in Nat
    OBVIOUS
  <1>1. 0 \in T
    <2>1. Joined(C, m)[0] = <<>> /\ Joined(D, n)[0] = <<>>
      BY JoinedIs, Zenon
    <2> QED
      BY <2>1
  <1>2. ASSUME NEW j \in 0..k, j < k, j \in T PROVE j + 1 \in T
    <2>1. j + 1 \in 1..m /\ j + 1 \in 1..n /\ j + 1 \in 1..k
          /\ j + 1 \in 0..k /\ (j + 1) - 1 = j
      BY <1>2
    <2>2. /\ Joined(C, m)[j + 1] = Joined(C, m)[j] \o C[j + 1]
          /\ Joined(D, n)[j + 1] = Joined(D, n)[j] \o D[j + 1]
      BY <2>1, JoinedIs
    <2>3. C[j + 1] = D[j + 1]
      BY <2>1 DEF Agree
    <2> QED
      BY <1>2, <2>1, <2>2, <2>3
  <1> HIDE DEF T
  <1>3. k \in T
    BY <1>0, <1>1, <1>2, UpTo
  <1> QED
    BY <1>3 DEF T

\* Concatenation, as an operator the provers do not open.
Cat(s, t) == s \o t

\* D is what is left of the m parts C without the first k and the beginning p of
\* the next one.
Shifted(S, C, m, k, p, D) ==
  /\ m \in Nat /\ k \in 0..m /\ k < m /\ p \in Seq(S)
  /\ \A j \in 1..m : C[j] \in Seq(S)
  /\ \A j \in 1..(m - k) : D[j] \in Seq(S)
  /\ C[k + 1] = p \o D[1]
  /\ \A j \in 2..(m - k) : C[k + j] = D[j]

\* Joining what is left.
LEMMA JoinedShift ==
  ASSUME NEW S, NEW m, NEW k, NEW C, NEW D, NEW p,
         Shifted(S, C, m, k, p, D)
  PROVE  \A j \in 1..(m - k) :
           Joined(C, m)[k + j] =
             Cat(Cat(Joined(C, m)[k], p), Joined(D, m - k)[j])
  <1> USE DEF Shifted
  <1> DEFINE v == Joined(C, m)
  <1> DEFINE w == Joined(D, m - k)
  <1> DEFINE T == {j \in 0..(m - k) : j = 0 \/ v[k + j] = (v[k] \o p) \o w[j]}
  <1>0. m - k \in Nat /\ k \in Nat
    OBVIOUS
  <1>a. \A j \in 0..m : v[j] \in Seq(S)
    BY JoinedType
  <1>b. \A j \in 0..(m - k) : w[j] \in Seq(S)
    BY <1>0, JoinedType
  <1>c. \A j \in 1..m : v[j] = v[j - 1] \o C[j]
    BY JoinedIs
  <1>d. w[0] = <<>> /\ \A j \in 1..(m - k) : w[j] = w[j - 1] \o D[j]
    BY <1>0, JoinedIs, ZenonT(30)
  <1>e. \A a, b, c \in Seq(S) : (a \o b) \o c = a \o (b \o c)
    BY SMTT(30)
  <1> HIDE DEF v, w
  <1>1. 0 \in T
    BY <1>0
  <1>2. ASSUME NEW j \in 0..(m - k), j < m - k, j \in T PROVE j + 1 \in T
    <2>1. /\ j + 1 \in 1..(m - k) /\ j + 1 \in 0..(m - k) /\ (j + 1) - 1 = j
          /\ k + (j + 1) \in 1..m /\ (k + (j + 1)) - 1 = k + j
          /\ k + j \in 0..m /\ k \in 0..m
      BY <1>2, <1>0
    <2>2. v[k + (j + 1)] = v[k + j] \o C[k + (j + 1)]
      BY <1>c, <2>1
    <2>3. w[j + 1] = w[j] \o D[j + 1]
      BY <1>d, <2>1
    <2>4. v[k] \in Seq(S) /\ w[j] \in Seq(S) /\ D[j + 1] \in Seq(S)
      BY <1>a, <1>b, <2>1
    <2>5. CASE j = 0
      <3>0. k + (j + 1) = k + 1 /\ k + j = k /\ j + 1 = 1
        BY <2>5, <1>0
      <3>1. v[k + 1] = v[k] \o (p \o D[1]) /\ w[1] = <<>> \o D[1]
        BY <2>2, <2>3, <2>5, <3>0, <1>d
      <3>2. w[1] = D[1] /\ D[1] \in Seq(S)
        BY <3>1, <2>4, <2>5, JoinEmpty
      <3>a. (v[k] \o p) \o D[1] = v[k] \o (p \o D[1])
        BY <3>2, <2>4, <1>e, Zenon
      <3>3. v[k + 1] = (v[k] \o p) \o w[1]
        BY <3>1, <3>2, <3>a, Zenon
      <3> QED
        BY <3>3, <2>1, <3>0
    <2>6. CASE j # 0
      <3>1. v[k + j] = (v[k] \o p) \o w[j]
        BY <1>2, <2>6
      <3>2. C[k + (j + 1)] = D[j + 1]
        <4>1. j + 1 \in 2..(m - k)
          BY <2>1, <2>6, <1>0
        <4> QED
          BY <4>1
      <3>3. v[k] \o p \in Seq(S)
        BY <2>4
      <3>4. v[k + (j + 1)] = (v[k] \o p) \o (w[j] \o D[j + 1])
        <4>1. ((v[k] \o p) \o w[j]) \o D[j + 1]
                = (v[k] \o p) \o (w[j] \o D[j + 1])
          BY <3>3, <2>4, <1>e, Zenon
        <4> QED
          BY <2>2, <3>1, <3>2, <4>1, Zenon
      <3> QED
        BY <3>4, <2>3, <2>1
    <2> QED
      BY <2>5, <2>6
  <1> HIDE DEF T
  <1>3. \A j \in 0..(m - k) : j \in T
    BY <1>0, <1>1, <1>2, UpTo
  <1>4. \A j \in 1..(m - k) : j \in 0..(m - k) /\ j # 0
    BY <1>0
  <1>5. \A j \in 1..(m - k) : v[k + j] = (v[k] \o p) \o w[j]
    BY <1>3, <1>4 DEF T
  <1> QED
    BY <1>5 DEF v, w, Cat

\* The part in which the n-th byte lies.
LEMMA JoinedSkip ==
  ASSUME NEW S, NEW m \in Nat, NEW C, \A j \in 1..m : C[j] \in Seq(S),
         NEW n \in Nat, n < Len(Joined(C, m)[m])
  PROVE  \E k \in 0..(m - 1) : /\ Len(Joined(C, m)[k]) <= n
                               /\ n < Len(Joined(C, m)[k + 1])
  <1> DEFINE T == {j \in 0..m : n < Len(Joined(C, m)[j])}
  <1>1. T \in SUBSET Nat /\ m \in T
    OBVIOUS
  <1>2. PICK x \in T : \A y \in T : x <= y
    BY <1>1, Smallest
  <1>3. x \in 0..m /\ n < Len(Joined(C, m)[x])
    BY <1>2
  <1>4. x # 0
    <2>1. Joined(C, m)[0] = <<>>
      BY JoinedIs, Zenon
    <2> QED
      BY <1>3, <2>1
  <1>5. x - 1 \in 0..(m - 1) /\ (x - 1) + 1 = x /\ x - 1 \in 0..m
        /\ ~(x <= x - 1)
    BY <1>3, <1>4
  <1>6. x - 1 \notin T
    BY <1>2, <1>5
  <1>7. Joined(C, m)[x - 1] \in Seq(S)
    BY <1>5, JoinedType
  <1>8. Len(Joined(C, m)[x - 1]) <= n
    BY <1>5, <1>6, <1>7
  <1> QED
    BY <1>3, <1>5, <1>8

----------------------------------------------------------------------------
(* The iovec *)

\* The sizes are numbers.
LEMMA Sizes ==
  /\ PktHdr \in Nat /\ ReqLen \in Nat /\ ReqBufSize \in Nat /\ ChunkSize \in Nat
  /\ RespHdr \in Nat /\ RespBufSize \in Nat /\ MaxPacket \in Nat
  /\ PktHeaders \in Nat /\ IovecSize \in Nat
  /\ PktHdr > 0 /\ ReqLen > 0 /\ ChunkSize > 0 /\ RespHdr > 0 /\ RespBufSize > 0
  /\ PktHdr < ReqLen /\ ReqLen <= ReqBufSize /\ RespBufSize < MaxPacket
  /\ PktHeaders >= 2 /\ 2 * PktHeaders + 1 <= IovecSize
  BY LsapiAssumption

\* Sequences of cells, joined.
LEMMA CellsJoin ==
  ASSUME NEW s \in Seq(Cells), NEW t \in Seq(Cells)
  PROVE  /\ s \o t \in Seq(Cells) /\ Len(s \o t) = Len(s) + Len(t)
         /\ \A i \in 1..Len(s) : (s \o t)[i] = s[i]
         /\ \A i \in 1..Len(t) : (s \o t)[Len(s) + i] = t[i]
  OBVIOUS

\* An entry that refers to memory there is.
Sound(o, e) ==
  /\ e.ref # "none" /\ e.len > 0
  /\ e.ref = "pkt" => e.i < PktHeaders
  /\ e.ref = "buf" => e.off + e.len <= Len(o.mem)

\* The contents of the entries from m_pIovecToWrite on.
Contents(o) ==
  [j \in 1..(o.cur - o.towrite) |-> Content(o, o.iov[o.towrite + j - 1])]

\* What an entry refers to.
LEMMA ContentType ==
  ASSUME NEW o \in Responses, NEW e \in Entries, Sound(o, e)
  PROVE  /\ Content(o, e) \in Seq(Cells) /\ Len(Content(o, e)) = e.len
         /\ \A k \in 1..e.len : Content(o, e)[k] = Byte(o, e, e.off + k)
  <1>1. e.len \in Nat /\ e.off \in Nat /\ e.i \in Nat
    BY DEF Entries
  <1>2. ASSUME NEW k \in 1..e.len PROVE Byte(o, e, e.off + k) \in Cells
    <2>1. e.ref \in {"header", "names", "pkt", "buf", "data", "end"}
      BY DEF Entries, Sound
    <2>2. CASE e.ref = "header"
      BY <2>2 DEF Byte, Cells, Responses
    <2>3. CASE e.ref = "names"
      BY <2>3 DEF Byte, Cells
    <2>4. CASE e.ref = "pkt"
      <3>1. e.i \in 0..(PktHeaders - 1)
        BY <1>1, <2>4, LsapiAssumption DEF Sound
      <3>2. o.pkt[e.i] \in Nat
        BY <3>1 DEF Responses
      <3> QED
        BY <2>4, <3>2 DEF Byte, Cells
    <2>5. CASE e.ref = "buf"
      <3>0. o.mem \in Seq(Nat) /\ e.off + e.len <= Len(o.mem)
        BY <2>5 DEF Sound, Responses
      <3>1. e.off + k \in 1..Len(o.mem)
        BY <1>1, <3>0, SMTT(30)
      <3>2. o.mem[e.off + k] \in Nat
        BY <3>0, <3>1
      <3> QED
        BY <2>5, <3>2 DEF Byte, Cells
    <2>6. CASE e.ref = "data"
      BY <1>1, <2>6 DEF Byte, Cells
    <2>7. CASE e.ref = "end"
      BY <2>7, LsapiAssumption DEF Byte, Cells
    <2> QED
      BY <2>1, <2>2, <2>3, <2>4, <2>5, <2>6, <2>7
  <1>3. Content(o, e) \in [1..e.len -> Cells]
    BY <1>2 DEF Content
  <1> QED
    BY <1>1, <1>3, MakeSeq DEF Content

\* The vector of an iovec within its bounds.
LEMMA PendingIs ==
  ASSUME NEW o \in Responses, WithinBounds(o)
  PROVE  /\ o.cur - o.towrite \in Nat
         /\ \A s \in o.towrite..(o.cur - 1) :
              /\ s \in Slots /\ o.iov[s] \in Entries /\ Sound(o, o.iov[s])
              /\ Content(o, o.iov[s]) \in Seq(Cells)
         /\ \A j \in 1..(o.cur - o.towrite) :
              /\ Contents(o)[j] = Content(o, o.iov[o.towrite + j - 1])
              /\ o.towrite + j - 1 \in o.towrite..(o.cur - 1)
              /\ Contents(o)[j] \in Seq(Cells)
         /\ Vector(o) = Joined(Contents(o), o.cur - o.towrite)
         /\ Pending(o) = Joined(Contents(o), o.cur - o.towrite)[o.cur - o.towrite]
         /\ Pending(o) \in Seq(Cells)
  <1>1. o.cur \in Nat /\ o.towrite \in Nat /\ o.cur - o.towrite \in Nat
    BY DEF Responses, WithinBounds
  <1>2. ASSUME NEW s \in o.towrite..(o.cur - 1)
        PROVE  /\ s \in Slots /\ o.iov[s] \in Entries /\ Sound(o, o.iov[s])
               /\ Content(o, o.iov[s]) \in Seq(Cells)
    <2>1. s \in Slots
      BY <1>1, Sizes DEF WithinBounds, Slots
    <2>2. o.iov[s] \in Entries
      BY <2>1 DEF Responses
    <2>3. Sound(o, o.iov[s])
      BY DEF WithinBounds, Sound
    <2> QED
      BY <2>1, <2>2, <2>3, ContentType
  <1>3. ASSUME NEW j \in 1..(o.cur - o.towrite)
        PROVE  /\ Contents(o)[j] = Content(o, o.iov[o.towrite + j - 1])
               /\ o.towrite + j - 1 \in o.towrite..(o.cur - 1)
               /\ Contents(o)[j] \in Seq(Cells)
    <2>1. o.towrite + j - 1 \in o.towrite..(o.cur - 1)
      BY <1>1
    <2>2. Contents(o)[j] = Content(o, o.iov[o.towrite + j - 1])
      BY DEF Contents
    <2> QED
      BY <2>1, <2>2, <1>2
  <1>4. Vector(o) = Joined(Contents(o), o.cur - o.towrite)
    BY DEF Vector, Contents
  <1>5. Pending(o) = Joined(Contents(o), o.cur - o.towrite)[o.cur - o.towrite]
    BY <1>4 DEF Pending
  <1>6. Pending(o) \in Seq(Cells)
    <2>1. o.cur - o.towrite \in 0..(o.cur - o.towrite)
      BY <1>1
    <2>2. \A j \in 0..(o.cur - o.towrite) :
            Joined(Contents(o), o.cur - o.towrite)[j] \in Seq(Cells)
      BY <1>1, <1>3, JoinedType
    <2> QED
      BY <1>5, <2>1, <2>2
  <1> QED
    BY <1>1, <1>2, <1>3, <1>4, <1>5, <1>6

\* The content of an entry depends on the memory it refers to alone.
LEMMA SameContent ==
  ASSUME NEW o, NEW q, NEW e,
         q.mem = o.mem, q.hdrpkt = o.hdrpkt,
         e.ref = "pkt" => q.pkt[e.i] = o.pkt[e.i]
  PROVE  Content(q, e) = Content(o, e)
  <1>1. \A k : Byte(q, e, k) = Byte(o, e, k)
    BY DEF Byte
  <1> QED
    BY <1>1 DEF Content

\* Entries put behind those there are.
LEMMA Extends ==
  ASSUME NEW o \in Responses, WithinBounds(o),
         NEW q \in Responses, WithinBounds(q),
         q.towrite = o.towrite, q.cur >= o.cur,
         \A s \in o.towrite..(o.cur - 1) :
           Content(q, q.iov[s]) = Content(o, o.iov[s])
  PROVE  /\ Vector(q)[o.cur - o.towrite] = Pending(o)
         /\ \A s \in o.cur..(q.cur - 1) :
              Vector(q)[(s + 1) - o.towrite]
                = Vector(q)[s - o.towrite] \o Content(q, q.iov[s])
  <1>1. /\ o.cur \in Nat /\ o.towrite \in Nat /\ q.cur \in Nat
        /\ o.cur - o.towrite \in Nat /\ q.cur - o.towrite \in Nat
    BY PendingIs DEF Responses
  <1> DEFINE m == o.cur - o.towrite
  <1> DEFINE n == q.cur - o.towrite
  <1>2. m \in Nat /\ n \in Nat /\ m \in 0..m /\ m <= n
    BY <1>1
  <1>3. Vector(q) = Joined(Contents(q), n) /\ Pending(o) = Joined(Contents(o), m)[m]
    BY PendingIs, Zenon
  <1>4. ASSUME NEW j \in 1..m PROVE Contents(o)[j] = Contents(q)[j]
    <2>1. j \in 1..n /\ o.towrite + j - 1 \in o.towrite..(o.cur - 1)
      BY <1>1
    <2>2. Contents(o)[j] = Content(o, o.iov[o.towrite + j - 1])
      BY DEF Contents
    <2>3. Contents(q)[j] = Content(q, q.iov[o.towrite + j - 1])
      BY <2>1 DEF Contents
    <2> QED
      BY <2>1, <2>2, <2>3
  <1>5. Joined(Contents(o), m)[m] = Joined(Contents(q), n)[m]
    <2>1. PICK C, D : C = Contents(o) /\ D = Contents(q)
      OBVIOUS
    <2>2. Agree(C, D, m)
      BY <1>4, <2>1 DEF Agree
    <2> HIDE DEF m, n
    <2>3. Joined(C, m)[m] = Joined(D, n)[m]
      BY <1>2, <2>2, JoinedAgree
    <2> QED
      BY <2>1, <2>3
  <1>6. ASSUME NEW s \in o.cur..(q.cur - 1)
        PROVE  Vector(q)[(s + 1) - o.towrite]
                 = Vector(q)[s - o.towrite] \o Content(q, q.iov[s])
    <2>1. /\ (s + 1) - o.towrite \in 1..n
          /\ ((s + 1) - o.towrite) - 1 = s - o.towrite
          /\ o.towrite + ((s + 1) - o.towrite) - 1 = s
      BY <1>1
    <2>2. Contents(q)[(s + 1) - o.towrite] = Content(q, q.iov[s])
      BY <2>1 DEF Contents
    <2>3. \A j \in 1..n : Joined(Contents(q), n)[j]
                            = Joined(Contents(q), n)[j - 1] \o Contents(q)[j]
      BY <1>2, JoinedIs
    <2> HIDE DEF n
    <2> QED
      BY <1>3, <2>1, <2>2, <2>3
  <1> QED
    BY <1>3, <1>5, <1>6

\* A record with the fields of another one but for the iovec and its first slot.
LEMMA AdvanceFields ==
  ASSUME NEW o \in Responses, NEW k, NEW d, NEW q, o.towrite + k \in Slots,
         q = [o EXCEPT !.towrite = @ + k,
                       !.iov[o.towrite + k].off = @ + d,
                       !.iov[o.towrite + k].len = @ - d]
  PROVE  /\ q.towrite = o.towrite + k
         /\ q.iov = [o.iov EXCEPT ![o.towrite + k] =
                       [o.iov[o.towrite + k] EXCEPT !.off = @ + d, !.len = @ - d]]
         /\ q = [o EXCEPT !.towrite = q.towrite, !.iov = q.iov]
  BY DEF Responses, Entries

\* An entry of which d bytes are gone.
LEMMA CutEntry ==
  ASSUME NEW e \in Entries, NEW d \in Nat, d < e.len,
         NEW f, f = [e EXCEPT !.off = @ + d, !.len = @ - d]
  PROVE  /\ f \in Entries /\ f.ref = e.ref /\ f.i = e.i
         /\ f.off = e.off + d /\ f.len = e.len - d
  <1>1. e.off \in Nat /\ e.len \in Nat
    BY DEF Entries
  <1>2. e.off + d \in Nat /\ e.len - d \in Nat
    BY <1>1
  <1> QED
    BY <1>2 DEF Entries

\* writev() has taken n bytes: the rest is what the iovec then refers to.
Advanced(o, n, q) == q = Advance(o, n)

\* What is left of the vector when the first n bytes of it are written.
AdvanceOK(o, n, q) ==
  /\ q \in Responses /\ WithinBounds(q)
  /\ Pending(o) = SubSeq(Pending(o), 1, n) \o Pending(q)
  /\ q = [o EXCEPT !.towrite = q.towrite, !.iov = q.iov]
  /\ q.towrite >= o.towrite
  /\ \A s \in q.towrite..(q.cur - 1) : q.iov[s].ref = o.iov[s].ref

\* Advance takes exactly the bytes that were written off the vector, also when
\* the last entry it touches was written only in part (lsapi_writev).
LEMMA Advances ==
  ASSUME NEW o \in Responses, WithinBounds(o),
         NEW n \in Nat, n < Len(Pending(o)),
         NEW q, Advanced(o, n, q)
  PROVE  AdvanceOK(o, n, q)
  <1> USE DEF Advanced
  <1> DEFINE m == o.cur - o.towrite
  <1> DEFINE C == Contents(o)
  <1> DEFINE v == Joined(C, m)
  <1> DEFINE k == Skip(o, n)
  <1> DEFINE d == n - Len(v[k])
  <1> DEFINE s0 == o.towrite + k
  <1> DEFINE e == o.iov[s0]
  <1> DEFINE f == [e EXCEPT !.off = @ + d, !.len = @ - d]
  <1>1. o.cur \in Nat /\ o.towrite \in Nat /\ o.cur - o.towrite \in Nat
    BY PendingIs DEF Responses
  <1>2. /\ \A s \in o.towrite..(o.cur - 1) :
             /\ s \in Slots /\ o.iov[s] \in Entries /\ Sound(o, o.iov[s])
             /\ Content(o, o.iov[s]) \in Seq(Cells)
        /\ \A j \in 1..m : C[j] = Content(o, o.iov[o.towrite + j - 1])
                           /\ C[j] \in Seq(Cells)
        /\ Vector(o) = v /\ Pending(o) = v[m] /\ Pending(o) \in Seq(Cells)
    BY PendingIs, Zenon
  <1>3. /\ k \in 0..(m - 1)
        /\ Len(v[k]) <= n /\ n < Len(v[k + 1])
    <2>1. \E x \in 0..(m - 1) : Len(v[x]) <= n /\ n < Len(v[x + 1])
      BY <1>1, <1>2, JoinedSkip, Zenon
    <2>2. k = CHOOSE x \in 0..(m - 1) : Len(v[x]) <= n /\ n < Len(v[x + 1])
      BY <1>2 DEF Skip
    <2> HIDE DEF k, v, m
    <2> QED
      BY <2>1, <2>2
  <1>4. \A j \in 0..m : v[j] \in Seq(Cells)
    BY <1>1, <1>2, JoinedType, Zenon
  <1>5. \A j \in 1..m : v[j] = v[j - 1] \o C[j]
    BY <1>1, JoinedIs, Zenon
  <1>6. q = [o EXCEPT !.towrite = @ + k,
                      !.iov[o.towrite + k].off = @ + d,
                      !.iov[o.towrite + k].len = @ - d]
    BY <1>2 DEF Advance
  <1> HIDE DEF k, v, m, C
  <1>7. /\ k \in 0..m /\ k + 1 \in 1..m /\ (k + 1) - 1 = k /\ k < m /\ m \in Nat
        /\ k \in Nat
    BY <1>1, <1>3 DEF m
  <1>8. s0 \in o.towrite..(o.cur - 1) /\ o.towrite + (k + 1) - 1 = s0
    BY <1>1, <1>7 DEF m
  <1>9. e \in Entries /\ Sound(o, e) /\ s0 \in Slots /\ C[k + 1] = Content(o, e)
    BY <1>2, <1>7, <1>8
  <1> HIDE DEF e, s0
  <1>10. /\ e.len \in Nat /\ e.off \in Nat /\ e.len > 0
         /\ Content(o, e) \in Seq(Cells) /\ Len(Content(o, e)) = e.len
         /\ \A i \in 1..e.len : Content(o, e)[i] = Byte(o, e, e.off + i)
    BY <1>9, ContentType DEF Entries, Sound
  <1>11. d \in Nat /\ d < e.len /\ Len(v[k]) + d = n /\ v[k] \in Seq(Cells)
    <2>1. v[k + 1] = v[k] \o C[k + 1] /\ v[k] \in Seq(Cells)
      BY <1>4, <1>5, <1>7
    <2>2. Len(v[k + 1]) = Len(v[k]) + e.len
      <3>1. C[k + 1] \in Seq(Cells) /\ Len(C[k + 1]) = e.len
        BY <1>9, <1>10
      <3>2. Len(v[k] \o C[k + 1]) = Len(v[k]) + Len(C[k + 1])
        BY <2>1, <3>1, CellsJoin, Zenon
      <3> QED
        BY <2>1, <3>1, <3>2
    <2>3. Len(v[k]) \in Nat
      BY <2>1
    <2> QED
      BY <2>1, <2>2, <2>3, <1>3, <1>10
  <1>12. /\ q.towrite = s0
         /\ q.iov = [o.iov EXCEPT ![s0] = f]
         /\ q = [o EXCEPT !.towrite = q.towrite, !.iov = q.iov]
    <2> HIDE DEF d
    <2> QED
      <3>1. o.towrite + k \in Slots
        BY <1>9 DEF s0
      <3>2. /\ q.towrite = o.towrite + k
            /\ q.iov = [o.iov EXCEPT ![o.towrite + k] =
                          [o.iov[o.towrite + k] EXCEPT !.off = @ + d, !.len = @ - d]]
            /\ q = [o EXCEPT !.towrite = q.towrite, !.iov = q.iov]
        <4>1. PICK i0, k0, d0 : i0 = o.towrite + k /\ k0 = k /\ d0 = d
          OBVIOUS
        <4>2. q = [o EXCEPT !.towrite = o.towrite + k0,
                            !.iov[i0].off = @ + d0, !.iov[i0].len = @ - d0]
          BY <4>1, <1>6
        <4>3. q.iov = [o.iov EXCEPT ![i0].off = @ + d0, ![i0].len = @ - d0]
          BY <4>2 DEF Responses
        <4>4. q.iov = [o.iov EXCEPT ![i0] =
                         [o.iov[i0] EXCEPT !.off = @ + d0, !.len = @ - d0]]
          BY <4>3, <4>1, <3>1 DEF Responses, Entries
        <4>5. q.towrite = o.towrite + k0
          BY <4>2 DEF Responses
        <4>6. q = [o EXCEPT !.towrite = q.towrite, !.iov = q.iov]
          BY <4>2, <4>3, <4>5 DEF Responses
        <4> QED
          BY <4>1, <4>4, <4>5, <4>6
      <3> QED
        BY <3>2 DEF e, s0
  <1> HIDE DEF d
  <1>13. /\ f \in Entries /\ f.ref = e.ref /\ f.i = e.i
         /\ f.off = e.off + d /\ f.len = e.len - d
    BY <1>9, <1>11, CutEntry
  <1> HIDE DEF f
  <1>14. /\ s0 \in Nat
         /\ q \in Responses /\ q.cur = o.cur /\ q.mem = o.mem /\ q.pkt = o.pkt
         /\ q.hdrpkt = o.hdrpkt /\ q.pos = o.pos
         /\ q.iov[s0] = f /\ \A s \in Slots : s # s0 => q.iov[s] = o.iov[s]
    <2>1. s0 \in Nat
      BY <1>1, <1>7 DEF s0
    <2>2. q.iov \in [Slots -> Entries]
      BY <1>9, <1>12, <1>13 DEF Responses
    <2>3. q.iov[s0] = f /\ \A s \in Slots : s # s0 => q.iov[s] = o.iov[s]
      BY <1>9, <1>12 DEF Responses
    <2>4. q.towrite \in Nat
      BY <2>1, <1>12
    <2> QED
      BY <2>1, <2>2, <2>3, <2>4, <1>12 DEF Responses
  <1>15. Sound(q, f)
    BY <1>9, <1>10, <1>11, <1>13, <1>14 DEF Sound
  <1>16. WithinBounds(q)
    <2>1. ASSUME NEW s \in q.towrite..(q.cur - 1) PROVE Sound(q, q.iov[s])
      <3>1. s \in o.towrite..(o.cur - 1)
        BY <1>8, <1>12, <1>14, <1>1
      <3>2. CASE s = s0
        BY <3>2, <1>14, <1>15
      <3>3. CASE s # s0
        BY <3>1, <3>3, <1>2, <1>14 DEF Sound
      <3> QED
        BY <3>2, <3>3
    <2>2. \A s \in q.towrite..(q.cur - 1) : Sound(q, q.iov[s])
      BY <2>1
    <2>3. q.towrite <= q.cur
      BY <1>8, <1>12, <1>14, <1>1
    <2> QED
      BY <2>2, <2>3, <1>14 DEF WithinBounds, Sound
  <1>17. /\ q.cur - q.towrite = m - k /\ m - k \in Nat /\ m - k \in 1..(m - k)
         /\ 1 \in 1..(m - k)
    BY <1>1, <1>7, <1>12, <1>14, SMTT(30) DEF m, s0
  <1> DEFINE D == Contents(q)
  <1> DEFINE x == SubSeq(C[k + 1], 1, d)
  <1>18. /\ \A j \in 1..(m - k) : D[j] = Content(q, q.iov[s0 + j - 1])
                                  /\ D[j] \in Seq(Cells)
         /\ Pending(q) = Joined(D, m - k)[m - k] /\ Pending(q) \in Seq(Cells)
    <2>1. /\ \A j \in 1..(q.cur - q.towrite) :
               /\ D[j] = Content(q, q.iov[q.towrite + j - 1])
               /\ D[j] \in Seq(Cells)
          /\ Pending(q) = Joined(D, q.cur - q.towrite)[q.cur - q.towrite]
          /\ Pending(q) \in Seq(Cells)
      BY <1>14, <1>16, PendingIs, Zenon
    <2> HIDE DEF D
    <2> QED
      BY <2>1, <1>12, <1>17
  <1> HIDE DEF D
  <1>19. /\ x \in Seq(Cells) /\ Len(x) = d
         /\ C[k + 1] = x \o D[1]
    <2>1. C[k + 1] = Content(o, e) /\ D[1] = Content(q, f)
      <3>1. s0 + 1 - 1 = s0
        BY <1>14
      <3> QED
        BY <3>1, <1>9, <1>14, <1>17, <1>18
    <2>2. d \in 0..Len(C[k + 1]) /\ C[k + 1] \in Seq(Cells)
          /\ Len(C[k + 1]) = e.len
      BY <2>1, <1>10, <1>11
    <2>3. x \in Seq(Cells) /\ Len(x) = d /\ \A i \in 1..d : x[i] = C[k + 1][i]
      BY <2>2, CutSeq
    <2>4. /\ D[1] \in Seq(Cells) /\ Len(D[1]) = e.len - d
          /\ \A i \in 1..(e.len - d) : D[1][i] = Byte(q, f, f.off + i)
      BY <2>1, <1>13, <1>14, <1>15, ContentType
    <2> HIDE DEF x
    <2>5. /\ x \o D[1] \in Seq(Cells) /\ Len(x \o D[1]) = e.len
          /\ \A i \in 1..d : (x \o D[1])[i] = x[i]
          /\ \A i \in 1..(e.len - d) : (x \o D[1])[d + i] = D[1][i]
      <3>1. /\ x \o D[1] \in Seq(Cells) /\ Len(x \o D[1]) = Len(x) + Len(D[1])
            /\ \A i \in 1..Len(x) : (x \o D[1])[i] = x[i]
            /\ \A i \in 1..Len(D[1]) : (x \o D[1])[Len(x) + i] = D[1][i]
        BY <2>3, <2>4, CellsJoin, Zenon
      <3>2. d + (e.len - d) = e.len
        BY <1>10, <1>11
      <3> QED
        BY <3>1, <3>2, <2>3, <2>4
    <2>6. ASSUME NEW i \in 1..e.len PROVE C[k + 1][i] = (x \o D[1])[i]
      <3>1. CASE i \in 1..d
        BY <3>1, <2>3, <2>5
      <3>2. CASE i \notin 1..d
        <4>1. i - d \in 1..(e.len - d) /\ d + (i - d) = i
              /\ f.off + (i - d) = e.off + i
          BY <3>2, <1>10, <1>11, <1>13, SMTT(30)
        <4>2. (x \o D[1])[i] = Byte(q, f, e.off + i)
          BY <4>1, <2>4, <2>5
        <4>3. Byte(q, f, e.off + i) = Byte(o, e, e.off + i)
          BY <1>13, <1>14 DEF Byte
        <4> QED
          BY <4>2, <4>3, <2>1, <1>10
      <3> QED
        BY <3>1, <3>2
    <2>7. C[k + 1] = x \o D[1]
      BY <2>2, <2>5, <2>6, SeqEqual
    <2> QED
      BY <2>3, <2>7
  <1> HIDE DEF x
  <1>20. ASSUME NEW j \in 2..(m - k) PROVE C[k + j] = D[j]
    <2>1. /\ j \in 1..(m - k) /\ k + j \in 1..m
          /\ o.towrite + (k + j) - 1 = s0 + j - 1 /\ s0 + j - 1 # s0
          /\ s0 + j - 1 \in o.towrite..(o.cur - 1)
      <3>1. j \in Nat /\ 2 <= j /\ j <= m - k /\ s0 = o.towrite + k
        BY <1>7 DEF s0
      <3>2. m = o.cur - o.towrite
        BY DEF m
      <3>3. o.towrite \in Nat /\ o.cur \in Nat /\ m \in Nat /\ k \in Nat
        BY <1>1, <1>7
      <3>4. j \in 1..(m - k) /\ k + j \in 1..m /\ s0 + j - 1 # s0
        BY <3>1, <3>3
      <3>5. o.towrite + (k + j) - 1 = s0 + j - 1
        BY <3>1, <3>3, SMTT(30)
      <3>6. s0 + j - 1 \in o.towrite..(o.cur - 1)
        <4>1. PICK a \in Nat, b \in Nat : a = o.towrite /\ b = o.cur
          BY <3>3
        <4>2. s0 = a + k /\ m = b - a
          BY <3>1, <3>2, <4>1
        <4>a. m \in Nat /\ k \in Nat /\ j \in Nat
          BY <3>1, <3>3
        <4>b. j <= m - k
          BY <3>1
        <4>c. 2 <= j
          BY <3>1
        <4>3. s0 + j - 1 \in a..(b - 1)
          BY <4>2, <4>a, <4>b, <4>c
        <4> QED
          BY <4>1, <4>3
      <3> QED
        BY <3>4, <3>5, <3>6
    <2>2. C[k + j] = Content(o, o.iov[s0 + j - 1])
      BY <2>1, <1>2
    <2>3. D[j] = Content(q, q.iov[s0 + j - 1])
      BY <2>1, <1>18
    <2>4. q.iov[s0 + j - 1] = o.iov[s0 + j - 1]
      BY <2>1, <1>2, <1>14
    <2>5. Content(q, o.iov[s0 + j - 1]) = Content(o, o.iov[s0 + j - 1])
      BY <1>14, SameContent
    <2> QED
      BY <2>2, <2>3, <2>4, <2>5
  <1> DEFINE y == v[k] \o x
  <1>21. v[m] = y \o Pending(q)
    <2>1. \A j \in 1..(m - k) :
            Joined(C, m)[k + j] = y \o Joined(D, m - k)[j]
      <3>1. \A j \in 1..m : C[j] \in Seq(Cells)
        BY <1>2
      <3>2. \A j \in 1..(m - k) : D[j] \in Seq(Cells)
        BY <1>18
      <3>3. \A j \in 2..(m - k) : C[k + j] = D[j]
        BY <1>20
      <3>4. m \in Nat /\ k \in 0..m /\ k < m
        BY <1>7
      <3>5. C[k + 1] = x \o D[1] /\ x \in Seq(Cells)
        BY <1>19
      <3> QED
        <4>1. Shifted(Cells, C, m, k, x, D)
          BY <3>1, <3>2, <3>3, <3>4, <3>5 DEF Shifted
        <4>2. \A j \in 1..(m - k) :
                Joined(C, m)[k + j] =
                  Cat(Cat(Joined(C, m)[k], x), Joined(D, m - k)[j])
          BY <4>1, JoinedShift
        <4> QED
          BY <4>2 DEF v, Cat
    <2>2. k + (m - k) = m
      BY <1>7
    <2> QED
      BY <2>1, <2>2, <1>17, <1>18 DEF v
  <1>22. Pending(o) = SubSeq(Pending(o), 1, n) \o Pending(q)
    <2>1. v[k] \o x \in Seq(Cells) /\ Len(v[k] \o x) = n
      BY <1>11, <1>19, CellsJoin
    <2>3. Pending(o) = y \o Pending(q) /\ Len(y) = n /\ y \in Seq(Cells)
      BY <2>1, <1>2, <1>21
    <2> HIDE DEF y
    <2>4. n \in 0..Len(Pending(o))
      BY <1>2
    <2>5. /\ SubSeq(Pending(o), 1, n) \in Seq(Cells)
          /\ Len(SubSeq(Pending(o), 1, n)) = n
          /\ \A i \in 1..n : SubSeq(Pending(o), 1, n)[i] = Pending(o)[i]
      BY <1>2, <2>4, CutSeq
    <2>6. \A i \in 1..n : y[i] = Pending(o)[i]
      BY <2>3, <1>18, CellsJoin
    <2>7. SubSeq(Pending(o), 1, n) = y
      BY <2>3, <2>5, <2>6, SeqEqual
    <2> QED
      BY <2>3, <2>7
  <1>23. \A s \in q.towrite..(q.cur - 1) : q.iov[s].ref = o.iov[s].ref
    <2> TAKE s \in q.towrite..(q.cur - 1)
    <2>1. s \in o.towrite..(o.cur - 1)
      BY <1>8, <1>12, <1>14, <1>1
    <2>2. s \in Slots
      BY <2>1, <1>2
    <2> QED
      BY <2>2, <1>13, <1>14 DEF e
  <1> QED
    BY <1>12, <1>14, <1>16, <1>22, <1>23, <1>8, <1>1 DEF AdvanceOK

----------------------------------------------------------------------------
(* Queueing *)

\* Joining cells is associative.
LEMMA CatAssoc ==
  ASSUME NEW s \in Seq(Cells), NEW t \in Seq(Cells), NEW u \in Seq(Cells)
  PROVE  Cat(Cat(s, t), u) = Cat(s, Cat(t, u))
  BY DEF Cat

\* The elements of a concatenation.
LEMMA CatType ==
  ASSUME NEW s \in Seq(Cells), NEW t \in Seq(Cells)
  PROVE  /\ Cat(s, t) \in Seq(Cells) /\ Len(Cat(s, t)) = Len(s) + Len(t)
         /\ \A i \in 1..Len(s) : Cat(s, t)[i] = s[i]
         /\ \A i \in 1..Len(t) : Cat(s, t)[Len(s) + i] = t[i]
  BY CellsJoin DEF Cat

\* Nothing added to a sequence.
LEMMA CatEmpty ==
  ASSUME NEW s \in Seq(Cells)
  PROVE  Cat(s, <<>>) = s /\ Cat(<<>>, s) = s
  BY DEF Cat

\* The joins of no, one and two sequences.
LEMMA JoinedFew ==
  ASSUME NEW C
  PROVE  /\ Joined(C, 0)[0] = <<>>
         /\ Joined(C, 1)[1] = Cat(<<>>, C[1])
         /\ Joined(C, 2)[2] = Cat(Cat(<<>>, C[1]), C[2])
  <1>1. ASSUME NEW m \in Nat
        PROVE  /\ Joined(C, m)[0] = <<>>
               /\ \A j \in 1..m : Joined(C, m)[j] = Cat(Joined(C, m)[j - 1], C[j])
    BY JoinedIs, Zenon DEF Cat
  <1>2. 0 \in Nat /\ 1 \in Nat /\ 2 \in Nat
    OBVIOUS
  <1>3. Joined(C, 0)[0] = <<>> /\ Joined(C, 1)[0] = <<>> /\ Joined(C, 2)[0] = <<>>
    BY <1>1, <1>2, Zenon
  <1>4. \A j \in 1..1 : Joined(C, 1)[j] = Cat(Joined(C, 1)[j - 1], C[j])
    BY <1>1, <1>2, Zenon
  <1>5. \A j \in 1..2 : Joined(C, 2)[j] = Cat(Joined(C, 2)[j - 1], C[j])
    BY <1>1, <1>2, Zenon
  <1>6. Joined(C, 1)[1] = Cat(Joined(C, 1)[0], C[1])
    BY <1>4
  <1>7. /\ Joined(C, 2)[1] = Cat(Joined(C, 2)[0], C[1])
        /\ Joined(C, 2)[2] = Cat(Joined(C, 2)[1], C[2])
    BY <1>5
  <1> QED
    BY <1>3, <1>6, <1>7

\* q has what o has and k entries more.
More(o, q, k) ==
  /\ o \in Responses /\ WithinBounds(o) /\ q \in Responses /\ WithinBounds(q)
  /\ q.towrite = o.towrite /\ q.cur = o.cur + k
  /\ \A s \in o.towrite..(o.cur - 1) :
       Content(q, q.iov[s]) = Content(o, o.iov[s])

\* The content of a new entry, and all that the iovec then refers to.
LEMMA MoreContent ==
  ASSUME NEW o, NEW q, NEW k \in Nat, More(o, q, k)
  PROVE  /\ k > 0 => Content(q, q.iov[o.cur]) \in Seq(Cells)
         /\ k > 1 => Content(q, q.iov[o.cur + 1]) \in Seq(Cells)
         /\ k > 2 => Content(q, q.iov[o.cur + 2]) \in Seq(Cells)
  <1>1. o.cur \in Nat /\ o.towrite \in Nat /\ o.towrite <= o.cur
    BY DEF More, Responses, WithinBounds
  <1>2. \A s \in q.towrite..(q.cur - 1) : Content(q, q.iov[s]) \in Seq(Cells)
    BY PendingIs DEF More
  <1>3. PICK a \in Nat, b \in Nat : a = o.cur /\ b = o.towrite
    BY <1>1
  <1>4. q.towrite = b /\ q.cur = a + k /\ b <= a
    BY <1>1, <1>3 DEF More
  <1>5. /\ k > 0 => a \in b..((a + k) - 1)
        /\ k > 1 => a + 1 \in b..((a + k) - 1)
        /\ k > 2 => a + 2 \in b..((a + k) - 1)
    BY <1>4
  <1> QED
    BY <1>2, <1>3, <1>4, <1>5

\* The entries that were added are pending after those that were there.
LEMMA MorePending ==
  ASSUME NEW o, NEW q, NEW k \in Nat, More(o, q, k)
  PROVE  /\ k = 0 => Pending(q) = Pending(o)
         /\ k = 1 => Pending(q) = Cat(Pending(o), Content(q, q.iov[o.cur]))
         /\ k = 2 => Pending(q) = Cat(Cat(Pending(o), Content(q, q.iov[o.cur])),
                                      Content(q, q.iov[o.cur + 1]))
         /\ k = 3 => Pending(q) = Cat(Cat(Cat(Pending(o), Content(q, q.iov[o.cur])),
                                          Content(q, q.iov[o.cur + 1])),
                                      Content(q, q.iov[o.cur + 2]))
  <1>1. PICK a \in Nat, b \in Nat : a = o.cur /\ b = o.towrite
    BY DEF More, Responses
  <1>2. q.towrite = b /\ q.cur = a + k /\ b <= a
    BY <1>1 DEF More, WithinBounds
  <1>3. q.cur >= o.cur
    BY <1>1, <1>2
  <1>4. /\ Vector(q)[a - b] = Pending(o)
        /\ \A s \in a..((a + k) - 1) :
             Vector(q)[(s + 1) - b] = Cat(Vector(q)[s - b], Content(q, q.iov[s]))
    <2>1. /\ o \in Responses /\ WithinBounds(o)
          /\ q \in Responses /\ WithinBounds(q) /\ q.towrite = o.towrite
          /\ \A s \in o.towrite..(o.cur - 1) :
               Content(q, q.iov[s]) = Content(o, o.iov[s])
      BY DEF More
    <2>2. /\ Vector(q)[o.cur - o.towrite] = Pending(o)
          /\ \A s \in o.cur..(q.cur - 1) :
               Vector(q)[(s + 1) - o.towrite]
                 = Vector(q)[s - o.towrite] \o Content(q, q.iov[s])
      BY <1>3, <2>1, Extends
    <2> QED
      BY <2>2, <1>1, <1>2 DEF Cat
  <1>5. Pending(q) = Vector(q)[(a + k) - b]
    BY <1>2 DEF Pending
  <1>6. CASE k = 0
    BY <1>4, <1>5, <1>6
  <1>7. CASE k = 1
    <2>1. a \in a..((a + k) - 1)
      BY <1>7
    <2> QED
      BY <2>1, <1>1, <1>4, <1>5, <1>7
  <1>8. CASE k = 2
    <2>1. a \in a..((a + k) - 1) /\ a + 1 \in a..((a + k) - 1)
          /\ (a + 1) + 1 = a + k
      BY <1>8
    <2> QED
      BY <2>1, <1>1, <1>4, <1>5, <1>8
  <1>9. CASE k = 3
    <2>1. a \in a..((a + k) - 1) /\ a + 1 \in a..((a + k) - 1)
          /\ a + 2 \in a..((a + k) - 1)
          /\ (a + 1) + 1 = a + 2 /\ (a + 2) + 1 = a + k
      BY <1>9
    <2> QED
      BY <2>1, <1>1, <1>4, <1>5, <1>9
  <1> QED
    BY <1>6, <1>7, <1>8, <1>9

\* The cells of one packet: hd has no response bytes and announces the length, tl
\* is response bytes.
Packet(kind, hd, tl) ==
  /\ hd \in Seq(Cells) /\ Len(hd) > 0 /\ tl \in Seq(Cells)
  /\ kind # "byte" /\ hd[1] = <<kind, Len(hd) + Len(tl)>>
  /\ \A i \in 1..Len(hd) : hd[i][1] # "byte" /\ (i > 1 => hd[i][2] = 0)
  /\ \A i \in 1..Len(tl) : tl[i][1] = "byte"

\* From o to q that packet was queued.
Adds(o, q, kind, hd, tl) ==
  /\ q \in Responses /\ WithinBounds(q)
  /\ Packet(kind, hd, tl)
  /\ Pending(q) = Cat(Pending(o), Cat(hd, tl))
  /\ q.total = o.total + (Len(hd) + Len(tl))

\* The fields of o and q that a new entry does not change.
Rest(o, q) ==
  /\ q.towrite = o.towrite /\ q.mem = o.mem /\ q.pos = o.pos /\ q.pkt = o.pkt
  /\ q.hdrpkt = o.hdrpkt /\ q.cnt = o.cnt /\ q.names = o.names
  /\ q.RESP_HEADER = o.RESP_HEADER /\ q.RESP_BODY = o.RESP_BODY

\* The fields after a new entry, and after m_totalLen was advanced.
LEMMA PutFields ==
  ASSUME NEW o \in Responses, NEW ref, NEW i, NEW len,
         [ref |-> ref, i |-> i, off |-> 0, len |-> len] \in Entries
  PROVE  /\ Put(o, ref, i, len) \in Responses
         /\ Put(o, ref, i, len).iov =
              [o.iov EXCEPT ![o.cur] =
                 [ref |-> ref, i |-> i, off |-> 0, len |-> len]]
         /\ Put(o, ref, i, len).cur = o.cur + 1
         /\ Put(o, ref, i, len).total = o.total
         /\ Rest(o, Put(o, ref, i, len))
  <1> DEFINE e == [ref |-> ref, i |-> i, off |-> 0, len |-> len]
  <1>1. Put(o, ref, i, len) = [o EXCEPT !.iov = [o.iov EXCEPT ![o.cur] = e],
                                        !.cur = o.cur + 1]
    BY DEF Put, Responses
  <1>2. e \in Entries
    OBVIOUS
  <1> HIDE DEF e
  <1>3. [o.iov EXCEPT ![o.cur] = e] \in [Slots -> Entries] /\ o.cur + 1 \in Nat
    <2>1. o.iov \in [Slots -> Entries] /\ o.cur \in Nat
      BY DEF Responses
    <2>2. PICK f \in [Slots -> Entries], a \in Nat : f = o.iov /\ a = o.cur
      BY <2>1
    <2>3. [f EXCEPT ![a] = e] \in [Slots -> Entries]
      BY <1>2
    <2>4. a + 1 \in Nat
      OBVIOUS
    <2> QED
      BY <2>2, <2>3, <2>4
  <1>4. PICK v, c : v = [o.iov EXCEPT ![o.cur] = e] /\ c = o.cur + 1
    OBVIOUS
  <1>5. [o EXCEPT !.iov = v, !.cur = c] \in Responses
    BY <1>3, <1>4 DEF Responses
  <1>6. /\ [o EXCEPT !.iov = v, !.cur = c].iov = v
        /\ [o EXCEPT !.iov = v, !.cur = c].cur = c
        /\ [o EXCEPT !.iov = v, !.cur = c].total = o.total
        /\ Rest(o, [o EXCEPT !.iov = v, !.cur = c])
    BY DEF Responses, Rest
  <1> QED
    BY <1>1, <1>4, <1>5, <1>6 DEF e

\* Count adds to m_totalLen and leaves the rest alone.
LEMMA CountFields ==
  ASSUME NEW o \in Responses, NEW n \in Nat
  PROVE  /\ Count(o, n) \in Responses
         /\ Count(o, n).iov = o.iov /\ Count(o, n).cur = o.cur
         /\ Count(o, n).total = o.total + n
         /\ Rest(o, Count(o, n))
  <1>1. PICK t \in Nat : t = o.total + n
    BY DEF Responses
  <1>2. Count(o, n) = [o EXCEPT !.total = t]
    BY <1>1 DEF Count, Responses
  <1>3. [o EXCEPT !.total = t] \in Responses
    BY DEF Responses
  <1>4. /\ [o EXCEPT !.total = t].iov = o.iov /\ [o EXCEPT !.total = t].cur = o.cur
        /\ [o EXCEPT !.total = t].total = t /\ Rest(o, [o EXCEPT !.total = t])
    BY DEF Responses, Rest
  <1> QED
    BY <1>1, <1>2, <1>3, <1>4

\* The fields after LSAPI_FinalizeRespHeaders_r.
LEMMA HeaderFields ==
  ASSUME NEW o \in Responses, o.RESP_HEADER,
         o.cur = 1, o.towrite = 1, o.total = 0,
         NEW size, size = RespHdr + o.cnt,
         NEW q, q = LSAPI_FinalizeRespHeaders_r(o)
  PROVE  /\ q \in Responses
         /\ ~q.RESP_HEADER /\ q.towrite = 0
         /\ q.cur = IF o.names > 0 THEN 2 ELSE 1
         /\ q.pos = o.pos /\ q.mem = o.mem
         /\ q.total = o.names + size /\ q.hdrpkt = o.names + size
         /\ q.iov[0] = [ref |-> "header", i |-> 0, off |-> 0, len |-> size]
         /\ o.names > 0 =>
              q.iov[1] = [ref |-> "names", i |-> 0, off |-> 0, len |-> o.names]
  <1> DEFINE h == [ref |-> "header", i |-> 0, off |-> 0, len |-> size]
  <1> DEFINE w == [ref |-> "names", i |-> 0, off |-> 0, len |-> o.names]
  <1> DEFINE named == IF o.names > 0
                      THEN Count(Put(o, "names", 0, o.names), o.names) ELSE o
  <1>1. size \in Nat /\ o.names \in Nat /\ 0 \in Slots /\ 1 \in Slots
    BY Sizes DEF Responses, Slots
  <1>2. h \in Entries /\ w \in Entries
    BY <1>1 DEF Entries
  <1>3. /\ named \in Responses /\ named.total = o.names
        /\ named.cur = IF o.names > 0 THEN 2 ELSE 1
        /\ named.pos = o.pos /\ named.mem = o.mem
        /\ o.names > 0 => named.iov[1] = w
    <2>1. CASE o.names > 0
      <3>1. /\ Put(o, "names", 0, o.names) \in Responses
            /\ Put(o, "names", 0, o.names).iov = [o.iov EXCEPT ![o.cur] = w]
            /\ Put(o, "names", 0, o.names).cur = o.cur + 1
            /\ Put(o, "names", 0, o.names).total = o.total
            /\ Rest(o, Put(o, "names", 0, o.names))
        BY <1>2, PutFields
      <3>2. PICK p \in Responses : p = Put(o, "names", 0, o.names)
        BY <3>1
      <3>3. /\ Count(p, o.names) \in Responses
            /\ Count(p, o.names).iov = p.iov /\ Count(p, o.names).cur = p.cur
            /\ Count(p, o.names).total = p.total + o.names
            /\ Rest(p, Count(p, o.names))
        BY <1>1, CountFields
      <3>4. named = Count(p, o.names)
        BY <2>1, <3>2
      <3>5. p.iov[1] = w
        <4>1. o.iov \in [Slots -> Entries]
          BY DEF Responses
        <4> HIDE DEF w
        <4> QED
          BY <3>1, <3>2, <4>1, <1>1
      <3>6. 0 + o.names = o.names
        BY <1>1
      <3> HIDE DEF named, w
      <3> QED
        BY <3>1, <3>2, <3>3, <3>4, <3>5, <3>6, <2>1 DEF Rest
    <2>2. CASE ~(o.names > 0)
      <3>1. o.names = 0
        BY <1>1, <2>2
      <3> QED
        BY <2>2, <3>1
    <2> QED
      BY <2>1, <2>2
  <1>4. q = [named EXCEPT !.RESP_HEADER = FALSE, !.iov[0] = h, !.towrite = 0,
                          !.total = @ + size, !.hdrpkt = named.total + size]
    BY DEF LSAPI_FinalizeRespHeaders_r
  <1> HIDE DEF named, h, w
  <1>5. PICK v, t : v = [named.iov EXCEPT ![0] = h] /\ t = named.total + size
    OBVIOUS
  <1>6. q = [named EXCEPT !.RESP_HEADER = FALSE, !.iov = v, !.towrite = 0,
                          !.total = t, !.hdrpkt = t]
    BY <1>3, <1>4, <1>5 DEF Responses
  <1>7. t \in Nat /\ t = o.names + size
    BY <1>1, <1>3, <1>5
  <1>8. /\ v \in [Slots -> Entries] /\ v[0] = h
        /\ o.names > 0 => v[1] = w
    <2>1. named.iov \in [Slots -> Entries]
      BY <1>3 DEF Responses
    <2>2. PICK f \in [Slots -> Entries] : f = named.iov
      BY <2>1
    <2>3. v \in [Slots -> Entries] /\ v[0] = h /\ v[1] = f[1]
      BY <1>1, <1>2, <1>5, <2>2
    <2> QED
      BY <2>2, <2>3, <1>3
  <1>9. q \in Responses
    BY <1>3, <1>6, <1>7, <1>8, ZenonT(30) DEF Responses
  <1>10. /\ q.RESP_HEADER = FALSE /\ q.iov = v /\ q.towrite = 0 /\ q.total = t
         /\ q.hdrpkt = t /\ q.cur = named.cur /\ q.pos = named.pos
         /\ q.mem = named.mem
    BY <1>3, <1>6 DEF Responses
  <1> QED
    BY <1>3, <1>7, <1>8, <1>9, <1>10 DEF h, w

\* The iovec holds nothing but the response header.
HeaderOnly(o) ==
  \A s \in o.towrite..(o.cur - 1) : o.iov[s].ref \in {"header", "names"}

\* LSAPI_FinalizeRespHeaders_r queues the header packet.
LEMMA HeaderQueued ==
  ASSUME NEW o \in Responses, WithinBounds(o), o.RESP_HEADER,
         o.cur = 1, o.towrite = 1, o.total = 0,
         NEW q, q = LSAPI_FinalizeRespHeaders_r(o)
  PROVE  /\ \E hd : Adds(o, q, "header", hd, <<>>)
         /\ ~q.RESP_HEADER /\ q.towrite = 0 /\ q.cur \in 1..2
         /\ q.pos = o.pos /\ q.mem = o.mem /\ HeaderOnly(q)
  <1>1. PICK size : size = RespHdr + o.cnt
    OBVIOUS
  <1>2. PICK w \in Nat : w = o.names
    BY DEF Responses
  <1>3. size \in Nat /\ size > 0
    BY <1>1, Sizes DEF Responses
  <1>4. /\ q \in Responses
        /\ ~q.RESP_HEADER /\ q.towrite = 0
        /\ q.cur = IF w > 0 THEN 2 ELSE 1
        /\ q.pos = o.pos /\ q.mem = o.mem
        /\ q.total = w + size /\ q.hdrpkt = w + size
        /\ q.iov[0] = [ref |-> "header", i |-> 0, off |-> 0, len |-> size]
        /\ w > 0 => q.iov[1] = [ref |-> "names", i |-> 0, off |-> 0, len |-> w]
    BY <1>1, <1>2, HeaderFields
  <1>5. ASSUME NEW s \in q.towrite..(q.cur - 1)
        PROVE  Sound(q, q.iov[s]) /\ q.iov[s].ref \in {"header", "names"}
    <2>1. s = 0 \/ (s = 1 /\ w > 0)
      BY <1>4, <1>2
    <2>2. CASE s = 0
      BY <2>2, <1>4, <1>3 DEF Sound
    <2>3. CASE s = 1 /\ w > 0
      BY <2>3, <1>4 DEF Sound
    <2> QED
      BY <2>1, <2>2, <2>3
  <1>6. WithinBounds(q)
    <2>1. q.pos <= RespBufSize /\ q.pos <= Len(q.mem)
      BY <1>4 DEF WithinBounds
    <2>2. q.towrite <= q.cur /\ q.cur <= IovecSize
      BY <1>4, <1>2, Sizes
    <2> QED
      BY <1>5, <2>1, <2>2 DEF WithinBounds, Sound
  <1>7. Pending(o) = <<>>
    <2>1. Pending(o) = Joined(Contents(o), 0)[0]
      BY PendingIs
    <2>2. Joined(Contents(o), 0)[0] = <<>>
      BY JoinedFew, Zenon
    <2> QED
      BY <2>1, <2>2
  <1> DEFINE a == Content(q, q.iov[0])
  <1> DEFINE b == Content(q, q.iov[1])
  <1>8. /\ a \in Seq(Cells) /\ Len(a) = size
        /\ \A k \in 1..size : a[k] = <<"header", IF k = 1 THEN w + size ELSE 0>>
    <2>1. 0 \in q.towrite..(q.cur - 1)
      BY <1>4, <1>2
    <2>2. PICK e : e = q.iov[0]
      OBVIOUS
    <2>3. e \in Entries /\ Sound(q, e) /\ e.ref = "header" /\ e.off = 0 /\ e.len = size
      BY <1>4, <1>5, <1>6, <2>1, <2>2, PendingIs
    <2>4. /\ Content(q, e) \in Seq(Cells) /\ Len(Content(q, e)) = e.len
          /\ \A k \in 1..e.len : Content(q, e)[k] = Byte(q, e, e.off + k)
      BY <1>4, <2>3, ContentType
    <2>5. \A k \in 1..size :
            Byte(q, e, e.off + k) = <<"header", IF k = 1 THEN w + size ELSE 0>>
      BY <2>3, <1>4 DEF Byte
    <2> QED
      BY <2>2, <2>3, <2>4, <2>5
  <1>9. w > 0 => /\ b \in Seq(Cells) /\ Len(b) = w
                 /\ \A k \in 1..w : b[k] = <<"name", 0>>
    <2> HAVE w > 0
    <2>1. 1 \in q.towrite..(q.cur - 1)
      BY <1>4, <1>2
    <2>2. PICK e : e = q.iov[1]
      OBVIOUS
    <2>3. e \in Entries /\ Sound(q, e) /\ e.ref = "names" /\ e.off = 0 /\ e.len = w
      BY <1>4, <1>5, <1>6, <2>1, <2>2, PendingIs
    <2>4. /\ Content(q, e) \in Seq(Cells) /\ Len(Content(q, e)) = e.len
          /\ \A k \in 1..e.len : Content(q, e)[k] = Byte(q, e, e.off + k)
      BY <1>4, <2>3, ContentType
    <2>5. \A k \in 1..w : Byte(q, e, e.off + k) = <<"name", 0>>
      BY <2>3, <1>4 DEF Byte
    <2> QED
      BY <2>2, <2>3, <2>4, <2>5
  <1> DEFINE n == IF w > 0 THEN 2 ELSE 1
  <1>10. /\ q.cur - q.towrite = n /\ n \in Nat
         /\ Pending(q) = Joined(Contents(q), n)[n]
         /\ Contents(q)[1] = a /\ (w > 0 => Contents(q)[2] = b)
    <2>1. q.cur - q.towrite = n
      BY <1>4
    <2>2. Pending(q) = Joined(Contents(q), n)[n]
      BY <2>1, <1>4, <1>6, PendingIs
    <2>3. Contents(q)[1] = Content(q, q.iov[0 + 1 - 1])
      BY <1>4, <2>1 DEF Contents
    <2>4. w > 0 => Contents(q)[2] = Content(q, q.iov[0 + 2 - 1])
      BY <1>4, <2>1 DEF Contents
    <2> QED
      BY <2>1, <2>2, <2>3, <2>4
  <1> HIDE DEF a, b
  <1>11. CASE w > 0
    <2>1. Pending(q) = Cat(Cat(<<>>, a), b)
      <3>1. Joined(Contents(q), 2)[2] = Cat(Cat(<<>>, Contents(q)[1]), Contents(q)[2])
        BY JoinedFew, Zenon
      <3>2. n = 2
        BY <1>11
      <3> QED
        BY <3>1, <3>2, <1>10, <1>11
    <2>2. PICK hd : hd = Cat(a, b)
      OBVIOUS
    <2>3. /\ hd \in Seq(Cells) /\ Len(hd) = size + w
          /\ \A i \in 1..size : hd[i] = a[i]
          /\ \A i \in 1..w : hd[size + i] = b[i]
      <3>1. b \in Seq(Cells) /\ Len(b) = w
        BY <1>9, <1>11
      <3>2. /\ Cat(a, b) \in Seq(Cells) /\ Len(Cat(a, b)) = Len(a) + Len(b)
            /\ \A i \in 1..Len(a) : Cat(a, b)[i] = a[i]
            /\ \A i \in 1..Len(b) : Cat(a, b)[Len(a) + i] = b[i]
        BY <1>8, <3>1, CatType, Zenon
      <3> QED
        BY <3>1, <3>2, <2>2, <1>8
    <2>4. hd[1] = <<"header", Len(hd) + Len(<<>>)>>
      BY <2>3, <1>3, <1>8
    <2>5. ASSUME NEW i \in 1..Len(hd)
          PROVE  hd[i][1] # "byte" /\ (i > 1 => hd[i][2] = 0)
      <3>1. CASE i \in 1..size
        BY <3>1, <2>3, <1>8
      <3>2. CASE i \notin 1..size
        <4>1. i - size \in 1..w /\ size + (i - size) = i
          BY <3>2, <2>3, <1>3
        <4> QED
          BY <4>1, <2>3, <1>9, <1>11
      <3> QED
        BY <3>1, <3>2
    <2>6. Packet("header", hd, <<>>)
      BY <2>3, <2>4, <2>5, <1>3 DEF Packet
    <2>7. Pending(q) = Cat(Pending(o), Cat(hd, <<>>))
      BY <2>1, <2>2, <2>3, <1>7, <1>8, CatEmpty
    <2>8. q.total = o.total + (Len(hd) + Len(<<>>))
      BY <2>3, <1>3, <1>4
    <2>9. Adds(o, q, "header", hd, <<>>)
      BY <2>6, <2>7, <2>8, <1>4, <1>6 DEF Adds
    <2> QED
      BY <2>9, <1>4, <1>5, <1>11 DEF HeaderOnly
  <1>12. CASE ~(w > 0)
    <2>1. Pending(q) = Cat(<<>>, a)
      <3>1. Joined(Contents(q), 1)[1] = Cat(<<>>, Contents(q)[1])
        BY JoinedFew, Zenon
      <3>2. n = 1
        BY <1>12
      <3> QED
        BY <3>1, <3>2, <1>10
    <2>2. w = 0
      BY <1>12
    <2>4. a[1] = <<"header", Len(a) + Len(<<>>)>>
      BY <1>3, <1>8, <2>2
    <2>5. \A i \in 1..Len(a) : a[i][1] # "byte" /\ (i > 1 => a[i][2] = 0)
      BY <1>8, <1>3
    <2>6. Packet("header", a, <<>>)
      BY <2>4, <2>5, <1>3, <1>8 DEF Packet
    <2>7. Pending(q) = Cat(Pending(o), Cat(a, <<>>))
      BY <2>1, <1>7, <1>8, CatEmpty
    <2>8. q.total = o.total + (Len(a) + Len(<<>>))
      BY <2>2, <1>3, <1>4, <1>8
    <2>9. Adds(o, q, "header", a, <<>>)
      BY <2>6, <2>7, <2>8, <1>4, <1>6 DEF Adds
    <2> QED
      BY <2>9, <1>4, <1>5, <1>12 DEF HeaderOnly
  <1> QED
    BY <1>11, <1>12

\* The content of an entry none of which has been written.
LEMMA NewContent ==
  ASSUME NEW q \in Responses, NEW e \in Entries, Sound(q, e), e.off = 0
  PROVE  /\ Content(q, e) \in Seq(Cells) /\ Len(Content(q, e)) = e.len
         /\ \A k \in 1..e.len :
              /\ e.ref = "pkt" =>
                   Content(q, e)[k] = <<"stream", IF k = 1 THEN q.pkt[e.i] ELSE 0>>
              /\ e.ref = "buf" => Content(q, e)[k] = <<"byte", q.mem[k]>>
              /\ e.ref = "data" => Content(q, e)[k] = <<"byte", e.i + k>>
              /\ e.ref = "end" =>
                   Content(q, e)[k] = <<"end", IF k = 1 THEN PktHdr ELSE 0>>
  <1>1. /\ Content(q, e) \in Seq(Cells) /\ Len(Content(q, e)) = e.len
        /\ \A k \in 1..e.len : Content(q, e)[k] = Byte(q, e, e.off + k)
    BY ContentType
  <1>2. \A k \in 1..e.len : e.off + k = k
    BY DEF Entries
  <1>3. \A k \in 1..e.len :
          /\ e.ref = "pkt" =>
               Byte(q, e, k) = <<"stream", IF k = 1 THEN q.pkt[e.i] ELSE 0>>
          /\ e.ref = "buf" => Byte(q, e, k) = <<"byte", q.mem[k]>>
          /\ e.ref = "data" => Byte(q, e, k) = <<"byte", e.i + k>>
          /\ e.ref = "end" =>
               Byte(q, e, k) = <<"end", IF k = 1 THEN PktHdr ELSE 0>>
    BY DEF Byte
  <1> QED
    BY <1>1, <1>2, <1>3

\* What is needed of k new entries.
LEMMA MakeMore ==
  ASSUME NEW o \in Responses, WithinBounds(o), NEW q \in Responses, NEW k \in Nat,
         q.towrite = o.towrite, q.cur = o.cur + k, q.cur <= IovecSize,
         q.mem = o.mem, q.hdrpkt = o.hdrpkt, q.pos <= o.pos,
         \A s \in o.towrite..(o.cur - 1) :
           /\ q.iov[s] = o.iov[s]
           /\ o.iov[s].ref = "pkt" => q.pkt[o.iov[s].i] = o.pkt[o.iov[s].i],
         \A s \in o.cur..(q.cur - 1) : Sound(q, q.iov[s])
  PROVE  More(o, q, k)
  <1>1. PICK a \in Nat, b \in Nat : a = o.cur /\ b = o.towrite
    BY DEF Responses
  <1>2. b <= a /\ q.cur = a + k /\ q.towrite = b
    BY <1>1 DEF WithinBounds
  <1>3. \A s \in b..((a + k) - 1) : s \in b..(a - 1) \/ s \in a..((a + k) - 1)
    BY <1>2
  <1>4. \A s \in b..(a - 1) : Sound(q, q.iov[s])
    BY <1>1 DEF WithinBounds, Sound
  <1>5. \A s \in q.towrite..(q.cur - 1) : Sound(q, q.iov[s])
    BY <1>1, <1>2, <1>3, <1>4
  <1>6. q.pos <= RespBufSize /\ q.pos <= Len(q.mem)
    <2>1. PICK x \in Nat, y \in Nat, z \in Nat : x = q.pos /\ y = o.pos /\ z = Len(o.mem)
      BY DEF Responses
    <2>2. x <= y /\ y <= RespBufSize /\ y <= z
      BY <2>1 DEF WithinBounds
    <2> QED
      BY <2>1, <2>2, Sizes
  <1>7. q.towrite <= q.cur /\ q.cur <= IovecSize
    BY <1>2
  <1>8. WithinBounds(q)
    BY <1>5, <1>6, <1>7 DEF WithinBounds, Sound
  <1>9. \A s \in o.towrite..(o.cur - 1) : Content(q, q.iov[s]) = Content(o, o.iov[s])
    BY SameContent
  <1> QED
    BY <1>8, <1>9 DEF More

\* LSAPI_Finish_r queues the end of the response.
LEMMA EndQueued ==
  ASSUME NEW o \in Responses, WithinBounds(o), o.cur + 1 <= IovecSize,
         NEW q, q = Count(Put(o, "end", 0, PktHdr), PktHdr)
  PROVE  /\ \E hd : Adds(o, q, "end", hd, <<>>) /\ Len(hd) = PktHdr
         /\ Rest(o, q) /\ q.cur = o.cur + 1
  <1> DEFINE e == [ref |-> "end", i |-> 0, off |-> 0, len |-> PktHdr]
  <1>1. e \in Entries
    BY Sizes DEF Entries
  <1>2. PICK p : p = Put(o, "end", 0, PktHdr)
    OBVIOUS
  <1>3. /\ p \in Responses /\ p.iov = [o.iov EXCEPT ![o.cur] = e]
        /\ p.cur = o.cur + 1 /\ p.total = o.total /\ Rest(o, p)
    BY <1>1, <1>2, PutFields
  <1>4. /\ q \in Responses /\ q.iov = p.iov /\ q.cur = p.cur
        /\ q.total = p.total + PktHdr /\ Rest(p, q)
    BY <1>2, <1>3, Sizes, CountFields
  <1>5. Rest(o, q) /\ q.cur = o.cur + 1 /\ q.total = o.total + PktHdr
    BY <1>3, <1>4 DEF Rest
  <1>6. PICK a \in Nat, b \in Nat : a = o.cur /\ b = o.towrite
    BY DEF Responses
  <1>7. a \in Slots
    BY <1>6, Sizes DEF Slots
  <1>8. o.iov \in [Slots -> Entries]
    BY DEF Responses
  <1>9. q.iov[a] = e /\ \A s \in b..(a - 1) : q.iov[s] = o.iov[s]
    <2>1. q.iov[a] = e
      BY <1>3, <1>4, <1>6, <1>7, <1>8
    <2>2. \A s \in b..(a - 1) : s \in Slots /\ s # a
      BY <1>6, <1>7, Sizes DEF Slots
    <2> QED
      BY <2>1, <2>2, <1>3, <1>4, <1>6, <1>8
  <1> HIDE DEF e
  <1>10. Sound(q, e) /\ e.off = 0 /\ e.len = PktHdr /\ e.ref = "end"
    BY Sizes DEF Sound, e
  <1>11. More(o, q, 1)
    <2>1. \A s \in o.cur..(q.cur - 1) : Sound(q, q.iov[s])
      <3>1. \A s \in a..((a + 1) - 1) : s = a
        OBVIOUS
      <3> QED
        BY <3>1, <1>5, <1>6, <1>9, <1>10
    <2>2. /\ q.mem = o.mem /\ q.hdrpkt = o.hdrpkt /\ q.pkt = o.pkt
          /\ q.towrite = o.towrite /\ q.pos <= o.pos
      BY <1>5 DEF Rest, Responses
    <2>3. \A s \in o.towrite..(o.cur - 1) :
            /\ q.iov[s] = o.iov[s]
            /\ o.iov[s].ref = "pkt" => q.pkt[o.iov[s].i] = o.pkt[o.iov[s].i]
      BY <1>6, <1>9, <2>2
    <2>4. q.cur = o.cur + 1 /\ q.cur <= IovecSize /\ 1 \in Nat
      BY <1>5
    <2> QED
      BY <2>1, <2>2, <2>3, <2>4, <1>4, MakeMore
  <1>12. PICK hd : hd = Content(q, e)
    OBVIOUS
  <1>13. /\ hd \in Seq(Cells) /\ Len(hd) = PktHdr
         /\ \A k \in 1..PktHdr : hd[k] = <<"end", IF k = 1 THEN PktHdr ELSE 0>>
    BY <1>1, <1>4, <1>10, <1>12, NewContent
  <1>14. Packet("end", hd, <<>>)
    BY <1>13, Sizes DEF Packet
  <1>15. Pending(q) = Cat(Pending(o), Cat(hd, <<>>))
    <2>1. Pending(q) = Cat(Pending(o), Content(q, q.iov[o.cur]))
      BY <1>11, MorePending
    <2>2. Cat(hd, <<>>) = hd
      BY <1>13, CatEmpty
    <2> QED
      BY <2>1, <2>2, <1>6, <1>9, <1>12
  <1>16. Adds(o, q, "end", hd, <<>>)
    BY <1>5, <1>11, <1>13, <1>14, <1>15 DEF Adds, More
  <1> QED
    BY <1>5, <1>13, <1>16

\* Flush_RespBuf_r queues what is in the buffer as a packet.
LEMMA BufQueued ==
  ASSUME NEW o \in Responses, WithinBounds(o), o.cur + 2 <= IovecSize,
         o.pos > 0, HeaderOnly(o),
         NEW q, q = Flush_RespBuf_r(o)
  PROVE  /\ \E hd, tl :
              /\ Adds(o, q, "stream", hd, tl)
              /\ Len(hd) = PktHdr /\ Len(tl) = o.pos
              /\ \A k \in 1..o.pos : tl[k] = <<"byte", o.mem[k]>>
         /\ q.cur = o.cur + 2 /\ q.towrite = o.towrite /\ q.pos = 0
         /\ q.mem = o.mem /\ q.RESP_HEADER = o.RESP_HEADER
  <1>1. PICK a \in Nat, b \in Nat, m \in Nat : a = o.cur /\ b = o.towrite /\ m = o.pos
    BY DEF Responses
  <1> DEFINE e == [ref |-> "pkt", i |-> 0, off |-> 0, len |-> PktHdr]
  <1> DEFINE f == [ref |-> "buf", i |-> 0, off |-> 0, len |-> m]
  <1>2. e \in Entries /\ f \in Entries
    BY Sizes DEF Entries
  <1>3. PICK p : p = Put(o, "pkt", 0, PktHdr)
    OBVIOUS
  <1>4. /\ p \in Responses /\ p.iov = [o.iov EXCEPT ![o.cur] = e]
        /\ p.cur = o.cur + 1 /\ p.total = o.total /\ Rest(o, p)
    BY <1>2, <1>3, PutFields
  <1>5. PICK r : r = Put(p, "buf", 0, m)
    OBVIOUS
  <1>6. /\ r \in Responses /\ r.iov = [p.iov EXCEPT ![p.cur] = f]
        /\ r.cur = p.cur + 1 /\ r.total = p.total /\ Rest(p, r)
    BY <1>2, <1>4, <1>5, PutFields
  <1>c. PICK c \in Nat : c = m + PktHdr
    BY Sizes
  <1>7. PICK t : t = Count(r, c)
    OBVIOUS
  <1>8. /\ t \in Responses /\ t.iov = r.iov /\ t.cur = r.cur
        /\ t.total = r.total + c /\ Rest(r, t)
    BY <1>6, <1>7, CountFields
  <1>9. /\ Rest(o, t) /\ t.cur = a + 2 /\ t.total = o.total + c
        /\ t.iov = [[o.iov EXCEPT ![a] = e] EXCEPT ![a + 1] = f]
    <2>1. Rest(o, t)
      BY <1>4, <1>6, <1>8 DEF Rest
    <2>2. p.cur = a + 1 /\ r.cur = a + 2
      BY <1>1, <1>4, <1>6
    <2> QED
      BY <2>1, <2>2, <1>1, <1>4, <1>6, <1>8
  <1> HIDE DEF e, f
  <1>10. PICK g : g = [o.pkt EXCEPT ![0] = c]
    OBVIOUS
  <1>11. g \in [0..(PktHeaders - 1) -> Nat] /\ g[0] = c
    <2>1. o.pkt \in [0..(PktHeaders - 1) -> Nat]
      BY DEF Responses
    <2>2. 0 \in 0..(PktHeaders - 1)
      BY Sizes
    <2> QED
      BY <1>10, <2>1, <2>2
  <1>12. q = [t EXCEPT !.RESP_BODY = TRUE, !.pkt = g, !.pos = 0]
    <2>1. q = [t EXCEPT !.RESP_BODY = TRUE, !.pkt[0] = c, !.pos = 0]
      BY <1>1, <1>3, <1>5, <1>7, <1>c DEF Flush_RespBuf_r
    <2>2. t.pkt = o.pkt
      BY <1>9 DEF Rest
    <2> QED
      BY <2>1, <2>2, <1>8, <1>10 DEF Responses
  <1>13. q \in Responses
    <2>1. 0 \in Nat /\ TRUE \in BOOLEAN
      OBVIOUS
    <2> QED
      BY <2>1, <1>8, <1>11, <1>12 DEF Responses
  <1>14. /\ q.iov = t.iov /\ q.cur = t.cur /\ q.total = t.total /\ q.pkt = g /\ q.pos = 0
         /\ q.towrite = t.towrite /\ q.mem = t.mem /\ q.hdrpkt = t.hdrpkt
         /\ q.RESP_HEADER = t.RESP_HEADER
    BY <1>8, <1>12 DEF Responses
  <1>15. /\ q.cur = a + 2 /\ q.total = o.total + c /\ q.towrite = o.towrite
         /\ q.mem = o.mem /\ q.hdrpkt = o.hdrpkt /\ q.RESP_HEADER = o.RESP_HEADER
    BY <1>9, <1>14 DEF Rest
  <1>16. a \in Slots /\ a + 1 \in Slots
    BY <1>1, Sizes DEF Slots
  <1>17. /\ q.iov[a] = e /\ q.iov[a + 1] = f
         /\ \A s \in b..(a - 1) : q.iov[s] = o.iov[s]
    <2>1. o.iov \in [Slots -> Entries]
      BY DEF Responses
    <2>2. \A s \in b..(a - 1) : s \in Slots /\ s # a /\ s # a + 1
      BY <1>16, Sizes DEF Slots
    <2> QED
      BY <2>1, <2>2, <1>9, <1>14, <1>16
  <1>18. Sound(q, e) /\ e.off = 0 /\ e.len = PktHdr /\ e.ref = "pkt" /\ e.i = 0
    BY Sizes DEF Sound, e
  <1>19. Sound(q, f) /\ f.off = 0 /\ f.len = m /\ f.ref = "buf"
    BY <1>1, <1>15 DEF Sound, f, WithinBounds
  <1>20. More(o, q, 2)
    <2>1. \A s \in o.cur..(q.cur - 1) : Sound(q, q.iov[s])
      <3>1. \A s \in a..((a + 2) - 1) : s = a \/ s = a + 1
        OBVIOUS
      <3> QED
        BY <3>1, <1>1, <1>15, <1>17, <1>18, <1>19
    <2>2. \A s \in o.towrite..(o.cur - 1) :
            /\ q.iov[s] = o.iov[s]
            /\ o.iov[s].ref = "pkt" => q.pkt[o.iov[s].i] = o.pkt[o.iov[s].i]
      BY <1>1, <1>17 DEF HeaderOnly
    <2>3. q.cur = o.cur + 2 /\ q.cur <= IovecSize /\ 2 \in Nat /\ q.pos <= o.pos
      BY <1>1, <1>14, <1>15
    <2> QED
      BY <2>1, <2>2, <2>3, <1>13, <1>15, MakeMore
  <1>21. PICK hd, tl : hd = Content(q, e) /\ tl = Content(q, f)
    OBVIOUS
  <1>22. /\ hd \in Seq(Cells) /\ Len(hd) = PktHdr
         /\ \A k \in 1..PktHdr : hd[k] = <<"stream", IF k = 1 THEN c ELSE 0>>
    <2>1. q.pkt[e.i] = c
      BY <1>11, <1>14, <1>18
    <2>2. /\ Content(q, e) \in Seq(Cells) /\ Len(Content(q, e)) = e.len
          /\ \A k \in 1..e.len : e.ref = "pkt" =>
               Content(q, e)[k] = <<"stream", IF k = 1 THEN q.pkt[e.i] ELSE 0>>
      BY <1>2, <1>13, <1>18, NewContent
    <2> QED
      BY <2>1, <2>2, <1>18, <1>21
  <1>23. /\ tl \in Seq(Cells) /\ Len(tl) = m
         /\ \A k \in 1..m : tl[k] = <<"byte", o.mem[k]>>
    BY <1>2, <1>13, <1>15, <1>19, <1>21, NewContent
  <1>24. Packet("stream", hd, tl)
    BY <1>22, <1>23, <1>c, Sizes, SMTT(30) DEF Packet
  <1>25. Pending(q) = Cat(Pending(o), Cat(hd, tl))
    <2>1. Pending(q) = Cat(Cat(Pending(o), Content(q, q.iov[o.cur])),
                           Content(q, q.iov[o.cur + 1]))
      BY <1>20, MorePending
    <2>2. Pending(q) = Cat(Cat(Pending(o), hd), tl)
      BY <2>1, <1>1, <1>17, <1>21
    <2>3. Pending(o) \in Seq(Cells)
      BY PendingIs
    <2> QED
      BY <2>2, <2>3, <1>22, <1>23, CatAssoc
  <1>26. Adds(o, q, "stream", hd, tl)
    <2>1. q.total = o.total + (Len(hd) + Len(tl))
      BY <1>15, <1>22, <1>23, <1>c, Sizes
    <2> QED
      BY <2>1, <1>20, <1>24, <1>25 DEF Adds, More
  <1>27. /\ Adds(o, q, "stream", hd, tl)
         /\ Len(hd) = PktHdr /\ Len(tl) = o.pos
         /\ \A k \in 1..o.pos : tl[k] = <<"byte", o.mem[k]>>
    BY <1>1, <1>22, <1>23, <1>26
  <1>28. q.cur = o.cur + 2 /\ q.pos = 0
    BY <1>1, <1>14, <1>15
  <1> QED
    BY <1>15, <1>27, <1>28

\* The last of the assignments of QueuePacket: the data, the length of the packet,
\* and the empty buffer.
DataPut(r, q, s0, x, d, c) ==
  q = [Count(Put(r, "data", x, d), c) EXCEPT !.pkt[s0] = c, !.pos = 0]

\* What it does to each field.
LEMMA PacketFields ==
  ASSUME NEW o \in Responses, NEW r \in Responses, Rest(o, r), r.total = o.total,
         NEW s0 \in 0..(PktHeaders - 1), NEW x \in Nat, NEW d \in Nat, NEW c \in Nat,
         NEW q, DataPut(r, q, s0, x, d, c)
  PROVE  /\ q \in Responses
         /\ q.iov = [r.iov EXCEPT ![r.cur] =
                       [ref |-> "data", i |-> x, off |-> 0, len |-> d]]
         /\ q.cur = r.cur + 1 /\ q.total = o.total + c
         /\ q.pkt = [o.pkt EXCEPT ![s0] = c] /\ q.pos = 0
         /\ q.towrite = o.towrite /\ q.mem = o.mem /\ q.hdrpkt = o.hdrpkt
         /\ q.RESP_HEADER = o.RESP_HEADER
  <1> DEFINE e == [ref |-> "data", i |-> x, off |-> 0, len |-> d]
  <1>1. e \in Entries
    BY DEF Entries
  <1>2. PICK p : p = Put(r, "data", x, d)
    OBVIOUS
  <1>3. /\ p \in Responses /\ p.iov = [r.iov EXCEPT ![r.cur] = e]
        /\ p.cur = r.cur + 1 /\ p.total = r.total /\ Rest(r, p)
    BY <1>1, <1>2, PutFields
  <1>4. PICK t : t = Count(p, c)
    OBVIOUS
  <1>5. /\ t \in Responses /\ t.iov = p.iov /\ t.cur = p.cur
        /\ t.total = p.total + c /\ Rest(p, t)
    BY <1>3, <1>4, CountFields
  <1>6. Rest(o, t)
    BY <1>3, <1>5 DEF Rest
  <1>7. PICK g : g = [o.pkt EXCEPT ![s0] = c]
    OBVIOUS
  <1>8. g \in [0..(PktHeaders - 1) -> Nat]
    <2>1. o.pkt \in [0..(PktHeaders - 1) -> Nat]
      BY DEF Responses
    <2> QED
      BY <2>1, <1>7
  <1>9. q = [t EXCEPT !.pkt = g, !.pos = 0]
    <2>1. q = [t EXCEPT !.pkt[s0] = c, !.pos = 0]
      BY <1>2, <1>4 DEF DataPut
    <2>2. t.pkt = o.pkt
      BY <1>6 DEF Rest
    <2> QED
      BY <2>1, <2>2, <1>5, <1>7 DEF Responses
  <1>10. q \in Responses
    <2>1. 0 \in Nat
      OBVIOUS
    <2> QED
      BY <2>1, <1>5, <1>8, <1>9 DEF Responses
  <1>11. /\ q.iov = t.iov /\ q.cur = t.cur /\ q.total = t.total /\ q.pkt = g /\ q.pos = 0
         /\ q.towrite = t.towrite /\ q.mem = t.mem /\ q.hdrpkt = t.hdrpkt
         /\ q.RESP_HEADER = t.RESP_HEADER
    BY <1>5, <1>9 DEF Responses
  <1> QED
    BY <1>3, <1>5, <1>6, <1>7, <1>10, <1>11 DEF Rest

\* The length of the packet LSAPI_Write_r queues next.
LEMMA PacketSize ==
  ASSUME NEW o \in Responses, todo \in Nat, todo > 0, o.pos < RespBufSize
  PROVE  \E m \in Nat, p \in Nat :
           /\ m = o.pos /\ p = PacketLen(o) /\ p > m /\ p - m <= todo
           /\ p <= MaxPacket /\ p - m \in Nat
  <1>1. PICK m \in Nat : m = o.pos
    BY DEF Responses
  <1>2. m < RespBufSize
    BY <1>1
  <1>3. PICK p : p = PacketLen(o)
    OBVIOUS
  <1>4. p = IF todo + m <= MaxPacket THEN todo + m ELSE MaxPacket
    BY <1>1, <1>3 DEF PacketLen, Least
  <1>5. p \in Nat /\ p > m /\ p - m <= todo /\ p <= MaxPacket /\ p - m \in Nat
    BY <1>2, <1>4, Sizes
  <1> QED
    BY <1>1, <1>3, <1>5

\* No packet header of the iovec has number n or a higher one.
HeadersBelow(o, n) ==
  \A s \in o.towrite..(o.cur - 1) : o.iov[s].ref = "pkt" => o.iov[s].i < n

\* The bytes of the packet: the buffer, then the data.
PacketData(o, x, tl) ==
  \A k \in 1..Len(tl) :
    tl[k] = <<"byte", IF k <= o.pos THEN o.mem[k] ELSE x + (k - o.pos)>>

\* A packet of data alone.
LEMMA DataQueued ==
  ASSUME NEW o \in Responses, WithinBounds(o), o.pos = 0, o.cur + 2 <= IovecSize,
         NEW s0 \in 0..(PktHeaders - 1), HeadersBelow(o, s0),
         NEW x \in Nat, NEW p \in Nat, p > 0,
         NEW c \in Nat, c = p + PktHdr,
         NEW q, DataPut(Put(o, "pkt", s0, PktHdr), q, s0, x, p, c)
  PROVE  /\ \E hd, tl : /\ Adds(o, q, "stream", hd, tl) /\ PacketData(o, x, tl)
                        /\ Len(hd) = PktHdr /\ Len(tl) = p
         /\ q.cur = o.cur + 2 /\ q.towrite = o.towrite /\ q.pos = 0 /\ q.mem = o.mem
         /\ q.RESP_HEADER = o.RESP_HEADER /\ HeadersBelow(q, s0 + 1)
  <1>1. PICK a \in Nat, b \in Nat : a = o.cur /\ b = o.towrite
    BY DEF Responses
  <1> DEFINE e == [ref |-> "pkt", i |-> s0, off |-> 0, len |-> PktHdr]
  <1> DEFINE f == [ref |-> "data", i |-> x, off |-> 0, len |-> p]
  <1>2. e \in Entries /\ f \in Entries
    BY Sizes DEF Entries
  <1>3. PICK r : r = Put(o, "pkt", s0, PktHdr)
    OBVIOUS
  <1>4. /\ r \in Responses /\ r.iov = [o.iov EXCEPT ![o.cur] = e]
        /\ r.cur = o.cur + 1 /\ r.total = o.total /\ Rest(o, r)
    BY <1>2, <1>3, PutFields
  <1>5. /\ q \in Responses /\ q.iov = [r.iov EXCEPT ![r.cur] = f]
        /\ q.cur = r.cur + 1 /\ q.total = o.total + c
        /\ q.pkt = [o.pkt EXCEPT ![s0] = c] /\ q.pos = 0
        /\ q.towrite = o.towrite /\ q.mem = o.mem /\ q.hdrpkt = o.hdrpkt
        /\ q.RESP_HEADER = o.RESP_HEADER
    <2>1. DataPut(r, q, s0, x, p, c)
      BY <1>3
    <2>2. r \in Responses /\ Rest(o, r) /\ r.total = o.total
      BY <1>4
    <2> QED
      BY <2>1, <2>2, PacketFields
  <1> HIDE DEF e, f
  <1>6. q.cur = a + 2 /\ q.iov = [[o.iov EXCEPT ![a] = e] EXCEPT ![a + 1] = f]
    <2>1. r.cur = a + 1
      BY <1>1, <1>4
    <2> QED
      BY <2>1, <1>1, <1>4, <1>5
  <1>7. a \in Slots /\ a + 1 \in Slots
    BY <1>1, Sizes DEF Slots
  <1>8. /\ q.iov[a] = e /\ q.iov[a + 1] = f
        /\ \A s \in b..(a - 1) : q.iov[s] = o.iov[s]
    <2>1. o.iov \in [Slots -> Entries]
      BY DEF Responses
    <2>2. \A s \in b..(a - 1) : s \in Slots /\ s # a /\ s # a + 1
      BY <1>7, Sizes DEF Slots
    <2> QED
      BY <2>1, <2>2, <1>6, <1>7
  <1>9. /\ Sound(q, e) /\ e.off = 0 /\ e.len = PktHdr /\ e.ref = "pkt" /\ e.i = s0
        /\ Sound(q, f) /\ f.off = 0 /\ f.len = p /\ f.ref = "data" /\ f.i = x
    BY Sizes DEF Sound, e, f
  <1>10. q.pkt[s0] = c /\ \A i \in Nat : i < s0 => q.pkt[i] = o.pkt[i]
    <2>1. o.pkt \in [0..(PktHeaders - 1) -> Nat]
      BY DEF Responses
    <2>2. \A i \in Nat : i < s0 => i \in 0..(PktHeaders - 1) /\ i # s0
      BY Sizes
    <2>3. q.pkt = [o.pkt EXCEPT ![s0] = c]
      BY <1>5
    <2>4. q.pkt[s0] = c /\ \A i \in 0..(PktHeaders - 1) : i # s0 => q.pkt[i] = o.pkt[i]
      BY <2>1, <2>3
    <2> QED
      BY <2>2, <2>4
  <1>11. \A s \in b..(a - 1) : o.iov[s].ref = "pkt" => o.iov[s].i \in Nat /\ o.iov[s].i < s0
    <2>1. \A s \in b..(a - 1) : o.iov[s] \in Entries
      BY <1>1, PendingIs
    <2> QED
      BY <2>1, <1>1 DEF HeadersBelow, Entries
  <1>12. \A s \in a..((a + 2) - 1) : s = a \/ s = a + 1
    OBVIOUS
  <1>13. More(o, q, 2)
    <2>1. \A s \in o.cur..(q.cur - 1) : Sound(q, q.iov[s])
      BY <1>1, <1>6, <1>8, <1>9, <1>12
    <2>2. \A s \in o.towrite..(o.cur - 1) :
            /\ q.iov[s] = o.iov[s]
            /\ o.iov[s].ref = "pkt" => q.pkt[o.iov[s].i] = o.pkt[o.iov[s].i]
      BY <1>1, <1>8, <1>10, <1>11
    <2>3. q.cur = o.cur + 2 /\ q.cur <= IovecSize /\ 2 \in Nat /\ q.pos <= o.pos
      BY <1>1, <1>5, <1>6
    <2> QED
      BY <2>1, <2>2, <2>3, <1>5, MakeMore
  <1>14. HeadersBelow(q, s0 + 1)
    <2> SUFFICES ASSUME NEW s \in b..((a + 2) - 1), q.iov[s].ref = "pkt"
                 PROVE  q.iov[s].i < s0 + 1
      BY <1>1, <1>5, <1>6 DEF HeadersBelow
    <2>1. CASE s \in b..(a - 1)
      BY <2>1, <1>8, <1>11
    <2>2. CASE s \notin b..(a - 1)
      <3>1. s \in a..((a + 2) - 1)
        BY <2>2
      <3> QED
        BY <3>1, <1>8, <1>9, <1>12
    <2> QED
      BY <2>1, <2>2
  <1>15. PICK hd, tl : hd = Content(q, e) /\ tl = Content(q, f)
    OBVIOUS
  <1>16. /\ hd \in Seq(Cells) /\ Len(hd) = PktHdr
         /\ \A k \in 1..PktHdr : hd[k] = <<"stream", IF k = 1 THEN c ELSE 0>>
    <2>1. q.pkt[e.i] = c
      BY <1>9, <1>10
    <2>2. /\ Content(q, e) \in Seq(Cells) /\ Len(Content(q, e)) = e.len
          /\ \A k \in 1..e.len : e.ref = "pkt" =>
               Content(q, e)[k] = <<"stream", IF k = 1 THEN q.pkt[e.i] ELSE 0>>
      <3>1. q \in Responses /\ e \in Entries /\ Sound(q, e) /\ e.off = 0
        BY <1>2, <1>5, <1>9
      <3> QED
        BY <3>1, NewContent, Zenon
    <2> QED
      BY <2>1, <2>2, <1>9, <1>15
  <1>17. /\ tl \in Seq(Cells) /\ Len(tl) = p
         /\ \A k \in 1..p : tl[k] = <<"byte", x + k>>
    <2>1. /\ Content(q, f) \in Seq(Cells) /\ Len(Content(q, f)) = f.len
          /\ \A k \in 1..f.len : f.ref = "data" => Content(q, f)[k] = <<"byte", f.i + k>>
      <3>1. q \in Responses /\ f \in Entries /\ Sound(q, f) /\ f.off = 0
        BY <1>2, <1>5, <1>9
      <3> QED
        BY <3>1, NewContent, Zenon
    <2> QED
      BY <2>1, <1>9, <1>15
  <1>18. PacketData(o, x, tl)
    <2>1. \A k \in 1..p : ~(k <= 0) /\ k - 0 = k
      OBVIOUS
    <2> QED
      BY <2>1, <1>17 DEF PacketData
  <1>19. Packet("stream", hd, tl)
    <2>1. hd[1] = <<"stream", Len(hd) + Len(tl)>>
      <3>1. Len(hd) + Len(tl) = c /\ 1 \in 1..PktHdr
        BY <1>16, <1>17, Sizes
      <3> QED
        BY <3>1, <1>16
    <2>2. \A i \in 1..Len(hd) : hd[i][1] # "byte" /\ (i > 1 => hd[i][2] = 0)
      BY <1>16
    <2>3. \A i \in 1..Len(tl) : tl[i][1] = "byte"
      BY <1>17
    <2>4. Len(hd) > 0
      BY <1>16, Sizes
    <2> QED
      BY <2>1, <2>2, <2>3, <2>4, <1>16, <1>17 DEF Packet
  <1>20. Pending(q) = Cat(Pending(o), Cat(hd, tl))
    <2>1. Pending(q) = Cat(Cat(Pending(o), Content(q, q.iov[o.cur])),
                           Content(q, q.iov[o.cur + 1]))
      BY <1>13, MorePending
    <2>2. Pending(q) = Cat(Cat(Pending(o), hd), tl)
      BY <2>1, <1>1, <1>8, <1>15
    <2>3. Pending(o) \in Seq(Cells)
      BY PendingIs
    <2> QED
      BY <2>2, <2>3, <1>16, <1>17, CatAssoc
  <1>21. Adds(o, q, "stream", hd, tl)
    <2>1. q.total = o.total + (Len(hd) + Len(tl))
      BY <1>1, <1>5, <1>16, <1>17, Sizes
    <2> QED
      BY <2>1, <1>13, <1>19, <1>20 DEF Adds, More
  <1>22. /\ Adds(o, q, "stream", hd, tl) /\ PacketData(o, x, tl)
         /\ Len(hd) = PktHdr /\ Len(tl) = p
    BY <1>16, <1>17, <1>18, <1>21
  <1>23. q.cur = o.cur + 2
    BY <1>1, <1>6
  <1> QED
    BY <1>5, <1>14, <1>22, <1>23

\* A packet of what is in the buffer and data.
Buffered(o, m) == m = o.pos

\* QueuePacket with something in the buffer.
LEMMA BufDataQueued ==
  ASSUME NEW o \in Responses, WithinBounds(o), o.cur + 3 <= IovecSize,
         NEW s0 \in 0..(PktHeaders - 1), HeadersBelow(o, s0),
         NEW m \in Nat, Buffered(o, m), m > 0,
         NEW x \in Nat, NEW d \in Nat, d > 0,
         NEW c \in Nat, c = (m + d) + PktHdr,
         NEW q,
         DataPut(Put(Put(o, "pkt", s0, PktHdr), "buf", 0, m), q, s0, x, d, c)
  PROVE  /\ \E hd, tl : /\ Adds(o, q, "stream", hd, tl) /\ PacketData(o, x, tl)
                        /\ Len(hd) = PktHdr /\ Len(tl) = m + d
         /\ q.cur = o.cur + 3 /\ q.towrite = o.towrite /\ q.pos = 0 /\ q.mem = o.mem
         /\ q.RESP_HEADER = o.RESP_HEADER /\ HeadersBelow(q, s0 + 1)
  <1> USE DEF Buffered
  <1>1. PICK a \in Nat, b \in Nat : a = o.cur /\ b = o.towrite
    BY DEF Responses
  <1> DEFINE e == [ref |-> "pkt", i |-> s0, off |-> 0, len |-> PktHdr]
  <1> DEFINE h == [ref |-> "buf", i |-> 0, off |-> 0, len |-> m]
  <1> DEFINE f == [ref |-> "data", i |-> x, off |-> 0, len |-> d]
  <1>2. e \in Entries /\ f \in Entries /\ h \in Entries
    BY Sizes DEF Entries
  <1>3. PICK p, r : p = Put(o, "pkt", s0, PktHdr) /\ r = Put(p, "buf", 0, m)
    OBVIOUS
  <1>4. /\ p \in Responses /\ p.iov = [o.iov EXCEPT ![o.cur] = e]
        /\ p.cur = o.cur + 1 /\ p.total = o.total /\ Rest(o, p)
    BY <1>2, <1>3, PutFields
  <1>r. /\ r \in Responses /\ r.iov = [p.iov EXCEPT ![p.cur] = h]
        /\ r.cur = p.cur + 1 /\ r.total = p.total /\ Rest(p, r)
    BY <1>2, <1>3, <1>4, PutFields
  <1>5. /\ q \in Responses /\ q.iov = [r.iov EXCEPT ![r.cur] = f]
        /\ q.cur = r.cur + 1 /\ q.total = o.total + c
        /\ q.pkt = [o.pkt EXCEPT ![s0] = c] /\ q.pos = 0
        /\ q.towrite = o.towrite /\ q.mem = o.mem /\ q.hdrpkt = o.hdrpkt
        /\ q.RESP_HEADER = o.RESP_HEADER
    <2>1. DataPut(r, q, s0, x, d, c)
      BY <1>3
    <2>2. r \in Responses /\ Rest(o, r) /\ r.total = o.total
      BY <1>4, <1>r DEF Rest
    <2> QED
      BY <2>1, <2>2, PacketFields
  <1> HIDE DEF e, f, h
  <1>6. /\ q.cur = a + 3
        /\ q.iov = [[[o.iov EXCEPT ![a] = e] EXCEPT ![a + 1] = h] EXCEPT ![a + 2] = f]
    <2>1. p.cur = a + 1 /\ r.cur = a + 2
      BY <1>1, <1>4, <1>r
    <2> QED
      BY <2>1, <1>1, <1>4, <1>5, <1>r
  <1>7. a \in Slots /\ a + 1 \in Slots /\ a + 2 \in Slots
    BY <1>1, Sizes DEF Slots
  <1>8. /\ q.iov[a] = e /\ q.iov[a + 1] = h /\ q.iov[a + 2] = f
        /\ \A s \in b..(a - 1) : q.iov[s] = o.iov[s]
    <2>1. o.iov \in [Slots -> Entries]
      BY DEF Responses
    <2>2. \A s \in b..(a - 1) : s \in Slots /\ s # a /\ s # a + 1 /\ s # a + 2
      BY <1>7, Sizes DEF Slots
    <2> QED
      BY <2>1, <2>2, <1>6, <1>7
  <1>9. /\ Sound(q, e) /\ e.off = 0 /\ e.len = PktHdr /\ e.ref = "pkt" /\ e.i = s0
        /\ Sound(q, f) /\ f.off = 0 /\ f.len = d /\ f.ref = "data" /\ f.i = x
    BY Sizes DEF Sound, e, f
  <1>h. Sound(q, h) /\ h.off = 0 /\ h.len = m /\ h.ref = "buf"
    <2>1. m <= Len(q.mem)
      BY <1>5 DEF WithinBounds
    <2>2. 0 + m = m
      OBVIOUS
    <2> QED
      BY <2>1, <2>2 DEF Sound, h
  <1>10. q.pkt[s0] = c /\ \A i \in Nat : i < s0 => q.pkt[i] = o.pkt[i]
    <2>1. o.pkt \in [0..(PktHeaders - 1) -> Nat]
      BY DEF Responses
    <2>2. \A i \in Nat : i < s0 => i \in 0..(PktHeaders - 1) /\ i # s0
      BY Sizes
    <2>3. q.pkt = [o.pkt EXCEPT ![s0] = c]
      BY <1>5
    <2>4. q.pkt[s0] = c /\ \A i \in 0..(PktHeaders - 1) : i # s0 => q.pkt[i] = o.pkt[i]
      BY <2>1, <2>3
    <2> QED
      BY <2>2, <2>4
  <1>11. \A s \in b..(a - 1) : o.iov[s].ref = "pkt" => o.iov[s].i \in Nat /\ o.iov[s].i < s0
    <2>1. \A s \in b..(a - 1) : o.iov[s] \in Entries
      BY <1>1, PendingIs
    <2> QED
      BY <2>1, <1>1 DEF HeadersBelow, Entries
  <1>12. \A s \in a..((a + 3) - 1) : s = a \/ s = a + 1 \/ s = a + 2
    OBVIOUS
  <1>13. More(o, q, 3)
    <2>1. \A s \in o.cur..(q.cur - 1) : Sound(q, q.iov[s])
      BY <1>1, <1>6, <1>8, <1>9, <1>h, <1>12
    <2>2. \A s \in o.towrite..(o.cur - 1) :
            /\ q.iov[s] = o.iov[s]
            /\ o.iov[s].ref = "pkt" => q.pkt[o.iov[s].i] = o.pkt[o.iov[s].i]
      BY <1>1, <1>8, <1>10, <1>11
    <2>3. q.cur = o.cur + 3 /\ q.cur <= IovecSize /\ 3 \in Nat /\ q.pos <= o.pos
      BY <1>1, <1>5, <1>6
    <2> QED
      BY <2>1, <2>2, <2>3, <1>5, MakeMore
  <1>14. HeadersBelow(q, s0 + 1)
    <2> SUFFICES ASSUME NEW s \in b..((a + 3) - 1), q.iov[s].ref = "pkt"
                 PROVE  q.iov[s].i < s0 + 1
      BY <1>1, <1>5, <1>6 DEF HeadersBelow
    <2>1. CASE s \in b..(a - 1)
      BY <2>1, <1>8, <1>11
    <2>2. CASE s \notin b..(a - 1)
      <3>1. s \in a..((a + 3) - 1)
        BY <2>2
      <3> QED
        BY <3>1, <1>8, <1>9, <1>h, <1>12
    <2> QED
      BY <2>1, <2>2
  <1>15. PICK hd, y, z : hd = Content(q, e) /\ y = Content(q, h) /\ z = Content(q, f)
    OBVIOUS
  <1>16. /\ hd \in Seq(Cells) /\ Len(hd) = PktHdr
         /\ \A k \in 1..PktHdr : hd[k] = <<"stream", IF k = 1 THEN c ELSE 0>>
    <2>1. q.pkt[e.i] = c
      BY <1>9, <1>10
    <2>2. /\ Content(q, e) \in Seq(Cells) /\ Len(Content(q, e)) = e.len
          /\ \A k \in 1..e.len : e.ref = "pkt" =>
               Content(q, e)[k] = <<"stream", IF k = 1 THEN q.pkt[e.i] ELSE 0>>
      <3>1. q \in Responses /\ e \in Entries /\ Sound(q, e) /\ e.off = 0
        BY <1>2, <1>5, <1>9
      <3> QED
        BY <3>1, NewContent, ZenonT(30)
    <2> QED
      BY <2>1, <2>2, <1>9, <1>15
  <1>17. /\ z \in Seq(Cells) /\ Len(z) = d
         /\ \A k \in 1..d : z[k] = <<"byte", x + k>>
    <2>1. /\ Content(q, f) \in Seq(Cells) /\ Len(Content(q, f)) = f.len
          /\ \A k \in 1..f.len : f.ref = "data" => Content(q, f)[k] = <<"byte", f.i + k>>
      <3>1. q \in Responses /\ f \in Entries /\ Sound(q, f) /\ f.off = 0
        BY <1>2, <1>5, <1>9
      <3> QED
        BY <3>1, NewContent, Zenon
    <2> QED
      BY <2>1, <1>9, <1>15
  <1>18. /\ y \in Seq(Cells) /\ Len(y) = m
         /\ \A k \in 1..m : y[k] = <<"byte", o.mem[k]>>
    <2>1. /\ Content(q, h) \in Seq(Cells) /\ Len(Content(q, h)) = h.len
          /\ \A k \in 1..h.len : h.ref = "buf" => Content(q, h)[k] = <<"byte", q.mem[k]>>
      <3>1. q \in Responses /\ h \in Entries /\ Sound(q, h) /\ h.off = 0
        BY <1>2, <1>5, <1>h
      <3> QED
        BY <3>1, NewContent, Zenon
    <2> QED
      BY <2>1, <1>h, <1>5, <1>15
  <1>t. PICK tl : tl = Cat(y, z)
    OBVIOUS
  <1>19. /\ tl \in Seq(Cells) /\ Len(tl) = m + d
         /\ \A k \in 1..m : tl[k] = <<"byte", o.mem[k]>>
         /\ \A k \in 1..d : tl[m + k] = <<"byte", x + k>>
    <2>1. /\ Cat(y, z) \in Seq(Cells) /\ Len(Cat(y, z)) = Len(y) + Len(z)
          /\ \A i \in 1..Len(y) : Cat(y, z)[i] = y[i]
          /\ \A i \in 1..Len(z) : Cat(y, z)[Len(y) + i] = z[i]
      BY <1>17, <1>18, CatType, Zenon
    <2> QED
      BY <2>1, <1>17, <1>18, <1>t
  <1>20. /\ PacketData(o, x, tl)
         /\ \A k \in 1..Len(tl) : tl[k][1] = "byte"
    <2> SUFFICES ASSUME NEW k \in 1..(m + d)
                 PROVE  /\ tl[k] = <<"byte", IF k <= m THEN o.mem[k] ELSE x + (k - m)>>
                        /\ tl[k][1] = "byte"
      BY <1>19 DEF PacketData
    <2>1. CASE k <= m
      <3>1. k \in 1..m
        BY <2>1
      <3> QED
        BY <3>1, <2>1, <1>19, SMTT(30)
    <2>2. CASE ~(k <= m)
      <3>1. PICK j \in 1..d : k = m + j /\ k - m = j
        <4>1. k - m \in 1..d /\ k = m + (k - m)
          BY <2>2
        <4> QED
          BY <4>1
      <3>2. tl[k] = <<"byte", x + j>>
        BY <3>1, <1>19
      <3> QED
        BY <3>1, <3>2, <2>2
    <2> QED
      BY <2>1, <2>2
  <1>21. Packet("stream", hd, tl)
    <2>1. hd[1] = <<"stream", Len(hd) + Len(tl)>>
      <3>1. Len(hd) + Len(tl) = c /\ 1 \in 1..PktHdr
        BY <1>16, <1>19, Sizes
      <3> QED
        BY <3>1, <1>16
    <2>2. \A i \in 1..Len(hd) : hd[i][1] # "byte" /\ (i > 1 => hd[i][2] = 0)
      BY <1>16
    <2>4. Len(hd) > 0
      BY <1>16, Sizes
    <2> QED
      BY <2>1, <2>2, <2>4, <1>16, <1>19, <1>20 DEF Packet
  <1>22. Pending(q) = Cat(Pending(o), Cat(hd, tl))
    <2>1. Pending(q) = Cat(Cat(Cat(Pending(o), Content(q, q.iov[o.cur])),
                               Content(q, q.iov[o.cur + 1])),
                           Content(q, q.iov[o.cur + 2]))
      BY <1>13, MorePending
    <2>2. Pending(q) = Cat(Cat(Cat(Pending(o), hd), y), z)
      BY <2>1, <1>1, <1>8, <1>15
    <2>3. Pending(o) \in Seq(Cells)
      BY PendingIs
    <2>4. Cat(Pending(o), hd) \in Seq(Cells)
      BY <2>3, <1>16, CatType
    <2>5. Pending(q) = Cat(Cat(Pending(o), hd), tl)
      BY <2>2, <2>4, <1>17, <1>18, <1>t, CatAssoc
    <2> QED
      BY <2>3, <2>5, <1>16, <1>19, CatAssoc
  <1>23. Adds(o, q, "stream", hd, tl)
    <2>1. q.total = o.total + (Len(hd) + Len(tl))
      BY <1>5, <1>16, <1>19, Sizes
    <2> QED
      BY <2>1, <1>13, <1>21, <1>22 DEF Adds, More
  <1>24. /\ Adds(o, q, "stream", hd, tl) /\ PacketData(o, x, tl)
         /\ Len(hd) = PktHdr /\ Len(tl) = m + d
    BY <1>16, <1>19, <1>20, <1>23
  <1>25. q.cur = o.cur + 3
    BY <1>1, <1>6
  <1> QED
    BY <1>5, <1>14, <1>24, <1>25

\* One round of the loop of LSAPI_Write_r queues a packet.
Queues(o, q) == q = QueuePacket(o)

\* The packet announces the bytes that were buffered and the data after them.
LEMMA PacketQueued ==
  ASSUME NEW o \in Responses, WithinBounds(o), o.pos < RespBufSize,
         IF o.pos > 0 THEN o.cur + 3 <= IovecSize ELSE o.cur + 2 <= IovecSize,
         slot \in 0..(PktHeaders - 1), HeadersBelow(o, slot),
         written \in Nat, todo \in 1..written,
         NEW q, Queues(o, q)
  PROVE  /\ \E hd, tl : /\ Adds(o, q, "stream", hd, tl)
                        /\ PacketData(o, written - todo, tl)
                        /\ Len(hd) = PktHdr /\ Len(tl) = PacketLen(o)
         /\ q.cur = IF o.pos > 0 THEN o.cur + 3 ELSE o.cur + 2
         /\ q.towrite = o.towrite /\ q.pos = 0 /\ q.mem = o.mem
         /\ q.RESP_HEADER = o.RESP_HEADER /\ HeadersBelow(q, slot + 1)
  <1>1. PICK m \in Nat, p \in Nat :
          /\ m = o.pos /\ p = PacketLen(o) /\ p > m /\ p - m <= todo
          /\ p <= MaxPacket /\ p - m \in Nat
    <2>1. todo \in Nat /\ todo > 0
      OBVIOUS
    <2> QED
      BY <2>1, PacketSize
  <1>2. PICK d \in Nat, x \in Nat, c \in Nat :
          d = p - m /\ x = written - todo /\ c = p + PktHdr
    <2>1. p + PktHdr \in Nat /\ written - todo \in Nat
      BY Sizes
    <2> QED
      BY <2>1, <1>1
  <1>3. d > 0 /\ m + d = p
    BY <1>1, <1>2
  <1>s. PICK s0 \in 0..(PktHeaders - 1) : s0 = slot
    OBVIOUS
  <1>h. HeadersBelow(o, s0)
    BY <1>s
  <1>4. CASE m > 0
    <2>1. DataPut(Put(Put(o, "pkt", s0, PktHdr), "buf", 0, m), q, s0, x, d, c)
      BY <1>1, <1>2, <1>4, <1>s DEF QueuePacket, DataPut, Queues
    <2>2. c = (m + d) + PktHdr
      BY <1>2, <1>3
    <2>3. Buffered(o, m) /\ o.cur + 3 <= IovecSize
      BY <1>1, <1>4 DEF Buffered
    <2>4. /\ \E hd, tl : /\ Adds(o, q, "stream", hd, tl) /\ PacketData(o, x, tl)
                         /\ Len(hd) = PktHdr /\ Len(tl) = m + d
          /\ q.cur = o.cur + 3 /\ q.towrite = o.towrite /\ q.pos = 0 /\ q.mem = o.mem
          /\ q.RESP_HEADER = o.RESP_HEADER /\ HeadersBelow(q, s0 + 1)
      <3>1. d > 0
        BY <1>3
      <3> QED
        BY <3>1, <2>1, <2>2, <2>3, <1>4, <1>h, BufDataQueued, Zenon
    <2> QED
      BY <2>4, <1>1, <1>2, <1>3, <1>4, <1>s
  <1>5. CASE ~(m > 0)
    <2>0. m = 0
      BY <1>5
    <2>d. d = p
      BY <2>0, <1>2
    <2>1. DataPut(Put(o, "pkt", s0, PktHdr), q, s0, x, p, c)
      <3>1. DataPut(Put(o, "pkt", s0, PktHdr), q, s0, x, d, c)
        BY <1>1, <1>2, <1>5, <1>s DEF QueuePacket, DataPut, Queues
      <3> QED
        BY <3>1, <2>d
    <2>2. p > 0 /\ c = p + PktHdr /\ o.pos = 0 /\ o.cur + 2 <= IovecSize
      BY <2>0, <1>1, <1>2
    <2>4. /\ \E hd, tl : /\ Adds(o, q, "stream", hd, tl) /\ PacketData(o, x, tl)
                         /\ Len(hd) = PktHdr /\ Len(tl) = p
          /\ q.cur = o.cur + 2 /\ q.towrite = o.towrite /\ q.pos = 0 /\ q.mem = o.mem
          /\ q.RESP_HEADER = o.RESP_HEADER /\ HeadersBelow(q, s0 + 1)
      BY <2>1, <2>2, <1>h, DataQueued, Zenon
    <2> QED
      BY <2>4, <1>1, <1>2, <1>5, <1>s
  <1> QED
    BY <1>4, <1>5

----------------------------------------------------------------------------
(* Bytes stored in memory *)

\* Memory in which bytes were stored from offset off on.
StoreOK(S, memory, off, bytes, r) ==
  /\ r \in Seq(S)
  /\ Len(r) = IF off + Len(bytes) <= Len(memory) THEN Len(memory)
              ELSE off + Len(bytes)
  /\ \A i \in 1..off : r[i] = memory[i]
  /\ \A i \in 1..Len(bytes) : r[off + i] = bytes[i]
  /\ \A i \in (off + Len(bytes) + 1)..Len(memory) : r[i] = memory[i]

\* Store overwrites these bytes and no others.
LEMMA StoreIs ==
  ASSUME NEW S, NEW memory \in Seq(S), NEW off \in 0..Len(memory),
         NEW bytes \in Seq(S)
  PROVE  StoreOK(S, memory, off, bytes, Store(memory, off, bytes))
  <1>0. ASSUME NEW s \in Seq(S), NEW t \in Seq(S)
        PROVE  /\ Cat(s, t) \in Seq(S) /\ Len(Cat(s, t)) = Len(s) + Len(t)
               /\ \A i \in 1..Len(s) : Cat(s, t)[i] = s[i]
               /\ \A i \in 1..Len(t) : Cat(s, t)[Len(s) + i] = t[i]
    BY DEF Cat
  <1>1. PICK m \in Nat, n \in Nat : m = Len(memory) /\ n = Len(bytes)
    OBVIOUS
  <1>2. PICK a \in Seq(S) : a = SubSeq(memory, 1, off)
    <2>1. SubSeq(memory, 1, off) \in Seq(S)
      OBVIOUS
    <2> QED
      BY <2>1
  <1>o. off \in 0..m
    BY <1>1
  <1>3. PICK b \in Seq(S) : b = SubSeq(memory, off + n + 1, m)
    <2>1. SubSeq(memory, off + n + 1, m) \in Seq(S)
      BY <1>1, <1>o
    <2> QED
      BY <2>1
  <1>4. a \in Seq(S) /\ Len(a) = off /\ \A i \in 1..off : a[i] = memory[i]
    BY <1>2
  <1>5. off \in 0..m
    BY <1>1
  <1>6. /\ b \in Seq(S) /\ Len(b) = IF off + n <= m THEN m - (off + n) ELSE 0
        /\ \A i \in 1..Len(b) : b[i] = memory[(off + n) + i]
    BY <1>1, <1>3, <1>5
  <1>7. /\ Cat(a, bytes) \in Seq(S) /\ Len(Cat(a, bytes)) = Len(a) + Len(bytes)
        /\ \A i \in 1..Len(a) : Cat(a, bytes)[i] = a[i]
        /\ \A i \in 1..Len(bytes) : Cat(a, bytes)[Len(a) + i] = bytes[i]
    BY <1>0
  <1>8. PICK c \in Seq(S) : c = Cat(a, bytes)
    BY <1>7
  <1>9. /\ Len(c) = off + n
        /\ \A i \in 1..off : c[i] = memory[i]
        /\ \A i \in 1..n : c[off + i] = bytes[i]
    BY <1>1, <1>4, <1>7, <1>8
  <1>10. /\ Cat(c, b) \in Seq(S) /\ Len(Cat(c, b)) = Len(c) + Len(b)
         /\ \A i \in 1..Len(c) : Cat(c, b)[i] = c[i]
         /\ \A i \in 1..Len(b) : Cat(c, b)[Len(c) + i] = b[i]
    BY <1>0
  <1>11. PICK r \in Seq(S) : r = Cat(c, b)
    BY <1>10
  <1>12. r = Store(memory, off, bytes)
    BY <1>1, <1>2, <1>3, <1>8, <1>11 DEF Store, Cat
  <1>13. Len(b) \in Nat
    BY <1>6
  <1>14. Len(r) = (off + n) + Len(b)
    BY <1>9, <1>10, <1>11
  <1>15. Len(r) = IF off + n <= m THEN m ELSE off + n
    <2>1. PICK z \in Nat : z = Len(b)
      BY <1>13
    <2>2. z = IF off + n <= m THEN m - (off + n) ELSE 0
      BY <2>1, <1>6
    <2>3. Len(r) = (off + n) + z
      BY <2>1, <1>14
    <2> QED
      BY <2>2, <2>3
  <1>16. \A i \in 1..(off + n) : r[i] = c[i]
    BY <1>9, <1>10, <1>11
  <1>17. \A i \in 1..Len(b) : r[(off + n) + i] = b[i]
    BY <1>9, <1>10, <1>11
  <1>18. \A i \in (off + n + 1)..m : r[i] = memory[i]
    <2> SUFFICES ASSUME NEW i \in (off + n + 1)..m PROVE r[i] = memory[i]
      OBVIOUS
    <2>1. PICK j \in 1..Len(b) : i = (off + n) + j
      <3>1. i - (off + n) \in 1..Len(b) /\ i = (off + n) + (i - (off + n))
        BY <1>6
      <3> QED
        BY <3>1
    <2> QED
      BY <2>1, <1>6, <1>17
  <1>19. \A i \in 1..n : off + i \in 1..(off + n)
    OBVIOUS
  <1>20. \A i \in 1..off : i \in 1..(off + n)
    OBVIOUS
  <1>21. \A i \in 1..n : r[off + i] = bytes[i]
    BY <1>9, <1>16, <1>19
  <1>22. \A i \in 1..off : r[i] = memory[i]
    BY <1>9, <1>16, <1>20
  <1> QED
    BY <1>1, <1>12, <1>15, <1>18, <1>21, <1>22 DEF StoreOK

----------------------------------------------------------------------------
(* The response side at the places of the process *)

\* m_totalLen is the length of what the iovec refers to.
Counted(o) == o.total = Len(Pending(o))
Good(o) == o \in Responses /\ WithinBounds(o) /\ Counted(o)

\* Between two calls of the sink.
AtHandle(o) ==
  /\ Good(o) /\ HeaderOnly(o) /\ o.pos < RespBufSize
  /\ o.RESP_HEADER => o.cur = 1 /\ o.towrite = 1 /\ o.total = 0 /\ o.pos = 0
  /\ ~o.RESP_HEADER => o.towrite = 0 /\ o.cur <= 2
  /\ o.cur # o.towrite => o.total > 0

\* In the loop of LSAPI_Write_r with s packet headers in use and t bytes to go.
AtWrite(o, s, t) ==
  /\ Good(o) /\ ~o.RESP_HEADER /\ o.towrite = 0 /\ o.pos < RespBufSize
  /\ s <= PktHeaders - 2
  /\ s = 0 => AtHandle(o)
  /\ s > 0 => o.cur <= 3 + 2 * s /\ o.total > 0
  /\ o.pos > 0 => s = 0 /\ t > 0
  /\ HeadersBelow(o, s)

\* In LSAPI_Flush_r, called from r, with n bytes to go.
AtFlush(o, r, n, t) ==
  /\ o \in Responses /\ WithinBounds(o) /\ n = Len(Pending(o))
  /\ ~o.RESP_HEADER /\ o.pos = 0
  /\ n > 0 /\ r # "none"
  /\ r # "packet" => t = 0

\* A packet is counted in m_totalLen.
LEMMA AddsCounted ==
  ASSUME NEW o, NEW q, NEW kind, NEW hd, NEW tl, Good(o), Adds(o, q, kind, hd, tl)
  PROVE  Good(q) /\ q.total > 0
  <1>1. Pending(o) \in Seq(Cells)
    BY PendingIs DEF Good
  <1>2. hd \in Seq(Cells) /\ tl \in Seq(Cells) /\ Len(hd) > 0
    BY DEF Adds, Packet
  <1>3. Cat(hd, tl) \in Seq(Cells) /\ Len(Cat(hd, tl)) = Len(hd) + Len(tl)
    BY <1>2, CatType
  <1>4. Len(Pending(q)) = Len(Pending(o)) + Len(Cat(hd, tl))
    <2>1. Pending(q) = Cat(Pending(o), Cat(hd, tl))
      BY DEF Adds
    <2>2. Len(Cat(Pending(o), Cat(hd, tl))) = Len(Pending(o)) + Len(Cat(hd, tl))
      BY <1>1, <1>3, CatType, Zenon
    <2> QED
      BY <2>1, <2>2
  <1>5. q.total = o.total + (Len(hd) + Len(tl)) /\ o.total = Len(Pending(o))
    BY DEF Adds, Good, Counted
  <1>6. Len(hd) \in Nat /\ Len(tl) \in Nat /\ Len(Pending(o)) \in Nat
    BY <1>1, <1>2
  <1>7. q.total = Len(Pending(q)) /\ q.total > 0
    BY <1>2, <1>3, <1>4, <1>5, <1>6
  <1> QED
    BY <1>7 DEF Good, Counted, Adds

\* Nothing is pending where no entry is in use.
LEMMA NothingPending ==
  ASSUME NEW o \in Responses, o.cur = o.towrite, o.total = 0, o.cur <= IovecSize,
         o.pos <= RespBufSize, o.pos <= Len(o.mem)
  PROVE  Good(o) /\ HeaderOnly(o) /\ HeadersBelow(o, 0) /\ Pending(o) = <<>>
  <1>1. PICK a \in Nat : a = o.cur
    BY DEF Responses
  <1>2. \A s : s \notin o.towrite..(o.cur - 1)
    BY <1>1
  <1>3. WithinBounds(o)
    BY <1>1, <1>2 DEF WithinBounds
  <1>4. o.cur - o.towrite = 0
    BY <1>1
  <1>5. Pending(o) = Joined(Contents(o), 0)[0]
    BY <1>3, <1>4, PendingIs
  <1>6. Joined(Contents(o), 0)[0] = <<>>
    BY JoinedFew, Zenon
  <1>7. Counted(o)
    BY <1>5, <1>6 DEF Counted
  <1> QED
    BY <1>2, <1>3, <1>5, <1>6, <1>7 DEF Good, HeaderOnly, HeadersBelow

\* A request begins with an empty response.
LEMMA FreshResponse ==
  /\ NoResponse \in Responses /\ Good(NoResponse)
  /\ [NoResponse EXCEPT !.RESP_HEADER = TRUE] \in Responses
  /\ AtHandle([NoResponse EXCEPT !.RESP_HEADER = TRUE])
  /\ Pending([NoResponse EXCEPT !.RESP_HEADER = TRUE]) = <<>>
  /\ [NoResponse EXCEPT !.RESP_HEADER = TRUE].RESP_HEADER
  <1>1. NoEntry \in Entries
    BY DEF NoEntry, Entries
  <1>2. [s \in Slots |-> NoEntry] \in [Slots -> Entries]
    BY <1>1
  <1>3. [s \in 0..(PktHeaders - 1) |-> 0] \in [0..(PktHeaders - 1) -> Nat]
    OBVIOUS
  <1>4. NoResponse \in Responses
    BY <1>2, <1>3 DEF NoResponse, Responses
  <1>5. PICK f : f = [NoResponse EXCEPT !.RESP_HEADER = TRUE]
    OBVIOUS
  <1>6. f \in Responses
    BY <1>4, <1>5 DEF Responses
  <1>7. /\ NoResponse.cur = 1 /\ NoResponse.towrite = 1 /\ NoResponse.total = 0
        /\ NoResponse.pos = 0 /\ NoResponse.mem = <<>>
    BY DEF NoResponse
  <1>8. /\ f.cur = 1 /\ f.towrite = 1 /\ f.total = 0 /\ f.pos = 0 /\ f.mem = <<>>
        /\ f.RESP_HEADER = TRUE
    BY <1>4, <1>5, <1>7 DEF Responses
  <1>9. 1 <= IovecSize /\ 0 <= RespBufSize /\ 0 < RespBufSize /\ 0 <= Len(<<>>)
    BY Sizes
  <1>10. Good(NoResponse)
    BY <1>4, <1>7, <1>9, NothingPending
  <1>11. Good(f) /\ HeaderOnly(f) /\ Pending(f) = <<>>
    BY <1>6, <1>8, <1>9, NothingPending
  <1>12. AtHandle(f)
    BY <1>8, <1>9, <1>11 DEF AtHandle
  <1> QED
    BY <1>4, <1>5, <1>6, <1>8, <1>10, <1>11, <1>12

\* LSAPI_FinalizeRespHeaders_r between two calls of the sink.
LEMMA Finalized ==
  ASSUME NEW o, AtHandle(o), NEW q, q = LSAPI_FinalizeRespHeaders_r(o)
  PROVE  /\ AtHandle(q) /\ ~q.RESP_HEADER /\ q.pos = o.pos /\ q.mem = o.mem
         /\ o.RESP_HEADER => \E hd : Adds(o, q, "header", hd, <<>>)
         /\ ~o.RESP_HEADER => q = o
  <1>1. CASE ~o.RESP_HEADER
    BY <1>1 DEF LSAPI_FinalizeRespHeaders_r
  <1>2. CASE o.RESP_HEADER
    <2>1. /\ o \in Responses /\ WithinBounds(o) /\ Good(o)
          /\ o.cur = 1 /\ o.towrite = 1 /\ o.total = 0 /\ o.pos < RespBufSize
      BY <1>2 DEF AtHandle, Good
    <2>2. /\ \E hd : Adds(o, q, "header", hd, <<>>)
          /\ ~q.RESP_HEADER /\ q.towrite = 0 /\ q.cur \in 1..2
          /\ q.pos = o.pos /\ q.mem = o.mem /\ HeaderOnly(q)
      BY <1>2, <2>1, HeaderQueued
    <2>3. PICK hd : Adds(o, q, "header", hd, <<>>)
      BY <2>2
    <2>4. Good(q) /\ q.total > 0
      BY <2>1, <2>3, AddsCounted
    <2>5. AtHandle(q)
      BY <2>1, <2>2, <2>4 DEF AtHandle
    <2> QED
      BY <1>2, <2>2, <2>5
  <1> QED
    BY <1>1, <1>2

\* Flush_RespBuf_r, where there is something in the buffer.
BufPacket(o, q) ==
  \E hd, tl : /\ Adds(o, q, "stream", hd, tl)
              /\ Len(hd) = PktHdr /\ Len(tl) = o.pos
              /\ \A k \in 1..o.pos : tl[k] = <<"byte", o.mem[k]>>

\* Flush_RespBuf_r makes a packet of the buffer, and of nothing but it.
LEMMA BufFlushed ==
  ASSUME NEW o, AtHandle(o), ~o.RESP_HEADER, NEW q, q = FlushBuf(o)
  PROVE  /\ Good(q) /\ ~q.RESP_HEADER /\ q.pos = 0 /\ q.towrite = 0
         /\ q.cur \in 0..4 /\ q.mem = o.mem
         /\ o.pos # 0 => q.total > 0 /\ BufPacket(o, q)
         /\ o.pos = 0 => q = o
  <1>1. /\ o \in Responses /\ WithinBounds(o) /\ Good(o) /\ HeaderOnly(o)
        /\ o.towrite = 0 /\ o.cur <= 2
    BY DEF AtHandle, Good
  <1>2. PICK a \in Nat, m \in Nat : a = o.cur /\ m = o.pos
    BY <1>1 DEF Responses
  <1>3. CASE m = 0
    <2>1. q = o
      BY <1>2, <1>3 DEF FlushBuf
    <2>2. a \in 0..4
      BY <1>1, <1>2
    <2> QED
      BY <2>1, <2>2, <1>1, <1>2, <1>3
  <1>4. CASE m # 0
    <2>1. q = Flush_RespBuf_r(o)
      BY <1>2, <1>4 DEF FlushBuf
    <2>2. o.cur + 2 <= IovecSize /\ o.pos > 0
      BY <1>1, <1>2, <1>4, Sizes
    <2>3. /\ \E hd, tl :
              /\ Adds(o, q, "stream", hd, tl)
              /\ Len(hd) = PktHdr /\ Len(tl) = o.pos
              /\ \A k \in 1..o.pos : tl[k] = <<"byte", o.mem[k]>>
          /\ q.cur = o.cur + 2 /\ q.towrite = o.towrite /\ q.pos = 0
          /\ q.mem = o.mem /\ q.RESP_HEADER = o.RESP_HEADER
      BY <1>1, <2>1, <2>2, BufQueued
    <2>4. Good(q) /\ q.total > 0
      <3>1. PICK hd, tl : Adds(o, q, "stream", hd, tl)
        BY <2>3
      <3> QED
        BY <1>1, <3>1, AddsCounted
    <2>5. q.cur \in 0..4
      BY <1>1, <1>2, <2>3
    <2>6. BufPacket(o, q)
      BY <2>3 DEF BufPacket
    <2> QED
      BY <2>3, <2>4, <2>5, <2>6, <1>1, <1>2, <1>4
  <1> QED
    BY <1>3, <1>4

\* A second LSAPI_Flush_r finds the header finalized and the buffer empty.
LEMMA FlushedTwice ==
  ASSUME NEW o, ~o.RESP_HEADER, o.pos = 0
  PROVE  FlushBuf(LSAPI_FinalizeRespHeaders_r(o)) = o
  BY DEF FlushBuf, LSAPI_FinalizeRespHeaders_r

\* The response after LSAPI_Flush_r.
LEMMA ResetVector ==
  ASSUME NEW o \in Responses, WithinBounds(o), ~o.RESP_HEADER, o.pos = 0,
         NEW q, q = Flushed(o)
  PROVE  /\ Pending(q) = <<>> /\ AtHandle(q) /\ ~q.RESP_HEADER /\ q.pos = 0
         /\ \A t : AtWrite(q, 0, t)
  <1>1. q = [o EXCEPT !.total = 0, !.cur = 0, !.towrite = 0]
    BY DEF Flushed
  <1>2. q \in Responses
    BY <1>1 DEF Responses
  <1>3. /\ q.total = 0 /\ q.cur = 0 /\ q.towrite = 0 /\ q.pos = o.pos /\ q.mem = o.mem
        /\ q.RESP_HEADER = o.RESP_HEADER
    BY <1>1 DEF Responses
  <1>4. q.cur <= IovecSize /\ q.pos <= RespBufSize /\ q.pos <= Len(q.mem)
    BY <1>3, Sizes DEF WithinBounds
  <1>5. Good(q) /\ HeaderOnly(q) /\ HeadersBelow(q, 0) /\ Pending(q) = <<>>
    BY <1>2, <1>3, <1>4, NothingPending
  <1>6. q.pos < RespBufSize /\ q.cur <= 2 /\ 0 <= PktHeaders - 2
    BY <1>3, Sizes
  <1>7. AtHandle(q)
    BY <1>3, <1>5, <1>6 DEF AtHandle
  <1>8. ASSUME NEW t PROVE AtWrite(q, 0, t)
    BY <1>3, <1>5, <1>6, <1>7 DEF AtWrite
  <1> QED
    BY <1>3, <1>5, <1>7, <1>8

\* Header names and values that wait in m_pRespHeaderBuf are not pending.
Appended(o, q, x, y) == q = [o EXCEPT !.cnt = x, !.names = y]

\* Headers that are appended queue nothing.
LEMMA HeadersAppended ==
  ASSUME NEW o, AtHandle(o), NEW x \in Nat, NEW y \in Nat,
         NEW q, Appended(o, q, x, y)
  PROVE  /\ AtHandle(q) /\ Pending(q) = Pending(o)
         /\ q.RESP_HEADER = o.RESP_HEADER /\ q.pos = o.pos /\ q.mem = o.mem
  <1>1. o \in Responses /\ WithinBounds(o) /\ Counted(o)
    BY DEF AtHandle, Good
  <1>2. q \in Responses
    BY <1>1 DEF Responses, Appended
  <1>3. /\ q.iov = o.iov /\ q.cur = o.cur /\ q.towrite = o.towrite /\ q.total = o.total
        /\ q.mem = o.mem /\ q.pos = o.pos /\ q.pkt = o.pkt /\ q.hdrpkt = o.hdrpkt
        /\ q.RESP_HEADER = o.RESP_HEADER
    BY <1>1 DEF Responses, Appended
  <1>4. WithinBounds(q)
    BY <1>1, <1>3 DEF WithinBounds
  <1>5. \A s : Content(q, q.iov[s]) = Content(o, o.iov[s])
    <2>1. \A e, k : Byte(q, e, k) = Byte(o, e, k)
      BY <1>3 DEF Byte
    <2> QED
      BY <2>1, <1>3 DEF Content
  <1>6. More(o, q, 0)
    <2>1. q.cur = o.cur + 0
      BY <1>1, <1>3 DEF Responses
    <2> QED
      BY <2>1, <1>1, <1>2, <1>3, <1>4, <1>5 DEF More
  <1>7. Pending(q) = Pending(o)
    BY <1>6, MorePending
  <1>8. Good(q)
    BY <1>1, <1>2, <1>3, <1>4, <1>7 DEF Good, Counted
  <1>9. HeaderOnly(q)
    BY <1>3 DEF HeaderOnly, AtHandle
  <1>10. AtHandle(q)
    BY <1>3, <1>8, <1>9 DEF AtHandle
  <1> QED
    BY <1>3, <1>7, <1>10

\* Bytes put into the buffer are not pending either.
Buffers(o, q, b) ==
  q = [o EXCEPT !.mem = Store(o.mem, o.pos, b), !.pos = @ + Len(b)]

\* The bytes go behind those that are buffered.
LEMMA BytesBuffered ==
  ASSUME NEW o, AtHandle(o), ~o.RESP_HEADER, NEW b \in Seq(Nat),
         o.pos + Len(b) < RespBufSize,
         NEW q, Buffers(o, q, b)
  PROVE  /\ AtHandle(q) /\ ~q.RESP_HEADER /\ Pending(q) = Pending(o)
         /\ q.pos = o.pos + Len(b)
         /\ \A i \in 1..o.pos : q.mem[i] = o.mem[i]
         /\ \A i \in 1..Len(b) : q.mem[o.pos + i] = b[i]
  <1>1. o \in Responses /\ WithinBounds(o) /\ Counted(o) /\ HeaderOnly(o)
    BY DEF AtHandle, Good
  <1>o. o.pos \in Nat /\ o.mem \in Seq(Nat)
    BY <1>1 DEF Responses
  <1>2. PICK m \in Nat, n \in Nat, z \in Nat : m = o.pos /\ n = Len(b) /\ z = Len(o.mem)
    BY <1>o
  <1>3. m <= z /\ m + n < RespBufSize
    BY <1>1, <1>2 DEF WithinBounds
  <1>4. PICK v : v = Store(o.mem, o.pos, b)
    OBVIOUS
  <1>5. /\ v \in Seq(Nat) /\ Len(v) = IF m + n <= z THEN z ELSE m + n
        /\ \A i \in 1..m : v[i] = o.mem[i]
        /\ \A i \in 1..n : v[m + i] = b[i]
    <2>1. PICK w \in Seq(Nat) : w = o.mem
      BY <1>o
    <2>2. m \in 0..Len(w)
      BY <2>1, <1>2, <1>3
    <2>3. StoreOK(Nat, w, m, b, Store(w, m, b))
      BY <2>2, StoreIs, Zenon
    <2> QED
      BY <2>1, <2>3, <1>2, <1>4 DEF StoreOK
  <1>6. PICK p \in Nat : p = m + n
    OBVIOUS
  <1>7. q = [o EXCEPT !.mem = v, !.pos = p]
    BY <1>1, <1>2, <1>4, <1>6 DEF Responses, Buffers
  <1>8. q \in Responses
    BY <1>1, <1>5, <1>7 DEF Responses
  <1>9. /\ q.iov = o.iov /\ q.cur = o.cur /\ q.towrite = o.towrite /\ q.total = o.total
        /\ q.mem = v /\ q.pos = p /\ q.pkt = o.pkt /\ q.hdrpkt = o.hdrpkt
        /\ q.RESP_HEADER = o.RESP_HEADER
    BY <1>1, <1>7 DEF Responses
  <1>10. \A s \in o.towrite..(o.cur - 1) :
           o.iov[s].ref # "buf" /\ o.iov[s].ref # "pkt"
    BY <1>1 DEF HeaderOnly
  <1>11. WithinBounds(q)
    <2>1. p <= RespBufSize /\ p <= Len(v)
      BY <1>3, <1>5, <1>6, Sizes
    <2> QED
      BY <2>1, <1>1, <1>9, <1>10 DEF WithinBounds
  <1>12. \A s \in o.towrite..(o.cur - 1) : Content(q, q.iov[s]) = Content(o, o.iov[s])
    <2> SUFFICES ASSUME NEW s \in o.towrite..(o.cur - 1)
                 PROVE  Content(q, o.iov[s]) = Content(o, o.iov[s])
      BY <1>9
    <2>1. PICK e : e = o.iov[s]
      OBVIOUS
    <2>2. e.ref = "header" \/ e.ref = "names"
      BY <2>1, <1>1 DEF HeaderOnly
    <2>3. \A k : Byte(q, e, k) = Byte(o, e, k)
      BY <2>2, <1>9 DEF Byte
    <2> QED
      BY <2>1, <2>3 DEF Content
  <1>13. More(o, q, 0)
    <2>1. q.cur = o.cur + 0
      BY <1>1, <1>9 DEF Responses
    <2> QED
      BY <2>1, <1>1, <1>8, <1>9, <1>11, <1>12 DEF More
  <1>14. Pending(q) = Pending(o)
    BY <1>13, MorePending
  <1>15. Good(q)
    BY <1>1, <1>8, <1>9, <1>11, <1>14 DEF Good, Counted
  <1>16. AtHandle(q)
    <2>1. q.pos < RespBufSize
      BY <1>3, <1>6, <1>9
    <2>2. HeaderOnly(q)
      BY <1>1, <1>9 DEF HeaderOnly
    <2> QED
      BY <2>1, <2>2, <1>9, <1>15 DEF AtHandle
  <1> QED
    BY <1>2, <1>5, <1>6, <1>9, <1>14, <1>16

----------------------------------------------------------------------------
(* The inductive invariant of the types *)

\* The places of the process before a request is parsed, and while it is handled.
Early == {"entry", "wait", "head", "verify", "rest"}
Late == {"accepted", "handle", "write", "flush"}

\* Before a request is read there is no response and nothing of a request but
\* what was just received.
EarlyInv ==
  /\ pc \in Early =>
       out = NoResponse /\ bufProcessed = 0 /\ bodyLen = 0 /\ bodyRead = 0
  /\ pc \in {"entry", "wait"} => bufRead = 0
  /\ pc = "head" => bufRead < PktHdr
  /\ pc \in {"verify", "rest"} => bufRead >= PktHdr
  /\ pc \in Late => bufProcessed >= ReqLen

\* The response side, where a request is handled.
QueueInv ==
  /\ pc \notin {"write", "flush"} => todo = 0
  /\ pc = "accepted" => out = [NoResponse EXCEPT !.RESP_HEADER = TRUE]
  /\ pc = "handle" => AtHandle(out)
  /\ pc = "write" => fd /\ AtWrite(out, slot, todo)
  /\ pc = "flush" => fd /\ AtFlush(out, ret, left, todo)

\* The inductive invariant behind the types and TotalIsLength.
TypeInv == TypeOK /\ EarlyInv /\ QueueInv

\* TypeOK in parts.
NetOK ==
  /\ sreq \in Requests /\ sreq.sent <= ReqBytes
  /\ fd \in BOOLEAN /\ peer_closed \in BOOLEAN
  /\ stream \in Seq(Pairs)
ReadOK ==
  /\ buffer \in [1..(ReqBufSize + PktHdr) -> Pairs]
  /\ bufRead \in 0..(ReqBufSize + PktHdr)
  /\ bufProcessed \in 0..bufRead
  /\ bodyLen \in Nat /\ bodyRead \in 0..bodyLen
  /\ given \in Seq(Pairs)
RespOK ==
  /\ wire \in Seq(Cells)
  /\ out \in Responses /\ WithinBounds(out)
  /\ written \in Nat /\ todo \in 0..written
  /\ slot \in 0..(PktHeaders - 1)
  /\ left \in Nat
PlaceOK ==
  /\ pc \in {"entry", "wait", "head", "verify", "rest", "accepted", "handle",
             "write", "flush", "exit"}
  /\ ret \in {"none", "packet", "write", "body", "finish"}
  /\ stage \in {"idle", "headers", "finished"} /\ sink_error \in BOOLEAN
  /\ notified \in BOOLEAN /\ module_loaded \in BOOLEAN /\ leaving \in BOOLEAN
  /\ shutdown \in BOOLEAN
  /\ excuse \subseteq {"short_head", "body_left"}

\* The type invariant in four parts: the network, the way in, the way out, and
\* the process.
LEMMA TypeParts == TypeOK <=> NetOK /\ ReadOK /\ RespOK /\ PlaceOK
  BY DEF TypeOK, NetOK, ReadOK, RespOK, PlaceOK

\* Sequences of bytes, joined.
LEMMA PairsCat ==
  ASSUME NEW s \in Seq(Pairs), NEW t \in Seq(Pairs)
  PROVE  /\ Cat(s, t) \in Seq(Pairs) /\ Len(Cat(s, t)) = Len(s) + Len(t)
         /\ \A i \in 1..Len(s) : Cat(s, t)[i] = s[i]
         /\ \A i \in 1..Len(t) : Cat(s, t)[Len(s) + i] = t[i]
  BY DEF Cat

\* Bytes that were sent.
LEMMA SentBytes ==
  ASSUME NEW a \in Nat, NEW b \in Nat, NEW n \in Nat
  PROVE  /\ [k \in 1..n |-> <<a, b + k>>] \in Seq(Pairs)
         /\ Len([k \in 1..n |-> <<a, b + k>>]) = n
         /\ \A i \in 1..n : [k \in 1..n |-> <<a, b + k>>][i] = <<a, b + i>>
  <1>1. [k \in 1..n |-> <<a, b + k>>] \in [1..n -> Pairs]
    BY DEF Pairs
  <1> QED
    BY <1>1, MakeSeq

\* What is left of the bytes on their way.
LEMMA TakenBytes ==
  ASSUME NEW s \in Seq(Pairs), NEW n \in 0..Len(s)
  PROVE  /\ SubSeq(s, 1, n) \in Seq(Pairs) /\ Len(SubSeq(s, 1, n)) = n
         /\ \A i \in 1..n : SubSeq(s, 1, n)[i] = s[i]
         /\ SubSeq(s, n + 1, Len(s)) \in Seq(Pairs)
         /\ Len(SubSeq(s, n + 1, Len(s))) = Len(s) - n
         /\ \A i \in 1..(Len(s) - n) : SubSeq(s, n + 1, Len(s))[i] = s[n + i]
  BY CutSeq

\* The smaller of two numbers.
LEMMA LeastIs ==
  ASSUME NEW a \in Nat, NEW b \in Nat
  PROVE  Least(a, b) \in Nat /\ Least(a, b) <= a /\ Least(a, b) <= b
         /\ (Least(a, b) = a \/ Least(a, b) = b)
  BY DEF Least

\* The bytes one call of LSAPI_ReadReqBody_r takes from the buffer, and those it
\* takes from the connection.
LEMMA BodyTaken ==
  ASSUME NetOK, ReadOK, bodyRead < bodyLen
  PROVE  \E w \in Nat, a \in Nat, b \in Nat :
           /\ w = Least(bodyLen - bodyRead, ChunkSize) /\ w <= bodyLen - bodyRead
           /\ a = FromBuffer /\ a <= w /\ a <= bufRead - bufProcessed
           /\ a < w => a = bufRead - bufProcessed
           /\ b = Least(w - Least(a, w), Len(stream)) /\ a + b <= w
           /\ b \in 0..Len(stream) /\ w - Least(a, w) = w - a
  <1>1. PICK u \in Nat, v \in Nat, l \in Nat :
          u = bodyLen - bodyRead /\ v = bufRead - bufProcessed /\ l = Len(stream)
    <2>1. bodyLen - bodyRead \in Nat /\ bufRead - bufProcessed \in Nat
      BY Sizes DEF ReadOK
    <2>2. Len(stream) \in Nat
      BY DEF NetOK
    <2> QED
      BY <2>1, <2>2
  <1>2. PICK w : w = Least(u, ChunkSize)
    OBVIOUS
  <1>3. PICK a : a = Least(v, w)
    OBVIOUS
  <1>4. w \in Nat /\ w <= u /\ a \in Nat /\ a <= w /\ a <= v /\ (a < w => a = v)
    BY <1>2, <1>3, Sizes DEF Least
  <1>5. PICK b : b = Least(w - Least(a, w), l)
    OBVIOUS
  <1>6. w - Least(a, w) = w - a
    BY <1>4 DEF Least
  <1>7. b \in Nat /\ a + b <= w /\ b \in 0..l
    BY <1>4, <1>5, <1>6 DEF Least
  <1>8. a = FromBuffer /\ w = Least(bodyLen - bodyRead, ChunkSize)
    BY <1>1, <1>2, <1>3 DEF FromBuffer
  <1> QED
    BY <1>1, <1>4, <1>5, <1>6, <1>7, <1>8

\* The connection and the web server.
LEMMA NetStep ==
  ASSUME TypeOK, [Next]_vars
  PROVE  NetOK'
  <1>1. NetOK /\ ReadOK /\ RespOK /\ PlaceOK
    BY TypeParts
  <1>2. CASE ServerRequest
    <2>1. PICK body \in 0..MaxBody, bad \in BOOLEAN :
            sreq' = [num |-> sreq.num + 1, body |-> body, sent |-> 0, bad |-> bad,
                     wait |-> TRUE]
      BY <1>2 DEF ServerRequest
    <2>2. body \in Nat /\ sreq.num + 1 \in Nat
      <3>1. MaxBody \in Nat
        BY LsapiAssumption
      <3>2. sreq.num \in Nat
        BY <1>1 DEF NetOK, Requests
      <3> QED
        BY <3>1, <3>2
    <2>3. sreq' \in Requests
      BY <2>1, <2>2 DEF Requests
    <2>4. sreq'.sent <= ReqBytes'
      BY <2>1, <2>2, Sizes DEF ReqBytes
    <2> QED
      BY <2>3, <2>4, <1>1, <1>2 DEF ServerRequest, NetOK
  <1>3. CASE ServerSend
    <2>1. PICK n \in 1..(ReqBytes - sreq.sent) :
            /\ stream' = stream \o [k \in 1..n |-> <<sreq.num, sreq.sent + k>>]
            /\ sreq' = [sreq EXCEPT !.sent = @ + n]
      BY <1>3 DEF ServerSend
    <2>2. PICK a \in Nat, b \in Nat, c \in Nat :
            a = sreq.num /\ b = sreq.sent /\ c = sreq.body
      BY <1>1 DEF NetOK, Requests
    <2>3. n \in Nat /\ b + n <= ReqLen + c /\ b + n \in Nat
      <3>1. n \in 1..((ReqLen + c) - b)
        BY <2>2 DEF ReqBytes
      <3> QED
        BY <3>1, Sizes
    <2>4. sreq' = [sreq EXCEPT !.sent = b + n]
      BY <2>1, <2>2, <1>1 DEF NetOK, Requests
    <2>5. sreq' \in Requests /\ sreq'.sent = b + n /\ sreq'.body = c
      BY <2>2, <2>3, <2>4, <1>1 DEF NetOK, Requests
    <2>6. stream' = Cat(stream, [k \in 1..n |-> <<a, b + k>>])
      BY <2>1, <2>2 DEF Cat
    <2>7. stream' \in Seq(Pairs)
      <3>1. stream \in Seq(Pairs)
        BY <1>1 DEF NetOK
      <3>2. [k \in 1..n |-> <<a, b + k>>] \in Seq(Pairs)
        BY <2>3, SentBytes
      <3> QED
        BY <3>1, <3>2, <2>6, PairsCat
    <2> QED
      BY <2>3, <2>5, <2>7, <1>1, <1>3 DEF ServerSend, NetOK, ReqBytes
  <1>4. CASE AcceptConnection
    <2>1. sreq' = [sreq EXCEPT !.sent = ReqBytes, !.wait = FALSE]
      BY <1>4 DEF AcceptConnection
    <2>2. ReqBytes \in Nat
      BY <1>1, Sizes DEF NetOK, Requests, ReqBytes
    <2>3. sreq' \in Requests /\ sreq'.sent = ReqBytes /\ sreq'.body = sreq.body
      BY <2>1, <2>2, <1>1 DEF NetOK, Requests
    <2>4. ReqBytes' = ReqBytes
      BY <2>3 DEF ReqBytes
    <2>5. <<>> \in Seq(Pairs) /\ sreq'.sent <= ReqBytes'
      BY <2>2, <2>3, <2>4
    <2> QED
      BY <2>3, <2>5, <1>4 DEF AcceptConnection, NetOK
  <1>5. ASSUME UNCHANGED <<sreq, peer_closed>>, fd' \in BOOLEAN, stream' \in Seq(Pairs)
        PROVE  NetOK'
    BY <1>1, <1>5 DEF NetOK, ReqBytes
  <1>6. stream \in Seq(Pairs) /\ Len(stream) \in Nat /\ fd \in BOOLEAN
    BY <1>1 DEF NetOK
  <1>7. ASSUME NEW n \in 0..Len(stream) PROVE SubSeq(stream, n + 1, Len(stream)) \in Seq(Pairs)
    BY <1>6, TakenBytes
  <1>8. CASE ReadHead
    <2>1. Least(Len(stream), ReqBufSize) \in 0..Len(stream)
      <3>1. ReqBufSize \in Nat
        BY Sizes
      <3> QED
        BY <3>1, <1>6 DEF Least
    <2>2. stream' \in Seq(Pairs)
      BY <2>1, <1>6, <1>7, <1>8 DEF ReadHead
    <2> QED
      BY <2>2, <1>5, <1>6, <1>8 DEF ReadHead, Refuse, lsapi_close_connection
  <1>9. CASE ReadRest
    <2>1. Least(Len(stream), ReqLen - bufRead) \in 0..Len(stream)
      <3>1. ReqLen - bufRead \in Nat
        BY <1>1, <1>9, Sizes DEF ReadRest, ReadOK
      <3> QED
        BY <3>1, <1>6, LeastIs
    <2>2. stream' \in Seq(Pairs)
      BY <2>1, <1>6, <1>7, <1>9 DEF ReadRest
    <2> QED
      BY <2>2, <1>5, <1>6, <1>9 DEF ReadRest, Refuse, lsapi_close_connection
  <1>10. CASE LSAPI_ReadReqBody_r
    <2>1. bodyRead < bodyLen
      BY <1>10 DEF LSAPI_ReadReqBody_r
    <2>2. PICK w \in Nat, a \in Nat, b \in Nat :
           /\ w = Least(bodyLen - bodyRead, ChunkSize)
           /\ a = FromBuffer
           /\ b = Least(w - Least(a, w), Len(stream)) /\ b \in 0..Len(stream)
      BY <2>1, <1>1, BodyTaken
    <2>3. stream' = stream \/ stream' = SubSeq(stream, b + 1, Len(stream))
      BY <2>2, <1>10 DEF LSAPI_ReadReqBody_r, Return, LSAPI_Finish_r, netVars
    <2>4. stream' \in Seq(Pairs)
      BY <2>2, <2>3, <1>6, <1>7
    <2>5. UNCHANGED <<sreq, peer_closed, fd>>
      BY <1>10 DEF LSAPI_ReadReqBody_r, Return, LSAPI_Finish_r, netVars
    <2> QED
      BY <2>4, <2>5, <1>5, <1>6
  <1>11. CASE ServerClose
    BY <1>1, <1>11 DEF ServerClose, NetOK, ReqBytes
  <1>12. CASE \/ Entry \/ EntryLeave \/ Readable \/ WaitLeave \/ Verify \/ Parse
              \/ ShutdownBreak \/ Loaded \/ Signal
    BY <1>5, <1>6, <1>12 DEF Entry, EntryLeave, Readable, WaitLeave, Verify, Parse,
       ShutdownBreak, Loaded, Signal, Leave, Refuse, lsapi_close_connection, netVars
  <1>13. CASE LoadFails \/ Return \/ sendHeaders \/ LSAPI_Write_r
    BY <1>5, <1>6, <1>13 DEF LoadFails, Return, LSAPI_Finish_r, sendHeaders,
       LSAPI_Write_r, netVars
  <1>14. CASE WritePacket \/ WriteEnd \/ finishBody \/ WritevSome
    BY <1>5, <1>6, <1>14 DEF WritePacket, WriteEnd, finishBody, WritevSome, netVars
  <1>15. CASE WritevDone \/ WritevFails
    BY <1>5, <1>6, <1>15 DEF WritevDone, WritevFails, FlushReturns,
       lsapi_close_connection, netVars
  <1>16. CASE UNCHANGED vars
    BY <1>5, <1>6, <1>16 DEF vars, netVars
  <1> QED
    BY <1>2, <1>3, <1>4, <1>8, <1>9, <1>10, <1>11, <1>12, <1>13, <1>14, <1>15,
       <1>16 DEF Next, Server, Process

\* Bytes read into the request buffer.
LEMMA BufferStored ==
  ASSUME ReadOK, NEW off \in Nat, NEW s \in Seq(Pairs),
         off + Len(s) <= ReqBufSize + PktHdr
  PROVE  /\ Store(buffer, off, s) \in [1..(ReqBufSize + PktHdr) -> Pairs]
         /\ \A i \in 1..off : Store(buffer, off, s)[i] = buffer[i]
         /\ \A i \in 1..Len(s) : Store(buffer, off, s)[off + i] = s[i]
  <1>1. PICK N \in Nat : N = ReqBufSize + PktHdr
    BY Sizes
  <1>2. PICK b : b = buffer
    OBVIOUS
  <1>3. b \in [1..N -> Pairs]
    BY <1>1, <1>2 DEF ReadOK
  <1>4. b \in Seq(Pairs) /\ Len(b) = N
    BY <1>3, MakeSeq
  <1>5. PICK n \in Nat : n = Len(s)
    OBVIOUS
  <1>6. off \in 0..N /\ off + n <= N
    BY <1>1, <1>5
  <1>7. PICK r : r = Store(b, off, s)
    OBVIOUS
  <1>8. StoreOK(Pairs, b, off, s, r)
    BY <1>4, <1>6, <1>7, StoreIs
  <1>9. /\ r \in Seq(Pairs) /\ Len(r) = N
        /\ \A i \in 1..off : r[i] = b[i]
        /\ \A i \in 1..n : r[off + i] = s[i]
    BY <1>4, <1>5, <1>6, <1>8 DEF StoreOK
  <1>10. r \in [1..N -> Pairs]
    BY <1>9
  <1> QED
    BY <1>1, <1>2, <1>5, <1>7, <1>9, <1>10

\* read() into the start of the buffer, and behind what is in it.
LEMMA HeadRead ==
  ASSUME TypeInv, pc = "head", NEW n, n = Least(Len(stream), ReqBufSize),
         stream # <<>>,
         buffer' = Store(buffer, 0, SubSeq(stream, 1, n)),
         stream' = SubSeq(stream, n + 1, Len(stream)),
         bufRead' = bufRead + n,
         UNCHANGED <<bufProcessed, bodyLen, bodyRead, given>>
  PROVE  /\ ReadOK' /\ n \in Nat /\ n > 0 /\ n <= Len(stream)
         /\ \A i \in 1..n : buffer'[i] = stream[i]
         /\ stream' \in Seq(Pairs) /\ Len(stream') = Len(stream) - n
         /\ \A i \in 1..(Len(stream) - n) : stream'[i] = stream[n + i]
  <1>1. NetOK /\ ReadOK /\ bufRead < PktHdr
    BY TypeParts DEF TypeInv, EarlyInv
  <1>2. PICK s \in Seq(Pairs) : s = stream
    BY <1>1 DEF NetOK
  <1>3. PICK l \in Nat : l = Len(s)
    OBVIOUS
  <1>4. l > 0
    BY <1>2, <1>3
  <1>5. n \in Nat /\ n > 0 /\ n <= l /\ n <= ReqBufSize
    <2>1. n = IF l <= ReqBufSize THEN l ELSE ReqBufSize
      BY <1>2, <1>3 DEF Least
    <2> QED
      BY <2>1, <1>4, Sizes
  <1>6. PICK t : t = SubSeq(s, 1, n)
    OBVIOUS
  <1>7. PICK u : u = SubSeq(s, n + 1, l)
    OBVIOUS
  <1>8. /\ t \in Seq(Pairs) /\ Len(t) = n /\ \A i \in 1..n : t[i] = s[i]
        /\ u \in Seq(Pairs) /\ Len(u) = l - n
        /\ \A i \in 1..(l - n) : u[i] = s[n + i]
    <2>1. n \in 0..Len(s)
      BY <1>3, <1>5
    <2>2. /\ SubSeq(s, 1, n) \in Seq(Pairs) /\ Len(SubSeq(s, 1, n)) = n
          /\ \A i \in 1..n : SubSeq(s, 1, n)[i] = s[i]
          /\ SubSeq(s, n + 1, Len(s)) \in Seq(Pairs)
          /\ Len(SubSeq(s, n + 1, Len(s))) = Len(s) - n
          /\ \A i \in 1..(Len(s) - n) : SubSeq(s, n + 1, Len(s))[i] = s[n + i]
      BY <2>1, TakenBytes
    <2> QED
      BY <2>2, <1>3, <1>6, <1>7
  <1>9. /\ Store(buffer, 0, t) \in [1..(ReqBufSize + PktHdr) -> Pairs]
        /\ \A i \in 1..Len(t) : Store(buffer, 0, t)[0 + i] = t[i]
    <2>1. 0 + Len(t) <= ReqBufSize + PktHdr /\ 0 \in Nat
      BY <1>5, <1>8, Sizes
    <2> QED
      BY <2>1, <1>1, <1>8, BufferStored
  <1>10. /\ buffer' \in [1..(ReqBufSize + PktHdr) -> Pairs]
         /\ \A i \in 1..n : buffer'[i] = s[i]
    <2>1. buffer' = Store(buffer, 0, t)
      BY <1>2, <1>6
    <2>2. \A i \in 1..n : 0 + i = i
      BY <1>5
    <2> QED
      BY <2>1, <2>2, <1>8, <1>9
  <1>11. bufRead' \in 0..(ReqBufSize + PktHdr) /\ bufRead <= bufRead'
    BY <1>1, <1>5, Sizes, SMTT(30) DEF ReadOK
  <1>12. bufProcessed' \in 0..bufRead'
    BY <1>1, <1>11, Sizes DEF ReadOK
  <1>13. ReadOK'
    BY <1>1, <1>10, <1>11, <1>12 DEF ReadOK
  <1>14. stream' = u
    BY <1>2, <1>3, <1>7
  <1> QED
    BY <1>2, <1>3, <1>5, <1>8, <1>10, <1>13, <1>14

\* The rest of it is read behind what is there (lsapilib.c:1412-1418).
LEMMA RestRead ==
  ASSUME TypeInv, pc = "rest", bufRead < ReqLen,
         NEW n, n = Least(Len(stream), ReqLen - bufRead),
         stream # <<>>,
         buffer' = Store(buffer, bufRead, SubSeq(stream, 1, n)),
         stream' = SubSeq(stream, n + 1, Len(stream)),
         bufRead' = bufRead + n,
         UNCHANGED <<bufProcessed, bodyLen, bodyRead, given>>
  PROVE  /\ ReadOK' /\ n \in Nat /\ n > 0 /\ n <= Len(stream)
         /\ \A i \in 1..bufRead : buffer'[i] = buffer[i]
         /\ \A i \in 1..n : buffer'[bufRead + i] = stream[i]
         /\ stream' \in Seq(Pairs) /\ Len(stream') = Len(stream) - n
         /\ \A i \in 1..(Len(stream) - n) : stream'[i] = stream[n + i]
  <1>1. NetOK /\ ReadOK
    BY TypeParts DEF TypeInv
  <1>2. PICK s \in Seq(Pairs) : s = stream
    BY <1>1 DEF NetOK
  <1>3. PICK l \in Nat : l = Len(s)
    OBVIOUS
  <1>r. PICK r \in Nat : r = bufRead
    BY <1>1 DEF ReadOK
  <1>4. l > 0 /\ r < ReqLen
    BY <1>2, <1>3, <1>r
  <1>5. n \in Nat /\ n > 0 /\ n <= l /\ r + n <= ReqLen
    <2>1. n = IF l <= ReqLen - r THEN l ELSE ReqLen - r
      BY <1>2, <1>3, <1>r DEF Least
    <2> QED
      BY <2>1, <1>4, Sizes
  <1>6. PICK t : t = SubSeq(s, 1, n)
    OBVIOUS
  <1>7. PICK u : u = SubSeq(s, n + 1, l)
    OBVIOUS
  <1>8. /\ t \in Seq(Pairs) /\ Len(t) = n /\ \A i \in 1..n : t[i] = s[i]
        /\ u \in Seq(Pairs) /\ Len(u) = l - n
        /\ \A i \in 1..(l - n) : u[i] = s[n + i]
    <2>1. n \in 0..Len(s)
      BY <1>3, <1>5
    <2>2. /\ SubSeq(s, 1, n) \in Seq(Pairs) /\ Len(SubSeq(s, 1, n)) = n
          /\ \A i \in 1..n : SubSeq(s, 1, n)[i] = s[i]
          /\ SubSeq(s, n + 1, Len(s)) \in Seq(Pairs)
          /\ Len(SubSeq(s, n + 1, Len(s))) = Len(s) - n
          /\ \A i \in 1..(Len(s) - n) : SubSeq(s, n + 1, Len(s))[i] = s[n + i]
      BY <2>1, TakenBytes
    <2> QED
      BY <2>2, <1>3, <1>6, <1>7
  <1>9. /\ Store(buffer, r, t) \in [1..(ReqBufSize + PktHdr) -> Pairs]
        /\ \A i \in 1..r : Store(buffer, r, t)[i] = buffer[i]
        /\ \A i \in 1..Len(t) : Store(buffer, r, t)[r + i] = t[i]
    <2>1. r + Len(t) <= ReqBufSize + PktHdr
      BY <1>5, <1>8, Sizes
    <2> QED
      BY <2>1, <1>1, <1>8, BufferStored
  <1>10. /\ buffer' \in [1..(ReqBufSize + PktHdr) -> Pairs]
         /\ \A i \in 1..r : buffer'[i] = buffer[i]
         /\ \A i \in 1..n : buffer'[r + i] = s[i]
    <2>1. buffer' = Store(buffer, r, t)
      BY <1>2, <1>6, <1>r
    <2> QED
      BY <2>1, <1>8, <1>9
  <1>11. bufRead' \in 0..(ReqBufSize + PktHdr) /\ bufRead <= bufRead'
    BY <1>5, <1>r, Sizes
  <1>12. bufProcessed' \in 0..bufRead'
    BY <1>1, <1>11, Sizes DEF ReadOK
  <1>13. ReadOK'
    BY <1>1, <1>10, <1>11, <1>12 DEF ReadOK
  <1>14. stream' = u
    BY <1>2, <1>3, <1>7
  <1> QED
    BY <1>2, <1>3, <1>5, <1>8, <1>10, <1>13, <1>14, <1>r

\* What LSAPI_ReadReqBody_r returns, a bytes of the buffer and b of the stream.
Got(a, b) ==
  Cat(SubSeq(buffer, bufProcessed + 1, bufProcessed + a), SubSeq(stream, 1, b))

\* The bytes that LSAPI_ReadReqBody_r returns come from the buffer, then from the
\* stream.
LEMMA GotIs ==
  ASSUME NetOK, ReadOK, NEW a \in Nat, a <= bufRead - bufProcessed,
         NEW b \in 0..Len(stream)
  PROVE  /\ Got(a, b) \in Seq(Pairs) /\ Len(Got(a, b)) = a + b
         /\ \A i \in 1..a : Got(a, b)[i] = buffer[bufProcessed + i]
         /\ \A i \in 1..b : Got(a, b)[a + i] = stream[i]
  <1>1. PICK N \in Nat, p \in Nat, r \in Nat :
          N = ReqBufSize + PktHdr /\ p = bufProcessed /\ r = bufRead
    <2>1. ReqBufSize + PktHdr \in Nat /\ bufRead \in Nat /\ bufProcessed \in Nat
      BY Sizes DEF ReadOK
    <2> QED
      BY <2>1
  <1>2. PICK d : d = buffer
    OBVIOUS
  <1>3. d \in [1..N -> Pairs] /\ p + a <= N
    <2>1. r <= N /\ p <= r /\ a <= r - p
      BY <1>1, Sizes DEF ReadOK
    <2> QED
      BY <2>1, <1>1, <1>2 DEF ReadOK
  <1>4. d \in Seq(Pairs) /\ Len(d) = N
    BY <1>3, MakeSeq
  <1>5. PICK x : x = SubSeq(d, p + 1, p + a)
    OBVIOUS
  <1>6. x \in Seq(Pairs) /\ Len(x) = a /\ \A i \in 1..a : x[i] = d[p + i]
    BY <1>3, <1>4, <1>5
  <1>7. PICK s \in Seq(Pairs) : s = stream
    BY DEF NetOK
  <1>8. PICK y : y = SubSeq(s, 1, b)
    OBVIOUS
  <1>9. y \in Seq(Pairs) /\ Len(y) = b /\ \A i \in 1..b : y[i] = s[i]
    BY <1>7, <1>8, TakenBytes
  <1>10. /\ Cat(x, y) \in Seq(Pairs) /\ Len(Cat(x, y)) = Len(x) + Len(y)
         /\ \A i \in 1..Len(x) : Cat(x, y)[i] = x[i]
         /\ \A i \in 1..Len(y) : Cat(x, y)[Len(x) + i] = y[i]
    BY <1>6, <1>9, PairsCat
  <1>11. Got(a, b) = Cat(x, y)
    BY <1>1, <1>2, <1>5, <1>7, <1>8 DEF Got
  <1> QED
    BY <1>1, <1>2, <1>6, <1>7, <1>9, <1>10, <1>11

\* A call of LSAPI_ReadReqBody_r that returns something.
LEMMA BodyRead ==
  ASSUME NetOK, ReadOK, NEW w \in Nat, NEW a \in Nat, NEW b \in Nat,
         w <= bodyLen - bodyRead, a + b <= w, a <= bufRead - bufProcessed,
         b \in 0..Len(stream),
         given' = Cat(given, Got(a, b)),
         bufProcessed' = bufProcessed + a,
         bodyRead' = bodyRead + Len(Got(a, b)),
         UNCHANGED <<buffer, bufRead, bodyLen>>
  PROVE  /\ ReadOK' /\ Len(given') = Len(given) + (a + b)
         /\ bodyRead' = bodyRead + (a + b)
         /\ \A i \in 1..Len(given) : given'[i] = given[i]
         /\ \A i \in 1..(a + b) : given'[Len(given) + i] = Got(a, b)[i]
  <1>1. Got(a, b) \in Seq(Pairs) /\ Len(Got(a, b)) = a + b
    BY GotIs
  <1>2. given \in Seq(Pairs)
    BY DEF ReadOK
  <1>3. PICK g \in Seq(Pairs), h \in Seq(Pairs) : g = given /\ h = Got(a, b)
    BY <1>1, <1>2
  <1>4. /\ Cat(g, h) \in Seq(Pairs) /\ Len(Cat(g, h)) = Len(g) + Len(h)
        /\ \A i \in 1..Len(g) : Cat(g, h)[i] = g[i]
        /\ \A i \in 1..Len(h) : Cat(g, h)[Len(g) + i] = h[i]
    BY PairsCat
  <1>5. bodyRead' = bodyRead + (a + b)
    BY <1>1
  <1>6. bodyRead' \in 0..bodyLen
    BY <1>5 DEF ReadOK
  <1>7. bufProcessed' \in 0..bufRead
    BY DEF ReadOK
  <1>8. ReadOK'
    BY <1>3, <1>4, <1>6, <1>7 DEF ReadOK
  <1> QED
    BY <1>1, <1>3, <1>4, <1>5, <1>8

\* LSAPI_Reset_r keeps the memory of the request buffer.
LEMMA ResetRead ==
  ASSUME ReadOK, LSAPI_Reset_r, UNCHANGED given
  PROVE  ReadOK' /\ (pc' \in {"entry", "wait", "exit"} => EarlyInv')
  <1>1. ReadOK'
    BY Sizes DEF ReadOK, LSAPI_Reset_r
  <1>2. ASSUME pc' \in {"entry", "wait", "exit"} PROVE EarlyInv'
    BY <1>2, Sizes DEF EarlyInv, LSAPI_Reset_r, Early, Late
  <1> QED
    BY <1>1, <1>2

\* The reading side.
LEMMA ReadStep ==
  ASSUME TypeInv, [Next]_vars
  PROVE  ReadOK' /\ EarlyInv'
  <1>1. NetOK /\ ReadOK /\ PlaceOK /\ EarlyInv
    BY TypeParts DEF TypeInv
  <1> DEFINE Same == UNCHANGED <<readVars, given>>
  <1>2. ASSUME Same PROVE ReadOK'
    BY <1>1, <1>2 DEF ReadOK, readVars
  <1>3. ASSUME Same, pc' = pc, out' = out PROVE EarlyInv'
    BY <1>1, <1>3 DEF EarlyInv, readVars
  <1>4. ASSUME Same, pc \in Late, pc' \in Late \cup {"exit"} PROVE EarlyInv'
    BY <1>1, <1>4 DEF EarlyInv, readVars, Early, Late
  <1>5. CASE Server \/ Signal \/ AcceptConnection \/ UNCHANGED vars
    <2>1. Same /\ pc' = pc /\ out' = out
      BY <1>5 DEF Server, ServerRequest, ServerSend, ServerClose, Signal,
         AcceptConnection, vars, taskVars
    <2> QED
      BY <2>1, <1>2, <1>3
  <1>6. CASE Entry \/ Readable
    <2>1. /\ Same /\ out' = out
          /\ \/ pc = "entry" /\ pc' = "wait"
             \/ pc = "wait" /\ pc' = "head"
      BY <1>6 DEF Entry, Readable, taskVars
    <2>2. EarlyInv'
      BY <2>1, <1>1, Sizes DEF EarlyInv, readVars, Early, Late
    <2> QED
      BY <2>1, <2>2, <1>2
  <1>7. CASE EntryLeave \/ WaitLeave \/ ShutdownBreak
    <2>1. Same /\ pc' = "exit"
      BY <1>7 DEF EntryLeave, WaitLeave, ShutdownBreak, Leave, taskVars
    <2>2. EarlyInv'
      BY <2>1 DEF EarlyInv, Early, Late
    <2> QED
      BY <2>1, <2>2, <1>2
  <1>8. ASSUME Refuse, UNCHANGED given PROVE ReadOK' /\ EarlyInv'
    BY <1>1, <1>8, ResetRead DEF Refuse
  <1>9. CASE ReadHead
    <2>1. CASE Refuse
      BY <2>1, <1>8, <1>9 DEF ReadHead, taskVars
    <2>2. CASE ~Refuse
      <3>1. PICK n : n = Least(Len(stream), ReqBufSize)
        OBVIOUS
      <3>2. /\ pc = "head" /\ stream # <<>>
            /\ buffer' = Store(buffer, 0, SubSeq(stream, 1, n))
            /\ stream' = SubSeq(stream, n + 1, Len(stream))
            /\ bufRead' = bufRead + n
            /\ pc' = IF bufRead + n < PktHdr THEN "head" ELSE "verify"
            /\ UNCHANGED <<fd, out, bufProcessed, bodyLen, bodyRead, given>>
        BY <2>2, <3>1, <1>9 DEF ReadHead, taskVars
      <3>3. ReadOK' /\ n \in Nat
        BY <3>1, <3>2, HeadRead
      <3>4. EarlyInv'
        BY <3>2, <3>3, <1>1, Sizes DEF EarlyInv, Early, Late, ReadOK
      <3> QED
        BY <3>3, <3>4
    <2> QED
      BY <2>1, <2>2
  <1>10. CASE Verify
    <2>1. CASE Refuse
      BY <2>1, <1>8, <1>10 DEF Verify, taskVars
    <2>2. CASE ~Refuse
      <3>1. Same /\ pc = "verify" /\ pc' = "rest" /\ out' = out
        BY <2>2, <1>10 DEF Verify, taskVars
      <3>2. EarlyInv'
        BY <3>1, <1>1 DEF EarlyInv, Early, Late, readVars
      <3> QED
        BY <3>1, <3>2, <1>2
    <2> QED
      BY <2>1, <2>2
  <1>11. CASE ReadRest
    <2>1. CASE Refuse
      BY <2>1, <1>8, <1>11 DEF ReadRest, taskVars
    <2>2. CASE ~Refuse
      <3>1. PICK n : n = Least(Len(stream), ReqLen - bufRead)
        OBVIOUS
      <3>2. /\ pc = "rest" /\ stream # <<>> /\ bufRead < ReqLen
            /\ buffer' = Store(buffer, bufRead, SubSeq(stream, 1, n))
            /\ stream' = SubSeq(stream, n + 1, Len(stream))
            /\ bufRead' = bufRead + n
            /\ UNCHANGED <<fd, out, bufProcessed, bodyLen, bodyRead, given, pc>>
        BY <2>2, <3>1, <1>11 DEF ReadRest, taskVars
      <3>3. ReadOK' /\ n \in Nat
        BY <3>1, <3>2, RestRead
      <3>4. EarlyInv'
        BY <3>2, <3>3, <1>1, Sizes DEF EarlyInv, Early, Late, ReadOK
      <3> QED
        BY <3>3, <3>4
    <2> QED
      BY <2>1, <2>2
  <1>12. CASE Parse
    <2>1. CASE Refuse
      <3>1. (pc' = "wait" /\ given' = given) \/ pc' = "accepted"
        BY <1>12 DEF Parse, taskVars, Refuse
      <3>2. pc' = "wait"
        BY <2>1 DEF Refuse
      <3> QED
        BY <3>1, <3>2, <2>1, <1>8
    <2>2. CASE ~Refuse
      <3>1. /\ pc = "rest" /\ pc' = "accepted" /\ bufRead >= ReqLen
            /\ bodyLen' = sreq.body /\ bufProcessed' = ReqLen /\ given' = <<>>
            /\ UNCHANGED <<buffer, bufRead, bodyRead>>
        BY <2>2, <1>12 DEF Parse
      <3>2. bodyRead = 0 /\ sreq.body \in Nat /\ <<>> \in Seq(Pairs)
        BY <3>1, <1>1 DEF EarlyInv, Early, NetOK, Requests
      <3>3. ReadOK'
        BY <3>1, <3>2, <1>1, Sizes DEF ReadOK
      <3>4. EarlyInv'
        BY <3>1, Sizes DEF EarlyInv, Early, Late
      <3> QED
        BY <3>3, <3>4
    <2> QED
      BY <2>1, <2>2
  <1>13. CASE Loaded \/ sendHeaders \/ LSAPI_Write_r
    <2>1. Same /\ pc \in Late /\ pc' \in Late
      BY <1>13 DEF Loaded, sendHeaders, LSAPI_Write_r, Late, taskVars
    <2> QED
      BY <2>1, <1>2, <1>4
  <1>14. CASE WritePacket \/ WriteEnd \/ finishBody \/ WritevSome
    <2>1. Same /\ pc \in Late /\ pc' \in Late
      BY <1>14 DEF WritePacket, WriteEnd, finishBody, WritevSome, Flush, Late, taskVars
    <2> QED
      BY <2>1, <1>2, <1>4
  <1>15. ASSUME LSAPI_Finish_r, pc \in Late PROVE ReadOK' /\ EarlyInv'
    <2>1. CASE fd
      <3>1. Same /\ pc' = "flush"
        BY <2>1, <1>15 DEF LSAPI_Finish_r, Flush, taskVars
      <3> QED
        BY <3>1, <1>2, <1>4, <1>15 DEF Late
    <2>2. CASE ~fd
      <3>1. LSAPI_Reset_r /\ given' = given /\ pc' \in {"entry", "exit"}
        BY <2>2, <1>15 DEF LSAPI_Finish_r, taskVars
      <3> QED
        BY <3>1, <1>1, ResetRead
    <2> QED
      BY <2>1, <2>2
  <1>16. CASE LoadFails \/ Return
    BY <1>15, <1>16 DEF LoadFails, Return, Late
  <1>17. CASE LSAPI_ReadReqBody_r
    <2>1. CASE Return
      BY <2>1, <1>16
    <2>2. CASE ~Return
      <3>1. PICK w \in Nat, a \in Nat, b \in Nat :
             /\ w = Least(bodyLen - bodyRead, ChunkSize) /\ w <= bodyLen - bodyRead
             /\ a = FromBuffer /\ a <= w /\ a <= bufRead - bufProcessed
             /\ b = Least(w - Least(a, w), Len(stream)) /\ a + b <= w
             /\ b \in 0..Len(stream)
        <4>1. bodyRead < bodyLen
          BY <1>17 DEF LSAPI_ReadReqBody_r
        <4> QED
          BY <4>1, <1>1, BodyTaken
      <3>2. /\ given' = Cat(given, Got(a, b))
            /\ bufProcessed' = bufProcessed + a
            /\ bodyRead' = bodyRead + Len(Got(a, b))
            /\ UNCHANGED <<buffer, bufRead, bodyLen, pc>> /\ pc = "handle"
        BY <2>2, <3>1, <1>17 DEF LSAPI_ReadReqBody_r, Got, Cat
      <3>3. ReadOK'
        BY <3>1, <3>2, <1>1, BodyRead
      <3>4. EarlyInv'
        BY <3>1, <3>2, <1>1, Sizes DEF EarlyInv, Early, Late, ReadOK
      <3> QED
        BY <3>3, <3>4
    <2> QED
      BY <2>1, <2>2
  <1>18. CASE WritevDone \/ WritevFails
    <2>1. given' = given /\ pc = "flush"
      BY <1>18 DEF WritevDone, WritevFails, FlushReturns
    <2>2. CASE ret = "finish"
      <3>1. LSAPI_Reset_r /\ pc' \in {"entry", "exit"}
        BY <2>2, <1>18 DEF WritevDone, WritevFails, FlushReturns
      <3> QED
        BY <2>1, <3>1, <1>1, ResetRead
    <2>3. CASE ret # "finish"
      <3>1. Same /\ pc' \in {"write", "handle"}
        BY <2>1, <2>3, <1>18 DEF WritevDone, WritevFails, FlushReturns
      <3> QED
        BY <2>1, <3>1, <1>2, <1>4 DEF Late
    <2> QED
      BY <2>2, <2>3
  <1> QED
    BY <1>5, <1>6, <1>7, <1>9, <1>10, <1>11, <1>12, <1>13, <1>14, <1>16, <1>17,
       <1>18 DEF Next, Process

----------------------------------------------------------------------------
(* Writing: types, step by step *)

\* What a packet header consists of.
LEMMA HeaderCells ==
  ASSUME NEW kind \in {"close", "ack", "end"}, NEW n \in Nat, NEW len \in Nat
  PROVE  /\ PacketHeader(kind, n, len) \in Seq(Cells)
         /\ Len(PacketHeader(kind, n, len)) = n
         /\ \A k \in 1..n :
              PacketHeader(kind, n, len)[k] = <<kind, IF k = 1 THEN len ELSE 0>>
  <1>1. PacketHeader(kind, n, len) \in [1..n -> Cells]
    BY DEF PacketHeader, Cells
  <1>2. \A k \in 1..n :
          PacketHeader(kind, n, len)[k] = <<kind, IF k = 1 THEN len ELSE 0>>
    BY DEF PacketHeader
  <1> QED
    BY <1>1, <1>2, MakeSeq

\* LSAPI_Flush_r is entered with q, all of which is still to be written.
LEMMA FlushEntered ==
  ASSUME RespOK, NEW q, Good(q), ~q.RESP_HEADER, q.pos = 0, q.total > 0,
         out' = q, left' = q.total, pc' = "flush", fd',
         ret' \in {"packet", "write", "body", "finish"},
         ret' # "packet" => todo' = 0,
         todo' \in 0..written', slot' \in 0..(PktHeaders - 1),
         written' = written, wire' = wire
  PROVE  RespOK' /\ QueueInv'
  <1>1. q \in Responses /\ WithinBounds(q) /\ q.total = Len(Pending(q))
    BY DEF Good, Counted
  <1>2. q.total \in Nat
    BY <1>1 DEF Responses
  <1>3. AtFlush(q, ret', q.total, todo')
    BY <1>1 DEF AtFlush
  <1>4. RespOK'
    BY <1>1, <1>2 DEF RespOK
  <1> QED
    BY <1>3, <1>4 DEF QueueInv

\* What LSAPI_Flush_r has to write, when it is called between two calls of the sink.
LEMMA FlushFromHandle ==
  ASSUME NEW o, AtHandle(o), NEW q, q = FlushBuf(LSAPI_FinalizeRespHeaders_r(o))
  PROVE  /\ Good(q) /\ ~q.RESP_HEADER /\ q.pos = 0 /\ q.towrite = 0 /\ q.cur \in 0..4
         /\ (o.cur # o.towrite \/ o.pos # 0) /\ ~o.RESP_HEADER => q.total > 0
         /\ o.RESP_HEADER => q.total > 0
  <1>1. PICK p : p = LSAPI_FinalizeRespHeaders_r(o)
    OBVIOUS
  <1>2. /\ AtHandle(p) /\ ~p.RESP_HEADER /\ p.pos = o.pos
        /\ o.RESP_HEADER => \E hd : Adds(o, p, "header", hd, <<>>)
        /\ ~o.RESP_HEADER => p = o
    BY <1>1, Finalized
  <1>3. q = FlushBuf(p)
    BY <1>1
  <1>4. /\ Good(q) /\ ~q.RESP_HEADER /\ q.pos = 0 /\ q.towrite = 0 /\ q.cur \in 0..4
        /\ p.pos # 0 => q.total > 0
        /\ p.pos = 0 => q = p
    BY <1>2, <1>3, BufFlushed
  <1>5. o.RESP_HEADER => p.total > 0
    <2> HAVE o.RESP_HEADER
    <2>1. PICK hd : Adds(o, p, "header", hd, <<>>)
      BY <1>2
    <2> QED
      BY <2>1, AddsCounted DEF AtHandle
  <1>6. o.cur # o.towrite /\ ~o.RESP_HEADER => p.total > 0
    BY <1>2 DEF AtHandle
  <1> QED
    BY <1>2, <1>4, <1>5, <1>6

\* LSAPI_Finish_r on a connection that is open.
LEMMA FinishStep ==
  ASSUME TypeInv, AtHandle(out), todo = 0, LSAPI_Finish_r, fd
  PROVE  RespOK' /\ QueueInv'
  <1>1. RespOK /\ NetOK
    BY TypeParts DEF TypeInv
  <1>2. PICK q : q = FlushBuf(LSAPI_FinalizeRespHeaders_r(out))
    OBVIOUS
  <1>3. Good(q) /\ ~q.RESP_HEADER /\ q.pos = 0 /\ q.towrite = 0 /\ q.cur \in 0..4
    BY <1>2, FlushFromHandle
  <1>4. PICK r : r = Count(Put(q, "end", 0, PktHdr), PktHdr)
    OBVIOUS
  <1>5. q \in Responses /\ WithinBounds(q) /\ q.cur + 1 <= IovecSize
    BY <1>3, Sizes DEF Good
  <1>6. /\ \E hd : Adds(q, r, "end", hd, <<>>) /\ Len(hd) = PktHdr
        /\ Rest(q, r)
    BY <1>4, <1>5, EndQueued
  <1>7. Good(r) /\ r.total > 0
    BY <1>3, <1>6, AddsCounted
  <1>8. ~r.RESP_HEADER /\ r.pos = 0
    BY <1>3, <1>6 DEF Rest
  <1>9. FlushBuf(LSAPI_FinalizeRespHeaders_r(r)) = r
    BY <1>8, FlushedTwice
  <1>10. /\ out' = r /\ left' = r.total /\ ret' = "finish" /\ pc' = "flush"
         /\ fd' = fd /\ todo' = todo /\ slot' = slot /\ written' = written
         /\ wire' = wire
    BY <1>2, <1>4, <1>9 DEF LSAPI_Finish_r, Flush, taskVars
  <1>11. todo' \in 0..written' /\ slot' \in 0..(PktHeaders - 1)
    BY <1>1, <1>10 DEF RespOK
  <1> QED
    BY <1>1, <1>7, <1>8, <1>10, <1>11, FlushEntered

\* finishBody, when there is something to write.
LEMMA BodyFlushStep ==
  ASSUME TypeInv, pc = "handle", finishBody
  PROVE  RespOK' /\ QueueInv'
  <1>1. RespOK /\ AtHandle(out) /\ todo = 0 /\ fd
    BY TypeParts DEF TypeInv, QueueInv, finishBody
  <1>2. CASE pc' = "handle"
    <2>1. UNCHANGED <<out, pc, ret, left, todo, slot, written, wire, fd>>
      BY <1>2 DEF finishBody, Flush
    <2> QED
      BY <2>1, <1>1 DEF RespOK, QueueInv
  <1>3. CASE pc' # "handle"
    <2>1. /\ out.cur # out.towrite \/ out.pos # 0
          /\ Flush(out, "body")
          /\ UNCHANGED <<todo, slot, written, wire, fd>>
      BY <1>3 DEF finishBody
    <2>2. PICK q : q = FlushBuf(LSAPI_FinalizeRespHeaders_r(out))
      OBVIOUS
    <2>3. Good(q) /\ ~q.RESP_HEADER /\ q.pos = 0 /\ q.total > 0
      BY <1>1, <2>1, <2>2, FlushFromHandle
    <2>4. out' = q /\ left' = q.total /\ ret' = "body" /\ pc' = "flush"
      BY <2>1, <2>2 DEF Flush
    <2>5. todo' \in 0..written' /\ slot' \in 0..(PktHeaders - 1)
      BY <1>1, <2>1 DEF RespOK
    <2> QED
      BY <1>1, <2>1, <2>3, <2>4, <2>5, FlushEntered
  <1> QED
    BY <1>2, <1>3

\* The end of LSAPI_Write_r.
LEMMA WriteEndStep ==
  ASSUME TypeInv, WriteEnd
  PROVE  RespOK' /\ QueueInv'
  <1>1. RespOK /\ AtWrite(out, slot, todo) /\ todo = 0 /\ fd
    BY TypeParts DEF TypeInv, QueueInv, WriteEnd
  <1>2. UNCHANGED <<todo, slot, written, wire, fd>>
    BY DEF WriteEnd, taskVars
  <1>3. Good(out) /\ ~out.RESP_HEADER /\ slot \in Nat /\ out.pos \in Nat
    BY <1>1 DEF AtWrite, RespOK, Responses
  <1>4. out.pos = 0
    BY <1>1, <1>3 DEF AtWrite
  <1>5. CASE slot # 0
    <2>1. out.total > 0
      BY <1>1, <1>3, <1>5 DEF AtWrite
    <2>2. FlushBuf(LSAPI_FinalizeRespHeaders_r(out)) = out
      BY <1>3, <1>4, FlushedTwice
    <2>3. out' = out /\ left' = out.total /\ ret' = "write" /\ pc' = "flush"
      BY <2>2, <1>5 DEF WriteEnd, Flush
    <2>4. todo' \in 0..written' /\ slot' \in 0..(PktHeaders - 1)
      BY <1>1, <1>2 DEF RespOK
    <2> QED
      BY <1>1, <1>2, <1>3, <1>4, <2>1, <2>3, <2>4, FlushEntered
  <1>6. CASE slot = 0
    <2>1. pc' = "handle" /\ out' = out /\ left' = left
      BY <1>6 DEF WriteEnd
    <2>2. AtHandle(out)
      BY <1>1, <1>6 DEF AtWrite
    <2>3. RespOK'
      BY <1>1, <1>2, <2>1 DEF RespOK
    <2> QED
      BY <1>1, <1>2, <2>1, <2>2, <2>3 DEF QueueInv
  <1> QED
    BY <1>5, <1>6

\* A packet of LSAPI_Write_r.
LEMMA WritePacketStep ==
  ASSUME TypeInv, WritePacket
  PROVE  RespOK' /\ QueueInv'
  <1>1. RespOK /\ AtWrite(out, slot, todo) /\ todo > 0 /\ fd
    BY TypeParts DEF TypeInv, QueueInv, WritePacket
  <1>2. UNCHANGED <<written, wire, fd>>
    BY DEF WritePacket, taskVars
  <1>3. PICK s \in Nat, t \in Nat, w \in Nat : s = slot /\ t = todo /\ w = written
    BY <1>1 DEF RespOK
  <1>4. /\ s \in 0..(PktHeaders - 1) /\ t \in 1..w /\ s <= PktHeaders - 2
    BY <1>1, <1>3, Sizes DEF RespOK, AtWrite
  <1>5. PICK c \in Nat, m \in Nat : c = out.cur /\ m = out.pos
    BY <1>1 DEF RespOK, Responses
  <1>6. /\ Good(out) /\ ~out.RESP_HEADER /\ out.towrite = 0 /\ m < RespBufSize
        /\ (s = 0 => c <= 2) /\ (s > 0 => c <= 3 + 2 * s)
        /\ (m > 0 => s = 0) /\ HeadersBelow(out, slot)
    BY <1>1, <1>3, <1>5 DEF AtWrite, AtHandle
  <1>7. /\ m > 0 => c + 3 <= IovecSize /\ c + 3 <= 3 + 2 * (s + 1)
        /\ ~(m > 0) => c + 2 <= IovecSize /\ c + 2 <= 3 + 2 * (s + 1)
    <2>1. CASE m > 0
      BY <2>1, <1>4, <1>6, Sizes
    <2>2. CASE ~(m > 0)
      BY <2>2, <1>4, <1>6, Sizes
    <2> QED
      BY <2>1, <2>2
  <1>8. PICK q : Queues(out, q)
    BY DEF Queues
  <1>9. /\ \E hd, tl : Adds(out, q, "stream", hd, tl)
        /\ q.cur = IF out.pos > 0 THEN out.cur + 3 ELSE out.cur + 2
        /\ q.towrite = out.towrite /\ q.pos = 0 /\ q.mem = out.mem
        /\ q.RESP_HEADER = out.RESP_HEADER /\ HeadersBelow(q, slot + 1)
    <2>1. /\ out \in Responses /\ WithinBounds(out) /\ out.pos < RespBufSize
          /\ HeadersBelow(out, slot)
          /\ IF out.pos > 0 THEN out.cur + 3 <= IovecSize ELSE out.cur + 2 <= IovecSize
      BY <1>5, <1>6, <1>7 DEF Good
    <2>2. slot \in 0..(PktHeaders - 1) /\ written \in Nat /\ todo \in 1..written
      BY <1>3, <1>4
    <2> QED
      BY <1>8, <2>1, <2>2, PacketQueued
  <1>10. Good(q) /\ q.total > 0
    BY <1>6, <1>9, AddsCounted
  <1>11. PICK p \in Nat : /\ p = PacketLen(out) /\ p > m /\ p - m <= t
    <2>1. out \in Responses /\ todo \in Nat /\ todo > 0 /\ out.pos < RespBufSize
      BY <1>1, <1>3, <1>5, <1>6 DEF RespOK
    <2>2. PICK mm \in Nat, p \in Nat :
            /\ mm = out.pos /\ p = PacketLen(out) /\ p > mm /\ p - mm <= todo
      BY <2>1, PacketSize
    <2> QED
      BY <2>2, <1>3, <1>5
  <1>12. todo' \in 0..written' /\ slot' = s + 1
    <2>1. todo' = t - (p - m)
      BY <1>3, <1>5, <1>11 DEF WritePacket
    <2>2. slot' = s + 1 /\ written' = w
      BY <1>2, <1>3 DEF WritePacket
    <2> QED
      BY <2>1, <2>2, <1>4, <1>11
  <1>13. slot' \in 0..(PktHeaders - 1)
    BY <1>4, <1>12, Sizes
  <1>14. CASE LastHeader
    <2>1. FlushBuf(LSAPI_FinalizeRespHeaders_r(q)) = q
      BY <1>6, <1>9, FlushedTwice
    <2>2. out' = q /\ left' = q.total /\ ret' = "packet" /\ pc' = "flush"
      BY <2>1, <1>8, <1>14 DEF WritePacket, Flush, Queues
    <2>3. ~q.RESP_HEADER /\ q.pos = 0
      BY <1>6, <1>9
    <2> QED
      BY <1>1, <1>2, <1>10, <1>12, <1>13, <2>2, <2>3, FlushEntered
  <1>15. CASE ~LastHeader
    <2>1. out' = q /\ left' = left /\ pc' = "write" /\ ret' = ret
      BY <1>8, <1>15 DEF WritePacket, Queues
    <2>2. s + 1 <= PktHeaders - 2
      BY <1>3, <1>4, <1>15, Sizes DEF LastHeader
    <2>3. q.cur <= 3 + 2 * (s + 1)
      BY <1>5, <1>7, <1>9
    <2>4. AtWrite(q, s + 1, todo')
      <3>1. /\ Good(q) /\ ~q.RESP_HEADER /\ q.towrite = 0 /\ q.pos = 0 /\ q.total > 0
            /\ HeadersBelow(q, s + 1)
        BY <1>3, <1>6, <1>9, <1>10
      <3>2. s + 1 # 0 /\ 0 < RespBufSize
        BY Sizes
      <3> QED
        BY <3>1, <3>2, <2>2, <2>3 DEF AtWrite
    <2>5. RespOK'
      BY <1>1, <1>2, <1>10, <1>12, <1>13, <2>1 DEF RespOK, Good
    <2> QED
      BY <1>1, <1>2, <1>12, <2>1, <2>4, <2>5 DEF QueueInv
  <1> QED
    BY <1>14, <1>15

\* writev() has written something.
LEMMA WritevSomeStep ==
  ASSUME TypeInv, WritevSome
  PROVE  /\ RespOK' /\ QueueInv'
         /\ \E n \in Nat : /\ n < Len(Pending(out))
                           /\ wire' = wire \o SubSeq(Pending(out), 1, n)
                           /\ Pending(out) = SubSeq(Pending(out), 1, n) \o Pending(out')
  <1>1. RespOK /\ AtFlush(out, ret, left, todo) /\ fd /\ pc = "flush"
    BY TypeParts DEF TypeInv, QueueInv, WritevSome
  <1>2. PICK n \in 1..(left - 1) :
          /\ wire' = wire \o SubSeq(Pending(out), 1, n)
          /\ left' = left - n
          /\ out' = Advance(out, n)
    BY DEF WritevSome
  <1>3. UNCHANGED <<fd, pc, ret, todo, slot, written>>
    BY DEF WritevSome, taskVars
  <1>4. PICK v \in Seq(Cells) : v = Pending(out)
    <2>1. out \in Responses /\ WithinBounds(out)
      BY <1>1 DEF RespOK
    <2> QED
      BY <2>1, PendingIs
  <1>5. PICK l \in Nat : l = left /\ l = Len(v)
    BY <1>1, <1>4 DEF AtFlush, RespOK
  <1>6. n \in Nat /\ n < l /\ l - n \in Nat /\ l - n > 0 /\ n \in 0..l
    BY <1>5
  <1>7. PICK q : q = Advance(out, n)
    OBVIOUS
  <1>8. /\ q \in Responses /\ WithinBounds(q)
        /\ Pending(out) = SubSeq(Pending(out), 1, n) \o Pending(q)
        /\ q = [out EXCEPT !.towrite = q.towrite, !.iov = q.iov]
    <2>1. out \in Responses /\ WithinBounds(out) /\ n < Len(Pending(out))
      BY <1>1, <1>4, <1>5, <1>6 DEF RespOK
    <2>2. PICK o : o = out
      OBVIOUS
    <2>3. o \in Responses /\ WithinBounds(o) /\ n < Len(Pending(o)) /\ Advanced(o, n, q)
      BY <2>1, <2>2, <1>7 DEF Advanced
    <2>4. n \in Nat
      BY <1>6
    <2>5. AdvanceOK(o, n, q)
      BY <2>3, <2>4, Advances, Zenon
    <2> QED
      BY <2>2, <2>5 DEF AdvanceOK
  <1>9. Len(Pending(q)) = l - n
    <2>1. PICK u \in Seq(Cells) : u = Pending(q)
      BY <1>8, PendingIs
    <2>2. PICK x : x = SubSeq(v, 1, n)
      OBVIOUS
    <2>3. x \in Seq(Cells) /\ Len(x) = n
      BY <2>2, <1>5, <1>6, CutSeq
    <2>4. v = Cat(x, u)
      BY <2>1, <2>2, <1>4, <1>8 DEF Cat
    <2>5. Len(v) = Len(x) + Len(u)
      BY <2>3, <2>4, CatType
    <2> QED
      BY <2>1, <2>3, <2>5, <1>5, <1>6
  <1>10. q.RESP_HEADER = out.RESP_HEADER /\ q.pos = out.pos
    BY <1>1, <1>8 DEF RespOK, Responses
  <1>11. AtFlush(q, ret, l - n, todo)
    BY <1>1, <1>6, <1>8, <1>9, <1>10 DEF AtFlush
  <1>12. wire' \in Seq(Cells)
    <2>1. SubSeq(v, 1, n) \in Seq(Cells)
      BY <1>5, <1>6, CutSeq
    <2>2. wire \in Seq(Cells)
      BY <1>1 DEF RespOK
    <2> QED
      BY <2>1, <2>2, <1>2, <1>4
  <1>13. out' = q /\ left' = l - n
    BY <1>2, <1>5, <1>7
  <1>14. RespOK'
    BY <1>1, <1>3, <1>6, <1>8, <1>12, <1>13 DEF RespOK
  <1>15. QueueInv'
    BY <1>1, <1>3, <1>11, <1>13 DEF QueueInv
  <1>16. n < Len(Pending(out))
    BY <1>4, <1>5, <1>6
  <1> QED
    BY <1>2, <1>6, <1>8, <1>13, <1>14, <1>15, <1>16

\* The end of LSAPI_Flush_r.
LEMMA WritevEndStep ==
  ASSUME TypeInv, WritevDone \/ WritevFails
  PROVE  RespOK' /\ QueueInv'
  <1>1. /\ RespOK /\ AtFlush(out, ret, left, todo) /\ fd /\ pc = "flush"
        /\ out \in Responses /\ WithinBounds(out)
    BY TypeParts DEF TypeInv, QueueInv, WritevDone, WritevFails, RespOK
  <1>2. wire' \in Seq(Cells)
    <2>1. CASE WritevDone
      <3>1. Pending(out) \in Seq(Cells) /\ wire \in Seq(Cells)
        BY <1>1, PendingIs DEF RespOK
      <3> QED
        BY <2>1, <3>1 DEF WritevDone
    <2>2. CASE WritevFails
      BY <2>2, <1>1 DEF WritevFails, RespOK
    <2> QED
      BY <2>1, <2>2
  <1>3. /\ left' = 0 /\ left' \in Nat /\ written' = written
        /\ slot' = IF ret = "packet" THEN 0 ELSE slot
    BY DEF WritevDone, WritevFails, FlushReturns
  <1>4. slot' \in 0..(PktHeaders - 1)
    BY <1>1, <1>3, Sizes DEF RespOK
  <1>5. CASE ret = "finish"
    <2>1. out' = NoResponse /\ pc' \in {"entry", "exit"} /\ todo' = todo
      BY <1>5 DEF WritevDone, WritevFails, FlushReturns, LSAPI_Reset_r
    <2>2. NoResponse \in Responses /\ WithinBounds(NoResponse)
      BY FreshResponse DEF Good
    <2>3. todo' = 0
      BY <2>1, <1>1, <1>5 DEF AtFlush
    <2>4. RespOK'
      BY <2>1, <2>2, <1>1, <1>2, <1>3, <1>4 DEF RespOK
    <2> QED
      BY <2>1, <2>3, <2>4 DEF QueueInv
  <1>6. CASE ret # "finish"
    <2>1. out' = Flushed(out)
      BY <1>6 DEF WritevDone, WritevFails, FlushReturns
    <2>2. /\ AtHandle(out') /\ \A t : AtWrite(out', 0, t)
      BY <2>1, <1>1, ResetVector DEF AtFlush
    <2>3. /\ pc' = "write" => ret = "packet" /\ WritevDone
          /\ pc' \in {"write", "handle"}
      BY <1>1, <1>6 DEF WritevDone, WritevFails, FlushReturns
    <2>4. todo' = todo \/ todo' = 0
      BY <1>6 DEF WritevDone, WritevFails, FlushReturns
    <2>5. todo' \in 0..written'
      BY <2>4, <1>1, <1>3 DEF RespOK
    <2>6. RespOK'
      <3>1. out' \in Responses /\ WithinBounds(out')
        BY <2>2 DEF AtHandle, Good
      <3>2. written' \in Nat
        BY <1>1, <1>3 DEF RespOK
      <3>3. WithinBounds(out)'
        BY <3>1 DEF WithinBounds
      <3> QED
        BY <3>1, <3>2, <3>3, <2>5, <1>2, <1>3, <1>4 DEF RespOK
    <2>7. pc' = "handle" => todo' = 0
      <3>1. CASE WritevDone
        <4>1. pc' = "handle" => ret # "packet" /\ todo' = todo
          BY <3>1, <1>6 DEF WritevDone, FlushReturns
        <4> QED
          BY <4>1, <1>1 DEF AtFlush
      <3>2. CASE WritevFails
        BY <3>2, <1>6 DEF WritevFails, FlushReturns
      <3> QED
        BY <3>1, <3>2
    <2>8. pc' = "write" => fd' /\ AtWrite(out', slot', todo')
      <3> HAVE pc' = "write"
      <3>1. slot' = 0 /\ fd' = fd
        BY <2>3, <1>3 DEF WritevDone
      <3> QED
        BY <3>1, <2>2, <1>1
    <2> QED
      BY <2>2, <2>3, <2>6, <2>7, <2>8 DEF QueueInv
  <1> QED
    BY <1>5, <1>6

\* sendHeaders.
LEMMA HeadersStep ==
  ASSUME TypeInv, sendHeaders
  PROVE  RespOK' /\ QueueInv'
  <1>1. RespOK /\ AtHandle(out) /\ todo = 0 /\ pc = "handle"
    BY TypeParts DEF TypeInv, QueueInv, sendHeaders
  <1>2. UNCHANGED <<todo, slot, left, written, wire, pc, fd, ret>>
    BY DEF sendHeaders, writeVars
  <1>3. PICK k \in 0..(MaxHeaders - out.cnt) :
          LET appended == [out EXCEPT !.cnt = @ + k, !.names = @ + k] IN
          out' = LSAPI_FinalizeRespHeaders_r(appended) \/ out' = appended
    BY DEF sendHeaders
  <1>4. PICK x \in Nat, y \in Nat : x = out.cnt + k /\ y = out.names + k
    <2>1. out.cnt \in Nat /\ out.names \in Nat
      BY <1>1 DEF RespOK, Responses
    <2>2. MaxHeaders \in Nat
      BY LsapiAssumption
    <2>3. k \in Nat
      BY <2>1, <2>2
    <2> QED
      BY <2>1, <2>3
  <1>5. PICK q : Appended(out, q, x, y)
    BY DEF Appended
  <1>6. AtHandle(q)
    BY <1>1, <1>5, HeadersAppended
  <1>7. q = [out EXCEPT !.cnt = @ + k, !.names = @ + k]
    BY <1>1, <1>4, <1>5 DEF Appended, RespOK, Responses
  <1>8. out' = LSAPI_FinalizeRespHeaders_r(q) \/ out' = q
    BY <1>3, <1>7
  <1>9. AtHandle(out')
    BY <1>6, <1>8, Finalized
  <1>10. RespOK'
    BY <1>1, <1>2, <1>9 DEF RespOK, AtHandle, Good
  <1> QED
    BY <1>1, <1>2, <1>9, <1>10 DEF QueueInv

\* The flag that a body was begun.
Marked(o, q) == q = [o EXCEPT !.RESP_BODY = TRUE]

\* RESP_BODY is no part of what is queued.
LEMMA BodyMarked ==
  ASSUME NEW o, AtHandle(o), NEW q, Marked(o, q)
  PROVE  /\ AtHandle(q) /\ Pending(q) = Pending(o)
         /\ q.RESP_HEADER = o.RESP_HEADER /\ q.pos = o.pos /\ q.mem = o.mem
  <1>1. o \in Responses /\ WithinBounds(o) /\ Counted(o)
    BY DEF AtHandle, Good
  <1>2. q \in Responses
    BY <1>1 DEF Responses, Marked
  <1>3. /\ q.iov = o.iov /\ q.cur = o.cur /\ q.towrite = o.towrite /\ q.total = o.total
        /\ q.mem = o.mem /\ q.pos = o.pos /\ q.pkt = o.pkt /\ q.hdrpkt = o.hdrpkt
        /\ q.RESP_HEADER = o.RESP_HEADER
    BY <1>1 DEF Responses, Marked
  <1>4. WithinBounds(q)
    BY <1>1, <1>3 DEF WithinBounds
  <1>5. \A s : Content(q, q.iov[s]) = Content(o, o.iov[s])
    <2>1. \A e, k : Byte(q, e, k) = Byte(o, e, k)
      BY <1>3 DEF Byte
    <2> QED
      BY <2>1, <1>3 DEF Content
  <1>6. More(o, q, 0)
    <2>1. q.cur = o.cur + 0
      BY <1>1, <1>3 DEF Responses
    <2> QED
      BY <2>1, <1>1, <1>2, <1>3, <1>4, <1>5 DEF More
  <1>7. Pending(q) = Pending(o)
    BY <1>6, MorePending
  <1>8. Good(q)
    BY <1>1, <1>2, <1>3, <1>4, <1>7 DEF Good, Counted
  <1>9. HeaderOnly(q)
    BY <1>3 DEF HeaderOnly, AtHandle
  <1>10. AtHandle(q)
    BY <1>3, <1>8, <1>9 DEF AtHandle
  <1> QED
    BY <1>3, <1>7, <1>10

\* The bytes LSAPI_Write_r is given.
LEMMA DataBytes ==
  ASSUME NEW n \in Nat, NEW x \in Nat
  PROVE  /\ [k \in 1..n |-> x + k] \in Seq(Nat) /\ Len([k \in 1..n |-> x + k]) = n
         /\ \A i \in 1..n : [k \in 1..n |-> x + k][i] = x + i
  <1>1. [k \in 1..n |-> x + k] \in [1..n -> Nat]
    OBVIOUS
  <1> QED
    BY <1>1, MakeSeq

\* LSAPI_Write_r: what the response is then, and where the process is.
LEMMA WriteStep ==
  ASSUME TypeInv, LSAPI_Write_r
  PROVE  RespOK' /\ QueueInv'
  <1>1. RespOK /\ AtHandle(out) /\ todo = 0 /\ pc = "handle" /\ fd
    BY TypeParts DEF TypeInv, QueueInv, LSAPI_Write_r
  <1>2. UNCHANGED <<wire, fd, ret, left>>
    BY DEF LSAPI_Write_r
  <1>3. PICK len \in 1..(ResponseBound - written) :
          LET o == [LSAPI_FinalizeRespHeaders_r(out) EXCEPT !.RESP_BODY = TRUE]
              bytes == [k \in 1..len |-> written + k]
          IN
          /\ written' = written + len
          /\ \/ /\ Fits(len)
                /\ out' = [o EXCEPT !.mem = Store(o.mem, o.pos, bytes), !.pos = @ + len]
                /\ UNCHANGED <<pc, todo, slot>>
             \/ /\ ~Fits(len)
                /\ out' = o
                /\ pc' = "write"
                /\ todo' = len /\ slot' = 0
    BY DEF LSAPI_Write_r
  <1>4. PICK w \in Nat : w = written
    BY <1>1 DEF RespOK
  <1>5. len \in Nat /\ len > 0
    <2>1. ResponseBound \in Nat
      BY LsapiAssumption DEF ResponseBound
    <2> QED
      BY <2>1, <1>4
  <1>6. PICK p : p = LSAPI_FinalizeRespHeaders_r(out)
    OBVIOUS
  <1>7. AtHandle(p) /\ ~p.RESP_HEADER /\ p.pos = out.pos
    BY <1>1, <1>6, Finalized
  <1>8. PICK o : Marked(p, o)
    BY DEF Marked
  <1>9. AtHandle(o) /\ ~o.RESP_HEADER /\ o.pos = out.pos
    BY <1>7, <1>8, BodyMarked
  <1>10. PICK b : b = [k \in 1..len |-> w + k]
    OBVIOUS
  <1>11. b \in Seq(Nat) /\ Len(b) = len
    BY <1>5, <1>10, DataBytes
  <1>12. written' = w + len /\ w + len \in Nat
    BY <1>3, <1>4, <1>5
  <1>13. CASE Fits(len)
    <2>1. out' = [o EXCEPT !.mem = Store(o.mem, o.pos, b), !.pos = @ + len]
          /\ UNCHANGED <<pc, todo, slot>>
      BY <1>3, <1>4, <1>6, <1>8, <1>10, <1>13 DEF Marked
    <2>2. Buffers(o, out', b)
      BY <2>1, <1>11 DEF Buffers
    <2>3. o.pos + Len(b) < RespBufSize
      <3>1. PICK m \in Nat : m = out.pos
        BY <1>1 DEF RespOK, Responses
      <3>2. len < RespBufSize - m
        BY <3>1, <1>13 DEF Fits
      <3> QED
        BY <3>1, <3>2, <1>5, <1>9, <1>11, Sizes
    <2>4. AtHandle(out')
      BY <2>2, <2>3, <1>9, <1>11, BytesBuffered
    <2>5. RespOK'
      <3>1. todo' \in 0..written'
        BY <2>1, <1>1, <1>12
      <3> QED
        BY <3>1, <2>1, <2>4, <1>1, <1>2, <1>12 DEF RespOK, AtHandle, Good
    <2> QED
      BY <2>1, <2>4, <2>5, <1>1, <1>2 DEF QueueInv
  <1>14. CASE ~Fits(len)
    <2>1. out' = o /\ pc' = "write" /\ todo' = len /\ slot' = 0
      BY <1>3, <1>6, <1>8, <1>14 DEF Marked
    <2>2. HeadersBelow(o, 0)
      <3>1. HeaderOnly(o)
        BY <1>9 DEF AtHandle
      <3> QED
        BY <3>1 DEF HeaderOnly, HeadersBelow
    <2>3. AtWrite(o, 0, len)
      <3>1. 0 <= PktHeaders - 2 /\ ~(0 > 0)
        BY Sizes
      <3> QED
        BY <3>1, <2>2, <1>5, <1>9 DEF AtWrite, AtHandle
    <2>4. RespOK'
      <3>1. todo' \in 0..written' /\ slot' \in 0..(PktHeaders - 1)
        BY <2>1, <1>4, <1>5, <1>12, Sizes
      <3> QED
        BY <3>1, <2>1, <1>1, <1>2, <1>9, <1>12 DEF RespOK, AtHandle, Good
    <2> QED
      BY <2>1, <2>3, <2>4, <1>1, <1>2 DEF QueueInv
  <1> QED
    BY <1>13, <1>14

----------------------------------------------------------------------------
(* The types hold, and the total is the length *)

\* A response that is given up, or ended on a connection that is gone.
LEMMA ResetResp ==
  ASSUME TypeInv, LSAPI_Reset_r, todo = 0, pc' \in {"entry", "wait", "exit"},
         wire' = wire, UNCHANGED <<written, todo, slot>>, left' \in Nat
  PROVE  RespOK' /\ QueueInv'
  <1>1. RespOK
    BY TypeParts DEF TypeInv
  <1>2. out' = NoResponse
    BY DEF LSAPI_Reset_r
  <1>3. NoResponse \in Responses /\ WithinBounds(NoResponse)
    BY FreshResponse DEF Good
  <1>4. RespOK'
    BY <1>1, <1>2, <1>3 DEF RespOK
  <1>5. QueueInv'
    BY DEF QueueInv
  <1> QED
    BY <1>4, <1>5

\* A step that leaves the response alone.
LEMMA SameResp ==
  ASSUME TypeInv, UNCHANGED <<out, written, todo, slot, ret, left>>,
         wire' \in Seq(Cells),
         \/ pc' = pc /\ fd' = fd
         \/ pc' \in {"wait", "head", "verify", "rest", "exit"} /\ todo = 0
  PROVE  RespOK' /\ QueueInv'
  <1>1. RespOK /\ QueueInv
    BY TypeParts DEF TypeInv
  <1>2. RespOK'
    BY <1>1 DEF RespOK
  <1>3. QueueInv'
    BY <1>1 DEF QueueInv
  <1> QED
    BY <1>2, <1>3

\* LSAPI_Finish_r, whether the connection is there or not.
LEMMA FinishAny ==
  ASSUME TypeInv, pc \in {"accepted", "handle"}, LSAPI_Finish_r
  PROVE  RespOK' /\ QueueInv'
  <1>1. todo = 0 /\ AtHandle(out)
    BY FreshResponse DEF TypeInv, QueueInv
  <1>2. CASE fd
    BY <1>1, <1>2, FinishStep
  <1>3. CASE ~fd
    <2>1. /\ LSAPI_Reset_r /\ pc' \in {"entry", "exit"}
          /\ UNCHANGED <<wire, written, todo, slot, left>>
      BY <1>3 DEF LSAPI_Finish_r, taskVars
    <2>2. left' \in Nat
      BY <2>1, TypeParts DEF TypeInv, RespOK
    <2> QED
      BY <1>1, <2>1, <2>2, ResetResp
  <1> QED
    BY <1>2, <1>3 DEF TypeInv, TypeOK

\* The writing side.
LEMMA RespStep ==
  ASSUME TypeInv, [Next]_vars
  PROVE  RespOK' /\ QueueInv'
  <1>1. RespOK /\ EarlyInv /\ QueueInv
    BY TypeParts DEF TypeInv
  <1>2. wire \in Seq(Cells) /\ <<>> \in Seq(Cells) /\ left \in Nat
    BY <1>1 DEF RespOK
  <1>3. PktHdr \in Nat
    BY Sizes
  <1>4. CASE ServerRequest \/ AcceptConnection
    BY <1>1, <1>2, <1>4, SameResp DEF ServerRequest, AcceptConnection, taskVars,
       writeVars, QueueInv
  <1>5. CASE ServerSend \/ ServerClose \/ Signal \/ UNCHANGED vars
    BY <1>2, <1>5, SameResp DEF ServerSend, ServerClose, Signal, vars, taskVars,
       writeVars
  <1>6. CASE EntryLeave \/ WaitLeave \/ Readable
    BY <1>1, <1>2, <1>6, SameResp DEF EntryLeave, WaitLeave, Leave, Readable, taskVars,
       writeVars, QueueInv
  <1>7. CASE ShutdownBreak
    BY <1>1, <1>2, <1>7, SameResp DEF ShutdownBreak, Leave, taskVars, writeVars, QueueInv
  <1>8. CASE Entry
    <2>1. wire' \in Seq(Cells)
      <3>1. PacketHeader("close", PktHdr, PktHdr) \in Seq(Cells)
        BY <1>3, HeaderCells
      <3>2. wire' = wire \/ wire' = wire \o PacketHeader("close", PktHdr, PktHdr)
        BY <1>8 DEF Entry
      <3>3. wire \o PacketHeader("close", PktHdr, PktHdr) \in Seq(Cells)
        BY <3>1, <1>2, CatType DEF Cat
      <3> QED
        BY <3>2, <3>3, <1>2
    <2> QED
      BY <2>1, <1>1, <1>8, SameResp DEF Entry, taskVars, writeVars, QueueInv
  <1>9. ASSUME Refuse, pc \in {"head", "verify", "rest"}, wire' = wire,
               UNCHANGED <<written, todo, slot, left>>
        PROVE  RespOK' /\ QueueInv'
    <2>1. todo = 0 /\ left' \in Nat /\ LSAPI_Reset_r /\ pc' = "wait"
      BY <1>1, <1>2, <1>9 DEF QueueInv, Refuse
    <2> QED
      BY <2>1, <1>9, ResetResp
  <1>10. CASE ReadHead
    <2>1. /\ pc = "head" /\ wire' = wire
          /\ UNCHANGED <<written, todo, slot, ret, left>>
          /\ Refuse \/ (pc' \in {"head", "verify"} /\ UNCHANGED out)
      BY <1>10 DEF ReadHead, taskVars, writeVars
    <2>2. todo = 0
      BY <2>1, <1>1 DEF QueueInv
    <2> QED
      BY <2>1, <2>2, <1>2, <1>9, SameResp
  <1>11. CASE Verify
    <2>1. /\ pc = "verify" /\ wire' = wire
          /\ UNCHANGED <<written, todo, slot, ret, left>>
          /\ Refuse \/ (pc' = "rest" /\ UNCHANGED out)
      BY <1>11 DEF Verify, taskVars, writeVars
    <2>2. todo = 0
      BY <2>1, <1>1 DEF QueueInv
    <2> QED
      BY <2>1, <2>2, <1>2, <1>9, SameResp
  <1>12. CASE ReadRest
    <2>1. /\ pc = "rest" /\ wire' = wire
          /\ UNCHANGED <<written, todo, slot, ret, left>>
          /\ Refuse \/ (pc' = "rest" /\ UNCHANGED out)
      BY <1>12 DEF ReadRest, taskVars, writeVars
    <2>2. todo = 0
      BY <2>1, <1>1 DEF QueueInv
    <2> QED
      BY <2>1, <2>2, <1>2, <1>9, SameResp
  <1>13. CASE Parse
    <2>1. /\ pc = "rest" /\ UNCHANGED <<todo, slot, ret, left>>
          /\ \/ /\ out' = [out EXCEPT !.RESP_HEADER = TRUE] /\ pc' = "accepted"
                /\ written' = 0
                /\ wire' = wire \/ wire' = wire \o PacketHeader("ack", PktHdr, PktHdr)
             \/ Refuse /\ wire' = wire /\ written' = written
      BY <1>13 DEF Parse, taskVars, writeVars
    <2>2. CASE Refuse /\ wire' = wire /\ written' = written
      BY <2>1, <2>2, <1>9
    <2>3. CASE pc' = "accepted" /\ out' = [out EXCEPT !.RESP_HEADER = TRUE] /\ written' = 0
               /\ (wire' = wire \/ wire' = wire \o PacketHeader("ack", PktHdr, PktHdr))
      <3>1. out = NoResponse /\ todo = 0
        BY <2>1, <1>1 DEF EarlyInv, Early, QueueInv
      <3>2. /\ [NoResponse EXCEPT !.RESP_HEADER = TRUE] \in Responses
            /\ WithinBounds([NoResponse EXCEPT !.RESP_HEADER = TRUE])
        BY FreshResponse DEF AtHandle, Good
      <3>3. PacketHeader("ack", PktHdr, PktHdr) \in Seq(Cells)
        BY <1>3, HeaderCells
      <3>c. wire \o PacketHeader("ack", PktHdr, PktHdr) \in Seq(Cells)
        BY <3>3, <1>2, CatType DEF Cat
      <3>4. wire' \in Seq(Cells)
        BY <2>3, <3>c, <1>2
      <3>5. out' = [NoResponse EXCEPT !.RESP_HEADER = TRUE]
        BY <2>3, <3>1
      <3>6. out' \in Responses /\ WithinBounds(out)'
        BY <3>2, <3>5
      <3>7. RespOK'
        BY <2>1, <2>3, <3>1, <3>4, <3>6, <1>1 DEF RespOK
      <3>8. QueueInv'
        BY <2>1, <2>3, <3>1, <3>5 DEF QueueInv
      <3> QED
        BY <3>7, <3>8
    <2> QED
      BY <2>1, <2>2, <2>3
  <1>14. CASE Loaded
    <2>1. /\ pc = "accepted" /\ pc' = "handle"
          /\ UNCHANGED <<wire, fd, out, written, todo, slot, ret, left>>
      BY <1>14 DEF Loaded, taskVars, writeVars
    <2>2. AtHandle(out) /\ todo = 0
      BY <2>1, <1>1, FreshResponse DEF QueueInv
    <2>3. RespOK'
      BY <2>1, <1>1 DEF RespOK
    <2>4. AtHandle(out)'
      BY <2>1, <2>2
    <2>5. QueueInv'
      BY <2>1, <2>2, <2>4 DEF QueueInv
    <2> QED
      BY <2>3, <2>5
  <1>15. CASE LoadFails \/ Return
    BY <1>15, FinishAny DEF LoadFails, Return
  <1>16. CASE LSAPI_ReadReqBody_r
    <2>1. CASE Return
      BY <2>1, <1>15
    <2>2. CASE ~Return
      <3>1. UNCHANGED <<out, pc, fd, wire, written, todo, slot, ret, left>>
        BY <2>2, <1>16 DEF LSAPI_ReadReqBody_r, writeVars
      <3> QED
        BY <3>1, <1>2, SameResp
    <2> QED
      BY <2>1, <2>2
  <1>17. CASE sendHeaders \/ LSAPI_Write_r \/ WritePacket \/ WriteEnd
    BY <1>17, HeadersStep, WriteStep, WritePacketStep, WriteEndStep
  <1>18. CASE finishBody
    BY <1>18, BodyFlushStep DEF finishBody
  <1>19. CASE WritevDone \/ WritevSome \/ WritevFails
    BY <1>19, WritevSomeStep, WritevEndStep
  <1> QED
    BY <1>4, <1>5, <1>6, <1>7, <1>8, <1>10, <1>11, <1>12, <1>13, <1>14, <1>15,
       <1>16, <1>17, <1>18, <1>19 DEF Next, Server, Process

\* Where the process is.
LEMMA PlaceStep ==
  ASSUME TypeInv, [Next]_vars
  PROVE  PlaceOK'
  <1>1. PlaceOK
    BY TypeParts DEF TypeInv
  <1> USE DEF PlaceOK
  <1>2. CASE Server \/ Entry \/ EntryLeave \/ AcceptConnection \/ Readable \/ WaitLeave
    BY <1>1, <1>2 DEF Server, ServerRequest, ServerSend, ServerClose, Entry, EntryLeave,
       AcceptConnection, Readable, WaitLeave, Leave, taskVars, loopVars, writeVars
  <1>3. CASE ReadHead \/ Verify \/ ReadRest \/ Parse
    <2>1. CASE ReadHead
      <3>1. /\ pc' \in {"wait", "head", "verify"}
            /\ excuse' = excuse \/ excuse' = excuse \cup {"short_head"}
            /\ UNCHANGED <<ret, stage, sink_error, loopVars>>
        BY <2>1 DEF ReadHead, Refuse, taskVars, writeVars
      <3> QED
        BY <3>1, <1>1 DEF loopVars
    <2>2. CASE Verify \/ ReadRest
      <3>1. /\ pc' \in {"wait", "rest"}
            /\ UNCHANGED <<ret, stage, sink_error, loopVars, excuse>>
        BY <2>2 DEF Verify, ReadRest, Refuse, taskVars, writeVars
      <3> QED
        BY <3>1, <1>1 DEF loopVars
    <2>3. CASE Parse
      <3>1. /\ pc' \in {"wait", "accepted"}
            /\ stage' \in {"idle", stage} /\ sink_error' \in {FALSE, sink_error}
            /\ notified' \in {FALSE, notified}
            /\ UNCHANGED <<ret, module_loaded, leaving, shutdown, excuse>>
        BY <2>3 DEF Parse, Refuse, taskVars, writeVars
      <3> QED
        BY <3>1, <1>1
    <2> QED
      BY <1>3, <2>1, <2>2, <2>3
  <1>4. CASE ShutdownBreak \/ Loaded \/ Signal \/ UNCHANGED vars
    BY <1>1, <1>4, ZenonT(30) DEF ShutdownBreak, Leave, Loaded, Signal, vars,
        taskVars, loopVars, writeVars
  <1>5. ASSUME LSAPI_Finish_r, leaving' \in BOOLEAN PROVE PlaceOK'
    <2>1. pc' \in {"flush", "exit", "entry"} /\ (ret' = "finish" \/ ret' = ret)
      BY <1>5 DEF LSAPI_Finish_r, Flush
    <2>2. excuse' = excuse \/ excuse' = excuse \cup {"body_left"}
      BY <1>5 DEF LSAPI_Finish_r
    <2>3. UNCHANGED <<stage, sink_error, notified, module_loaded, shutdown>>
      BY <1>5 DEF LSAPI_Finish_r, taskVars
    <2> QED
      BY <2>1, <2>2, <2>3, <1>1, <1>5
  <1>6. CASE LoadFails \/ Return
    BY <1>1, <1>5, <1>6 DEF LoadFails, Return
  <1>7. CASE LSAPI_ReadReqBody_r
    <2>1. CASE Return
      BY <2>1, <1>6
    <2>2. CASE ~Return
      BY <2>2, <1>1, <1>7 DEF LSAPI_ReadReqBody_r, writeVars, loopVars
    <2> QED
      BY <2>1, <2>2
  <1>8. CASE sendHeaders
    BY <1>1, <1>8 DEF sendHeaders, writeVars, loopVars
  <1>9. CASE LSAPI_Write_r
    BY <1>1, <1>9 DEF LSAPI_Write_r, loopVars
  <1>10. CASE WritePacket \/ WriteEnd \/ finishBody
    BY <1>1, <1>10, ZenonT(30) DEF WritePacket, WriteEnd, finishBody, Flush, taskVars, loopVars
  <1>11. CASE WritevSome
    BY <1>1, <1>11 DEF WritevSome, taskVars, loopVars
  <1>12. CASE WritevDone \/ WritevFails
    <2>1. FlushReturns(TRUE) \/ FlushReturns(FALSE)
      BY <1>12 DEF WritevDone, WritevFails
    <2>2. /\ sink_error' \in BOOLEAN /\ stage' \in {"idle", "headers", "finished"}
          /\ pc' \in {"exit", "entry", "write", "handle"}
          /\ UNCHANGED <<ret, loopVars, excuse>>
      BY <2>1, <1>1 DEF FlushReturns
    <2> QED
      BY <2>2, <1>1 DEF loopVars
  <1> QED
    BY <1>2, <1>3, <1>4, <1>6, <1>7, <1>8, <1>9, <1>10, <1>11, <1>12
       DEF Next, Process

\* A process that begins.
LEMMA TypeInit ==
  ASSUME Init
  PROVE  TypeInv
  <1>1. NetOK
    <2>1. ReqLen \in Nat /\ <<>> \in Seq(Pairs)
      BY Sizes
    <2>2. /\ sreq = [num |-> 0, body |-> 0, sent |-> ReqLen, bad |-> FALSE, wait |-> FALSE]
          /\ fd \in BOOLEAN /\ peer_closed = FALSE /\ stream = <<>>
      BY DEF Init
    <2>3. sreq \in Requests /\ sreq.sent = ReqLen /\ sreq.body = 0
      BY <2>1, <2>2 DEF Requests
    <2>4. sreq.sent <= ReqBytes
      BY <2>1, <2>3 DEF ReqBytes
    <2> QED
      BY <2>1, <2>2, <2>3, <2>4 DEF NetOK
  <1>2. ReadOK
    <2>1. <<0, 0>> \in Pairs /\ <<>> \in Seq(Pairs)
      BY DEF Pairs
    <2> QED
      BY <2>1, Sizes DEF Init, ReadOK
  <1>3. RespOK
    <2>1. NoResponse \in Responses /\ WithinBounds(NoResponse) /\ <<>> \in Seq(Cells)
      BY FreshResponse DEF Good
    <2> QED
      BY <2>1, Sizes DEF Init, RespOK
  <1>4. PlaceOK
    BY DEF Init, PlaceOK
  <1>5. EarlyInv
    BY Sizes DEF Init, EarlyInv, Early, Late
  <1>6. QueueInv
    BY DEF Init, QueueInv
  <1> QED
    BY <1>1, <1>2, <1>3, <1>4, <1>5, <1>6, TypeParts DEF TypeInv

\* Every step preserves the invariant.
LEMMA TypeStep ==
  ASSUME TypeInv, [Next]_vars
  PROVE  TypeInv'
  <1>1. NetOK' /\ ReadOK' /\ EarlyInv' /\ RespOK' /\ QueueInv' /\ PlaceOK'
    BY NetStep, ReadStep, RespStep, PlaceStep DEF TypeInv
  <1>2. TypeOK'
    BY <1>1 DEF TypeOK, NetOK, ReadOK, RespOK, PlaceOK
  <1> QED
    BY <1>1, <1>2 DEF TypeInv

\* The invariant holds in every state.
THEOREM TypesInvariant == SafeSpec => []TypeInv
  <1>1. Init => TypeInv
    BY TypeInit
  <1>2. TypeInv /\ [Next]_vars => TypeInv'
    BY TypeStep
  <1> QED
    BY <1>1, <1>2, PTL DEF SafeSpec

\* Every variable keeps its type, and the response side stays within the iovec,
\* the packet headers and the response buffer of the code.
THEOREM TypesCorrect == SafeSpec => []TypeOK
  <1>1. TypeInv => TypeOK
    BY DEF TypeInv
  <1> QED
    BY <1>1, TypesInvariant, PTL

\* m_totalLen is the length of what is queued, and what lsapi_writev() has left
\* is the length of what is not yet written.
THEOREM TotalCorrect == SafeSpec => []TotalIsLength
  <1>1. TypeInv => TotalIsLength
    BY DEF TypeInv, QueueInv, TotalIsLength, AtHandle, AtWrite, AtFlush, Good, Counted
  <1> QED
    BY <1>1, TypesInvariant, PTL

----------------------------------------------------------------------------
(* What is on the wire and what is queued *)

\* The response byte at each position, or nothing.
Picked(s) == [i \in 1..Len(s) |-> IF s[i][1] = "byte" THEN <<s[i]>> ELSE <<>>]

\* The response bytes of a sequence are a sequence of cells.
LEMMA PickedIs ==
  ASSUME NEW s \in Seq(Cells)
  PROVE  /\ \A i \in 1..Len(s) : Picked(s)[i] \in Seq(Cells)
         /\ Len(s) \in Nat /\ Bytes(s) = Joined(Picked(s), Len(s))[Len(s)]
         /\ Bytes(s) \in Seq(Cells)
  <1>1. ASSUME NEW i \in 1..Len(s) PROVE Picked(s)[i] \in Seq(Cells)
    <2>1. s[i] \in Cells
      OBVIOUS
    <2>2. <<s[i]>> \in Seq(Cells) /\ <<>> \in Seq(Cells)
      BY <2>1
    <2> QED
      BY <2>2 DEF Picked
  <1>2. Len(s) \in Nat /\ Len(s) \in 0..Len(s)
    OBVIOUS
  <1>3. Bytes(s) = Joined(Picked(s), Len(s))[Len(s)]
    BY DEF Bytes, Picked
  <1>4. \A j \in 0..Len(s) : Joined(Picked(s), Len(s))[j] \in Seq(Cells)
    BY <1>1, <1>2, JoinedType
  <1> QED
    BY <1>1, <1>2, <1>3, <1>4

\* The response bytes of a sequence that is longer by a packet.
Longer(s, hd, tl, r) == r = Cat(s, Cat(hd, tl))

\* The elements of the longer sequence.
LEMMA LongerIs ==
  ASSUME NEW s \in Seq(Cells), NEW hd \in Seq(Cells), NEW tl \in Seq(Cells),
         NEW r, Longer(s, hd, tl, r)
  PROVE  /\ r \in Seq(Cells) /\ Len(r) = Len(s) + (Len(hd) + Len(tl))
         /\ \A i \in 1..Len(s) : r[i] = s[i]
         /\ \A i \in 1..Len(hd) : r[Len(s) + i] = hd[i]
         /\ \A i \in 1..Len(tl) : r[Len(s) + (Len(hd) + i)] = tl[i]
  <1>1. PICK u : u = Cat(hd, tl)
    OBVIOUS
  <1>2. /\ u \in Seq(Cells) /\ Len(u) = Len(hd) + Len(tl)
        /\ \A i \in 1..Len(hd) : u[i] = hd[i]
        /\ \A i \in 1..Len(tl) : u[Len(hd) + i] = tl[i]
    BY <1>1, CatType
  <1>3. r = Cat(s, u)
    BY <1>1 DEF Longer
  <1>4. /\ r \in Seq(Cells) /\ Len(r) = Len(s) + Len(u)
        /\ \A i \in 1..Len(s) : r[i] = s[i]
        /\ \A i \in 1..Len(u) : r[Len(s) + i] = u[i]
    BY <1>2, <1>3, CatType
  <1>5. PICK b \in Nat, c \in Nat : b = Len(hd) /\ c = Len(tl)
    OBVIOUS
  <1>6. \A i \in 1..b : i \in 1..(b + c)
    OBVIOUS
  <1>7. \A i \in 1..c : b + i \in 1..(b + c)
    OBVIOUS
  <1> QED
    BY <1>2, <1>4, <1>5, <1>6, <1>7

\* A packet adds the bytes of its data to the response bytes, and no others.
LEMMA BytesAdded ==
  ASSUME NEW s \in Seq(Cells), NEW hd \in Seq(Cells), NEW tl \in Seq(Cells),
         \A i \in 1..Len(hd) : hd[i][1] # "byte",
         \A i \in 1..Len(tl) : tl[i][1] = "byte",
         NEW r, Longer(s, hd, tl, r)
  PROVE  Bytes(r) = Cat(Bytes(s), tl)
  <1>1. PICK a \in Nat, b \in Nat, c \in Nat : a = Len(s) /\ b = Len(hd) /\ c = Len(tl)
    OBVIOUS
  <1>2. /\ r \in Seq(Cells) /\ Len(r) = a + (b + c)
        /\ \A i \in 1..a : r[i] = s[i]
        /\ \A i \in 1..b : r[a + i] = hd[i]
        /\ \A i \in 1..c : r[a + (b + i)] = tl[i]
    <2>1. /\ r \in Seq(Cells) /\ Len(r) = Len(s) + (Len(hd) + Len(tl))
          /\ \A i \in 1..Len(s) : r[i] = s[i]
          /\ \A i \in 1..Len(hd) : r[Len(s) + i] = hd[i]
          /\ \A i \in 1..Len(tl) : r[Len(s) + (Len(hd) + i)] = tl[i]
      BY LongerIs
    <2> QED
      BY <2>1, <1>1
  <1>3. PICK N \in Nat : N = a + (b + c)
    OBVIOUS
  <1>4. PICK J : J = Joined(Picked(r), N)
    OBVIOUS
  <1>5. /\ J[0] = <<>>
        /\ \A j \in 1..N : J[j] = Cat(J[j - 1], Picked(r)[j])
    BY <1>4, JoinedIs, Zenon DEF Cat
  <1>6. Bytes(r) = J[N] /\ \A i \in 1..N : Picked(r)[i] \in Seq(Cells)
    BY <1>2, <1>3, <1>4, PickedIs
  <1>7. J[a] = Bytes(s) /\ Bytes(s) \in Seq(Cells)
    <2>1. \A j \in 1..a : Picked(r)[j] = Picked(s)[j]
      <3> TAKE j \in 1..a
      <3>1. j \in 1..Len(r) /\ j \in 1..Len(s) /\ r[j] = s[j]
        BY <1>1, <1>2
      <3> QED
        BY <3>1 DEF Picked
    <2>2. a \in Nat /\ N \in Nat /\ a \in 0..N /\ a <= a
      BY <1>3
    <2>3. Joined(Picked(r), N)[a] = Joined(Picked(s), a)[a]
      <3>1. PICK x, y : x = Picked(r) /\ y = Picked(s)
        OBVIOUS
      <3>2. Agree(x, y, a)
        BY <2>1, <3>1 DEF Agree
      <3>3. Joined(x, N)[a] = Joined(y, a)[a]
        BY <3>2, <2>2, JoinedAgree
      <3> QED
        BY <3>1, <3>3
    <2> QED
      BY <2>3, <1>1, <1>4, PickedIs
  <1>8. PICK B \in Seq(Cells) : B = Bytes(s)
    BY <1>7
  <1>9. J[a + b] = B
    <2> DEFINE T == {j \in 0..b : J[a + j] = B}
    <2>1. 0 \in T
      BY <1>7, <1>8
    <2>2. ASSUME NEW k \in 0..b, k < b, k \in T PROVE k + 1 \in T
      <3>1. /\ a + (k + 1) \in 1..N /\ (a + (k + 1)) - 1 = a + k /\ k + 1 \in 1..b
            /\ k + 1 \in 0..b /\ a + (k + 1) \in 1..(a + (b + c))
        BY <1>3, <2>2
      <3>2. J[a + (k + 1)] = Cat(J[a + k], Picked(r)[a + (k + 1)])
        BY <3>1, <1>5
      <3>3. r[a + (k + 1)] = hd[k + 1] /\ hd[k + 1][1] # "byte"
        BY <3>1, <1>1, <1>2
      <3>4. Picked(r)[a + (k + 1)] = <<>>
        BY <3>1, <3>3, <1>2 DEF Picked
      <3>5. J[a + k] = B
        BY <2>2
      <3>6. J[a + (k + 1)] = B
        BY <3>2, <3>4, <3>5, CatEmpty
      <3> QED
        BY <3>1, <3>6
    <2> HIDE DEF T
    <2>3. b \in T
      <3>1. \A k \in 0..b : k \in T
        BY <2>1, <2>2, UpTo
      <3> QED
        BY <3>1
    <2> QED
      BY <2>3 DEF T
  <1>10. J[a + (b + c)] = Cat(B, tl)
    <2> DEFINE T == {j \in 0..c : J[a + (b + j)] = Cat(B, SubSeq(tl, 1, j))}
    <2>1. 0 \in T
      <3>1. SubSeq(tl, 1, 0) = <<>>
        OBVIOUS
      <3>2. Cat(B, SubSeq(tl, 1, 0)) = B
        BY <3>1, CatEmpty
      <3> QED
        BY <1>9, <3>2
    <2>2. ASSUME NEW k \in 0..c, k < c, k \in T PROVE k + 1 \in T
      <3>1. /\ a + (b + (k + 1)) \in 1..N /\ (a + (b + (k + 1))) - 1 = a + (b + k)
            /\ k + 1 \in 1..c /\ k + 1 \in 0..c
            /\ a + (b + (k + 1)) \in 1..(a + (b + c))
        BY <1>3, <2>2
      <3>2. J[a + (b + (k + 1))] = Cat(J[a + (b + k)], Picked(r)[a + (b + (k + 1))])
        BY <3>1, <1>5
      <3>3. r[a + (b + (k + 1))] = tl[k + 1] /\ tl[k + 1][1] = "byte"
        BY <3>1, <1>1, <1>2
      <3>4. Picked(r)[a + (b + (k + 1))] = <<tl[k + 1]>>
        BY <3>1, <3>3, <1>2 DEF Picked
      <3>5. PICK u, v : u = SubSeq(tl, 1, k) /\ v = SubSeq(tl, 1, k + 1)
        OBVIOUS
      <3>6. /\ u \in Seq(Cells) /\ Len(u) = k /\ \A i \in 1..k : u[i] = tl[i]
            /\ v \in Seq(Cells) /\ Len(v) = k + 1 /\ \A i \in 1..(k + 1) : v[i] = tl[i]
        <4>1. k \in 0..Len(tl) /\ k + 1 \in 0..Len(tl)
          BY <3>1, <1>1
        <4> QED
          BY <4>1, <3>5, CutSeq
      <3>7. PICK x \in Cells : x = tl[k + 1]
        BY <3>1, <1>1
      <3>8. PICK y \in Seq(Cells) : y = <<x>> /\ Len(y) = 1 /\ y[1] = x
        <4>1. <<x>> \in Seq(Cells) /\ Len(<<x>>) = 1 /\ <<x>>[1] = x
          OBVIOUS
        <4> QED
          BY <4>1, Zenon
      <3>9. Cat(u, y) = v
        <4>1. /\ Cat(u, y) \in Seq(Cells) /\ Len(Cat(u, y)) = Len(u) + Len(y)
              /\ \A i \in 1..Len(u) : Cat(u, y)[i] = u[i]
              /\ \A i \in 1..Len(y) : Cat(u, y)[Len(u) + i] = y[i]
          BY <3>6, <3>8, CatType
        <4>2. PICK z \in Seq(Cells) : z = Cat(u, y)
          BY <4>1
        <4>3. Len(z) = k + 1 /\ \A i \in 1..k : z[i] = tl[i]
          BY <4>1, <4>2, <3>6, <3>8
        <4>4. z[k + 1] = tl[k + 1]
          <5>1. 1 \in 1..Len(y) /\ Len(u) + 1 = k + 1
            BY <3>6, <3>8
          <5>2. Cat(u, y)[Len(u) + 1] = y[1]
            BY <4>1, <5>1
          <5> QED
            BY <5>1, <5>2, <4>2, <3>7, <3>8
        <4>5. \A i \in 1..(k + 1) : i \in 1..k \/ i = k + 1
          OBVIOUS
        <4>6. \A i \in 1..(k + 1) : z[i] = v[i]
          BY <4>3, <4>4, <4>5, <3>6
        <4> QED
          BY <4>2, <4>3, <4>6, <3>6, SameSeq
      <3>10. Cat(Cat(B, u), y) = Cat(B, v)
        BY <3>6, <3>8, <3>9, CatAssoc, ZenonT(30)
      <3>11. J[a + (b + k)] = Cat(B, u)
        BY <2>2, <3>5
      <3>12. J[a + (b + (k + 1))] = Cat(B, v)
        BY <3>2, <3>4, <3>7, <3>8, <3>10, <3>11
      <3> QED
        BY <3>1, <3>5, <3>12
    <2> HIDE DEF T
    <2>3. c \in T
      <3>1. \A k \in 0..c : k \in T
        BY <2>1, <2>2, UpTo
      <3> QED
        BY <3>1
    <2>4. SubSeq(tl, 1, c) = tl
      BY <1>1
    <2> QED
      BY <2>3, <2>4 DEF T
  <1> QED
    BY <1>3, <1>6, <1>8, <1>10

----------------------------------------------------------------------------
(* The packets of a longer sequence *)

\* No end of a response.
EndFree(s) == \A i \in Heads(s) : s[i][1] # "end"

\* Nothing but the notification.
Ack(s) == s = <<>> \/ s = PacketHeader("ack", PktHdr, PktHdr)

\* The packets of a sequence that is longer by a packet.
LEMMA HeadsAdded ==
  ASSUME NEW s \in Seq(Cells), NEW kind, NEW hd, NEW tl, Packet(kind, hd, tl),
         NEW r, Longer(s, hd, tl, r)
  PROVE  /\ Heads(r) = Heads(s) \cup {Len(s) + 1}
         /\ \A i \in Heads(s) : r[i] = s[i]
         /\ r[Len(s) + 1] = <<kind, Len(hd) + Len(tl)>>
         /\ r \in Seq(Cells) /\ Len(r) = Len(s) + (Len(hd) + Len(tl))
  <1>1. hd \in Seq(Cells) /\ tl \in Seq(Cells)
    BY DEF Packet
  <1>2. PICK a \in Nat, b \in Nat, c \in Nat : a = Len(s) /\ b = Len(hd) /\ c = Len(tl)
    BY <1>1
  <1>3. /\ r \in Seq(Cells) /\ Len(r) = a + (b + c)
        /\ \A i \in 1..a : r[i] = s[i]
        /\ \A i \in 1..b : r[a + i] = hd[i]
        /\ \A i \in 1..c : r[a + (b + i)] = tl[i]
    <2>1. /\ r \in Seq(Cells) /\ Len(r) = Len(s) + (Len(hd) + Len(tl))
          /\ \A i \in 1..Len(s) : r[i] = s[i]
          /\ \A i \in 1..Len(hd) : r[Len(s) + i] = hd[i]
          /\ \A i \in 1..Len(tl) : r[Len(s) + (Len(hd) + i)] = tl[i]
      BY <1>1, LongerIs
    <2> QED
      BY <2>1, <1>2
  <1>4. /\ b > 0 /\ kind # "byte" /\ hd[1] = <<kind, b + c>>
        /\ \A i \in 1..b : i > 1 => hd[i][2] = 0
        /\ \A i \in 1..c : tl[i][1] = "byte"
    BY <1>2 DEF Packet
  <1>5. r[a + 1] = <<kind, b + c>>
    <2>1. 1 \in 1..b
      BY <1>4
    <2> QED
      BY <2>1, <1>3, <1>4
  <1>6. ASSUME NEW i \in 1..a PROVE i \in Heads(r) <=> i \in Heads(s)
    <2>1. r[i] = s[i] /\ i \in 1..Len(r) /\ i \in 1..Len(s)
      BY <1>2, <1>3
    <2> QED
      BY <2>1 DEF Heads
  <1>7. a + 1 \in Heads(r)
    <2>1. a + 1 \in 1..Len(r) /\ b + c > 0
      BY <1>3, <1>4
    <2>2. r[a + 1][1] = kind /\ r[a + 1][2] = b + c
      BY <1>5
    <2> QED
      BY <2>1, <2>2, <1>4 DEF Heads
  <1>8. ASSUME NEW i \in 2..b PROVE a + i \notin Heads(r)
    <2>1. r[a + i] = hd[i] /\ hd[i][2] = 0
      BY <1>3, <1>4
    <2> QED
      BY <2>1 DEF Heads
  <1>9. ASSUME NEW i \in 1..c PROVE a + (b + i) \notin Heads(r)
    <2>1. r[a + (b + i)] = tl[i] /\ tl[i][1] = "byte"
      BY <1>3, <1>4
    <2> QED
      BY <2>1 DEF Heads
  <1>10. ASSUME NEW j \in Heads(r) PROVE j \in Heads(s) \cup {a + 1}
    <2>1. j \in 1..(a + (b + c))
      BY <1>3 DEF Heads
    <2>2. \/ j \in 1..a \/ j = a + 1 \/ \E i \in 2..b : j = a + i
          \/ \E i \in 1..c : j = a + (b + i)
      <3>1. CASE j <= a
        BY <2>1, <3>1
      <3>2. CASE j > a /\ j <= a + b
        <4>1. j - a \in 1..b /\ j = a + (j - a)
          BY <2>1, <3>2
        <4>2. j - a = 1 \/ j - a \in 2..b
          BY <4>1
        <4> QED
          BY <4>1, <4>2, <2>1
      <3>3. CASE j > a + b
        <4>1. j - (a + b) \in 1..c /\ j = a + (b + (j - (a + b)))
          BY <2>1, <3>3
        <4> QED
          BY <4>1
      <3> QED
        BY <2>1, <3>1, <3>2, <3>3
    <2> QED
      BY <2>2, <1>6, <1>8, <1>9
  <1>11. \A i \in Heads(s) : i \in 1..a /\ r[i] = s[i]
    BY <1>2, <1>3 DEF Heads
  <1>12. Heads(r) = Heads(s) \cup {a + 1}
    BY <1>6, <1>7, <1>10, <1>11
  <1> QED
    BY <1>2, <1>3, <1>5, <1>11, <1>12

\* Packets are added one after the other.
LEMMA PacketAdded ==
  ASSUME NEW s \in Seq(Cells), Packets(s), EndFree(s),
         NEW kind \in {"header", "stream", "end"}, NEW hd, NEW tl, Packet(kind, hd, tl),
         kind = "header" => Ack(s),
         kind # "header" => First(s) \in Heads(s),
         kind = "stream" => Len(hd) + Len(tl) <= MaxPacket + PktHdr,
         kind = "end" => Len(hd) + Len(tl) = PktHdr,
         NEW r, Longer(s, hd, tl, r)
  PROVE  /\ Packets(r) /\ First(r) \in Heads(r)
         /\ kind # "end" => EndFree(r)
  <1>1. hd \in Seq(Cells) /\ tl \in Seq(Cells) /\ Len(hd) > 0
    BY DEF Packet
  <1>2. PICK a \in Nat, n \in Nat : a = Len(s) /\ n = Len(hd) + Len(tl)
    BY <1>1
  <1>3. /\ Heads(r) = Heads(s) \cup {a + 1}
        /\ \A i \in Heads(s) : r[i] = s[i]
        /\ r[a + 1] = <<kind, n>> /\ r \in Seq(Cells) /\ Len(r) = a + n
    BY <1>2, HeadsAdded
  <1>4. \A i \in Heads(s) : i \in 1..a
    BY <1>2 DEF Heads
  <1>n. n > 0
    BY <1>1, <1>2
  <1>5. /\ s # <<>> => First(r) = First(s)
        /\ kind = "header" => First(r) = a + 1
        /\ kind # "header" => First(r) \in Heads(s) /\ s # <<>>
        /\ r # <<>>
    <2>1. r # <<>>
      BY <1>3, <1>n
    <2>2. CASE s # <<>>
      <3>1. a > 0
        BY <2>2, <1>2
      <3>2. 1 \in Heads(s)
        BY <2>2 DEF Packets
      <3>3. r[1] = s[1]
        BY <3>2, <1>3
      <3>4. First(r) = First(s)
        BY <2>1, <2>2, <3>3 DEF First
      <3>5. kind = "header" => First(s) = a + 1
        <4> HAVE kind = "header"
        <4>1. s = PacketHeader("ack", PktHdr, PktHdr)
          BY <2>2 DEF Ack
        <4>2. Len(s) = PktHdr /\ 1 \in 1..PktHdr
          BY <4>1, Sizes, HeaderCells
        <4>3. s[1] = <<"ack", PktHdr>>
          BY <4>1, <4>2 DEF PacketHeader
        <4> QED
          BY <2>2, <4>2, <4>3, <1>2 DEF First
      <3> QED
        BY <2>1, <2>2, <3>4, <3>5
    <2>3. CASE s = <<>>
      <3>1. a = 0 /\ First(s) = 1 /\ 1 \notin Heads(s)
        BY <2>3, <1>2 DEF First, Heads
      <3>2. kind = "header"
        BY <3>1
      <3>3. r[1] = <<kind, n>>
        BY <3>1, <1>3
      <3>4. First(r) = 1
        BY <3>2, <3>3 DEF First
      <3> QED
        BY <2>1, <2>3, <3>1, <3>2, <3>4
    <2> QED
      BY <2>2, <2>3
  <1>6. First(r) \in Heads(r)
    BY <1>3, <1>5
  <1>7. ASSUME NEW i \in Heads(s)
        PROVE  /\ i + r[i][2] \in Heads(r)
               /\ \A j \in Heads(r) : j <= i \/ j >= i + r[i][2]
               /\ (i < First(r)) <=> (r[i][1] = "ack")
               /\ (i = First(r)) <=> (r[i][1] = "header")
               /\ r[i][1] # "end"
               /\ r[i][1] = "stream" => r[i][2] <= MaxPacket + PktHdr
    <2>1. r[i] = s[i] /\ i \in 1..a
      BY <1>3, <1>4
    <2>2. s # <<>>
      BY <2>1, <1>2
    <2>3. PICK x : x = i + s[i][2]
      OBVIOUS
    <2>4. x \in Heads(s) \cup {a + 1} /\ \A j \in Heads(s) : j <= i \/ j >= x
      BY <2>3, <1>2 DEF Packets
    <2>5. x \in 1..(a + 1)
      BY <2>4, <1>4
    <2>6. a + 1 >= x
      BY <2>5
    <2>7. /\ (i < First(s)) <=> (s[i][1] = "ack")
          /\ (i = First(s)) <=> (s[i][1] = "header")
          /\ s[i][1] = "stream" => s[i][2] <= MaxPacket + PktHdr
      BY DEF Packets
    <2>8. s[i][1] # "end"
      BY DEF EndFree
    <2> QED
      BY <2>1, <2>2, <2>3, <2>4, <2>6, <2>7, <2>8, <1>3, <1>5
  <1>8. /\ (a + 1) + r[a + 1][2] = Len(r) + 1
        /\ \A j \in Heads(r) : j <= a + 1
        /\ ~(a + 1 < First(r)) /\ r[a + 1][1] # "ack"
        /\ (a + 1 = First(r)) <=> (r[a + 1][1] = "header")
        /\ r[a + 1][1] = "end" => (a + 1) + PktHdr = Len(r) + 1
        /\ r[a + 1][1] = "stream" => r[a + 1][2] <= MaxPacket + PktHdr
    <2>1. r[a + 1][1] = kind /\ r[a + 1][2] = n
      BY <1>3
    <2>2. \A j \in Heads(r) : j <= a + 1
      BY <1>3, <1>4
    <2>3. kind # "header" => First(r) <= a /\ First(r) \in Nat
      BY <1>4, <1>5
    <2>4. ~(a + 1 < First(r)) /\ ((a + 1 = First(r)) <=> (kind = "header"))
      <3>1. CASE kind = "header"
        BY <3>1, <1>5
      <3>2. CASE kind # "header"
        BY <3>2, <2>3
      <3> QED
        BY <3>1, <3>2
    <2>5. (a + 1) + n = Len(r) + 1
      BY <1>3
    <2>6. kind = "end" => n = PktHdr
      BY <1>2
    <2>7. kind = "stream" => n <= MaxPacket + PktHdr
      BY <1>2
    <2> QED
      BY <2>1, <2>2, <2>4, <2>5, <2>6, <2>7
  <1>9. 1 \in Heads(r)
    <2>1. CASE s = <<>>
      BY <2>1, <1>2, <1>3
    <2>2. CASE s # <<>>
      BY <2>2, <1>3 DEF Packets
    <2> QED
      BY <2>1, <2>2
  <1>10. Packets(r)
    <2>1. ASSUME NEW i \in Heads(r)
          PROVE  /\ i + r[i][2] \in Heads(r) \cup {Len(r) + 1}
                 /\ \A j \in Heads(r) : j <= i \/ j >= i + r[i][2]
                 /\ (i < First(r)) <=> (r[i][1] = "ack")
                 /\ (i = First(r)) <=> (r[i][1] = "header")
                 /\ r[i][1] = "end" => i + PktHdr = Len(r) + 1
                 /\ r[i][1] = "stream" => r[i][2] <= MaxPacket + PktHdr
      <3>1. CASE i \in Heads(s)
        BY <3>1, <1>7
      <3>2. CASE i = a + 1
        BY <3>2, <1>8
      <3> QED
        BY <3>1, <3>2, <1>3
    <2> QED
      BY <2>1, <1>9 DEF Packets
  <1>11. kind # "end" => EndFree(r)
    BY <1>3 DEF EndFree
  <1> QED
    BY <1>6, <1>10, <1>11

\* Nothing, or the notification alone, is a sequence of packets.
LEMMA AckIs ==
  ASSUME NEW s, Ack(s)
  PROVE  s \in Seq(Cells) /\ Packets(s) /\ EndFree(s) /\ Bytes(s) = <<>>
  <1>1. CASE s = <<>>
    <2>1. s \in Seq(Cells) /\ Len(s) = 0 /\ Heads(s) = {}
      BY <1>1 DEF Heads
    <2>2. Bytes(s) = Joined(Picked(s), 0)[0]
      BY <2>1, PickedIs
    <2> QED
      BY <1>1, <2>1, <2>2, JoinedFew DEF Packets, EndFree
  <1>2. CASE s = PacketHeader("ack", PktHdr, PktHdr)
    <2>1. /\ s \in Seq(Cells) /\ Len(s) = PktHdr
          /\ \A k \in 1..PktHdr : s[k] = <<"ack", IF k = 1 THEN PktHdr ELSE 0>>
      <3>1. PICK n \in Nat : n = PktHdr
        BY Sizes
      <3>2. PICK u : u = PacketHeader("ack", n, n)
        OBVIOUS
      <3>3. /\ u \in Seq(Cells) /\ Len(u) = n
            /\ \A k \in 1..n : u[k] = <<"ack", IF k = 1 THEN n ELSE 0>>
        BY <3>2, HeaderCells
      <3> QED
        BY <3>1, <3>2, <3>3, <1>2
    <2>2. Heads(s) = {1}
      <3>1. 1 \in Heads(s)
        BY <2>1, Sizes DEF Heads
      <3>2. \A k \in Heads(s) : k = 1
        BY <2>1, Sizes DEF Heads
      <3> QED
        BY <3>1, <3>2
    <2>3. s[1] = <<"ack", PktHdr>>
      BY <2>1, Sizes
    <2>4. s # <<>> /\ First(s) = PktHdr + 1
      BY <2>1, <2>3, Sizes DEF First
    <2>5. Packets(s)
      BY <2>1, <2>2, <2>3, <2>4, Sizes DEF Packets
    <2>6. Bytes(s) = <<>>
      <3>0. <<>> \in Seq(Cells)
        OBVIOUS
      <3>1. PICK e \in Seq(Cells) : e = <<>>
        BY <3>0, Zenon
      <3>2. Longer(e, s, e, s)
        BY <3>1, <2>1, CatEmpty DEF Longer
      <3>3. \A k \in 1..Len(s) : s[k][1] # "byte"
        BY <2>1
      <3>4. \A k \in 1..Len(e) : e[k][1] = "byte"
        BY <3>1
      <3>5. Bytes(s) = Cat(Bytes(e), e)
        BY <2>1, <3>2, <3>3, <3>4, BytesAdded
      <3>6. Bytes(e) = <<>>
        BY <3>1, <1>1, PickedIs, JoinedFew
      <3> QED
        BY <3>1, <3>5, <3>6, CatEmpty
    <2> QED
      BY <2>1, <2>2, <2>3, <2>5, <2>6 DEF EndFree
  <1> QED
    BY <1>1, <1>2 DEF Ack

----------------------------------------------------------------------------
(* Wire, vector and buffer as one response *)

\* What is in the response buffer, as bytes of the response, and the bytes after x.
Buf(o) == [k \in 1..o.pos |-> <<"byte", o.mem[k]>>]
Data(x, n) == [k \in 1..n |-> <<"byte", x + k>>]

\* The bytes in the buffer.
LEMMA BufIs ==
  ASSUME NEW o \in Responses, WithinBounds(o)
  PROVE  Buf(o) \in Seq(Cells) /\ Len(Buf(o)) = o.pos
         /\ \A k \in 1..o.pos : Buf(o)[k] = <<"byte", o.mem[k]>>
  <1>1. PICK m \in Nat, d \in Seq(Nat) : m = o.pos /\ d = o.mem
    BY DEF Responses
  <1>2. m <= Len(d)
    BY <1>1 DEF WithinBounds
  <1>3. \A k \in 1..m : d[k] \in Nat
    BY <1>2
  <1>4. PICK f : f = [k \in 1..m |-> <<"byte", d[k]>>]
    OBVIOUS
  <1>5. f \in [1..m -> Cells]
    BY <1>3, <1>4 DEF Cells
  <1>6. f \in Seq(Cells) /\ Len(f) = m
    BY <1>5, MakeSeq
  <1>7. Buf(o) = f
    BY <1>1, <1>4 DEF Buf
  <1> QED
    BY <1>1, <1>4, <1>6, <1>7

\* The bytes of the data.
LEMMA DataIs ==
  ASSUME NEW x \in Nat, NEW n \in Nat
  PROVE  Data(x, n) \in Seq(Cells) /\ Len(Data(x, n)) = n
         /\ \A k \in 1..n : Data(x, n)[k] = <<"byte", x + k>>
  <1>1. Data(x, n) \in [1..n -> Cells]
    BY DEF Data, Cells
  <1> QED
    BY <1>1, MakeSeq DEF Data

\* The bytes of a response.
LEMMA NumbersIs ==
  ASSUME NEW n \in Nat
  PROVE  Numbers(n) \in Seq(Cells) /\ Len(Numbers(n)) = n
         /\ \A k \in 1..n : Numbers(n)[k] = <<"byte", k>>
  <1>1. Numbers(n) \in [1..n -> Cells]
    BY DEF Numbers, Cells
  <1> QED
    BY <1>1, MakeSeq DEF Numbers

\* The first x bytes of a response and the next n are its first x + n.
LEMMA NumbersMore ==
  ASSUME NEW x \in Nat, NEW n \in Nat
  PROVE  Cat(Numbers(x), Data(x, n)) = Numbers(x + n)
  <1>1. PICK a, b, c : a = Numbers(x) /\ b = Data(x, n) /\ c = Numbers(x + n)
    OBVIOUS
  <1>2. a \in Seq(Cells) /\ Len(a) = x /\ \A k \in 1..x : a[k] = <<"byte", k>>
    BY <1>1, NumbersIs
  <1>3. b \in Seq(Cells) /\ Len(b) = n /\ \A k \in 1..n : b[k] = <<"byte", x + k>>
    BY <1>1, DataIs
  <1>4. x + n \in Nat
    OBVIOUS
  <1>5. c \in Seq(Cells) /\ Len(c) = x + n /\ \A k \in 1..(x + n) : c[k] = <<"byte", k>>
    BY <1>1, <1>4, NumbersIs
  <1>6. PICK d : d = Cat(a, b)
    OBVIOUS
  <1>7. /\ d \in Seq(Cells) /\ Len(d) = x + n
        /\ \A i \in 1..x : d[i] = a[i] /\ \A j \in 1..n : d[x + j] = b[j]
    BY <1>2, <1>3, <1>6, CatType
  <1>8. ASSUME NEW k \in 1..(x + n) PROVE d[k] = c[k]
    <2>1. CASE k <= x
      <3>1. k \in 1..x
        BY <2>1
      <3> QED
        BY <3>1, <1>2, <1>5, <1>7
    <2>2. CASE k > x
      <3>1. k - x \in 1..n /\ x + (k - x) = k /\ x >= 0
        BY <2>2
      <3>2. d[k] = b[k - x]
        <4>1. \A j \in 1..n : d[x + j] = b[j]
          BY <1>2, <1>3, <1>6, CatType
        <4>2. d[x + (k - x)] = b[k - x]
          BY <4>1, <3>1
        <4> QED
          BY <4>2, <3>1
      <3> QED
        BY <3>1, <3>2, <1>3, <1>5
    <2> QED
      BY <2>1, <2>2
  <1>9. d = c
    BY <1>5, <1>7, <1>8, SameSeq
  <1> QED
    BY <1>1, <1>6, <1>9

\* The bytes of a packet are those of the buffer, and those given.
LEMMA BufThenData ==
  ASSUME NEW o \in Responses, WithinBounds(o), NEW x \in Nat, NEW d \in Nat,
         NEW tl \in Seq(Cells), PacketData(o, x, tl), Len(tl) = o.pos + d
  PROVE  tl = Cat(Buf(o), Data(x, d))
  <1>1. PICK m \in Nat : m = o.pos
    BY DEF Responses
  <1>2. PICK a, b : a = Buf(o) /\ b = Data(x, d)
    OBVIOUS
  <1>3. a \in Seq(Cells) /\ Len(a) = m /\ \A k \in 1..m : a[k] = <<"byte", o.mem[k]>>
    BY <1>1, <1>2, BufIs
  <1>4. b \in Seq(Cells) /\ Len(b) = d /\ \A k \in 1..d : b[k] = <<"byte", x + k>>
    BY <1>2, DataIs
  <1>5. PICK c : c = Cat(a, b)
    OBVIOUS
  <1>6. c \in Seq(Cells) /\ Len(c) = m + d /\ \A k \in 1..m : c[k] = a[k]
    BY <1>3, <1>4, <1>5, CatType
  <1>7. \A k \in 1..d : c[m + k] = b[k]
    BY <1>3, <1>4, <1>5, CatType
  <1>8. ASSUME NEW k \in 1..(m + d) PROVE tl[k] = c[k]
    <2>1. tl[k] = <<"byte", IF k <= m THEN o.mem[k] ELSE x + (k - m)>>
      BY <1>1 DEF PacketData
    <2>2. CASE k <= m
      <3>1. k \in 1..m
        BY <2>2
      <3> QED
        BY <3>1, <2>1, <2>2, <1>3, <1>6
    <2>3. CASE ~(k <= m)
      <3>1. k - m \in 1..d /\ m + (k - m) = k
        BY <2>3
      <3>2. c[m + (k - m)] = b[k - m]
        BY <3>1, <1>7
      <3> QED
        BY <3>1, <3>2, <2>1, <2>3, <1>4
    <2> QED
      BY <2>2, <2>3
  <1>9. tl = c
    BY <1>1, <1>6, <1>8, SameSeq
  <1> QED
    BY <1>2, <1>5, <1>9

----------------------------------------------------------------------------
(* What the web server has got or will get *)

\* What was written and what is queued.
Full(w, o) == Cat(w, Pending(o))

\* It is a response that has not ended, with the first n bytes given to
\* LSAPI_Write_r, the last of which are still in the buffer.
Flow(w, o, n) ==
  /\ w \in Seq(Cells)
  /\ Packets(Full(w, o)) /\ EndFree(Full(w, o))
  /\ o.RESP_HEADER => Ack(Full(w, o))
  /\ ~o.RESP_HEADER => First(Full(w, o)) \in Heads(Full(w, o))
  /\ Cat(Bytes(Full(w, o)), Buf(o)) = Numbers(n)

\* It is the whole response.
Ended(w, o, n) ==
  w \in Seq(Cells) /\ Packets(Full(w, o)) /\ Bytes(Full(w, o)) = Numbers(n)

\* Any of the two.
LEMMA FullIs ==
  ASSUME NEW w \in Seq(Cells), NEW o \in Responses, WithinBounds(o)
  PROVE  Full(w, o) \in Seq(Cells) /\ Len(Full(w, o)) = Len(w) + Len(Pending(o))
         /\ \A i \in 1..Len(w) : Full(w, o)[i] = w[i]
  <1>1. PICK p \in Seq(Cells) : p = Pending(o)
    BY PendingIs
  <1> QED
    BY <1>1, CatType DEF Full

\* A packet that may follow, and what it adds.
Follows(o, kind, hd, tl) ==
  /\ kind \in {"header", "stream", "end"}
  /\ o.RESP_HEADER <=> kind = "header"
  /\ kind = "stream" => Len(hd) + Len(tl) <= MaxPacket + PktHdr
  /\ kind = "end" => Len(hd) + Len(tl) = PktHdr
FlowAdded(w, o, q, kind, tl) ==
  /\ Packets(Full(w, q)) /\ First(Full(w, q)) \in Heads(Full(w, q))
  /\ kind # "end" => EndFree(Full(w, q))
  /\ Bytes(Full(w, q)) = Cat(Bytes(Full(w, o)), tl)

\* A packet that may follow keeps the sequence of packets, and adds its data.
LEMMA FlowAdds ==
  ASSUME NEW w, NEW o \in Responses, WithinBounds(o), NEW n, Flow(w, o, n),
         NEW kind, NEW hd, NEW tl, NEW q,
         Adds(o, q, kind, hd, tl), Follows(o, kind, hd, tl)
  PROVE  FlowAdded(w, o, q, kind, tl)
  <1>1. /\ w \in Seq(Cells) /\ Packet(kind, hd, tl)
        /\ hd \in Seq(Cells) /\ tl \in Seq(Cells)
        /\ Pending(q) = Cat(Pending(o), Cat(hd, tl))
    BY DEF Flow, Adds, Packet
  <1>2. PICK s, r, p, u : /\ s = Full(w, o) /\ r = Full(w, q) /\ p = Pending(o)
                          /\ u = Cat(hd, tl)
    OBVIOUS
  <1>3. s \in Seq(Cells) /\ p \in Seq(Cells) /\ u \in Seq(Cells)
    BY <1>1, <1>2, FullIs, PendingIs, CatType
  <1>4. r = Cat(w, Cat(p, u)) /\ s = Cat(w, p)
    BY <1>1, <1>2 DEF Full
  <1>5. Longer(s, hd, tl, r)
    BY <1>1, <1>2, <1>3, <1>4, CatAssoc DEF Longer
  <1>6. /\ Packets(s) /\ EndFree(s)
        /\ kind = "header" => Ack(s)
        /\ kind # "header" => First(s) \in Heads(s)
    BY <1>2 DEF Flow, Follows
  <1>7. Packets(r) /\ First(r) \in Heads(r) /\ (kind # "end" => EndFree(r))
    BY <1>1, <1>3, <1>5, <1>6, PacketAdded DEF Follows
  <1>8. /\ \A i \in 1..Len(hd) : hd[i][1] # "byte"
        /\ \A i \in 1..Len(tl) : tl[i][1] = "byte"
    BY <1>1 DEF Packet
  <1>9. Bytes(r) = Cat(Bytes(s), tl)
    BY <1>1, <1>3, <1>5, <1>8, BytesAdded
  <1> QED
    BY <1>2, <1>7, <1>9 DEF FlowAdded

----------------------------------------------------------------------------
(* How queueing changes it *)

\* An empty buffer.
LEMMA BufEmpty ==
  ASSUME NEW o, o.pos = 0
  PROVE  Buf(o) = <<>>
  BY DEF Buf

\* LSAPI_FinalizeRespHeaders_r.
LEMMA FlowHeader ==
  ASSUME NEW w, NEW o, AtHandle(o), NEW n, Flow(w, o, n),
         NEW q, q = LSAPI_FinalizeRespHeaders_r(o)
  PROVE  Flow(w, q, n)
  <1>1. o \in Responses /\ WithinBounds(o)
    BY DEF AtHandle, Good
  <1>2. /\ ~q.RESP_HEADER /\ q.pos = o.pos /\ q.mem = o.mem
        /\ o.RESP_HEADER => \E hd : Adds(o, q, "header", hd, <<>>)
        /\ ~o.RESP_HEADER => q = o
    BY Finalized
  <1>3. CASE o.RESP_HEADER
    <2>1. PICK hd : Adds(o, q, "header", hd, <<>>)
      BY <1>2, <1>3
    <2>2. PICK tl : tl = <<>> /\ Adds(o, q, "header", hd, tl)
      BY <2>1
    <2>3. /\ Packets(Full(w, q)) /\ First(Full(w, q)) \in Heads(Full(w, q))
          /\ EndFree(Full(w, q))
          /\ Bytes(Full(w, q)) = Cat(Bytes(Full(w, o)), tl)
      <3>1. Follows(o, "header", hd, tl)
        BY <1>3 DEF Follows
      <3>2. FlowAdded(w, o, q, "header", tl)
        BY <1>1, <2>2, <3>1, FlowAdds, Zenon
      <3> QED
        BY <3>2 DEF FlowAdded
    <2>4. w \in Seq(Cells)
      BY DEF Flow
    <2>5. PICK s \in Seq(Cells) : s = Full(w, o)
      BY <1>1, <2>4, FullIs
    <2>6. Bytes(s) \in Seq(Cells)
      BY PickedIs
    <2>7. Bytes(Full(w, q)) = Bytes(Full(w, o))
      BY <2>2, <2>3, <2>5, <2>6, CatEmpty
    <2>8. Buf(q) = Buf(o)
      BY <1>2 DEF Buf
    <2> QED
      BY <1>2, <2>3, <2>4, <2>7, <2>8 DEF Flow
  <1>4. CASE ~o.RESP_HEADER
    BY <1>2, <1>4
  <1> QED
    BY <1>3, <1>4

\* Flush_RespBuf_r.
LEMMA FlowBuf ==
  ASSUME NEW w, NEW o, AtHandle(o), ~o.RESP_HEADER, NEW n, Flow(w, o, n),
         NEW q, q = FlushBuf(o)
  PROVE  Flow(w, q, n)
  <1>1. o \in Responses /\ WithinBounds(o) /\ o.pos < RespBufSize /\ o.pos \in Nat
    BY DEF AtHandle, Good, Responses
  <1>2. /\ ~q.RESP_HEADER /\ q.pos = 0
        /\ o.pos # 0 => BufPacket(o, q)
        /\ o.pos = 0 => q = o
    BY BufFlushed
  <1>3. CASE o.pos # 0
    <2>1. PICK hd, tl : /\ Adds(o, q, "stream", hd, tl)
                        /\ Len(hd) = PktHdr /\ Len(tl) = o.pos
                        /\ \A k \in 1..o.pos : tl[k] = <<"byte", o.mem[k]>>
      BY <1>2, <1>3 DEF BufPacket
    <2>2. Len(hd) + Len(tl) <= MaxPacket + PktHdr
      <3>1. PICK m \in Nat : m = o.pos
        BY <1>1
      <3>2. PktHdr + m <= MaxPacket + PktHdr
        BY <3>1, <1>1, Sizes
      <3> QED
        BY <2>1, <3>1, <3>2
    <2>3. /\ Packets(Full(w, q)) /\ First(Full(w, q)) \in Heads(Full(w, q))
          /\ EndFree(Full(w, q))
          /\ Bytes(Full(w, q)) = Cat(Bytes(Full(w, o)), tl)
      <3>1. Follows(o, "stream", hd, tl)
        BY <2>2 DEF Follows
      <3>2. FlowAdded(w, o, q, "stream", tl)
        BY <1>1, <2>1, <3>1, FlowAdds, Zenon
      <3> QED
        BY <3>2 DEF FlowAdded
    <2>4. w \in Seq(Cells) /\ tl \in Seq(Cells)
      BY <2>1 DEF Flow, Adds, Packet
    <2>5. tl = Buf(o)
      <3>1. /\ Buf(o) \in Seq(Cells) /\ Len(Buf(o)) = o.pos
            /\ \A k \in 1..o.pos : Buf(o)[k] = <<"byte", o.mem[k]>>
        BY <1>1, BufIs
      <3>2. PICK b \in Seq(Cells) : b = Buf(o)
        BY <3>1
      <3>3. Len(tl) = Len(b) /\ \A k \in 1..Len(tl) : tl[k] = b[k]
        BY <3>1, <3>2, <2>1
      <3> QED
        BY <3>2, <3>3, <2>4, SameSeq
    <2>6. Cat(Bytes(Full(w, q)), Buf(q)) = Numbers(n)
      <3>1. Bytes(Full(w, q)) = Numbers(n)
        BY <2>3, <2>5 DEF Flow
      <3>2. q \in Responses /\ WithinBounds(q)
        BY <2>1 DEF Adds
      <3>3. PICK s \in Seq(Cells) : s = Full(w, q)
        BY <2>4, <3>2, FullIs
      <3>4. Bytes(s) \in Seq(Cells)
        BY PickedIs
      <3>5. Buf(q) = <<>>
        BY <1>2, BufEmpty
      <3> QED
        BY <3>1, <3>3, <3>4, <3>5, CatEmpty
    <2> QED
      BY <1>2, <2>3, <2>4, <2>6 DEF Flow
  <1>4. CASE o.pos = 0
    BY <1>2, <1>4
  <1> QED
    BY <1>3, <1>4

\* The end of a response.
LEMMA FlowEnd ==
  ASSUME NEW w, NEW o \in Responses, WithinBounds(o), ~o.RESP_HEADER, o.pos = 0,
         NEW n, Flow(w, o, n),
         NEW q, NEW hd, Adds(o, q, "end", hd, <<>>), Len(hd) = PktHdr
  PROVE  Ended(w, q, n)
  <1>1. PICK tl : tl = <<>> /\ Adds(o, q, "end", hd, tl)
    OBVIOUS
  <1>2. Len(hd) + Len(tl) = PktHdr
    BY <1>1, Sizes
  <1>3. Packets(Full(w, q)) /\ Bytes(Full(w, q)) = Cat(Bytes(Full(w, o)), tl)
    <2>1. Follows(o, "end", hd, tl)
      BY <1>2 DEF Follows
    <2>2. FlowAdded(w, o, q, "end", tl)
      BY <1>1, <2>1, FlowAdds, Zenon
    <2> QED
      BY <2>2 DEF FlowAdded
  <1>4. Buf(o) = tl
    BY <1>1, BufEmpty
  <1> QED
    BY <1>3, <1>4 DEF Flow, Ended

\* A packet of LSAPI_Write_r.
LEMMA FlowPacket ==
  ASSUME NEW w, NEW o \in Responses, WithinBounds(o), ~o.RESP_HEADER,
         NEW x \in Nat, Flow(w, o, x),
         NEW d \in Nat, o.pos + d <= MaxPacket,
         NEW q, ~q.RESP_HEADER, q.pos = 0,
         NEW hd, NEW tl, Adds(o, q, "stream", hd, tl), PacketData(o, x, tl),
         Len(hd) = PktHdr, Len(tl) = o.pos + d
  PROVE  Flow(w, q, x + d)
  <1>1. PICK m \in Nat : m = o.pos
    BY DEF Responses
  <1>2. Len(hd) + Len(tl) <= MaxPacket + PktHdr
    <2>1. PktHdr + (m + d) <= MaxPacket + PktHdr
      BY <1>1, Sizes
    <2> QED
      BY <1>1, <2>1
  <1>3. /\ Packets(Full(w, q)) /\ First(Full(w, q)) \in Heads(Full(w, q))
        /\ EndFree(Full(w, q))
        /\ Bytes(Full(w, q)) = Cat(Bytes(Full(w, o)), tl)
    <2>1. Follows(o, "stream", hd, tl)
      BY <1>2 DEF Follows
    <2>2. FlowAdded(w, o, q, "stream", tl)
      BY <2>1, FlowAdds, Zenon
    <2> QED
      BY <2>2 DEF FlowAdded
  <1>4. w \in Seq(Cells) /\ tl \in Seq(Cells) /\ q \in Responses /\ WithinBounds(q)
    BY DEF Flow, Adds, Packet
  <1>5. tl = Cat(Buf(o), Data(x, d))
    BY <1>4, BufThenData
  <1>6. PICK s \in Seq(Cells), b \in Seq(Cells), c \in Seq(Cells) :
          s = Bytes(Full(w, o)) /\ b = Buf(o) /\ c = Data(x, d)
    <2>1. PICK f \in Seq(Cells) : f = Full(w, o)
      BY <1>4, FullIs
    <2>2. Bytes(f) \in Seq(Cells)
      BY PickedIs
    <2>3. Buf(o) \in Seq(Cells) /\ Data(x, d) \in Seq(Cells)
      BY BufIs, DataIs
    <2> QED
      BY <2>1, <2>2, <2>3
  <1>7. Cat(s, b) = Numbers(x)
    BY <1>6 DEF Flow
  <1>8. Bytes(Full(w, q)) = Numbers(x + d)
    <2>1. Bytes(Full(w, q)) = Cat(s, Cat(b, c))
      BY <1>3, <1>5, <1>6
    <2>2. Cat(s, Cat(b, c)) = Cat(Cat(s, b), c)
      BY CatAssoc
    <2>3. Cat(Numbers(x), c) = Numbers(x + d)
      BY <1>6, NumbersMore
    <2> QED
      BY <2>1, <2>2, <2>3, <1>7
  <1>9. Cat(Bytes(Full(w, q)), Buf(q)) = Numbers(x + d)
    <2>1. Buf(q) = <<>>
      BY BufEmpty
    <2>2. Numbers(x + d) \in Seq(Cells)
      BY NumbersIs
    <2> QED
      BY <1>8, <2>1, <2>2, CatEmpty
  <1> QED
    BY <1>3, <1>4, <1>9 DEF Flow

\* The same response, whose pending part is at the same place or has moved to the
\* wire.
LEMMA FlowSame ==
  ASSUME NEW w, NEW o, NEW n, Flow(w, o, n), NEW v \in Seq(Cells), NEW q,
         Full(v, q) = Full(w, o), q.RESP_HEADER = o.RESP_HEADER,
         q.pos = o.pos, q.mem = o.mem
  PROVE  Flow(v, q, n)
  <1>1. Buf(q) = Buf(o)
    BY DEF Buf
  <1> QED
    BY <1>1 DEF Flow

\* Bytes put into the buffer.
LEMMA FlowBuffered ==
  ASSUME NEW w, NEW o \in Responses, WithinBounds(o), ~o.RESP_HEADER,
         NEW x \in Nat, Flow(w, o, x),
         NEW b \in Seq(Nat), NEW d \in Nat, Len(b) = d,
         \A i \in 1..d : b[i] = x + i,
         NEW q \in Responses, WithinBounds(q), ~q.RESP_HEADER, Pending(q) = Pending(o),
         q.pos = o.pos + d,
         \A i \in 1..o.pos : q.mem[i] = o.mem[i],
         \A i \in 1..d : q.mem[o.pos + i] = b[i]
  PROVE  Flow(w, q, x + d)
  <1>1. PICK m \in Nat : m = o.pos
    BY DEF Responses
  <1>2. PICK e, f, g : e = Buf(o) /\ f = Data(x, d) /\ g = Buf(q)
    OBVIOUS
  <1>3. e \in Seq(Cells) /\ Len(e) = m /\ \A k \in 1..m : e[k] = <<"byte", o.mem[k]>>
    BY <1>1, <1>2, BufIs
  <1>4. f \in Seq(Cells) /\ Len(f) = d /\ \A k \in 1..d : f[k] = <<"byte", x + k>>
    BY <1>2, DataIs
  <1>5. /\ g \in Seq(Cells) /\ Len(g) = m + d
        /\ \A k \in 1..(m + d) : g[k] = <<"byte", q.mem[k]>>
    BY <1>1, <1>2, BufIs
  <1>6. PICK h : h = Cat(e, f)
    OBVIOUS
  <1>7. h \in Seq(Cells) /\ Len(h) = m + d /\ \A k \in 1..m : h[k] = e[k]
    <2>1. /\ Cat(e, f) \in Seq(Cells) /\ Len(Cat(e, f)) = Len(e) + Len(f)
          /\ \A i \in 1..Len(e) : Cat(e, f)[i] = e[i]
      BY <1>3, <1>4, CatType, Zenon
    <2> QED
      BY <2>1, <1>3, <1>4, <1>6
  <1>8. \A k \in 1..d : h[m + k] = f[k]
    <2>1. \A i \in 1..Len(f) : Cat(e, f)[Len(e) + i] = f[i]
      BY <1>3, <1>4, CatType, Zenon
    <2> QED
      BY <2>1, <1>3, <1>4, <1>6
  <1>9. ASSUME NEW k \in 1..(m + d) PROVE g[k] = h[k]
    <2>1. CASE k <= m
      <3>1. k \in 1..m
        BY <2>1
      <3> QED
        BY <3>1, <1>1, <1>3, <1>5, <1>7
    <2>2. CASE ~(k <= m)
      <3>1. PICK j \in 1..d : k = m + j
        <4>1. k - m \in 1..d /\ k = m + (k - m)
          BY <2>2
        <4> QED
          BY <4>1
      <3>2. g[k] = <<"byte", x + j>>
        BY <3>1, <1>1, <1>5
      <3> QED
        BY <3>1, <3>2, <1>4, <1>8
    <2> QED
      BY <2>1, <2>2
  <1>10. g = h
    BY <1>5, <1>7, <1>9, SameSeq
  <1>11. Full(w, q) = Full(w, o) /\ w \in Seq(Cells)
    BY DEF Full, Flow
  <1>12. PICK s \in Seq(Cells) : s = Bytes(Full(w, o))
    <2>1. PICK z \in Seq(Cells) : z = Full(w, o)
      BY <1>11, FullIs
    <2> QED
      BY <2>1, PickedIs
  <1>13. Cat(s, e) = Numbers(x)
    BY <1>2, <1>12 DEF Flow
  <1>14. Cat(s, g) = Numbers(x + d)
    <2>1. Cat(s, Cat(e, f)) = Cat(Cat(s, e), f)
      BY <1>3, <1>4, CatAssoc
    <2>2. Cat(Numbers(x), f) = Numbers(x + d)
      BY <1>2, NumbersMore
    <2> QED
      BY <1>6, <1>10, <1>13, <2>1, <2>2
  <1> QED
    BY <1>2, <1>11, <1>12, <1>14 DEF Flow

----------------------------------------------------------------------------
(* One request at a time *)

\* The web server has begun a request of which the process has taken nothing: it
\* has sent nothing of it, its first byte is on its way, or it was just read.
Begun == sreq.wait /\ sreq.sent = 0

\* Its first byte is on its way, or was just read.
Arriving == \E i \in 1..Len(stream) : stream[i][2] = 1
Received == pc \in {"verify", "rest"} /\ buffer[1][2] = 1

\* It does so once, and nothing was written since.
FreshInv ==
  fd =>
    /\ ~sreq.wait =>
         /\ pc \in {"wait", "head"} /\ stream = <<>> /\ wire = <<>>
         /\ sreq.sent = ReqBytes
    /\ Begun \/ Arriving \/ Received => pc \notin Late /\ wire = <<>>
    /\ Begun => ~Arriving
    /\ Received => ~Begun /\ ~Arriving
    /\ \A i, j \in 1..Len(stream) :
         stream[i][2] = 1 /\ stream[j][2] = 1 => i = j

\* What was written since then is a response as far as it goes.
WireInv ==
  fd =>
    /\ pc \in {"entry", "wait"} =>
         Packets(wire) /\ (wire = <<>> \/ Bytes(wire) = Numbers(written))
    /\ pc = "accepted" => Ack(wire) /\ written = 0
    /\ pc \in {"handle", "write"} => Packets(wire) /\ Flow(wire, out, written - todo)
    /\ pc = "flush" /\ ret # "finish" => Flow(wire, out, written - todo)
    /\ pc = "flush" /\ ret = "finish" => Ended(wire, out, written)

\* The web server does not take a response for ended before LSAPI_Finish_r has
\* written the end.
LEMMA NotAnswered ==
  ASSUME TypeInv, WireInv, fd, pc \in Late
  PROVE  ~Answered
  <1> SUFFICES ASSUME Answered PROVE FALSE
    OBVIOUS
  <1>1. wire \in Seq(Cells) /\ out \in Responses /\ WithinBounds(out) /\ QueueInv
    BY TypeParts DEF TypeInv, RespOK
  <1>2. PICK w \in Seq(Cells) : w = wire
    BY <1>1
  <1>3. PICK l \in Nat : l = Len(w)
    OBVIOUS
  <1>4. PICK i \in Nat : i = (l - PktHdr) + 1
    <2>1. l >= PktHdr
      BY <1>2, <1>3 DEF Answered
    <2> QED
      BY <2>1, Sizes
  <1>5. i \in 1..l /\ w[i] = <<"end", PktHdr>> /\ i + PktHdr = l + 1
    <2>1. l >= PktHdr /\ w[(l - PktHdr) + 1] = <<"end", PktHdr>>
      BY <1>2, <1>3 DEF Answered
    <2> QED
      BY <2>1, <1>4, Sizes
  <1>6. i \in Heads(w)
    BY <1>3, <1>5, Sizes DEF Heads
  <1>7. PICK f \in Seq(Cells) : f = Full(w, out)
    BY <1>1, FullIs
  <1>8. PICK p \in Seq(Cells) : p = Pending(out)
    BY <1>1, PendingIs
  <1>9. Len(f) = l + Len(p) /\ f[i] = w[i] /\ i \in Heads(f)
    <2>1. Len(f) = l + Len(p) /\ \A j \in 1..l : f[j] = w[j]
      BY <1>1, <1>3, <1>7, <1>8, FullIs
    <2>2. i \in 1..Len(f) /\ f[i] = w[i]
      BY <2>1, <1>5
    <2> QED
      BY <2>1, <2>2, <1>5, Sizes DEF Heads
  <1>10. CASE pc = "accepted"
    <2>1. EndFree(w)
      BY <1>2, <1>10, AckIs DEF WireInv
    <2> QED
      BY <2>1, <1>5, <1>6 DEF EndFree
  <1>11. CASE pc = "flush" /\ ret = "finish"
    <2>1. Packets(f)
      BY <1>2, <1>7, <1>11 DEF WireInv, Ended
    <2>2. i + PktHdr = Len(f) + 1
      BY <2>1, <1>5, <1>9 DEF Packets
    <2>3. Len(p) > 0
      BY <1>1, <1>8, <1>11 DEF QueueInv, AtFlush
    <2> QED
      BY <2>2, <2>3, <1>5, <1>9
  <1>12. CASE pc \in {"handle", "write"} \/ (pc = "flush" /\ ret # "finish")
    <2>1. EndFree(f)
      BY <1>2, <1>7, <1>12 DEF WireInv, Flow
    <2> QED
      BY <2>1, <1>5, <1>9 DEF EndFree
  <1> QED
    BY <1>10, <1>11, <1>12 DEF Late

\* Nothing on the wire is no answer.
LEMMA NothingAnswered ==
  ASSUME wire = <<>>
  PROVE  ~Answered
  BY Sizes DEF Answered

\* While a request is handled, there is no new one.
LEMMA FreshLate ==
  ASSUME FreshInv, fd, pc \in Late, UNCHANGED sreq,
         \A i \in 1..Len(stream') : \E j \in 1..Len(stream) : stream'[i] = stream[j],
         pc' \notin {"verify", "rest"}
  PROVE  FreshInv'
  <1>1. sreq.wait /\ ~Begun /\ ~Arriving
    BY DEF FreshInv, Late
  <1>2. sreq'.wait /\ ~Begun'
    BY <1>1 DEF Begun
  <1>3. \A i \in 1..Len(stream') : stream'[i][2] # 1
    BY <1>1 DEF Arriving
  <1>4. ~Arriving'
    BY <1>3 DEF Arriving
  <1>5. ~Received'
    BY DEF Received
  <1> QED
    BY <1>2, <1>3, <1>4, <1>5 DEF FreshInv

\* A step between two requests.
LEMMA FreshEarly ==
  ASSUME FreshInv, UNCHANGED <<sreq, stream, wire, buffer>>, fd' => fd,
         \/ pc' = pc
         \/ /\ pc' \notin Late
            /\ pc \in {"wait", "head"} => pc' \in {"wait", "head"}
            /\ pc' \in {"verify", "rest"} => pc \in {"verify", "rest"}
  PROVE  FreshInv'
  <1> SUFFICES ASSUME fd' PROVE FreshInv'
    BY DEF FreshInv
  <1>1. (Begun' <=> Begun) /\ (Arriving' <=> Arriving) /\ (Received' => Received)
    BY DEF Begun, Arriving, Received
  <1>2. ReqBytes' = ReqBytes
    BY DEF ReqBytes
  <1> QED
    BY <1>1, <1>2 DEF FreshInv

\* A new request.
LEMMA FreshRequest ==
  ASSUME TypeInv, FreshInv, WireInv, ServerRequest
  PROVE  FreshInv'
  <1>1. fd /\ (sreq.wait => Answered) /\ stream' = stream /\ pc' = pc /\ buffer' = buffer
        /\ wire' = <<>> /\ fd' = fd
    BY DEF ServerRequest, readVars
  <1>2. PICK body \in 0..MaxBody, bad \in BOOLEAN :
          sreq' = [num |-> sreq.num + 1, body |-> body, sent |-> 0, bad |-> bad,
                   wait |-> TRUE]
    BY DEF ServerRequest
  <1>3. sreq'.wait /\ sreq'.sent = 0
    BY <1>2
  <1>4. pc \notin Late
    <2>1. CASE sreq.wait
      BY <1>1, <2>1, NotAnswered
    <2>2. CASE ~sreq.wait
      BY <1>1, <2>2 DEF FreshInv, Late
    <2> QED
      BY <2>1, <2>2
  <1>5. ~Arriving /\ ~Received
    <2>1. CASE sreq.wait
      BY <1>1, <2>1, NothingAnswered DEF FreshInv
    <2>2. CASE ~sreq.wait
      BY <1>1, <2>2 DEF FreshInv, Arriving, Received
    <2> QED
      BY <2>1, <2>2
  <1>6. ~Arriving' /\ ~Received'
    BY <1>1, <1>5 DEF Arriving, Received
  <1>7. \A i \in 1..Len(stream') : stream'[i][2] # 1
    BY <1>6 DEF Arriving
  <1> QED
    BY <1>1, <1>3, <1>4, <1>6, <1>7 DEF FreshInv

\* The bytes that were sent and are not yet read.
LEMMA FreshSend ==
  ASSUME TypeInv, FreshInv, ServerSend
  PROVE  FreshInv'
  <1>1. NetOK
    BY TypeParts DEF TypeInv
  <1>2. fd /\ pc' = pc /\ buffer' = buffer /\ wire' = wire /\ fd' = fd
    BY DEF ServerSend, readVars
  <1>3. PICK s \in Seq(Pairs), a \in Nat, b \in Nat :
          s = stream /\ a = sreq.num /\ b = sreq.sent
    BY <1>1 DEF NetOK, Requests
  <1>4. PICK n \in 1..(ReqBytes - b) :
          /\ stream' = Cat(s, [k \in 1..n |-> <<a, b + k>>])
          /\ sreq' = [sreq EXCEPT !.sent = @ + n]
    BY <1>3 DEF ServerSend, Cat
  <1>5. ReqBytes \in Nat
    BY <1>1, Sizes DEF NetOK, Requests, ReqBytes
  <1>6. n \in Nat /\ n > 0 /\ b + n \in Nat /\ b + n # 0 /\ b # ReqBytes
    BY <1>4, <1>5
  <1>7. sreq'.sent = b + n /\ sreq'.wait = sreq.wait
    BY <1>1, <1>3, <1>4 DEF NetOK, Requests
  <1>8. sreq.wait
    BY <1>2, <1>3, <1>6 DEF FreshInv
  <1>9. PICK t : t = [k \in 1..n |-> <<a, b + k>>]
    OBVIOUS
  <1>10. t \in Seq(Pairs) /\ Len(t) = n /\ \A i \in 1..n : t[i] = <<a, b + i>>
    <2>1. n \in Nat
      BY <1>6
    <2>2. t \in [1..n -> Pairs]
      BY <2>1, <1>9 DEF Pairs
    <2>3. t \in Seq(Pairs) /\ Len(t) = n
      BY <2>1, <2>2, MakeSeq
    <2> QED
      BY <2>3, <1>9
  <1>11. PICK l, r : l \in Nat /\ l = Len(s) /\ r = stream'
    OBVIOUS
  <1>12. Len(r) = l + n /\ \A i \in 1..l : r[i] = s[i]
    BY <1>4, <1>9, <1>10, <1>11, PairsCat
  <1>13. \A i \in 1..n : r[l + i] = <<a, b + i>>
    <2>1. \A i \in 1..Len(t) : Cat(s, t)[Len(s) + i] = t[i]
      BY <1>10, PairsCat, Zenon
    <2> QED
      BY <2>1, <1>4, <1>9, <1>10, <1>11
  <1>14. ASSUME NEW i \in 1..(l + n), r[i][2] = 1
         PROVE  (i \in 1..l /\ s[i][2] = 1) \/ (i = l + 1 /\ b = 0)
    <2>1. CASE i <= l
      <3>1. i \in 1..l
        BY <2>1, <1>11
      <3> QED
        BY <3>1, <1>12, <1>14
    <2>2. CASE i > l
      <3>1. PICK j \in 1..n : i = l + j
        <4>1. i - l \in 1..n /\ i = l + (i - l)
          BY <2>2, <1>6, <1>11
        <4> QED
          BY <4>1
      <3>2. r[i] = <<a, b + j>>
        BY <3>1, <1>13
      <3>3. b + j = 1
        BY <3>2, <1>14
      <3>4. b = 0 /\ j = 1
        BY <3>1, <3>3
      <3> QED
        BY <3>1, <3>4
    <2> QED
      BY <2>1, <2>2, <1>11
  <1>15. Arriving' => Arriving \/ Begun
    <2> HAVE Arriving'
    <2>1. PICK i \in 1..Len(r) : r[i][2] = 1
      BY <1>11 DEF Arriving
    <2>2. i \in 1..(l + n)
      BY <2>1, <1>12
    <2> QED
      BY <2>1, <2>2, <1>3, <1>8, <1>11, <1>14 DEF Arriving, Begun
  <1>16. ~Begun'
    BY <1>6, <1>7 DEF Begun
  <1>17. Received' <=> Received
    BY <1>2 DEF Received
  <1>18. ASSUME NEW i \in 1..Len(stream'), NEW j \in 1..Len(stream'),
                stream'[i][2] = 1, stream'[j][2] = 1
         PROVE  i = j
    <2>1. /\ (i \in 1..l /\ s[i][2] = 1) \/ (i = l + 1 /\ b = 0)
          /\ (j \in 1..l /\ s[j][2] = 1) \/ (j = l + 1 /\ b = 0)
      <3>1. i \in 1..(l + n) /\ j \in 1..(l + n) /\ r[i][2] = 1 /\ r[j][2] = 1
        BY <1>11, <1>12, <1>18
      <3> QED
        BY <3>1, <1>14
    <2>2. b = 0 => \A k \in 1..l : s[k][2] # 1
      BY <1>2, <1>3, <1>8, <1>11 DEF FreshInv, Begun, Arriving
    <2>3. \A x, y \in 1..l : s[x][2] = 1 /\ s[y][2] = 1 => x = y
      BY <1>2, <1>3, <1>11 DEF FreshInv
    <2> QED
      BY <2>1, <2>2, <2>3
  <1> QED
    BY <1>2, <1>7, <1>8, <1>15, <1>16, <1>17, <1>18 DEF FreshInv

----------------------------------------------------------------------------
(* One request at a time: the steps of the process *)

\* The first read of a request.
LEMMA FreshHead ==
  ASSUME TypeInv, FreshInv, ReadHead, fd'
  PROVE  FreshInv'
  <1>1. PICK n : n = Least(Len(stream), ReqBufSize)
    OBVIOUS
  <1>2. /\ pc = "head" /\ stream # <<>>
        /\ buffer' = Store(buffer, 0, SubSeq(stream, 1, n))
        /\ stream' = SubSeq(stream, n + 1, Len(stream))
        /\ bufRead' = bufRead + n
        /\ pc' \in {"head", "verify"}
        /\ UNCHANGED <<fd, out, bufProcessed, bodyLen, bodyRead, given, sreq, wire>>
    BY <1>1 DEF ReadHead, Refuse, lsapi_close_connection, taskVars
  <1>3. /\ n \in Nat /\ n > 0 /\ n <= Len(stream)
        /\ \A i \in 1..n : buffer'[i] = stream[i]
        /\ stream' \in Seq(Pairs) /\ Len(stream') = Len(stream) - n
        /\ \A i \in 1..(Len(stream) - n) : stream'[i] = stream[n + i]
    BY <1>1, <1>2, HeadRead
  <1>4. PICK s \in Seq(Pairs), l \in Nat : s = stream /\ l = Len(s)
    BY TypeParts DEF TypeInv, NetOK
  <1>5. PICK r \in Seq(Pairs) : r = stream'
    BY <1>3
  <1>6. n <= l /\ Len(r) = l - n /\ \A i \in 1..(l - n) : r[i] = s[n + i]
    BY <1>3, <1>4, <1>5
  <1>7. sreq.wait /\ fd
    BY <1>2 DEF FreshInv
  <1>8. \A i, j \in 1..l : s[i][2] = 1 /\ s[j][2] = 1 => i = j
    BY <1>4, <1>7 DEF FreshInv
  <1>9. ASSUME NEW i \in 1..Len(r), r[i][2] = 1
        PROVE  n + i \in 1..l /\ s[n + i][2] = 1 /\ s[1][2] # 1
    <2>1. i \in 1..(l - n) /\ n + i \in 1..l /\ n + i # 1 /\ 1 \in 1..l
      BY <1>3, <1>6
    <2>2. s[n + i][2] = 1
      BY <2>1, <1>6, <1>9
    <2> QED
      BY <2>1, <2>2, <1>8
  <1>10. Arriving' => Arriving /\ s[1][2] # 1
    <2> HAVE Arriving'
    <2>1. PICK i \in 1..Len(r) : r[i][2] = 1
      BY <1>5 DEF Arriving
    <2>2. n + i \in 1..l /\ s[n + i][2] = 1 /\ s[1][2] # 1
      BY <2>1, <1>9
    <2> QED
      BY <2>2, <1>4 DEF Arriving
  <1>11. Received' => Arriving /\ s[1][2] = 1
    <2> HAVE Received'
    <2>1. buffer'[1] = s[1] /\ 1 \in 1..l
      BY <1>3, <1>4, <1>6
    <2>2. s[1][2] = 1
      BY <2>1 DEF Received
    <2> QED
      BY <2>1, <2>2, <1>4 DEF Arriving
  <1>12. Begun' <=> Begun
    BY <1>2 DEF Begun
  <1>13. ASSUME NEW i \in 1..Len(stream'), NEW j \in 1..Len(stream'),
                stream'[i][2] = 1, stream'[j][2] = 1
         PROVE  i = j
    <2>1. i \in 1..Len(r) /\ j \in 1..Len(r) /\ r[i][2] = 1 /\ r[j][2] = 1
      BY <1>5, <1>13
    <2>2. n + i \in 1..l /\ s[n + i][2] = 1 /\ n + j \in 1..l /\ s[n + j][2] = 1
      BY <2>1, <1>9
    <2>3. n + i = n + j
      BY <2>2, <1>8
    <2> QED
      BY <2>1, <2>3, <1>3
  <1>14. pc' \notin Late
    BY <1>2 DEF Late
  <1> QED
    BY <1>2, <1>7, <1>10, <1>11, <1>12, <1>13, <1>14 DEF FreshInv

\* The rest of it.
LEMMA FreshRest ==
  ASSUME TypeInv, FreshInv, ReadRest, fd'
  PROVE  FreshInv'
  <1>1. PICK n : n = Least(Len(stream), ReqLen - bufRead)
    OBVIOUS
  <1>2. /\ pc = "rest" /\ stream # <<>> /\ bufRead < ReqLen
        /\ buffer' = Store(buffer, bufRead, SubSeq(stream, 1, n))
        /\ stream' = SubSeq(stream, n + 1, Len(stream))
        /\ bufRead' = bufRead + n
        /\ UNCHANGED <<fd, out, bufProcessed, bodyLen, bodyRead, given, sreq, wire, pc>>
    BY <1>1 DEF ReadRest, Refuse, lsapi_close_connection, taskVars
  <1>3. /\ n \in Nat /\ n > 0 /\ n <= Len(stream)
        /\ \A i \in 1..bufRead : buffer'[i] = buffer[i]
        /\ stream' \in Seq(Pairs) /\ Len(stream') = Len(stream) - n
        /\ \A i \in 1..(Len(stream) - n) : stream'[i] = stream[n + i]
    BY <1>1, <1>2, RestRead
  <1>4. PICK s \in Seq(Pairs), l \in Nat : s = stream /\ l = Len(s)
    BY TypeParts DEF TypeInv, NetOK
  <1>5. PICK r \in Seq(Pairs) : r = stream'
    BY <1>3
  <1>6. n <= l /\ Len(r) = l - n /\ \A i \in 1..(l - n) : r[i] = s[n + i]
    BY <1>3, <1>4, <1>5
  <1>7. sreq.wait /\ fd
    BY <1>2 DEF FreshInv
  <1>8. \A i, j \in 1..l : s[i][2] = 1 /\ s[j][2] = 1 => i = j
    BY <1>4, <1>7 DEF FreshInv
  <1>9. ASSUME NEW i \in 1..Len(r), r[i][2] = 1
        PROVE  n + i \in 1..l /\ s[n + i][2] = 1
    <2>1. i \in 1..(l - n) /\ n + i \in 1..l
      BY <1>3, <1>6
    <2> QED
      BY <2>1, <1>6, <1>9
  <1>10. Arriving' => Arriving
    <2> HAVE Arriving'
    <2>1. PICK i \in 1..Len(r) : r[i][2] = 1
      BY <1>5 DEF Arriving
    <2>2. n + i \in 1..l /\ s[n + i][2] = 1
      BY <2>1, <1>9
    <2> QED
      BY <2>2, <1>4 DEF Arriving
  <1>11. Received' <=> Received
    <2>1. bufRead >= PktHdr /\ bufRead \in Nat
      BY <1>2, TypeParts DEF TypeInv, EarlyInv, ReadOK
    <2>2. buffer'[1] = buffer[1]
      BY <2>1, <1>3, Sizes
    <2> QED
      BY <2>2, <1>2 DEF Received
  <1>12. Begun' <=> Begun
    BY <1>2 DEF Begun
  <1>13. ASSUME NEW i \in 1..Len(stream'), NEW j \in 1..Len(stream'),
                stream'[i][2] = 1, stream'[j][2] = 1
         PROVE  i = j
    <2>1. i \in 1..Len(r) /\ j \in 1..Len(r) /\ r[i][2] = 1 /\ r[j][2] = 1
      BY <1>5, <1>13
    <2>2. n + i \in 1..l /\ s[n + i][2] = 1 /\ n + j \in 1..l /\ s[n + j][2] = 1
      BY <2>1, <1>9
    <2>3. n + i = n + j
      BY <2>2, <1>8
    <2> QED
      BY <2>1, <2>3, <1>3
  <1> QED
    BY <1>2, <1>7, <1>10, <1>11, <1>12, <1>13 DEF FreshInv

\* LSAPI_ReadReqBody_r takes bytes off the stream.
LEMMA BodyStream ==
  ASSUME TypeInv, LSAPI_ReadReqBody_r, ~Return
  PROVE  \E w \in Nat, a \in Nat, b \in Nat :
           /\ w <= bodyLen - bodyRead
           /\ a <= bufRead - bufProcessed /\ a + b <= w
           /\ a < w => a = bufRead - bufProcessed
           /\ b \in 0..Len(stream)
           /\ given' = Cat(given, Got(a, b))
           /\ bufProcessed' = bufProcessed + a
           /\ bodyRead' = bodyRead + Len(Got(a, b))
           /\ stream' = SubSeq(stream, b + 1, Len(stream))
           /\ UNCHANGED <<buffer, bufRead, bodyLen, sreq, wire, fd, pc, out, ret, todo,
                          written, excuse>>
           /\ pc = "handle" /\ fd
  <1>1. NetOK /\ ReadOK /\ bodyRead < bodyLen
    BY TypeParts DEF TypeInv, LSAPI_ReadReqBody_r
  <1>2. PICK w \in Nat, a \in Nat, b \in Nat :
          /\ w = Least(bodyLen - bodyRead, ChunkSize) /\ w <= bodyLen - bodyRead
          /\ a = FromBuffer /\ a <= w /\ a <= bufRead - bufProcessed
          /\ a < w => a = bufRead - bufProcessed
          /\ b = Least(w - Least(a, w), Len(stream)) /\ a + b <= w
          /\ b \in 0..Len(stream)
    BY <1>1, BodyTaken
  <1>3. /\ given' = Cat(given, Got(a, b))
        /\ bufProcessed' = bufProcessed + a
        /\ bodyRead' = bodyRead + Len(Got(a, b))
        /\ stream' = SubSeq(stream, b + 1, Len(stream))
        /\ UNCHANGED <<buffer, bufRead, bodyLen, sreq, wire, fd, pc, out, ret, todo,
                       written, excuse>>
        /\ pc = "handle" /\ fd
    BY <1>2 DEF LSAPI_ReadReqBody_r, Got, Cat, writeVars
  <1> QED
    BY <1>2, <1>3

\* No step makes a request look new that is not.
LEMMA FreshStep ==
  ASSUME TypeInv, FreshInv, WireInv, [Next]_vars
  PROVE  FreshInv'
  <1> SUFFICES ASSUME fd' PROVE FreshInv'
    BY DEF FreshInv
  <1>1. CASE ServerRequest
    BY <1>1, FreshRequest
  <1>2. CASE ServerSend
    BY <1>2, FreshSend
  <1>3. CASE ServerClose \/ Signal \/ UNCHANGED vars
    BY <1>3, FreshEarly DEF ServerClose, Signal, vars, netVars, readVars
  <1>4. CASE Entry \/ Readable \/ Verify
    <2>1. /\ UNCHANGED <<sreq, stream, wire, buffer>> /\ fd' = fd
          /\ \/ pc = "entry" /\ pc' = "wait"
             \/ pc = "wait" /\ pc' = "head"
             \/ pc = "verify" /\ pc' = "rest"
      BY <1>4 DEF Entry, Readable, Verify, Refuse, lsapi_close_connection, netVars, readVars
    <2> QED
      BY <2>1, FreshEarly DEF Late
  <1>5. CASE EntryLeave \/ WaitLeave \/ ShutdownBreak \/ WritevFails
    BY <1>5 DEF EntryLeave, WaitLeave, ShutdownBreak, WritevFails, Leave,
       lsapi_close_connection
  <1>6. CASE AcceptConnection
    <2>1. /\ sreq' = [sreq EXCEPT !.sent = ReqBytes, !.wait = FALSE]
          /\ stream' = <<>> /\ wire' = <<>> /\ pc' = "wait"
      BY <1>6 DEF AcceptConnection
    <2>2. sreq \in Requests /\ ReqBytes \in Nat
      BY TypeParts, Sizes DEF TypeInv, NetOK, Requests, ReqBytes
    <2>3. sreq'.sent = ReqBytes /\ sreq'.wait = FALSE /\ sreq'.body = sreq.body
      BY <2>1, <2>2 DEF Requests
    <2>4. ReqBytes' = ReqBytes
      BY <2>3 DEF ReqBytes
    <2>5. ~Begun' /\ ~Arriving' /\ ~Received'
      BY <2>1, <2>3 DEF Begun, Arriving, Received
    <2> QED
      BY <2>1, <2>3, <2>4, <2>5 DEF FreshInv
  <1>7. CASE ReadHead
    BY <1>7, FreshHead
  <1>8. CASE ReadRest
    BY <1>8, FreshRest
  <1>9. CASE Parse
    <2>1. /\ pc = "rest" /\ pc' = "accepted" /\ Holds(ReqLen) /\ fd' = fd
          /\ UNCHANGED <<sreq, stream, buffer>>
      BY <1>9 DEF Parse, Refuse, lsapi_close_connection, WellFormed, netVars
    <2>2. buffer[1] = <<buffer[1][1], 1>>
      <3>1. 1 \in 1..ReqLen
        BY Sizes
      <3> QED
        BY <2>1, <3>1 DEF Holds
    <2>3. buffer[1][2] = 1
      BY <2>2
    <2>4. Received
      BY <2>1, <2>3 DEF Received
    <2>5. ~Begun /\ ~Arriving /\ sreq.wait
      BY <2>1, <2>4 DEF FreshInv
    <2>6. ~Begun' /\ ~Arriving' /\ ~Received' /\ sreq'.wait
      BY <2>1, <2>5 DEF Begun, Arriving, Received
    <2>7. \A i \in 1..Len(stream') : stream'[i][2] # 1
      BY <2>6 DEF Arriving
    <2> QED
      BY <2>6, <2>7 DEF FreshInv
  <1>10. ASSUME pc \in Late, UNCHANGED <<sreq, stream, fd>>, pc' \notin {"verify", "rest"}
         PROVE  FreshInv'
    <2>1. \A i \in 1..Len(stream') : \E j \in 1..Len(stream) : stream'[i] = stream[j]
      BY <1>10
    <2> QED
      BY <1>10, <2>1, FreshLate
  <1>11. CASE Loaded \/ sendHeaders \/ LSAPI_Write_r \/ WritePacket \/ WriteEnd
              \/ finishBody \/ WritevSome
    <2>1. pc \in Late /\ UNCHANGED <<sreq, stream, fd>> /\ pc' \in Late
      BY <1>11 DEF Loaded, sendHeaders, LSAPI_Write_r, WritePacket, WriteEnd, finishBody,
         WritevSome, Flush, Late, netVars
    <2> QED
      BY <2>1, <1>10 DEF Late
  <1>12. CASE LoadFails \/ Return
    <2>1. /\ pc \in Late /\ UNCHANGED <<sreq, stream, fd>>
          /\ pc' \in {"flush", "entry", "exit"}
      BY <1>12 DEF LoadFails, Return, LSAPI_Finish_r, Flush, Late, netVars
    <2> QED
      BY <2>1, <1>10
  <1>13. CASE WritevDone
    <2>1. /\ pc \in Late /\ UNCHANGED <<sreq, stream, fd>>
          /\ pc' \in {"handle", "write", "entry", "exit"}
      BY <1>13 DEF WritevDone, FlushReturns, Late, netVars
    <2> QED
      BY <2>1, <1>10
  <1>14. CASE LSAPI_ReadReqBody_r
    <2>1. CASE Return
      BY <2>1, <1>12
    <2>2. CASE ~Return
      <3>1. PICK b \in Nat : /\ b \in 0..Len(stream)
                             /\ stream' = SubSeq(stream, b + 1, Len(stream))
                             /\ UNCHANGED <<sreq, fd, pc>>
                             /\ pc = "handle" /\ fd
        BY <2>2, <1>14, BodyStream
      <3>2. PICK s \in Seq(Pairs), l \in Nat : s = stream /\ l = Len(s)
        BY TypeParts DEF TypeInv, NetOK
      <3>3. PICK r : r = SubSeq(s, b + 1, l)
        OBVIOUS
      <3>4. Len(r) = l - b /\ \A i \in 1..(l - b) : r[i] = s[b + i]
        <4>1. b \in 0..Len(s)
          BY <3>1, <3>2
        <4>2. /\ Len(SubSeq(s, b + 1, Len(s))) = Len(s) - b
              /\ \A i \in 1..(Len(s) - b) : SubSeq(s, b + 1, Len(s))[i] = s[b + i]
          BY <4>1, TakenBytes
        <4> QED
          BY <4>2, <3>2, <3>3
      <3>5. ASSUME NEW i \in 1..Len(r) PROVE \E j \in 1..l : r[i] = s[j]
        <4>1. b + i \in 1..l /\ r[i] = s[b + i]
          BY <3>1, <3>2, <3>4
        <4> QED
          BY <4>1
      <3>6. \A i \in 1..Len(stream') : \E j \in 1..Len(stream) : stream'[i] = stream[j]
        BY <3>1, <3>2, <3>3, <3>5
      <3> QED
        BY <3>1, <3>6, FreshLate DEF Late
    <2> QED
      BY <2>1, <2>2
  <1> QED
    BY <1>1, <1>2, <1>3, <1>4, <1>5, <1>6, <1>7, <1>8, <1>9, <1>11, <1>12, <1>13,
       <1>14 DEF Next, Server, Process

----------------------------------------------------------------------------
(* The response, step by step *)

\* A response that was not begun.
LEMMA FlowBegin ==
  ASSUME NEW w, Ack(w), NEW o, o = [NoResponse EXCEPT !.RESP_HEADER = TRUE]
  PROVE  Flow(w, o, 0)
  <1>1. w \in Seq(Cells) /\ Packets(w) /\ EndFree(w) /\ Bytes(w) = <<>>
    BY AckIs
  <1>2. Pending(o) = <<>> /\ o.RESP_HEADER
    BY FreshResponse
  <1>3. Full(w, o) = w
    BY <1>1, <1>2, CatEmpty DEF Full
  <1>4. o.pos = 0
    BY DEF NoResponse
  <1>5. Buf(o) = <<>>
    BY <1>4, BufEmpty
  <1>6. <<>> \in Seq(Cells) /\ Numbers(0) = <<>>
    BY DEF Numbers
  <1>7. Cat(Bytes(Full(w, o)), Buf(o)) = Numbers(0)
    BY <1>1, <1>3, <1>5, <1>6, CatEmpty
  <1> QED
    BY <1>1, <1>2, <1>3, <1>7 DEF Flow

\* Where a request is handled and nothing waits to be queued.
LEMMA FlowThere ==
  ASSUME TypeInv, WireInv, fd, pc \in {"accepted", "handle"}
  PROVE  Flow(wire, out, written) /\ AtHandle(out) /\ todo = 0 /\ written \in Nat
  <1>1. todo = 0 /\ written \in Nat
    BY TypeParts DEF TypeInv, QueueInv, RespOK
  <1>2. CASE pc = "accepted"
    <2>1. out = [NoResponse EXCEPT !.RESP_HEADER = TRUE] /\ Ack(wire) /\ written = 0
      BY <1>2 DEF TypeInv, QueueInv, WireInv
    <2>2. PICK o : o = [NoResponse EXCEPT !.RESP_HEADER = TRUE]
      OBVIOUS
    <2>3. Flow(wire, o, 0) /\ AtHandle(o)
      BY <2>1, <2>2, FlowBegin, FreshResponse
    <2> QED
      BY <1>1, <2>1, <2>2, <2>3
  <1>3. CASE pc = "handle"
    <2>1. AtHandle(out) /\ Flow(wire, out, written - todo)
      BY <1>3 DEF TypeInv, QueueInv, WireInv
    <2>2. written - todo = written
      BY <1>1
    <2> QED
      BY <1>1, <2>1, <2>2
  <1> QED
    BY <1>2, <1>3

\* LSAPI_Flush_r is entered with a flow.
LEMMA FlowFlush ==
  ASSUME NEW w, NEW o, AtHandle(o), NEW n, Flow(w, o, n),
         NEW q, q = FlushBuf(LSAPI_FinalizeRespHeaders_r(o))
  PROVE  Flow(w, q, n)
  <1>1. PICK p : p = LSAPI_FinalizeRespHeaders_r(o)
    OBVIOUS
  <1>2. AtHandle(p) /\ ~p.RESP_HEADER /\ Flow(w, p, n)
    BY <1>1, Finalized, FlowHeader
  <1>3. PICK r : r = FlushBuf(p)
    OBVIOUS
  <1>4. Flow(w, r, n)
    BY <1>2, <1>3, FlowBuf
  <1> QED
    BY <1>1, <1>3, <1>4

\* LSAPI_Finish_r.
LEMMA WireFinish ==
  ASSUME TypeInv, WireInv, fd, pc \in {"accepted", "handle"}, LSAPI_Finish_r
  PROVE  WireInv'
  <1>1. Flow(wire, out, written) /\ AtHandle(out)
    BY FlowThere
  <1>2. PICK q : q = FlushBuf(LSAPI_FinalizeRespHeaders_r(out))
    OBVIOUS
  <1>3. /\ Good(q) /\ ~q.RESP_HEADER /\ q.pos = 0 /\ q.cur \in 0..4
        /\ Flow(wire, q, written)
    BY <1>1, <1>2, FlushFromHandle, FlowFlush
  <1>4. PICK r : r = Count(Put(q, "end", 0, PktHdr), PktHdr)
    OBVIOUS
  <1>5. q \in Responses /\ WithinBounds(q) /\ q.cur + 1 <= IovecSize
    BY <1>3, Sizes DEF Good
  <1>6. /\ \E hd : Adds(q, r, "end", hd, <<>>) /\ Len(hd) = PktHdr
        /\ Rest(q, r)
    BY <1>4, <1>5, EndQueued
  <1>7. PICK hd : Adds(q, r, "end", hd, <<>>) /\ Len(hd) = PktHdr
    BY <1>6
  <1>8. Ended(wire, r, written)
    BY <1>3, <1>5, <1>7, FlowEnd
  <1>9. ~r.RESP_HEADER /\ r.pos = 0
    BY <1>3, <1>6 DEF Rest
  <1>10. FlushBuf(LSAPI_FinalizeRespHeaders_r(r)) = r
    BY <1>9, FlushedTwice
  <1>11. /\ out' = r /\ ret' = "finish" /\ pc' = "flush" /\ wire' = wire
         /\ written' = written
    BY <1>2, <1>4, <1>10 DEF LSAPI_Finish_r, Flush, taskVars
  <1> QED
    BY <1>8, <1>11 DEF WireInv

\* sendHeaders.
LEMMA WireHeaders ==
  ASSUME TypeInv, WireInv, fd, sendHeaders
  PROVE  WireInv'
  <1>1. /\ pc = "handle" /\ UNCHANGED <<todo, written, wire, pc, fd, ret>>
    BY DEF sendHeaders, writeVars
  <1>2. Flow(wire, out, written) /\ AtHandle(out) /\ todo = 0 /\ written \in Nat
    BY <1>1, FlowThere
  <1>3. PICK k \in 0..(MaxHeaders - out.cnt) :
          LET appended == [out EXCEPT !.cnt = @ + k, !.names = @ + k] IN
          out' = LSAPI_FinalizeRespHeaders_r(appended) \/ out' = appended
    BY DEF sendHeaders
  <1>4. PICK x \in Nat, y \in Nat : x = out.cnt + k /\ y = out.names + k
    <2>1. out.cnt \in Nat /\ out.names \in Nat
      BY <1>2 DEF AtHandle, Good, Responses
    <2>2. MaxHeaders \in Nat
      BY LsapiAssumption
    <2>3. k \in Nat
      BY <2>1, <2>2
    <2> QED
      BY <2>1, <2>3
  <1>5. PICK q : Appended(out, q, x, y)
    BY DEF Appended
  <1>6. /\ AtHandle(q) /\ Pending(q) = Pending(out)
        /\ q.RESP_HEADER = out.RESP_HEADER /\ q.pos = out.pos /\ q.mem = out.mem
    BY <1>2, <1>5, HeadersAppended
  <1>7. q = [out EXCEPT !.cnt = @ + k, !.names = @ + k]
    BY <1>2, <1>4, <1>5 DEF Appended, AtHandle, Good, Responses
  <1>8. out' = LSAPI_FinalizeRespHeaders_r(q) \/ out' = q
    BY <1>3, <1>7
  <1>9. Flow(wire, q, written)
    <2>1. Full(wire, q) = Full(wire, out) /\ wire \in Seq(Cells)
      BY <1>2, <1>6 DEF Full, Flow
    <2> QED
      BY <2>1, <1>2, <1>6, FlowSame
  <1>10. Flow(wire, out', written)
    BY <1>6, <1>8, <1>9, FlowHeader
  <1>11. written' - todo' = written
    BY <1>1, <1>2
  <1>12. Packets(wire)
    BY <1>1 DEF WireInv
  <1> QED
    BY <1>1, <1>10, <1>11, <1>12 DEF WireInv

\* LSAPI_Write_r.
LEMMA WireWrite ==
  ASSUME TypeInv, WireInv, LSAPI_Write_r
  PROVE  WireInv'
  <1>1. pc = "handle" /\ fd /\ UNCHANGED <<wire, fd, ret>>
    BY DEF LSAPI_Write_r
  <1>2. Flow(wire, out, written) /\ AtHandle(out) /\ todo = 0 /\ written \in Nat
    BY <1>1, FlowThere
  <1>3. PICK len \in 1..(ResponseBound - written) :
          LET o == [LSAPI_FinalizeRespHeaders_r(out) EXCEPT !.RESP_BODY = TRUE]
              bytes == [k \in 1..len |-> written + k]
          IN
          /\ written' = written + len
          /\ \/ /\ Fits(len)
                /\ out' = [o EXCEPT !.mem = Store(o.mem, o.pos, bytes), !.pos = @ + len]
                /\ UNCHANGED <<pc, todo, slot>>
             \/ /\ ~Fits(len)
                /\ out' = o
                /\ pc' = "write"
                /\ todo' = len /\ slot' = 0
    BY DEF LSAPI_Write_r
  <1>4. PICK w \in Nat : w = written
    BY <1>2
  <1>5. len \in Nat
    <2>1. ResponseBound \in Nat
      BY LsapiAssumption DEF ResponseBound
    <2> QED
      BY <2>1, <1>4
  <1>6. PICK p : p = LSAPI_FinalizeRespHeaders_r(out)
    OBVIOUS
  <1>7. AtHandle(p) /\ ~p.RESP_HEADER /\ p.pos = out.pos /\ Flow(wire, p, w)
    BY <1>2, <1>4, <1>6, Finalized, FlowHeader
  <1>8. PICK o : Marked(p, o)
    BY DEF Marked
  <1>9. /\ AtHandle(o) /\ Pending(o) = Pending(p)
        /\ o.RESP_HEADER = p.RESP_HEADER /\ o.pos = p.pos /\ o.mem = p.mem
    BY <1>7, <1>8, BodyMarked
  <1>10. Flow(wire, o, w)
    <2>1. Full(wire, o) = Full(wire, p) /\ wire \in Seq(Cells)
      BY <1>7, <1>9 DEF Full, Flow
    <2> QED
      BY <2>1, <1>7, <1>9, FlowSame
  <1>11. PICK b : b = [k \in 1..len |-> w + k]
    OBVIOUS
  <1>12. b \in Seq(Nat) /\ Len(b) = len /\ \A i \in 1..len : b[i] = w + i
    BY <1>5, <1>11, DataBytes
  <1>13. Packets(wire)
    BY <1>1 DEF WireInv
  <1>14. CASE Fits(len)
    <2>1. out' = [o EXCEPT !.mem = Store(o.mem, o.pos, b), !.pos = @ + len]
          /\ UNCHANGED <<pc, todo, slot>> /\ written' = w + len
      BY <1>3, <1>4, <1>6, <1>8, <1>11, <1>14 DEF Marked
    <2>2. Buffers(o, out', b)
      BY <2>1, <1>12 DEF Buffers
    <2>3. o.pos + Len(b) < RespBufSize
      <3>1. PICK m \in Nat : m = out.pos
        BY <1>2 DEF AtHandle, Good, Responses
      <3>2. len < RespBufSize - m
        BY <3>1, <1>14 DEF Fits
      <3> QED
        BY <3>1, <3>2, <1>5, <1>7, <1>9, <1>12, Sizes
    <2>4. PICK q : q = out'
      OBVIOUS
    <2>5. /\ AtHandle(q) /\ ~q.RESP_HEADER /\ Pending(q) = Pending(o)
          /\ q.pos = o.pos + Len(b)
          /\ \A i \in 1..o.pos : q.mem[i] = o.mem[i]
          /\ \A i \in 1..Len(b) : q.mem[o.pos + i] = b[i]
      <3>1. Buffers(o, q, b) /\ AtHandle(o) /\ b \in Seq(Nat) /\ ~o.RESP_HEADER
        BY <2>2, <2>4, <1>7, <1>9, <1>12
      <3> QED
        BY <3>1, <2>3, BytesBuffered, ZenonT(30)
    <2>6. Flow(wire, q, w + len)
      <3>1. /\ o \in Responses /\ WithinBounds(o) /\ ~o.RESP_HEADER
            /\ q \in Responses /\ WithinBounds(q)
        BY <2>5, <1>7, <1>9 DEF AtHandle, Good
      <3>2. q.pos = o.pos + len /\ \A i \in 1..len : q.mem[o.pos + i] = b[i]
        BY <2>5, <1>12
      <3> QED
        BY <3>1, <3>2, <2>5, <1>5, <1>10, <1>12, FlowBuffered
    <2>7. written' - todo' = w + len
      BY <2>1, <1>2, <1>5
    <2> QED
      BY <2>1, <2>4, <2>6, <2>7, <1>1, <1>13 DEF WireInv
  <1>15. CASE ~Fits(len)
    <2>1. out' = o /\ pc' = "write" /\ todo' = len /\ written' = w + len
      BY <1>3, <1>4, <1>6, <1>8, <1>15 DEF Marked
    <2>2. written' - todo' = w
      BY <2>1, <1>5
    <2> QED
      BY <2>1, <2>2, <1>1, <1>10, <1>13 DEF WireInv
  <1> QED
    BY <1>14, <1>15

\* A packet of it.
LEMMA WirePacket ==
  ASSUME TypeInv, WireInv, WritePacket
  PROVE  WireInv'
  <1>1. /\ pc = "write" /\ todo > 0 /\ fd /\ UNCHANGED <<written, wire, fd>>
        /\ AtWrite(out, slot, todo) /\ RespOK
    BY TypeParts DEF TypeInv, QueueInv, WritePacket, taskVars
  <1>2. PICK s \in Nat, t \in Nat, z \in Nat : s = slot /\ t = todo /\ z = written
    BY <1>1 DEF RespOK
  <1>3. /\ s \in 0..(PktHeaders - 1) /\ t \in 1..z /\ s <= PktHeaders - 2
    BY <1>1, <1>2, Sizes DEF RespOK, AtWrite
  <1>4. PICK c \in Nat, m \in Nat : c = out.cur /\ m = out.pos
    BY <1>1 DEF RespOK, Responses
  <1>5. /\ Good(out) /\ ~out.RESP_HEADER /\ m < RespBufSize
        /\ (s = 0 => c <= 2) /\ (s > 0 => c <= 3 + 2 * s)
        /\ (m > 0 => s = 0) /\ HeadersBelow(out, slot)
    BY <1>1, <1>2, <1>4 DEF AtWrite, AtHandle
  <1>6. /\ m > 0 => c + 3 <= IovecSize
        /\ ~(m > 0) => c + 2 <= IovecSize
    <2>1. CASE m > 0
      BY <2>1, <1>3, <1>5, Sizes
    <2>2. CASE ~(m > 0)
      BY <2>2, <1>3, <1>5, Sizes
    <2> QED
      BY <2>1, <2>2
  <1>7. PICK q : Queues(out, q)
    BY DEF Queues
  <1>8. /\ out \in Responses /\ WithinBounds(out) /\ out.pos < RespBufSize
        /\ HeadersBelow(out, slot)
        /\ IF out.pos > 0 THEN out.cur + 3 <= IovecSize ELSE out.cur + 2 <= IovecSize
        /\ slot \in 0..(PktHeaders - 1) /\ written \in Nat /\ todo \in 1..written
    BY <1>2, <1>3, <1>4, <1>5, <1>6 DEF Good
  <1>9. /\ \E hd, tl : /\ Adds(out, q, "stream", hd, tl)
                       /\ PacketData(out, written - todo, tl)
                       /\ Len(hd) = PktHdr /\ Len(tl) = PacketLen(out)
        /\ q.pos = 0 /\ q.RESP_HEADER = out.RESP_HEADER
    BY <1>7, <1>8, PacketQueued
  <1>10. PICK p \in Nat : p = PacketLen(out) /\ p > m /\ p - m <= t /\ p <= MaxPacket
    <2>1. todo \in Nat /\ todo > 0
      BY <1>2, <1>3
    <2>2. PICK mm \in Nat, p \in Nat :
            /\ mm = out.pos /\ p = PacketLen(out) /\ p > mm /\ p - mm <= todo
            /\ p <= MaxPacket
      BY <2>1, <1>8, PacketSize
    <2> QED
      BY <2>2, <1>2, <1>4
  <1>11. PICK x \in Nat, d \in Nat : x = z - t /\ d = p - m
    <2>1. z - t \in Nat /\ p - m \in Nat
      BY <1>3, <1>10
    <2> QED
      BY <2>1
  <1>12. PICK hd, tl : /\ Adds(out, q, "stream", hd, tl)
                       /\ PacketData(out, written - todo, tl)
                       /\ Len(hd) = PktHdr /\ Len(tl) = PacketLen(out)
    BY <1>9
  <1>13. Flow(wire, q, x + d)
    <2>1. /\ Len(tl) = out.pos + d /\ out.pos + d <= MaxPacket
          /\ PacketData(out, x, tl) /\ Flow(wire, out, x)
      BY <1>1, <1>2, <1>4, <1>10, <1>11, <1>12 DEF WireInv
    <2> QED
      BY <2>1, <1>5, <1>8, <1>9, <1>12, FlowPacket
  <1>14. written' - todo' = x + d
    <2>1. todo' = t - (p - m) /\ written' = z
      BY <1>1, <1>2, <1>4, <1>10 DEF WritePacket
    <2> QED
      BY <2>1, <1>3, <1>10, <1>11
  <1>15. CASE LastHeader
    <2>1. FlushBuf(LSAPI_FinalizeRespHeaders_r(q)) = q
      BY <1>5, <1>9, FlushedTwice
    <2>2. out' = q /\ ret' = "packet" /\ pc' = "flush"
      BY <2>1, <1>7, <1>15 DEF WritePacket, Flush, Queues
    <2> QED
      BY <2>2, <1>1, <1>13, <1>14 DEF WireInv
  <1>16. CASE ~LastHeader
    <2>1. out' = q /\ pc' = "write"
      BY <1>1, <1>7, <1>16 DEF WritePacket, Queues
    <2>2. Packets(wire)
      BY <1>1 DEF WireInv
    <2> QED
      BY <2>1, <2>2, <1>1, <1>13, <1>14 DEF WireInv
  <1> QED
    BY <1>15, <1>16

----------------------------------------------------------------------------
(* Flushing, and the theorems about the response *)

\* Nothing is a sequence of packets.
LEMMA NothingPackets == Packets(<<>>) /\ Ack(<<>>)
  <1>1. Ack(<<>>)
    BY DEF Ack
  <1> QED
    BY <1>1, AckIs

\* A step that leaves the response side alone.
LEMMA WireSame ==
  ASSUME WireInv, UNCHANGED <<wire, out, written, todo, ret, fd, pc>>
  PROVE  WireInv'
  BY DEF WireInv

\* The end of LSAPI_Write_r.
LEMMA WireWriteEnd ==
  ASSUME TypeInv, WireInv, WriteEnd
  PROVE  WireInv'
  <1>1. /\ pc = "write" /\ todo = 0 /\ fd /\ UNCHANGED <<written, wire, fd, todo>>
        /\ AtWrite(out, slot, todo)
    BY DEF TypeInv, QueueInv, WriteEnd, taskVars
  <1>2. Packets(wire) /\ Flow(wire, out, written - todo)
    BY <1>1 DEF WireInv
  <1>3. out' = out
    <2>1. ~out.RESP_HEADER /\ out.pos = 0
      <3>1. ~out.RESP_HEADER /\ (out.pos > 0 => todo > 0) /\ out.pos \in Nat
        BY <1>1 DEF AtWrite, Good, Responses
      <3> QED
        BY <3>1, <1>1
    <2>2. FlushBuf(LSAPI_FinalizeRespHeaders_r(out)) = out
      BY <2>1, FlushedTwice
    <2> QED
      BY <2>2 DEF WriteEnd, Flush
  <1>4. pc' = "handle" \/ (pc' = "flush" /\ ret' = "write")
    BY DEF WriteEnd, Flush
  <1> QED
    BY <1>1, <1>2, <1>3, <1>4 DEF WireInv

\* finishBody.
LEMMA WireBody ==
  ASSUME TypeInv, WireInv, finishBody
  PROVE  WireInv'
  <1>1. pc = "handle" /\ fd /\ UNCHANGED <<written, wire, fd, todo>>
    BY DEF finishBody
  <1>2. Flow(wire, out, written) /\ AtHandle(out) /\ todo = 0 /\ written \in Nat
    BY <1>1, FlowThere
  <1>3. CASE out' = out /\ pc' = pc
    BY <1>1, <1>3 DEF WireInv
  <1>4. CASE Flush(out, "body")
    <2>1. PICK q : q = FlushBuf(LSAPI_FinalizeRespHeaders_r(out))
      OBVIOUS
    <2>2. Flow(wire, q, written)
      BY <1>2, <2>1, FlowFlush
    <2>3. out' = q /\ pc' = "flush" /\ ret' = "body"
      BY <2>1, <1>4 DEF Flush
    <2>4. written' - todo' = written
      BY <1>1, <1>2
    <2> QED
      BY <2>2, <2>3, <2>4, <1>1 DEF WireInv
  <1> QED
    BY <1>3, <1>4 DEF finishBody

\* Taking n bytes off the vector and putting them on the wire.
LEMMA FullMoved ==
  ASSUME NEW w \in Seq(Cells), NEW o \in Responses, WithinBounds(o),
         NEW q \in Responses, WithinBounds(q),
         NEW n \in Nat, n < Len(Pending(o)),
         Pending(o) = Cat(SubSeq(Pending(o), 1, n), Pending(q)),
         NEW v, v = Cat(w, SubSeq(Pending(o), 1, n))
  PROVE  v \in Seq(Cells) /\ Full(v, q) = Full(w, o)
  <1>1. PICK p \in Seq(Cells) : p = Pending(o)
    BY PendingIs
  <1>2. PICK r \in Seq(Cells) : r = Pending(q)
    BY PendingIs
  <1>3. n \in 0..Len(p)
    BY <1>1
  <1>4. PICK t \in Seq(Cells) : t = SubSeq(p, 1, n)
    BY <1>3, CutSeq
  <1>5. v = Cat(w, t) /\ p = Cat(t, r)
    BY <1>1, <1>2, <1>4
  <1>6. v \in Seq(Cells) /\ Cat(v, r) = Cat(w, p)
    BY <1>5, CatType, CatAssoc
  <1> QED
    BY <1>1, <1>2, <1>6 DEF Full

\* A part of the vector is written.
LEMMA WireSome ==
  ASSUME TypeInv, WireInv, WritevSome
  PROVE  WireInv'
  <1>1. /\ pc = "flush" /\ fd /\ pc' = pc
        /\ UNCHANGED <<written, fd, todo, ret>> /\ AtFlush(out, ret, left, todo)
        /\ wire \in Seq(Cells) /\ out \in Responses /\ WithinBounds(out)
    BY TypeParts DEF TypeInv, QueueInv, WritevSome, taskVars, RespOK
  <1>2. RespOK' /\ QueueInv'
    BY WritevSomeStep
  <1>3. PICK n \in Nat : /\ n < Len(Pending(out))
                         /\ wire' = wire \o SubSeq(Pending(out), 1, n)
                         /\ Pending(out) = SubSeq(Pending(out), 1, n) \o Pending(out')
    BY WritevSomeStep
  <1>4. PICK q : q = out'
    OBVIOUS
  <1>5. /\ q \in Responses /\ WithinBounds(q) /\ ~q.RESP_HEADER /\ q.pos = 0
        /\ ~out.RESP_HEADER /\ out.pos = 0
    <2>1. out' \in Responses /\ WithinBounds(out')
      BY <1>2 DEF RespOK, WithinBounds
    <2>2. ~out'.RESP_HEADER /\ out'.pos = 0
      BY <1>1, <1>2 DEF QueueInv, AtFlush
    <2>3. ~out.RESP_HEADER /\ out.pos = 0
      BY <1>1 DEF AtFlush
    <2> QED
      BY <2>1, <2>2, <2>3, <1>4
  <1>6. PICK v : v = Cat(wire, SubSeq(Pending(out), 1, n))
    OBVIOUS
  <1>7. /\ wire' = v /\ Pending(out) = Cat(SubSeq(Pending(out), 1, n), Pending(q))
    BY <1>3, <1>4, <1>6 DEF Cat
  <1>8. v \in Seq(Cells) /\ Full(v, q) = Full(wire, out)
    BY <1>1, <1>3, <1>5, <1>6, <1>7, FullMoved
  <1>9. CASE ret = "finish"
    <2>1. Ended(wire, out, written)
      BY <1>1, <1>9 DEF WireInv
    <2>2. Ended(v, q, written)
      BY <2>1, <1>8 DEF Ended
    <2> QED
      BY <2>2, <1>1, <1>4, <1>7, <1>9 DEF WireInv
  <1>10. CASE ret # "finish"
    <2>1. Flow(wire, out, written - todo)
      BY <1>1, <1>10 DEF WireInv
    <2>2. PICK n0 : n0 = written - todo
      OBVIOUS
    <2>3. Flow(wire, out, n0)
      BY <2>1, <2>2
    <2>4. q.mem = out.mem /\ q.RESP_HEADER = out.RESP_HEADER /\ q.pos = out.pos
      BY <1>4 DEF WritevSome, Advance
    <2>5. Flow(v, q, n0)
      BY <2>3, <2>4, <1>8, FlowSame, Zenon
    <2> QED
      BY <2>2, <2>5, <1>1, <1>4, <1>7, <1>10 DEF WireInv
  <1> QED
    BY <1>9, <1>10

\* The rest of the vector is written.
LEMMA WireDone ==
  ASSUME TypeInv, WireInv, WritevDone
  PROVE  WireInv'
  <1>1. /\ pc = "flush" /\ fd /\ wire' = Full(wire, out)
        /\ UNCHANGED <<written, fd, ret>> /\ AtFlush(out, ret, left, todo)
        /\ wire \in Seq(Cells) /\ out \in Responses /\ WithinBounds(out)
    BY TypeParts DEF TypeInv, QueueInv, WritevDone, FlushReturns, RespOK, Full, Cat
  <1>2. PICK v : v = Full(wire, out)
    OBVIOUS
  <1>3. v \in Seq(Cells)
    BY <1>1, <1>2, FullIs
  <1>4. CASE ret = "finish"
    <2>1. Packets(v) /\ Bytes(v) = Numbers(written)
      BY <1>1, <1>2, <1>4 DEF WireInv, Ended
    <2>2. pc' \in {"exit", "entry"}
      BY <1>4 DEF WritevDone, FlushReturns
    <2> QED
      BY <2>1, <2>2, <1>1, <1>2 DEF WireInv
  <1>5. CASE ret # "finish"
    <2>1. Flow(wire, out, written - todo)
      BY <1>1, <1>5 DEF WireInv
    <2>2. PICK n0 : n0 = written - todo
      OBVIOUS
    <2>3. PICK q : q = Flushed(out)
      OBVIOUS
    <2>4. ~out.RESP_HEADER /\ out.pos = 0
      BY <1>1 DEF AtFlush
    <2>5. Pending(q) = <<>> /\ ~q.RESP_HEADER /\ q.pos = 0
      BY <2>3, <2>4, <1>1, ResetVector
    <2>6. q.mem = out.mem /\ q.RESP_HEADER = out.RESP_HEADER /\ q.pos = out.pos
      BY <2>3 DEF Flushed
    <2>7. Full(v, q) = Full(wire, out)
      BY <2>5, <1>2, <1>3, CatEmpty DEF Full
    <2>8. Flow(v, q, n0)
      <3>1. Flow(wire, out, n0)
        BY <2>1, <2>2
      <3> QED
        BY <3>1, <2>6, <2>7, <1>3, FlowSame, Zenon
    <2>9. out' = q /\ todo' = todo /\ pc' \in {"handle", "write"}
      BY <2>3, <1>5 DEF WritevDone, FlushReturns
    <2>10. Packets(v)
      BY <2>1, <1>2 DEF Flow
    <2> QED
      BY <2>2, <2>8, <2>9, <2>10, <1>1, <1>2 DEF WireInv
  <1> QED
    BY <1>4, <1>5

\* The request is parsed.
LEMMA WireParse ==
  ASSUME TypeInv, FreshInv, WireInv, Parse
  PROVE  WireInv'
  <1> SUFFICES ASSUME fd' PROVE WireInv'
    BY DEF WireInv
  <1>1. /\ pc = "rest" /\ WellFormed /\ fd /\ pc' = "accepted" /\ written' = 0
        /\ wire' = IF notified THEN wire
                   ELSE wire \o PacketHeader("ack", PktHdr, PktHdr)
    BY DEF Parse, Refuse, lsapi_close_connection
  <1>2. buffer[1][2] = 1
    <2>1. 1 \in 1..ReqLen
      BY Sizes
    <2>2. buffer[1] = <<buffer[1][1], 1>>
      BY <2>1, <1>1 DEF WellFormed, Holds
    <2> QED
      BY <2>2
  <1>3. wire = <<>>
    BY <1>1, <1>2 DEF FreshInv, Received
  <1>4. PICK h : h = PacketHeader("ack", PktHdr, PktHdr)
    OBVIOUS
  <1>5. h \in Seq(Cells)
    BY <1>4, HeaderCells, Sizes
  <1>6. Cat(<<>>, h) = h
    BY <1>5, CatEmpty
  <1>7. wire' = <<>> \/ wire' = h
    BY <1>1, <1>3, <1>4, <1>6 DEF Cat
  <1>8. Ack(wire')
    BY <1>4, <1>7 DEF Ack
  <1> QED
    BY <1>1, <1>8 DEF WireInv

\* The module is loaded.
LEMMA WireLoaded ==
  ASSUME TypeInv, WireInv, Loaded
  PROVE  WireInv'
  <1> SUFFICES ASSUME fd' PROVE WireInv'
    BY DEF WireInv
  <1>1. /\ pc = "accepted" /\ fd /\ pc' = "handle"
        /\ UNCHANGED <<wire, out, written, todo>>
    BY DEF Loaded, writeVars, taskVars
  <1>2. Flow(wire, out, written) /\ todo = 0 /\ written \in Nat
    BY <1>1, FlowThere
  <1>3. Packets(wire)
    BY <1>1, AckIs DEF WireInv
  <1>4. written' - todo' = written
    BY <1>1, <1>2
  <1> QED
    BY <1>1, <1>2, <1>3, <1>4 DEF WireInv

\* A new request.
LEMMA WireRequest ==
  ASSUME TypeInv, FreshInv, WireInv, ServerRequest
  PROVE  WireInv'
  <1>1. fd /\ (sreq.wait => Answered) /\ wire' = <<>> /\ UNCHANGED <<pc, fd>>
    BY DEF ServerRequest
  <1>2. pc \notin Late
    <2>1. CASE sreq.wait
      BY <1>1, <2>1, NotAnswered
    <2>2. CASE ~sreq.wait
      BY <1>1, <2>2 DEF FreshInv, Late
    <2> QED
      BY <2>1, <2>2
  <1> QED
    BY <1>1, <1>2, NothingPackets DEF WireInv, Late

\* Every step keeps the response a response.
LEMMA WireStep ==
  ASSUME TypeInv, FreshInv, WireInv, [Next]_vars
  PROVE  WireInv'
  <1> SUFFICES ASSUME fd' PROVE WireInv'
    BY DEF WireInv
  <1>1. CASE UNCHANGED vars
    BY <1>1, WireSame DEF vars, writeVars, taskVars
  <1>2. CASE Signal
    BY <1>2, WireSame DEF Signal, writeVars, taskVars
  <1>3. CASE Server
    <2>1. CASE ServerRequest
      BY <2>1, WireRequest
    <2>2. CASE ServerSend \/ ServerClose
      BY <2>2, WireSame DEF ServerSend, ServerClose, writeVars, taskVars
    <2> QED
      BY <2>1, <2>2, <1>3 DEF Server
  <1>4. CASE Entry \/ EntryLeave \/ AcceptConnection \/ Readable \/ WaitLeave
    <2>1. CASE EntryLeave \/ WaitLeave
      BY <2>1 DEF EntryLeave, WaitLeave, Leave, lsapi_close_connection
    <2>2. CASE Entry
      BY <2>2 DEF Entry, lsapi_close_connection, WireInv, taskVars
    <2>3. CASE AcceptConnection
      BY <2>3, NothingPackets DEF AcceptConnection, WireInv
    <2>4. CASE Readable
      BY <2>4 DEF Readable, WireInv
    <2> QED
      BY <2>1, <2>2, <2>3, <2>4, <1>4
  <1>5. CASE ReadHead \/ Verify \/ ReadRest \/ Parse
    <2>1. CASE Parse
      BY <2>1, WireParse
    <2>2. CASE ReadHead \/ Verify \/ ReadRest
      <3>1. pc' \in {"head", "verify", "rest"}
        BY <2>2 DEF ReadHead, Verify, ReadRest, Refuse, lsapi_close_connection
      <3> QED
        BY <3>1 DEF WireInv
    <2> QED
      BY <2>1, <2>2, <1>5
  <1>6. CASE ShutdownBreak
    BY <1>6 DEF ShutdownBreak, Leave, lsapi_close_connection
  <1>7. CASE Loaded
    BY <1>7, WireLoaded
  <1>8. CASE LoadFails \/ Return
    <2>1. LSAPI_Finish_r /\ pc \in {"accepted", "handle"}
      BY <1>8 DEF LoadFails, Return
    <2>2. fd
      BY <2>1 DEF LSAPI_Finish_r
    <2> QED
      BY <2>1, <2>2, WireFinish
  <1>9. CASE LSAPI_ReadReqBody_r /\ ~Return
    <2>1. UNCHANGED <<wire, out, written, todo, ret, fd, pc>>
      BY <1>9, BodyStream
    <2> QED
      BY <2>1, WireSame
  <1>10. CASE sendHeaders
    BY <1>10, WireHeaders DEF sendHeaders
  <1>11. CASE LSAPI_Write_r \/ WritePacket \/ WriteEnd \/ finishBody
    BY <1>11, WireWrite, WirePacket, WireWriteEnd, WireBody
  <1>12. CASE WritevDone \/ WritevSome
    BY <1>12, WireDone, WireSome
  <1>13. CASE WritevFails
    BY <1>13 DEF WritevFails, lsapi_close_connection
  <1> QED
    BY <1>1, <1>2, <1>3, <1>4, <1>5, <1>6, <1>7, <1>8, <1>9, <1>10, <1>11, <1>12,
       <1>13 DEF Next, Process

\* There is no response at the beginning.
LEMMA WireInit ==
  ASSUME Init
  PROVE  FreshInv /\ WireInv
  <1>1. /\ wire = <<>> /\ stream = <<>> /\ pc \in {"wait", "entry"}
        /\ (fd => pc = "wait") /\ ~sreq.wait /\ sreq.sent = ReqLen /\ sreq.body = 0
    BY DEF Init
  <1>2. ReqBytes = ReqLen
    BY <1>1, Sizes DEF ReqBytes
  <1>3. ~Begun /\ ~Arriving /\ ~Received
    BY <1>1 DEF Begun, Arriving, Received
  <1>4. FreshInv
    BY <1>1, <1>2, <1>3 DEF FreshInv
  <1>5. WireInv
    BY <1>1, NothingPackets DEF WireInv
  <1> QED
    BY <1>4, <1>5

\* The three invariants hold together: a new request is only seen when there is
\* nothing on the wire, and that rests on the packets that were written.
THEOREM WireInvariant == SafeSpec => [](TypeInv /\ FreshInv /\ WireInv)
  <1>1. Init => TypeInv /\ FreshInv /\ WireInv
    BY TypeInit, WireInit
  <1>2. TypeInv /\ FreshInv /\ WireInv /\ [Next]_vars => (TypeInv /\ FreshInv /\ WireInv)'
    BY TypeStep, FreshStep, WireStep
  <1> QED
    BY <1>1, <1>2, PTL DEF SafeSpec

\* What the web server reads is always a sequence of packets, each as long as it
\* announces, in the order of the protocol, and a response that has ended is whole
\* (LSAPI_Flush_r, LSAPI_Finish_r), for every size of the buffers, the packets and
\* the iovec.
THEOREM FramedCorrect == SafeSpec => []Framed
  <1>1. TypeInv /\ WireInv => Framed
    <2> SUFFICES ASSUME TypeInv, WireInv, fd, pc \in {"entry", "wait", "handle", "write"}
                 PROVE  /\ Packets(wire)
                        /\ pc \in {"entry", "wait"} /\ Answered =>
                             Bytes(wire) = Numbers(written)
      BY DEF Framed
    <2>1. Packets(wire)
      BY DEF WireInv
    <2>2. ASSUME pc \in {"entry", "wait"}, Answered
          PROVE  Bytes(wire) = Numbers(written)
      <3>1. wire # <<>>
        BY <2>2, NothingAnswered
      <3> QED
        BY <3>1, <2>2 DEF WireInv
    <2> QED
      BY <2>1, <2>2
  <1> QED
    BY <1>1, WireInvariant, PTL

\* No response byte is lost, doubled or misplaced between LSAPI_Write_r and the
\* wire, wherever writev() stops and however the buffer, the packet headers and the
\* iovec fill up.
THEOREM ResponseCorrect == SafeSpec => []ResponseInOrder
  <1>1. TypeInv /\ WireInv => ResponseInOrder
    <2> SUFFICES ASSUME TypeInv, WireInv, fd, pc \in {"handle", "write", "flush"}
                 PROVE  Cat(Bytes(Full(wire, out)), Buf(out)) = Numbers(written - todo)
      BY DEF ResponseInOrder, Full, Cat, Buf
    <2>1. CASE pc # "flush" \/ ret # "finish"
      BY <2>1 DEF WireInv, Flow
    <2>2. CASE pc = "flush" /\ ret = "finish"
      <3>1. Bytes(Full(wire, out)) = Numbers(written)
        BY <2>2 DEF WireInv, Ended
      <3>2. out.pos = 0 /\ todo = 0 /\ written \in Nat
        BY <2>2, TypeParts DEF TypeInv, QueueInv, AtFlush, RespOK
      <3>3. Buf(out) = <<>> /\ written - todo = written /\ Numbers(written) \in Seq(Cells)
        BY <3>2, BufEmpty, NumbersIs
      <3> QED
        BY <3>1, <3>3, CatEmpty
    <2> QED
      BY <2>1, <2>2
  <1> QED
    BY <1>1, WireInvariant, PTL

----------------------------------------------------------------------------
(* Both ends at the same byte *)

\* The stream is what the web server has sent of its request after byte n, and
\* the first n bytes of the buffer are those of its request.
Coming(n) ==
  /\ Len(stream) = sreq.sent - n
  /\ \A i \in 1..Len(stream) : stream[i] = <<sreq.num, n + i>>
Kept(n) == \A i \in 1..n : buffer[i] = <<sreq.num, i>>

\* Where the two sides are between two requests, in a request packet, and in a
\* body; and what the filter was given.
Between == bufRead = 0 /\ (Coming(0) \/ (stream = <<>> /\ sreq.sent = ReqBytes))
InPacket == bufRead <= sreq.sent /\ Kept(bufRead) /\ Coming(bufRead)
InBody ==
  /\ bodyLen = sreq.body /\ Kept(bufRead)
  /\ bodyRead >= bufProcessed - ReqLen
  /\ bodyRead > bufProcessed - ReqLen => bufProcessed = bufRead
  /\ bufRead + (bodyRead - (bufProcessed - ReqLen)) <= sreq.sent
  /\ Coming(bufRead + (bodyRead - (bufProcessed - ReqLen)))
Gave ==
  Len(given) = bodyRead /\ \A i \in 1..Len(given) : given[i] = <<sreq.num, ReqLen + i>>

\* On a connection in step both are at the same byte.
StepInv ==
  /\ pc \in {"head", "verify", "rest"} => fd
  /\ excuse = {} =>
       /\ fd /\ pc \in {"entry", "wait", "head"} => Between
       /\ pc \in {"verify", "rest"} => InPacket
       /\ fd /\ pc \in Late => InBody
       /\ pc \in Late => Gave
       /\ fd /\ pc = "flush" /\ ret = "finish" => bodyRead >= bodyLen

\* The first b bytes of the stream are read.
LEMMA ComingRead ==
  ASSUME NetOK, NEW c \in Nat, c <= sreq.sent, Coming(c), NEW b \in 0..Len(stream),
         stream' = SubSeq(stream, b + 1, Len(stream)), sreq' = sreq
  PROVE  Coming(c + b)' /\ c + b <= sreq.sent
         /\ \A i \in 1..b : stream[i] = <<sreq.num, c + i>>
  <1>1. PICK s \in Seq(Pairs), l \in Nat, a \in Nat, e \in Nat :
          s = stream /\ l = Len(s) /\ a = sreq.num /\ e = sreq.sent
    BY DEF NetOK, Requests
  <1>2. l = e - c /\ (\A i \in 1..l : s[i] = <<a, c + i>>) /\ b \in Nat /\ b <= l /\ c <= e
    BY <1>1, SMTT(30) DEF Coming
  <1>3. PICK r : r = SubSeq(s, b + 1, l)
    OBVIOUS
  <1>4. Len(r) = l - b /\ \A i \in 1..(l - b) : r[i] = s[b + i]
    <2>1. b \in 0..Len(s)
      BY <1>1
    <2>2. /\ Len(SubSeq(s, b + 1, Len(s))) = Len(s) - b
          /\ \A i \in 1..(Len(s) - b) : SubSeq(s, b + 1, Len(s))[i] = s[b + i]
      BY <2>1, TakenBytes
    <2> QED
      BY <2>2, <1>1, <1>3
  <1>5. Len(r) = e - (c + b) /\ c + b <= e
    BY <1>2, <1>4
  <1>6. ASSUME NEW i \in 1..Len(r) PROVE r[i] = <<a, (c + b) + i>>
    <2>1. i \in 1..(l - b) /\ b + i \in 1..l /\ c + (b + i) = (c + b) + i
      BY <1>2, <1>4
    <2> QED
      BY <2>1, <1>2, <1>4
  <1>7. stream' = r
    BY <1>1, <1>3
  <1>8. Coming(c + b)'
    BY <1>1, <1>5, <1>6, <1>7 DEF Coming
  <1>9. \A i \in 1..b : s[i] = <<a, c + i>>
    BY <1>2
  <1> QED
    BY <1>1, <1>5, <1>8, <1>9

\* More of the request is sent.
LEMMA ComingMore ==
  ASSUME TypeInv, ServerSend, NEW c \in Nat, c <= sreq.sent, Coming(c)
  PROVE  Coming(c)' /\ c <= sreq'.sent
  <1>1. NetOK
    BY TypeParts DEF TypeInv
  <1>2. PICK s \in Seq(Pairs), l \in Nat, a \in Nat, b \in Nat :
          s = stream /\ l = Len(s) /\ a = sreq.num /\ b = sreq.sent
    BY <1>1 DEF NetOK, Requests
  <1>3. PICK n \in 1..(ReqBytes - b) :
          /\ stream' = Cat(s, [k \in 1..n |-> <<a, b + k>>])
          /\ sreq' = [sreq EXCEPT !.sent = @ + n]
    BY <1>2 DEF ServerSend, Cat
  <1>4. ReqBytes \in Nat
    BY <1>1, Sizes DEF NetOK, Requests, ReqBytes
  <1>5. n \in Nat /\ n > 0
    BY <1>3, <1>4
  <1>6. sreq'.sent = b + n /\ sreq'.num = a
    BY <1>1, <1>2, <1>3 DEF NetOK, Requests
  <1>7. PICK t : t = [k \in 1..n |-> <<a, b + k>>]
    OBVIOUS
  <1>8. t \in Seq(Pairs) /\ Len(t) = n /\ \A i \in 1..n : t[i] = <<a, b + i>>
    <2>1. t \in [1..n -> Pairs]
      BY <1>5, <1>7 DEF Pairs
    <2>2. t \in Seq(Pairs) /\ Len(t) = n
      BY <2>1, <1>5, MakeSeq
    <2> QED
      BY <2>2, <1>7
  <1>9. PICK r : r = Cat(s, t)
    OBVIOUS
  <1>10. /\ Len(r) = l + n /\ \A i \in 1..l : r[i] = s[i]
         /\ \A i \in 1..n : r[l + i] = t[i]
    <2>1. /\ Len(Cat(s, t)) = Len(s) + Len(t)
          /\ \A i \in 1..Len(s) : Cat(s, t)[i] = s[i]
          /\ \A i \in 1..Len(t) : Cat(s, t)[Len(s) + i] = t[i]
      BY <1>8, PairsCat, Zenon
    <2> QED
      BY <2>1, <1>2, <1>8, <1>9
  <1>11. l = b - c /\ c <= b /\ \A i \in 1..l : s[i] = <<a, c + i>>
    BY <1>2 DEF Coming
  <1>12. Len(r) = (b + n) - c /\ c <= b + n
    BY <1>5, <1>10, <1>11
  <1>13. ASSUME NEW i \in 1..Len(r) PROVE r[i] = <<a, c + i>>
    <2>1. CASE i <= l
      BY <2>1, <1>10, <1>11, SMTT(30)
    <2>2. CASE i > l
      <3>1. PICK j \in 1..n : i = l + j
        <4>1. i - l \in 1..n /\ i = l + (i - l)
          BY <2>2, <1>5, <1>10
        <4> QED
          BY <4>1
      <3>2. r[i] = <<a, b + j>>
        BY <3>1, <1>8, <1>10
      <3>3. b + j = c + i
        BY <3>1, <1>11
      <3> QED
        BY <3>2, <3>3
    <2> QED
      BY <2>1, <2>2
  <1>14. stream' = r
    BY <1>3, <1>7, <1>9
  <1> QED
    BY <1>6, <1>12, <1>13, <1>14 DEF Coming

\* A step that leaves the way in alone.
LEMMA StepSame ==
  ASSUME StepInv,
         UNCHANGED <<stream, sreq, buffer, bufRead, bufProcessed, bodyLen, bodyRead, given,
                     excuse>>,
         fd' => fd,
         \/ /\ pc' = pc /\ ret' = ret
            /\ fd' = fd \/ pc \notin {"head", "verify", "rest"}
         \/ /\ pc \in Late /\ pc' \in Late
            /\ pc' = "flush" /\ ret' = "finish" => bodyRead >= bodyLen
         \/ pc = "entry" /\ pc' = "wait"
         \/ pc = "wait" /\ pc' = "head" /\ fd'
         \/ pc = "verify" /\ pc' = "rest" /\ fd' = fd
         \/ pc' = "exit"
  PROVE  StepInv'
  <1>1. (Between' <=> Between) /\ (InPacket' <=> InPacket) /\ (InBody' <=> InBody)
        /\ (Gave' <=> Gave)
    BY DEF Between, InPacket, InBody, Gave, Coming, Kept, ReqBytes
  <1> QED
    BY <1>1 DEF StepInv, Late

\* The connection is closed and the request forgotten.
LEMMA StepClosed ==
  ASSUME ~fd', pc' \in {"wait", "entry", "exit"}
  PROVE  StepInv'
  BY DEF StepInv, Late

\* A new request.
LEMMA StepRequest ==
  ASSUME TypeInv, FreshInv, WireInv, StepInv, ServerRequest
  PROVE  StepInv'
  <1>1. /\ fd /\ (sreq.wait => Answered) /\ sreq.sent = ReqBytes
        /\ UNCHANGED <<stream, pc, fd, buffer, bufRead, excuse>>
    BY DEF ServerRequest, readVars
  <1>2. PICK body \in 0..MaxBody, bad \in BOOLEAN :
          sreq' = [num |-> sreq.num + 1, body |-> body, sent |-> 0, bad |-> bad,
                   wait |-> TRUE]
    BY DEF ServerRequest
  <1>3. sreq'.sent = 0
    BY <1>2
  <1>4. pc \notin Late /\ ~Arriving /\ ~Received
    <2>1. CASE sreq.wait
      BY <1>1, <2>1, NotAnswered, NothingAnswered DEF FreshInv
    <2>2. CASE ~sreq.wait
      BY <1>1, <2>2 DEF FreshInv, Late, Arriving, Received
    <2> QED
      BY <2>1, <2>2
  <1>5. NetOK /\ ReadOK /\ EarlyInv
    BY TypeParts DEF TypeInv
  <1>6. excuse = {} /\ pc \in {"entry", "wait", "head"} => Between'
    <2> HAVE excuse = {} /\ pc \in {"entry", "wait", "head"}
    <2>1. Between
      BY <1>1 DEF StepInv
    <2>2. stream = <<>>
      <3> SUFFICES ASSUME Coming(0), stream # <<>> PROVE FALSE
        BY <2>1 DEF Between
      <3>1. 1 \in 1..Len(stream)
        <4>1. stream \in Seq(Pairs) /\ stream # <<>>
          BY <1>5 DEF NetOK
        <4> QED
          BY <4>1
      <3>2. stream[1] = <<sreq.num, 0 + 1>>
        BY <3>1 DEF Coming
      <3>3. stream[1][2] = 1
        BY <3>2
      <3> QED
        BY <3>1, <3>3, <1>4 DEF Arriving
    <2>3. Coming(0)'
      BY <2>2, <1>1, <1>3 DEF Coming
    <2> QED
      BY <2>1, <2>3, <1>1 DEF Between
  <1>7. excuse = {} => pc \notin {"verify", "rest"}
    <2> SUFFICES ASSUME excuse = {}, pc \in {"verify", "rest"} PROVE FALSE
      OBVIOUS
    <2>1. Kept(bufRead) /\ bufRead >= PktHdr /\ bufRead \in Nat
      BY <1>1, <1>5 DEF StepInv, InPacket, EarlyInv, ReadOK
    <2>2. 1 \in 1..bufRead
      BY <2>1, Sizes
    <2>3. buffer[1] = <<sreq.num, 1>>
      BY <2>1, <2>2 DEF Kept
    <2>4. buffer[1][2] = 1
      BY <2>3
    <2> QED
      BY <2>4, <1>4 DEF Received
  <1> QED
    BY <1>1, <1>4, <1>6, <1>7 DEF StepInv, Late

\* More of it.
LEMMA StepSend ==
  ASSUME TypeInv, StepInv, ServerSend
  PROVE  StepInv'
  <1>1. /\ fd /\ UNCHANGED <<pc, fd, buffer, bufRead, bufProcessed, bodyLen, bodyRead, given,
                             excuse, ret>>
    BY DEF ServerSend, readVars, taskVars, writeVars
  <1>2. NetOK /\ ReadOK
    BY TypeParts DEF TypeInv
  <1>3. sreq'.num = sreq.num /\ sreq'.body = sreq.body
    BY <1>2 DEF ServerSend, NetOK, Requests
  <1>4. Between => Between'
    <2> HAVE Between
    <2>1. sreq.sent # ReqBytes
      <3>1. sreq.sent \in Nat /\ ReqBytes \in Nat
        BY <1>2, Sizes DEF NetOK, Requests, ReqBytes
      <3>2. 1..(ReqBytes - sreq.sent) # {}
        BY DEF ServerSend
      <3> QED
        BY <3>1, <3>2
    <2>2. Coming(0) /\ 0 <= sreq.sent
      BY <2>1, <1>2 DEF Between, NetOK, Requests
    <2>3. Coming(0)'
      BY <2>2, ComingMore
    <2> QED
      BY <2>3, <1>1 DEF Between
  <1>5. InPacket => InPacket'
    <2> HAVE InPacket
    <2>1. PICK c \in Nat : c = bufRead
      BY <1>2 DEF ReadOK
    <2>2. Coming(c) /\ c <= sreq.sent
      BY <2>1 DEF InPacket
    <2>3. Coming(c)' /\ c <= sreq'.sent
      BY <2>2, ComingMore
    <2>4. Coming(bufRead)'
      BY <2>1, <2>3, <1>1 DEF Coming
    <2> QED
      BY <2>1, <2>3, <2>4, <1>1, <1>3 DEF InPacket, Kept
  <1>6. fd /\ pc \in Late /\ InBody => InBody'
    <2> HAVE fd /\ pc \in Late /\ InBody
    <2>1. PICK c \in Nat : c = bufRead + (bodyRead - (bufProcessed - ReqLen))
      <3>1. PICK x \in Nat, y \in Nat, z \in Nat :
              x = bufRead /\ y = bodyRead /\ z = bufProcessed
        BY <1>2 DEF ReadOK
      <3>2. z <= x /\ y >= z - ReqLen
        BY <3>1, <1>2 DEF ReadOK, InBody
      <3>3. x + (y - (z - ReqLen)) \in Nat
        BY <3>1, <3>2, Sizes
      <3> QED
        BY <3>1, <3>3
    <2>2. Coming(c) /\ c <= sreq.sent
      BY <2>1 DEF InBody
    <2>3. Coming(c)' /\ c <= sreq'.sent
      BY <2>2, ComingMore
    <2>4. c = bufRead' + (bodyRead' - (bufProcessed' - ReqLen))
      BY <2>1, <1>1
    <2>5. Coming(bufRead + (bodyRead - (bufProcessed - ReqLen)))'
      BY <2>3, <2>4 DEF Coming
    <2> QED
      BY <2>1, <2>3, <2>4, <2>5, <1>1, <1>3 DEF InBody, Kept
  <1>7. Gave => Gave'
    BY <1>1, <1>3 DEF Gave
  <1> QED
    BY <1>1, <1>4, <1>5, <1>6, <1>7 DEF StepInv

----------------------------------------------------------------------------
(* Both ends at the same byte: the steps of the process *)

\* The first read of a request.
LEMMA StepHead ==
  ASSUME TypeInv, StepInv, ReadHead
  PROVE  StepInv'
  <1>1. CASE ~fd'
    <2>1. pc' = "wait"
      BY <1>1 DEF ReadHead, Refuse, lsapi_close_connection, StepInv
    <2> QED
      BY <1>1, <2>1, StepClosed
  <1>2. CASE fd'
    <2>1. PICK n : n = Least(Len(stream), ReqBufSize)
      OBVIOUS
    <2>2. /\ pc = "head" /\ stream # <<>>
          /\ buffer' = Store(buffer, 0, SubSeq(stream, 1, n))
          /\ stream' = SubSeq(stream, n + 1, Len(stream))
          /\ bufRead' = bufRead + n
          /\ pc' = IF bufRead + n < PktHdr THEN "head" ELSE "verify"
          /\ excuse' = IF bufRead + n < PktHdr THEN excuse \cup {"short_head"} ELSE excuse
          /\ UNCHANGED <<fd, bufProcessed, bodyLen, bodyRead, given, sreq>>
      BY <2>1, <1>2 DEF ReadHead, Refuse, lsapi_close_connection, taskVars
    <2>3. /\ n \in Nat /\ n > 0 /\ n <= Len(stream)
          /\ \A i \in 1..n : buffer'[i] = stream[i]
      BY <2>1, <2>2, HeadRead
    <2>4. CASE excuse' = {}
      <3>1. excuse = {} /\ pc' = "verify" /\ fd
        BY <2>2, <2>4, <1>2
      <3>2. Between /\ NetOK
        BY <3>1, <2>2, TypeParts DEF StepInv, TypeInv
      <3>3. Coming(0) /\ bufRead = 0 /\ 0 <= sreq.sent /\ n \in 0..Len(stream)
        BY <3>2, <2>2, <2>3 DEF Between, NetOK, Requests
      <3>4. /\ Coming(0 + n)' /\ 0 + n <= sreq.sent
            /\ \A i \in 1..n : stream[i] = <<sreq.num, 0 + i>>
        BY <3>2, <3>3, <2>2, ComingRead
      <3>5. bufRead' = n /\ 0 + n = n /\ \A i \in 1..n : 0 + i = i
        BY <3>3, <2>2, <2>3
      <3>6. Coming(bufRead)' /\ bufRead' <= sreq'.sent
        BY <3>4, <3>5, <2>2 DEF Coming
      <3>7. Kept(bufRead)'
        BY <3>4, <3>5, <2>2, <2>3 DEF Kept
      <3>8. InPacket'
        BY <3>6, <3>7 DEF InPacket
      <3> QED
        BY <3>1, <3>8, <1>2 DEF StepInv, Late
    <2> QED
      BY <2>4, <1>2 DEF StepInv
  <1> QED
    BY <1>1, <1>2

\* The rest of it.
LEMMA StepRest ==
  ASSUME TypeInv, StepInv, ReadRest
  PROVE  StepInv'
  <1>1. CASE ~fd'
    <2>1. pc' = "wait"
      <3>1. fd
        BY DEF ReadRest, StepInv
      <3> QED
        BY <3>1, <1>1 DEF ReadRest, Refuse
    <2> QED
      BY <1>1, <2>1, StepClosed
  <1>2. CASE fd'
    <2>1. PICK n : n = Least(Len(stream), ReqLen - bufRead)
      OBVIOUS
    <2>2. /\ pc = "rest" /\ stream # <<>> /\ bufRead < ReqLen
          /\ buffer' = Store(buffer, bufRead, SubSeq(stream, 1, n))
          /\ stream' = SubSeq(stream, n + 1, Len(stream))
          /\ bufRead' = bufRead + n
          /\ UNCHANGED <<fd, bufProcessed, bodyLen, bodyRead, given, sreq, pc, excuse>>
      BY <2>1, <1>2 DEF ReadRest, Refuse, lsapi_close_connection, taskVars
    <2>3. /\ n \in Nat /\ n > 0 /\ n <= Len(stream)
          /\ \A i \in 1..bufRead : buffer'[i] = buffer[i]
          /\ \A i \in 1..n : buffer'[bufRead + i] = stream[i]
      BY <2>1, <2>2, RestRead
    <2>4. CASE excuse' = {}
      <3>1. InPacket /\ NetOK /\ ReadOK
        BY <2>2, <2>4, TypeParts DEF StepInv, TypeInv
      <3>2. PICK c \in Nat : c = bufRead
        BY <3>1 DEF ReadOK
      <3>3. Coming(c) /\ c <= sreq.sent /\ Kept(c) /\ n \in 0..Len(stream)
        BY <3>1, <3>2, <2>3 DEF InPacket
      <3>4. /\ Coming(c + n)' /\ c + n <= sreq.sent
            /\ \A i \in 1..n : stream[i] = <<sreq.num, c + i>>
        BY <3>1, <3>3, <2>2, ComingRead
      <3>5. bufRead' = c + n
        BY <3>2, <2>2
      <3>6. Coming(bufRead)' /\ bufRead' <= sreq'.sent
        BY <3>4, <3>5, <2>2 DEF Coming
      <3>7. ASSUME NEW i \in 1..(c + n) PROVE buffer'[i] = <<sreq.num, i>>
        <4>1. CASE i <= c
          <5>1. i \in 1..c
            BY <4>1
          <5> QED
            BY <5>1, <3>2, <3>3, <2>3 DEF Kept
        <4>2. CASE i > c
          <5>1. PICK j \in 1..n : i = c + j
            <6>1. i - c \in 1..n /\ i = c + (i - c)
              BY <4>2, <2>3
            <6> QED
              BY <6>1
          <5> QED
            BY <5>1, <3>2, <3>4, <2>3
        <4> QED
          BY <4>1, <4>2
      <3>8. Kept(bufRead)'
        BY <3>5, <3>7, <2>2 DEF Kept
      <3>9. InPacket'
        BY <3>6, <3>8 DEF InPacket
      <3> QED
        BY <3>9, <2>2, <1>2 DEF StepInv, Late
    <2> QED
      BY <2>4, <1>2 DEF StepInv
  <1> QED
    BY <1>1, <1>2

\* The request is parsed.
LEMMA StepParse ==
  ASSUME TypeInv, StepInv, Parse
  PROVE  StepInv'
  <1>1. CASE ~fd'
    <2>1. pc' = "wait"
      <3>1. fd
        BY DEF Parse, StepInv
      <3> QED
        BY <3>1, <1>1 DEF Parse, Refuse
    <2> QED
      BY <1>1, <2>1, StepClosed
  <1>2. CASE fd'
    <2>1. /\ pc = "rest" /\ pc' = "accepted" /\ bodyLen' = sreq.body /\ bufProcessed' = ReqLen
          /\ given' = <<>> /\ UNCHANGED <<fd, buffer, bufRead, bodyRead, sreq, stream, excuse>>
      BY <1>2 DEF Parse, Refuse, lsapi_close_connection, netVars
    <2>2. bodyRead = 0 /\ bufRead \in Nat
      BY <2>1, TypeParts DEF TypeInv, EarlyInv, Early, ReadOK
    <2>3. CASE excuse' = {}
      <3>1. InPacket
        BY <2>1, <2>3 DEF StepInv
      <3>2. /\ bufRead' + (bodyRead' - (bufProcessed' - ReqLen)) = bufRead
            /\ bodyRead' >= bufProcessed' - ReqLen
            /\ ~(bodyRead' > bufProcessed' - ReqLen)
        BY <2>1, <2>2, Sizes
      <3>3. Coming(bufRead + (bodyRead - (bufProcessed - ReqLen)))'
        BY <3>1, <3>2, <2>1 DEF InPacket, Coming
      <3>4. Kept(bufRead)'
        BY <3>1, <2>1 DEF InPacket, Kept
      <3>5. InBody'
        BY <3>1, <3>2, <3>3, <3>4, <2>1 DEF InBody, InPacket
      <3>6. Gave'
        BY <2>1, <2>2 DEF Gave
      <3> QED
        BY <3>5, <3>6, <2>1, <1>2 DEF StepInv, Late
    <2> QED
      BY <2>1, <2>3, <1>2 DEF StepInv
  <1> QED
    BY <1>1, <1>2

\* LSAPI_ReadReqBody_r: what it returns are the next bytes of the body.
LEMMA StepBody ==
  ASSUME TypeInv, StepInv, LSAPI_ReadReqBody_r, ~Return
  PROVE  StepInv'
  <1>1. PICK w \in Nat, a \in Nat, b \in Nat :
           /\ w <= bodyLen - bodyRead
           /\ a <= bufRead - bufProcessed /\ a + b <= w
           /\ a < w => a = bufRead - bufProcessed
           /\ b \in 0..Len(stream)
           /\ given' = Cat(given, Got(a, b))
           /\ bufProcessed' = bufProcessed + a
           /\ bodyRead' = bodyRead + Len(Got(a, b))
           /\ stream' = SubSeq(stream, b + 1, Len(stream))
           /\ UNCHANGED <<buffer, bufRead, bodyLen, sreq, wire, fd, pc, out, ret, todo,
                          written, excuse>>
           /\ pc = "handle" /\ fd
    BY BodyStream
  <1> SUFFICES ASSUME excuse = {} PROVE InBody' /\ Gave'
    BY <1>1 DEF StepInv, Late
  <1>2. NetOK /\ ReadOK /\ InBody /\ Gave /\ bufProcessed >= ReqLen
    BY <1>1, TypeParts DEF TypeInv, StepInv, Late, EarlyInv
  <1>3. /\ Len(given') = Len(given) + (a + b) /\ bodyRead' = bodyRead + (a + b)
        /\ \A i \in 1..Len(given) : given'[i] = given[i]
        /\ \A i \in 1..(a + b) : given'[Len(given) + i] = Got(a, b)[i]
    BY <1>1, <1>2, BodyRead
  <1>4. /\ \A i \in 1..a : Got(a, b)[i] = buffer[bufProcessed + i]
        /\ \A i \in 1..b : Got(a, b)[a + i] = stream[i]
    BY <1>1, <1>2, GotIs
  <1>5. PICK x \in Nat, y \in Nat, z \in Nat, h \in Nat :
          x = bufRead /\ y = bodyRead /\ z = bufProcessed /\ h = ReqLen
    BY <1>2, Sizes DEF ReadOK
  <1>6. z <= x /\ z >= h /\ y >= z - h /\ (y > z - h => z = x) /\ a <= x - z
    BY <1>1, <1>2, <1>5 DEF InBody, ReadOK
  <1>7. PICK c \in Nat : c = x + (y - (z - h))
    <2>1. x + (y - (z - h)) \in Nat
      BY <1>6
    <2> QED
      BY <2>1
  <1>8. Coming(c) /\ c <= sreq.sent /\ Kept(x) /\ bodyLen = sreq.body
    BY <1>2, <1>5, <1>7 DEF InBody
  <1>9. /\ Coming(c + b)' /\ c + b <= sreq.sent
        /\ \A i \in 1..b : stream[i] = <<sreq.num, c + i>>
    BY <1>1, <1>2, <1>8, ComingRead
  <1>10. b > 0 => a = x - z
    BY <1>1, <1>5
  <1>11. bufRead' = x /\ bodyRead' = y + (a + b) /\ bufProcessed' = z + a
    BY <1>1, <1>3, <1>5
  <1>12. InBody'
    <2>1. /\ y + (a + b) >= (z + a) - h
          /\ y + (a + b) > (z + a) - h => z + a = x
          /\ x + ((y + (a + b)) - ((z + a) - h)) = c + b
      BY <1>1, <1>6, <1>7, <1>10
    <2>2. Coming(bufRead + (bodyRead - (bufProcessed - ReqLen)))'
      BY <2>1, <1>5, <1>9, <1>11 DEF Coming
    <2>3. Kept(bufRead)'
      BY <1>1, <1>5, <1>8 DEF Kept
    <2> QED
      BY <2>1, <2>2, <2>3, <1>1, <1>5, <1>8, <1>9, <1>11 DEF InBody
  <1>13. Gave'
    <2>1. Len(given) = y /\ Len(given') = y + (a + b) /\ bodyRead' = y + (a + b)
      BY <1>2, <1>3, <1>5 DEF Gave
    <2>2. ASSUME NEW i \in 1..(y + (a + b)) PROVE given'[i] = <<sreq.num, h + i>>
      <3>1. CASE i <= y
        <4>1. i \in 1..y
          BY <3>1
        <4> QED
          BY <4>1, <2>1, <1>2, <1>3, <1>5 DEF Gave
      <3>2. CASE i > y
        <4>1. PICK j \in 1..(a + b) : i = y + j
          <5>1. i - y \in 1..(a + b) /\ i = y + (i - y)
            BY <3>2
          <5> QED
            BY <5>1
        <4>2. given'[i] = Got(a, b)[j]
          BY <4>1, <2>1, <1>3
        <4>3. CASE j <= a
          <5>1. j \in 1..a /\ z + j \in 1..x /\ z + j = h + i
            BY <4>1, <4>3, <1>6
          <5>2. Got(a, b)[j] = buffer[z + j] /\ buffer[z + j] = <<sreq.num, z + j>>
            BY <5>1, <1>4, <1>5, <1>8 DEF Kept
          <5> QED
            BY <5>1, <5>2, <4>2
        <4>4. CASE j > a
          <5>1. PICK k \in 1..b : j = a + k
            <6>1. j - a \in 1..b /\ j = a + (j - a)
              BY <4>1, <4>4
            <6> QED
              BY <6>1
          <5>2. b > 0 /\ a = x - z
            BY <5>1, <1>10
          <5>3. c + k = h + i
            BY <5>1, <5>2, <4>1, <1>6, <1>7
          <5>4. Got(a, b)[j] = <<sreq.num, c + k>>
            BY <5>1, <1>4, <1>9
          <5> QED
            BY <5>3, <5>4, <4>2
        <4> QED
          BY <4>1, <4>3, <4>4
      <3> QED
        BY <3>1, <3>2
    <2> QED
      BY <2>1, <2>2, <1>1, <1>5 DEF Gave
  <1> QED
    BY <1>12, <1>13

\* LSAPI_Finish_r.
LEMMA StepFinish ==
  ASSUME TypeInv, StepInv, pc \in {"accepted", "handle"}, LSAPI_Finish_r
  PROVE  StepInv'
  <1>1. CASE fd
    <2>1. /\ UNCHANGED <<stream, sreq, buffer, bufRead, bufProcessed, bodyLen, bodyRead, given,
                         fd>>
          /\ pc' = "flush" /\ ret' = "finish"
          /\ excuse' = IF bodyRead < bodyLen THEN excuse \cup {"body_left"} ELSE excuse
      BY <1>1 DEF LSAPI_Finish_r, Flush, netVars, readVars, taskVars
    <2>2. CASE excuse' = {}
      <3>1. excuse' = excuse /\ ~(bodyRead < bodyLen)
        BY <2>1, <2>2
      <3>2. bodyRead >= bodyLen
        BY <3>1, TypeParts DEF TypeInv, ReadOK
      <3> QED
        BY <2>1, <3>1, <3>2, StepSame DEF Late
    <2> QED
      BY <2>1, <2>2, <1>1 DEF StepInv
  <1>2. CASE ~fd
    <2>1. ~fd' /\ pc' \in {"exit", "entry"}
      BY <1>2 DEF LSAPI_Finish_r
    <2> QED
      BY <2>1, StepClosed
  <1> QED
    BY <1>1, <1>2

\* The end of the response is written: nothing of the request is left.
LEMMA StepDone ==
  ASSUME TypeInv, StepInv, WritevDone
  PROVE  StepInv'
  <1>1. pc = "flush" /\ fd /\ UNCHANGED <<sreq, stream, given, excuse, fd, ret>>
    BY DEF TypeInv, QueueInv, WritevDone, FlushReturns, netVars
  <1>2. CASE ret = "finish"
    <2>1. LSAPI_Reset_r /\ pc' \in {"exit", "entry"}
      BY <1>2 DEF WritevDone, FlushReturns
    <2>2. CASE excuse = {}
      <3>1. InBody /\ bodyRead >= bodyLen /\ NetOK /\ ReadOK
        BY <2>2, <1>1, <1>2, TypeParts DEF StepInv, Late, TypeInv
      <3>a. PICK x \in Nat, y \in Nat, z \in Nat :
              x = bufRead /\ y = bodyRead /\ z = bufProcessed
        BY <3>1 DEF ReadOK
      <3>2. PICK h \in Nat, e \in Nat, d \in Nat, l \in Nat :
              h = ReqLen /\ e = sreq.sent /\ d = sreq.body /\ l = Len(stream)
        BY <3>1, Sizes DEF NetOK, Requests
      <3>3. /\ z <= x /\ y >= d /\ e <= h + d
            /\ l = e - (x + (y - (z - h)))
        BY <3>1, <3>a, <3>2 DEF ReadOK, NetOK, InBody, ReqBytes, Coming
      <3>4. l = 0 /\ e = h + d
        BY <3>3
      <3>5. stream = <<>> /\ sreq.sent = ReqBytes
        <4>1. stream \in Seq(Pairs) /\ Len(stream) = 0
          BY <3>1, <3>2, <3>4 DEF NetOK
        <4>2. stream = <<>>
          BY <4>1
        <4> QED
          BY <4>2, <3>2, <3>4 DEF ReqBytes
      <3>6. stream' = <<>> /\ sreq'.sent = ReqBytes' /\ bufRead' = 0
        BY <3>5, <2>1, <1>1 DEF ReqBytes, LSAPI_Reset_r
      <3>7. Between'
        BY <3>6 DEF Between
      <3> QED
        BY <3>7, <2>1 DEF StepInv, Late
    <2> QED
      BY <2>1, <2>2, <1>1 DEF StepInv
  <1>3. CASE ret # "finish"
    <2>1. UNCHANGED <<buffer, bufRead, bufProcessed, bodyLen, bodyRead>>
          /\ pc' \in {"handle", "write"}
      BY <1>3 DEF WritevDone, FlushReturns, readVars
    <2> QED
      BY <2>1, <1>1, StepSame DEF Late
  <1> QED
    BY <1>2, <1>3

\* A flush that fails.
LEMMA StepFails ==
  ASSUME TypeInv, StepInv, WritevFails
  PROVE  StepInv'
  <1>1. pc = "flush" /\ ~fd' /\ UNCHANGED <<sreq, stream, given, excuse, ret>>
    BY DEF WritevFails, lsapi_close_connection, FlushReturns, netVars
  <1>2. CASE ret = "finish"
    <2>1. pc' \in {"exit", "entry"}
      BY <1>2 DEF WritevFails, FlushReturns
    <2> QED
      BY <2>1, <1>1, StepClosed
  <1>3. CASE ret # "finish"
    <2>1. UNCHANGED <<buffer, bufRead, bufProcessed, bodyLen, bodyRead>>
          /\ pc' = "handle"
      BY <1>3 DEF WritevFails, FlushReturns, readVars
    <2> QED
      BY <2>1, <1>1, StepSame DEF Late
  <1> QED
    BY <1>2, <1>3

\* Every step keeps both ends together.
LEMMA StepStep ==
  ASSUME TypeInv, FreshInv, WireInv, StepInv, [Next]_vars
  PROVE  StepInv'
  <1>1. CASE ServerRequest
    BY <1>1, StepRequest
  <1>2. CASE ServerSend
    BY <1>2, StepSend
  <1>3. CASE ServerClose \/ Signal \/ UNCHANGED vars
    BY <1>3, StepSame DEF ServerClose, Signal, vars, netVars, readVars, taskVars, writeVars
  <1>4. CASE Entry
    BY <1>4, StepSame DEF Entry, netVars, readVars, taskVars, lsapi_close_connection
  <1>5. CASE Readable
    BY <1>5, StepSame DEF Readable, netVars, readVars, taskVars
  <1>6. CASE EntryLeave \/ WaitLeave \/ ShutdownBreak
    <2>1. ~fd' /\ pc' = "exit"
      BY <1>6 DEF EntryLeave, WaitLeave, ShutdownBreak, Leave, lsapi_close_connection
    <2> QED
      BY <2>1, StepClosed
  <1>7. CASE AcceptConnection
    <2>1. /\ sreq' = [sreq EXCEPT !.sent = ReqBytes, !.wait = FALSE]
          /\ stream' = <<>> /\ pc = "wait" /\ pc' = "wait" /\ bufRead' = bufRead
      BY <1>7 DEF AcceptConnection, readVars
    <2>2. sreq \in Requests /\ bufRead = 0
      BY <2>1, TypeParts DEF TypeInv, NetOK, EarlyInv
    <2>3. sreq'.sent = ReqBytes /\ sreq'.body = sreq.body
      BY <2>1, <2>2 DEF Requests
    <2>4. Between'
      BY <2>1, <2>2, <2>3 DEF Between, ReqBytes
    <2> QED
      BY <2>1, <2>4 DEF StepInv, Late
  <1>8. CASE ReadHead
    BY <1>8, StepHead
  <1>9. CASE Verify
    <2>1. CASE pc' = "rest"
      <3>1. /\ pc = "verify" /\ fd' = fd
            /\ UNCHANGED <<stream, sreq, buffer, bufRead, bufProcessed, bodyLen, bodyRead,
                           given, excuse>>
        BY <2>1, <1>9 DEF Verify, Refuse, netVars, readVars, taskVars
      <3> QED
        BY <2>1, <3>1, StepSame
    <2>2. CASE pc' # "rest"
      <3>1. ~fd' /\ pc' = "wait"
        BY <2>2, <1>9 DEF Verify, Refuse, lsapi_close_connection
      <3> QED
        BY <3>1, StepClosed
    <2> QED
      BY <2>1, <2>2
  <1>10. CASE ReadRest \/ Parse
    BY <1>10, StepRest, StepParse
  <1>11. CASE Loaded \/ sendHeaders \/ LSAPI_Write_r \/ WritePacket \/ WriteEnd
              \/ finishBody \/ WritevSome
    <2>1. /\ UNCHANGED <<stream, sreq, buffer, bufRead, bufProcessed, bodyLen, bodyRead, given,
                         excuse, fd>>
          /\ pc \in Late /\ pc' \in Late
          /\ \/ pc' # "flush" \/ ret' # "finish"
             \/ pc' = pc /\ ret' = ret
      BY <1>11 DEF Loaded, sendHeaders, LSAPI_Write_r, WritePacket, WriteEnd, finishBody,
         WritevSome, Flush, Late, netVars, readVars, taskVars
    <2> QED
      BY <2>1, StepSame
  <1>12. CASE LoadFails \/ Return
    BY <1>12, StepFinish DEF LoadFails, Return
  <1>13. CASE LSAPI_ReadReqBody_r
    BY <1>12, <1>13, StepBody
  <1>14. CASE WritevDone \/ WritevFails
    BY <1>14, StepDone, StepFails
  <1> QED
    BY <1>1, <1>2, <1>3, <1>4, <1>5, <1>6, <1>7, <1>8, <1>9, <1>10, <1>11, <1>12,
       <1>13, <1>14 DEF Next, Server, Process

\* On a connection in step both ends are always at the same byte.
THEOREM StepInvariant == SafeSpec => []StepInv
  <1>1. Init => StepInv
    <2> SUFFICES ASSUME Init PROVE StepInv
      OBVIOUS
    <2>1. /\ stream = <<>> /\ bufRead = 0 /\ sreq.sent = ReqLen /\ sreq.body = 0
          /\ pc \in {"wait", "entry"}
      BY DEF Init
    <2>2. Between
      BY <2>1, Sizes DEF Between, ReqBytes
    <2> QED
      BY <2>1, <2>2 DEF StepInv, Late
  <1>2. TypeInv /\ FreshInv /\ WireInv /\ StepInv /\ [Next]_vars => StepInv'
    BY StepStep
  <1> QED
    BY <1>1, <1>2, WireInvariant, PTL DEF SafeSpec

\* On a connection in step readReq always finds a request packet at the start of
\* its buffer, whatever the sizes of packets, bodies and reads.
THEOREM InStepCorrect == SafeSpec => []InStep
  <1>1. TypeInv /\ StepInv => InStep
    <2> SUFFICES ASSUME TypeInv, StepInv, pc = "verify", excuse = {} PROVE Holds(PktHdr)
      BY DEF InStep
    <2>1. Kept(bufRead) /\ bufRead >= PktHdr /\ bufRead \in Nat
      BY TypeParts DEF StepInv, InPacket, TypeInv, EarlyInv, ReadOK
    <2>2. 1 \in 1..bufRead /\ \A i \in 1..PktHdr : i \in 1..bufRead
      BY <2>1, Sizes
    <2>3. buffer[1] = <<sreq.num, 1>> /\ \A i \in 1..PktHdr : buffer[i] = <<sreq.num, i>>
      BY <2>1, <2>2 DEF Kept
    <2>4. buffer[1][1] = sreq.num
      BY <2>3
    <2> QED
      BY <2>3, <2>4 DEF Holds
  <1> QED
    BY <1>1, WireInvariant, StepInvariant, PTL

\* The filter gets the bytes of its own request, in order, whatever part of them
\* came with the request packet (LSAPI_ReadReqBody_r).
THEOREM BodyCorrect == SafeSpec => []BodyInOrder
  <1>1. TypeInv /\ StepInv => BodyInOrder
    <2> SUFFICES ASSUME TypeInv, StepInv, pc = "handle", excuse = {}
                 PROVE  given = [i \in 1..bodyRead |-> <<sreq.num, ReqLen + i>>]
      BY DEF BodyInOrder
    <2>1. Gave /\ NetOK /\ ReadOK
      BY TypeParts DEF StepInv, Late, TypeInv
    <2>9. sreq.num \in Nat
      BY <2>1 DEF NetOK, Requests
    <2>10. bodyRead \in Nat
      BY <2>1 DEF ReadOK
    <2>2. PICK m \in Nat, a \in Nat : m = bodyRead /\ a = sreq.num
      BY <2>9, <2>10
    <2>3. PICK t : t = [i \in 1..m |-> <<a, ReqLen + i>>]
      OBVIOUS
    <2>4. t \in [1..m -> Pairs]
      BY <2>2, <2>3, Sizes DEF Pairs
    <2>5. t \in Seq(Pairs) /\ Len(t) = m
      BY <2>4, MakeSeq
    <2>6. given \in Seq(Pairs) /\ Len(given) = m /\ \A i \in 1..m : given[i] = <<a, ReqLen + i>>
      BY <2>1, <2>2 DEF Gave, ReadOK
    <2>7. \A i \in 1..m : given[i] = t[i]
      BY <2>3, <2>6
    <2>8. given = t
      BY <2>5, <2>6, <2>7, SameSeq
    <2> QED
      BY <2>2, <2>3, <2>8
  <1> QED
    BY <1>1, WireInvariant, StepInvariant, PTL
===============================================================================
