------------------------ MODULE CharacterStore_proofs ------------------------
(***************************************************************************)
(* Facts about the write-behind store that the proofs of the modules above *)
(* it share.                                                               *)
(*                                                                         *)
(* With one worker the queue is the history of the tables still to come:   *)
(* Value(n, r) is what row r holds after the first n entries, Value(0, r)  *)
(* what the table says now and Latest(r) what it says in the end.  A commit *)
(* adds a value at the end of this history and changes none before it; the *)
(* execution of the first entry moves the present one step along it and    *)
(* leaves its end alone.                                                   *)
(*                                                                         *)
(* The sum of a function over a finite set is defined by a fold; that it   *)
(* can be taken apart in any order is proved here once.                    *)
(***************************************************************************)
EXTENDS CharacterStore, SequenceTheorems, FiniteSetTheorems, TLAPS

\* Row r of the tables d after the entries of q that write it are executed.
LastWrite(d, q, writers, r) ==
    IF writers = {} THEN d[r]
    ELSE q[CHOOSE k \in writers : \A l \in writers : l <= k].rows[r]

\* Row r after the first n entries of q are executed.
ValueIn(d, q, n, r) ==
    LastWrite(d, q, {k \in 1 .. n : r \in DOMAIN q[k].rows}, r)

Value(n, r) == ValueIn(db, queue, n, r)

-----------------------------------------------------------------------------
\* Induction over the natural numbers, for a set instead of a predicate.
LEMMA SetInduction ==
    ASSUME NEW T, 0 \in T, \A n \in Nat : n \in T => n + 1 \in T
    PROVE  \A n \in Nat : n \in T
<1> SUFFICES ASSUME Nat \ T # {} PROVE FALSE OBVIOUS
<1>1. \E x \in Nat \ T : \A y \in Nat \ T : ~(<<y, x>> \in OpToRel(<, Nat))
    BY NatLessThanWellFounded, WFMin
<1>2. PICK x \in Nat \ T : \A y \in Nat \ T : ~(y < x)
    BY <1>1 DEF OpToRel
<1>3. x # 0 /\ x - 1 \in Nat /\ x - 1 < x /\ (x - 1) + 1 = x
    BY <1>2
<1>4. x - 1 \in T BY <1>2, <1>3
<1> QED BY <1>2, <1>3, <1>4

\* The histories that begin with s and take N steps, the n-th of them h[n].
Steps(B, N) == [1 .. N -> [B -> B]]
Histories(B, s, N, h) ==
    {f \in [0 .. N -> B] : f[0] = s /\ \A n \in 1 .. N : f[n] = h[n][f[n - 1]]}

\* There is one.
LEMMA Iterates ==
    ASSUME NEW B, NEW s \in B, NEW N \in Nat, NEW h \in Steps(B, N)
    PROVE  Histories(B, s, N, h) # {}
<1> USE DEF Steps, Histories
<1> DEFINE Q(m, f) == f[0] = s /\ \A n \in 1 .. m : f[n] = h[n][f[n - 1]]
           P == {m \in Nat : m <= N => \E f \in [0 .. m -> B] : Q(m, f)}
<1>1. 0 \in P
    <2> DEFINE f == [n \in 0 .. 0 |-> s]
    <2>1. f \in [0 .. 0 -> B] /\ Q(0, f) OBVIOUS
    <2> QED BY <2>1
<1>2. ASSUME NEW m \in Nat, m \in P PROVE m + 1 \in P
    <2>1. SUFFICES ASSUME m + 1 <= N PROVE \E f \in [0 .. m + 1 -> B] : Q(m + 1, f)
        OBVIOUS
    <2>2. PICK f \in [0 .. m -> B] : Q(m, f) BY <1>2, <2>1
    <2> DEFINE g == [n \in 0 .. m + 1 |-> IF n = m + 1 THEN h[m + 1][f[m]] ELSE f[n]]
    <2>3. f[m] \in B /\ h[m + 1] \in [B -> B] BY <2>1, <2>2
    <2>4. g \in [0 .. m + 1 -> B] BY <2>2, <2>3
    <2>5. g[0] = s BY <2>2
    <2>6. ASSUME NEW n \in 1 .. m + 1 PROVE g[n] = h[n][g[n - 1]]
        <3>1. CASE n = m + 1
            <4>1. n - 1 = m /\ m \in 0 .. m + 1 /\ m # m + 1 BY <3>1
            <4>2. g[n] = h[m + 1][f[m]] /\ g[m] = f[m] BY <3>1, <4>1
            <4> QED BY <3>1, <4>1, <4>2
        <3>2. CASE n # m + 1
            <4>1. n \in 1 .. m /\ n - 1 \in 0 .. m BY <3>2
            <4>2. g[n] = f[n] /\ g[n - 1] = f[n - 1] BY <3>2, <4>1
            <4> QED BY <2>2, <4>1, <4>2
        <3> QED BY <3>1, <3>2
    <2> HIDE DEF g
    <2> QED BY <2>4, <2>5, <2>6
<1> HIDE DEF P
<1>3. N \in P BY <1>1, <1>2, SetInduction
<1> QED BY <1>3 DEF P

\* The table before any entry is executed.
LEMMA ValueNow ==
    ASSUME NEW d, NEW q, NEW r
    PROVE  ValueIn(d, q, 0, r) = d[r]
  BY DEF ValueIn, LastWrite

\* An entry that writes the row gives it its value, any other leaves it.
LEMMA ValueNext ==
    ASSUME NEW d, NEW q, NEW n \in Nat, NEW r
    PROVE  ValueIn(d, q, n + 1, r) =
             IF r \in DOMAIN q[n + 1].rows THEN q[n + 1].rows[r]
             ELSE ValueIn(d, q, n, r)
<1> DEFINE W(m) == {k \in 1 .. m : r \in DOMAIN q[k].rows}
<1>1. CASE r \in DOMAIN q[n + 1].rows
    <2>1. n + 1 \in W(n + 1) /\ \A l \in W(n + 1) : l \in Int /\ l <= n + 1
        BY <1>1
    <2>2. (CHOOSE k \in W(n + 1) : \A l \in W(n + 1) : l <= k) = n + 1
        <3> HIDE DEF W
        <3> DEFINE c == CHOOSE k \in W(n + 1) : \A l \in W(n + 1) : l <= k
        <3>1. c \in W(n + 1) /\ n + 1 <= c BY <2>1
        <3>2. c <= n + 1 /\ c \in Int BY <2>1, <3>1
        <3> HIDE DEF c
        <3>3. c = n + 1 BY <3>1, <3>2
        <3> QED BY <3>3 DEF c
    <2> QED BY <1>1, <2>1, <2>2 DEF ValueIn, LastWrite
<1>2. CASE r \notin DOMAIN q[n + 1].rows
    <2>1. W(n + 1) = W(n) BY <1>2
    <2> QED BY <1>2, <2>1, Zenon DEF ValueIn
<1> QED BY <1>1, <1>2

\* The end of the history is Latest.
LEMMA LatestIsLast ==
    ASSUME NEW S, queue \in Seq(S), NEW r
    PROVE  Latest(r) = Value(Len(queue), r)
<1>1. DOMAIN queue = 1 .. Len(queue) BY LenProperties
<1> QED BY <1>1 DEF Latest, Value, ValueIn, LastWrite

\* A row has its type at every moment, when the table and the entries have it.
LEMMA ValueType ==
    ASSUME NEW d, NEW S, NEW q \in Seq(S), NEW r, NEW V, d[r] \in V,
           \A k \in DOMAIN q : r \in DOMAIN q[k].rows => q[k].rows[r] \in V
    PROVE  \A n \in 0 .. Len(q) : ValueIn(d, q, n, r) \in V
<1> DEFINE P == {n \in Nat : n <= Len(q) => ValueIn(d, q, n, r) \in V}
<1>0. Len(q) \in Nat /\ DOMAIN q = 1 .. Len(q) BY LenProperties
<1>1. 0 \in P BY ValueNow
<1>2. ASSUME NEW n \in Nat, n \in P PROVE n + 1 \in P
    <2>1. SUFFICES ASSUME n + 1 <= Len(q) PROVE ValueIn(d, q, n + 1, r) \in V OBVIOUS
    <2>2. ValueIn(d, q, n, r) \in V BY <1>0, <1>2, <2>1
    <2>3. n + 1 \in DOMAIN q BY <1>0, <2>1
    <2>4. ValueIn(d, q, n + 1, r) =
            IF r \in DOMAIN q[n + 1].rows THEN q[n + 1].rows[r] ELSE ValueIn(d, q, n, r)
        BY ValueNext
    <2> QED BY <2>2, <2>3, <2>4
<1> HIDE DEF P
<1>3. \A n \in Nat : n \in P BY <1>1, <1>2, SetInduction
<1> QED BY <1>0, <1>3 DEF P

\* The same for the value that a row has in the end.
LEMMA LatestType ==
    ASSUME NEW S, queue \in Seq(S), NEW r, NEW V, db[r] \in V,
           \A k \in DOMAIN queue : r \in DOMAIN queue[k].rows => queue[k].rows[r] \in V
    PROVE  Latest(r) \in V
<1>1. Len(queue) \in 0 .. Len(queue) BY LenProperties
<1>2. \A n \in 0 .. Len(queue) : ValueIn(db, queue, n, r) \in V BY ValueType
<1> QED BY <1>1, <1>2, LatestIsLast DEF Value

\* A step that leaves tables and queue alone leaves what they say in the end.
LEMMA LatestSame ==
    ASSUME db' = db, queue' = queue, NEW r PROVE Latest(r)' = Latest(r)
  BY DEF Latest

\* Entries at the end leave the earlier values alone.
LEMMA ValueAppend ==
    ASSUME NEW d, NEW S, NEW q \in Seq(S), NEW T, NEW z \in Seq(T), NEW r
    PROVE  \A n \in 0 .. Len(q) : ValueIn(d, q \o z, n, r) = ValueIn(d, q, n, r)
<1> DEFINE P == {n \in Nat : n <= Len(q) => ValueIn(d, q \o z, n, r) = ValueIn(d, q, n, r)}
<1>0. Len(q) \in Nat BY LenProperties
<1>1. 0 \in P BY ValueNow
<1>2. ASSUME NEW n \in Nat, n \in P PROVE n + 1 \in P
    <2>1. CASE n + 1 <= Len(q)
        <3>1. (q \o z)[n + 1] = q[n + 1] BY <1>0, <2>1
        <3>2. ValueIn(d, q \o z, n, r) = ValueIn(d, q, n, r) BY <1>0, <1>2, <2>1
        <3>3. ValueIn(d, q \o z, n + 1, r) = ValueIn(d, q, n + 1, r)
            <4>1. ValueIn(d, q \o z, n + 1, r) =
                    IF r \in DOMAIN (q \o z)[n + 1].rows THEN (q \o z)[n + 1].rows[r]
                    ELSE ValueIn(d, q \o z, n, r)
                BY ValueNext
            <4>2. ValueIn(d, q, n + 1, r) =
                    IF r \in DOMAIN q[n + 1].rows THEN q[n + 1].rows[r]
                    ELSE ValueIn(d, q, n, r)
                BY ValueNext
            <4> QED BY <3>1, <3>2, <4>1, <4>2
        <3> QED BY <3>3
    <2>2. CASE ~(n + 1 <= Len(q)) BY <2>2
    <2> QED BY <2>1, <2>2
<1> HIDE DEF P
<1>3. \A n \in Nat : n \in P BY <1>1, <1>2, SetInduction
<1> QED BY <1>0, <1>3 DEF P

\* Executing the first entry moves the present along the history.
LEMMA ValueTail ==
    ASSUME NEW d, NEW S, NEW q \in Seq(S), q # <<>>, NEW r, r \in DOMAIN d
    PROVE  \A n \in 0 .. Len(q) - 1 :
             ValueIn(q[1].rows ++ d, Tail(q), n, r) = ValueIn(d, q, n + 1, r)
<1> DEFINE e == q[1].rows ++ d
           P == {n \in Nat : n < Len(q) => ValueIn(e, Tail(q), n, r) = ValueIn(d, q, n + 1, r)}
<1>0. Len(q) \in Nat /\ Len(q) > 0 BY LenProperties, EmptySeq
<1>1. 0 \in P
    <2>1. ValueIn(e, Tail(q), 0, r) = e[r] BY ValueNow
    <2>2. ValueIn(d, q, 0 + 1, r) = IF r \in DOMAIN q[0 + 1].rows THEN q[0 + 1].rows[r] ELSE d[r]
        <3>1. 0 \in Nat OBVIOUS
        <3>2. ValueIn(d, q, 0 + 1, r) =
                IF r \in DOMAIN q[0 + 1].rows THEN q[0 + 1].rows[r] ELSE ValueIn(d, q, 0, r)
            BY <3>1, ValueNext, Zenon
        <3> QED BY <3>2, ValueNow, Zenon
    <2>3. e[r] = IF r \in DOMAIN q[1].rows THEN q[1].rows[r] ELSE d[r] BY DEF ++
    <2> QED BY <2>1, <2>2, <2>3
<1>2. ASSUME NEW n \in Nat, n \in P PROVE n + 1 \in P
    <2> HIDE DEF e
    <2>1. CASE n + 1 < Len(q)
        <3>1. Tail(q)[n + 1] = q[(n + 1) + 1] BY <1>0, <2>1, HeadTailProperties
        <3>2. ValueIn(e, Tail(q), n, r) = ValueIn(d, q, n + 1, r) BY <1>0, <1>2, <2>1
        <3>3. ValueIn(e, Tail(q), n + 1, r) = ValueIn(d, q, (n + 1) + 1, r)
            <4>1. ValueIn(e, Tail(q), n + 1, r) =
                    IF r \in DOMAIN Tail(q)[n + 1].rows THEN Tail(q)[n + 1].rows[r]
                    ELSE ValueIn(e, Tail(q), n, r)
                BY ValueNext
            <4>2. n + 1 \in Nat OBVIOUS
            <4>3. ValueIn(d, q, (n + 1) + 1, r) =
                    IF r \in DOMAIN q[(n + 1) + 1].rows THEN q[(n + 1) + 1].rows[r]
                    ELSE ValueIn(d, q, n + 1, r)
                BY <4>2, ValueNext, Zenon
            <4>4. CASE r \in DOMAIN Tail(q)[n + 1].rows BY <3>1, <4>1, <4>3, <4>4
            <4>5. CASE r \notin DOMAIN Tail(q)[n + 1].rows BY <3>1, <3>2, <4>1, <4>3, <4>5
            <4> QED BY <4>4, <4>5
        <3> QED BY <3>3
    <2>2. CASE ~(n + 1 < Len(q)) BY <2>2
    <2> QED BY <2>1, <2>2
<1> HIDE DEF P, e
<1>3. \A n \in Nat : n \in P BY <1>1, <1>2, SetInduction
<1>4. \A n \in Nat : n < Len(q) => ValueIn(e, Tail(q), n, r) = ValueIn(d, q, n + 1, r)
    BY <1>3 DEF P
<1> QED BY <1>0, <1>4 DEF e

\* The first of the entries is removed.
LEMMA FirstRemoved ==
    ASSUME NEW S, NEW q \in Seq(S), q # <<>>
    PROVE  RemoveAt(q, 1) = Tail(q)
<1>1. SubSeq(q, 1, 1 - 1) = <<>> BY SubSeqEmpty
<1>2. Tail(q) = SubSeq(q, 1 + 1, Len(q)) BY TailIsSubSeq
<1>3. Tail(q) \in Seq(S) BY HeadTailProperties
<1>4. RemoveAt(q, 1) = SubSeq(q, 1, 1 - 1) \o SubSeq(q, 1 + 1, Len(q))
    BY Zenon DEF RemoveAt
<1>5. <<>> \o Tail(q) = Tail(q) BY <1>3, ConcatEmptySeq
<1> QED BY <1>1, <1>2, <1>4, <1>5, Zenon

-----------------------------------------------------------------------------
\* The history after a step.
LEMMA ValuePrimed ==
    ASSUME NEW r, NEW n PROVE Value(n, r)' = ValueIn(db', queue', n, r)
  BY Zenon DEF Value

\* A commit, or a query, is the new end of the history.
LEMMA AppendValues ==
    ASSUME NEW S, queue \in Seq(S), NEW e \in S, queue' = Append(queue, e), db' = db
    PROVE  /\ \A r : \A n \in 0 .. Len(queue) : Value(n, r)' = Value(n, r)
           /\ \A r : Latest(r)' = IF r \in DOMAIN e.rows THEN e.rows[r] ELSE Latest(r)
           /\ \A r : \A n : n = Len(queue) + 1 => Value(n, r)' = Latest(r)'
           /\ Len(queue') = Len(queue) + 1 /\ queue' \in Seq(S)
<1>1. /\ queue' \in Seq(S) /\ Len(queue') = Len(queue) + 1
      /\ queue'[Len(queue) + 1] = e /\ Len(queue) \in Nat
    BY AppendProperties, LenProperties
<1>2. queue' = queue \o <<e>> /\ <<e>> \in Seq(S) BY AppendIsConcat
<1>3. ASSUME NEW r
      PROVE  \A n \in 0 .. Len(queue) : ValueIn(db', queue', n, r) = ValueIn(db, queue, n, r)
    <2>1. \A n \in 0 .. Len(queue) :
            ValueIn(db, queue \o <<e>>, n, r) = ValueIn(db, queue, n, r)
        BY <1>2, ValueAppend, Zenon
    <2> QED BY <1>2, <2>1, Zenon
<1>4. ASSUME NEW r, NEW n PROVE Value(n, r)' = ValueIn(db', queue', n, r)
    BY ValuePrimed
<1>5. ASSUME NEW r, NEW n, n = Len(queue) + 1
      PROVE  Value(n, r)' = IF r \in DOMAIN e.rows THEN e.rows[r] ELSE Latest(r)
    <2>0. Value(n, r)' = ValueIn(db', queue', Len(queue) + 1, r) BY <1>4, <1>5
    <2>1. ValueIn(db', queue', Len(queue) + 1, r) =
            IF r \in DOMAIN queue'[Len(queue) + 1].rows THEN queue'[Len(queue) + 1].rows[r]
            ELSE ValueIn(db', queue', Len(queue), r)
        BY <1>1, ValueNext, Zenon
    <2>2. ValueIn(db', queue', Len(queue), r) = Latest(r)
        <3>1. Len(queue) \in 0 .. Len(queue) BY <1>1
        <3> QED BY <1>3, <3>1, LatestIsLast DEF Value
    <2>3. CASE r \in DOMAIN e.rows BY <1>1, <2>0, <2>1, <2>3
    <2>4. CASE r \notin DOMAIN e.rows BY <1>1, <2>0, <2>1, <2>2, <2>4
    <2> QED BY <2>3, <2>4
<1>6. ASSUME NEW r, NEW n, n = Len(queue) + 1 PROVE Latest(r)' = Value(n, r)'
    <2>1. DOMAIN queue' = 1 .. n BY <1>1, <1>6, LenProperties
    <2>2. Latest(r)' = ValueIn(db', queue', n, r) BY <2>1 DEF Latest, ValueIn, LastWrite
    <2> QED BY <2>2, <1>4
<1>7. ASSUME NEW r, NEW n \in 0 .. Len(queue) PROVE Value(n, r)' = Value(n, r)
    <2>1. Value(n, r)' = ValueIn(db', queue', n, r) BY <1>4
    <2>2. Value(n, r) = ValueIn(db, queue, n, r) BY DEF Value
    <2> QED BY <1>3, <2>1, <2>2
<1>8. ASSUME NEW r PROVE Latest(r)' = IF r \in DOMAIN e.rows THEN e.rows[r] ELSE Latest(r)
    BY <1>5, <1>6
<1> QED BY <1>1, <1>6, <1>7, <1>8

\* Several entries at once: a row keeps its value or gets one that they write.
LEMMA ConcatValues ==
    ASSUME NEW S, queue \in Seq(S), NEW z \in Seq(S), queue' = queue \o z, db' = db
    PROVE  /\ \A r : \A n \in 0 .. Len(queue) : Value(n, r)' = Value(n, r)
           /\ \A r, V : Latest(r) \in V
                         /\ (\A k \in DOMAIN z : r \in DOMAIN z[k].rows => z[k].rows[r] \in V)
                    => /\ \A n \in Len(queue) .. Len(queue) + Len(z) : Value(n, r)' \in V
                       /\ Latest(r)' \in V
<1>1. /\ queue' \in Seq(S) /\ Len(queue') = Len(queue) + Len(z)
      /\ Len(queue) \in Nat /\ Len(z) \in Nat /\ DOMAIN z = 1 .. Len(z)
      /\ DOMAIN queue' = 1 .. Len(queue) + Len(z)
    BY ConcatProperties, LenProperties
<1>2. ASSUME NEW r, NEW n \in 0 .. Len(queue) PROVE Value(n, r)' = Value(n, r)
    <2>1. Value(n, r)' = ValueIn(db', queue', n, r) BY ValuePrimed
    <2>2. ValueIn(db, queue \o z, n, r) = ValueIn(db, queue, n, r) BY ValueAppend
    <2> QED BY <2>1, <2>2 DEF Value
<1>3. ASSUME NEW r, NEW V, Latest(r) \in V,
             \A k \in DOMAIN z : r \in DOMAIN z[k].rows => z[k].rows[r] \in V
      PROVE  /\ \A n \in Len(queue) .. Len(queue) + Len(z) : Value(n, r)' \in V
             /\ Latest(r)' \in V
    <2> DEFINE P == {m \in Nat : m <= Len(z) => ValueIn(db', queue', Len(queue) + m, r) \in V}
    <2>1. 0 \in P
        <3>1. Len(queue) \in 0 .. Len(queue) /\ Len(queue) + 0 = Len(queue) BY <1>1
        <3>2. ValueIn(db', queue', Len(queue), r) = Value(Len(queue), r)
            <4>1. ValueIn(db, queue \o z, Len(queue), r) = ValueIn(db, queue, Len(queue), r)
                BY <3>1, ValueAppend
            <4> QED BY <4>1 DEF Value
        <3> QED BY <1>3, <3>1, <3>2, LatestIsLast
    <2>2. ASSUME NEW m \in Nat, m \in P PROVE m + 1 \in P
        <3> SUFFICES ASSUME m + 1 <= Len(z)
                     PROVE  ValueIn(db', queue', Len(queue) + (m + 1), r) \in V
            OBVIOUS
        <3>1. ValueIn(db', queue', Len(queue) + m, r) \in V BY <1>1, <2>2
        <3> DEFINE n == Len(queue) + m
        <3>2. n \in Nat /\ Len(queue) + (m + 1) = n + 1 BY <1>1
        <3>3. ValueIn(db', queue', n + 1, r) =
                IF r \in DOMAIN queue'[n + 1].rows THEN queue'[n + 1].rows[r]
                ELSE ValueIn(db', queue', n, r)
            BY <3>2, ValueNext
        <3>4. queue'[n + 1] = z[m + 1] /\ m + 1 \in DOMAIN z BY <1>1
        <3> HIDE DEF n
        <3>5. ValueIn(db', queue', n + 1, r) \in V
            <4>1. ValueIn(db', queue', n, r) \in V BY <3>1 DEF n
            <4> QED BY <1>3, <3>3, <3>4, <4>1
        <3> QED BY <3>2, <3>5
    <2> HIDE DEF P
    <2>3. \A m \in Nat : m \in P BY <2>1, <2>2, SetInduction
    <2>4. ASSUME NEW n \in Len(queue) .. Len(queue) + Len(z) PROVE Value(n, r)' \in V
        <3>1. Value(n, r)' = ValueIn(db', queue', n, r) BY ValuePrimed
        <3>2. n - Len(queue) \in Nat /\ n - Len(queue) <= Len(z) /\ Len(queue) + (n - Len(queue)) = n
            BY <1>1
        <3>3. n - Len(queue) \in P BY <2>3, <3>2
        <3>4. ValueIn(db', queue', Len(queue) + (n - Len(queue)), r) \in V BY <3>2, <3>3 DEF P
        <3> QED BY <3>1, <3>2, <3>4
    <2>5. Latest(r)' \in V
        <3>1. Latest(r)' = ValueIn(db', queue', Len(queue) + Len(z), r)
            BY <1>1 DEF Latest, ValueIn, LastWrite
        <3>2. Len(z) \in P BY <1>1, <2>3
        <3> QED BY <1>1, <3>1, <3>2 DEF P
    <2> QED BY <2>4, <2>5
<1> QED BY <1>2, <1>3

\* The first entry takes effect.  An entry that writes nothing is a query.
LEMMA TakeValues ==
    ASSUME NEW S, queue \in Seq(S), Finish(1),
           \/ db' = queue[1].rows ++ db
           \/ db' = db /\ DOMAIN queue[1].rows = {}
    PROVE  /\ \A r \in DOMAIN db : \A n \in 0 .. Len(queue) - 1 : Value(n, r)' = Value(n + 1, r)
           /\ \A r \in DOMAIN db : Latest(r)' = Latest(r)
           /\ queue # <<>> /\ queue' = Tail(queue) /\ queue' \in Seq(S)
           /\ DOMAIN db \subseteq DOMAIN db'
<1>1. queue # <<>> /\ Len(queue) \in Nat /\ Len(queue) > 0 BY LenProperties, EmptySeq DEF Finish
<1>2. queue' = Tail(queue) BY <1>1, FirstRemoved DEF Finish
<1>3. queue' \in Seq(S) /\ Len(queue') = Len(queue) - 1 BY <1>1, <1>2, HeadTailProperties
<1>4. DOMAIN db \subseteq DOMAIN db' BY DEF ++
<1>5. ASSUME NEW r, NEW n PROVE Value(n, r)' = ValueIn(db', queue', n, r)
    BY ValuePrimed
<1>6. ASSUME NEW r \in DOMAIN db, NEW n \in 0 .. Len(queue) - 1
      PROVE  ValueIn(db', queue', n, r) = ValueIn(queue[1].rows ++ db, Tail(queue), n, r)
    <2>1. CASE db' = queue[1].rows ++ db BY <1>2, <2>1
    <2>2. CASE db' = db /\ DOMAIN queue[1].rows = {}
        <3>1. db'[r] = (queue[1].rows ++ db)[r] BY <2>2 DEF ++
        <3> QED BY <1>2, <3>1 DEF ValueIn, LastWrite
    <2> QED BY <2>1, <2>2
<1>7. ASSUME NEW r \in DOMAIN db, NEW n \in 0 .. Len(queue) - 1
      PROVE  Value(n, r)' = Value(n + 1, r)
    <2>1. ValueIn(queue[1].rows ++ db, Tail(queue), n, r) = ValueIn(db, queue, n + 1, r)
        BY <1>1, ValueTail
    <2>2. Value(n, r)' = ValueIn(db', queue', n, r) BY <1>5
    <2>3. Value(n + 1, r) = ValueIn(db, queue, n + 1, r) BY DEF Value
    <2> QED BY <1>6, <2>1, <2>2, <2>3
<1>8. ASSUME NEW r \in DOMAIN db PROVE Latest(r)' = Latest(r)
    <2>1. DOMAIN queue' = 1 .. Len(queue') BY <1>3, LenProperties
    <2>2. Latest(r)' = ValueIn(db', queue', Len(queue) - 1, r)
        BY <1>3, <2>1 DEF Latest, ValueIn, LastWrite
    <2>3. ASSUME NEW n, n = Len(queue) - 1 PROVE ValueIn(db', queue', n, r) = Value(n + 1, r)
        BY <1>1, <1>5, <1>7, <2>3
    <2>4. (Len(queue) - 1) + 1 = Len(queue) BY <1>1
    <2>5. Latest(r)' = Value(Len(queue), r) BY <2>2, <2>3, <2>4
    <2> QED BY <2>5, LatestIsLast
<1> QED BY <1>1, <1>2, <1>3, <1>4, <1>7, <1>8

-----------------------------------------------------------------------------
(***************************************************************************)
(* Sums.  The fold of the community modules takes the elements in an order *)
(* of its own; the sum does not depend on it.                              *)
(***************************************************************************)

SumOn(T, f) == FoldFunctionOnSet(+, 0, f, T)
OneOf(s) == CHOOSE x \in s : TRUE

\* The partial sums over the subsets of S.
Sums(S, f) ==
    {g \in [SUBSET S -> Int] : \A s \in SUBSET S :
        g[s] = IF s = {} THEN 0 ELSE f[OneOf(s)] + g[s \ {OneOf(s)}]}

\* They exist: the subsets of at most n elements are summed one size after the
\* other.
LEMMA SumsExist ==
    ASSUME NEW S, IsFiniteSet(S), NEW f, \A x \in S : f[x] \in Int
    PROVE  Sums(S, f) # {}
<1> DEFINE D(n) == {s \in SUBSET S : Cardinality(s) <= n}
           Q(g, s) == g[s] = IF s = {} THEN 0 ELSE f[OneOf(s)] + g[s \ {OneOf(s)}]
           P == {n \in Nat : \E g \in [D(n) -> Int] : \A s \in D(n) : Q(g, s)}
<1>1. \A s \in SUBSET S : IsFiniteSet(s) /\ Cardinality(s) \in Nat /\ (Cardinality(s) = 0 <=> s = {})
    BY FS_Subset, FS_CardinalityType, FS_EmptySet
<1>2. \A s \in SUBSET S : s # {} =>
        /\ OneOf(s) \in s /\ s \ {OneOf(s)} \in SUBSET S
        /\ Cardinality(s \ {OneOf(s)}) = Cardinality(s) - 1
    <2> SUFFICES ASSUME NEW s \in SUBSET S, s # {}
                 PROVE  /\ OneOf(s) \in s /\ s \ {OneOf(s)} \in SUBSET S
                        /\ Cardinality(s \ {OneOf(s)}) = Cardinality(s) - 1
        OBVIOUS
    <2>1. OneOf(s) \in s BY DEF OneOf
    <2> QED BY <1>1, <2>1, FS_RemoveElement
<1>3. 0 \in P
    <2> DEFINE g == [s \in D(0) |-> 0]
    <2>1. \A s \in D(0) : s = {} BY <1>1
    <2>2. g \in [D(0) -> Int] /\ \A s \in D(0) : Q(g, s) BY <2>1
    <2> QED BY <2>2
<1>4. ASSUME NEW n \in Nat, n \in P PROVE n + 1 \in P
    <2>1. PICK g \in [D(n) -> Int] : \A s \in D(n) : Q(g, s) BY <1>4
    <2> DEFINE Val(s) == IF s = {} THEN 0 ELSE f[OneOf(s)] + g[s \ {OneOf(s)}]
               h == [s \in D(n + 1) |-> Val(s)]
    <2>2. \A s \in D(n + 1) : s # {} => s \ {OneOf(s)} \in D(n) BY <1>1, <1>2
    <2>3. \A s \in D(n + 1) : Val(s) \in Int BY <1>2, <2>1, <2>2
    <2>4. h \in [D(n + 1) -> Int] BY <2>3
    <2>5. \A s \in D(n) : s \in D(n + 1) /\ h[s] = g[s] BY <1>1, <2>1
    <2>6. \A s \in D(n + 1) : Q(h, s) BY <2>2, <2>5
    <2> HIDE DEF h, D, Q
    <2>7. \E k \in [D(n + 1) -> Int] : \A s \in D(n + 1) : Q(k, s) BY <2>4, <2>6
    <2> QED BY <2>7
<1>5. Cardinality(S) \in Nat BY FS_CardinalityType
<1> HIDE DEF P
<1>6. Cardinality(S) \in P BY <1>3, <1>4, <1>5, SetInduction
<1>7. D(Cardinality(S)) = SUBSET S BY FS_Subset
<1> QED BY <1>6, <1>7, Zenon DEF P, Sums

\* The fold is the last of them.
LEMMA SumIsFold ==
    ASSUME NEW S, IsFiniteSet(S), NEW f, \A x \in S : f[x] \in Int
    PROVE  \E g \in Sums(S, f) : SumOn(S, f) = g[S]
<1>1. PICK g \in Sums(S, f) : TRUE BY SumsExist
<1>2. g = [s \in SUBSET S |-> IF s = {} THEN 0 ELSE f[OneOf(s)] + g[s \ {OneOf(s)}]]
    BY <1>1 DEF Sums
<1> DEFINE iter[s \in SUBSET S] == IF s = {} THEN 0 ELSE f[OneOf(s)] + iter[s \ {OneOf(s)}]
<1>3. iter = [s \in SUBSET S |-> IF s = {} THEN 0 ELSE f[OneOf(s)] + iter[s \ {OneOf(s)}]]
    BY <1>2, Zenon
<1>4. SumOn(S, f) = iter[S] BY Zenon DEF SumOn, FoldFunctionOnSet, MapThenFoldSet, OneOf
<1> HIDE DEF iter
<1> DEFINE Equal == {n \in Nat : \A s \in SUBSET S : Cardinality(s) = n => iter[s] = g[s]}
<1>5. \A s \in SUBSET S : IsFiniteSet(s) /\ Cardinality(s) \in Nat /\ (Cardinality(s) = 0 <=> s = {})
    BY FS_Subset, FS_CardinalityType, FS_EmptySet
<1>6. 0 \in Equal BY <1>2, <1>3, <1>5
<1>7. ASSUME NEW n \in Nat, n \in Equal PROVE n + 1 \in Equal
    <2> SUFFICES ASSUME NEW s \in SUBSET S, Cardinality(s) = n + 1 PROVE iter[s] = g[s]
        OBVIOUS
    <2>1. s # {} /\ OneOf(s) \in s BY <1>5 DEF OneOf
    <2>2. s \ {OneOf(s)} \in SUBSET S /\ Cardinality(s \ {OneOf(s)}) = n
        BY <1>5, <2>1, FS_RemoveElement
    <2>3. iter[s \ {OneOf(s)}] = g[s \ {OneOf(s)}] BY <1>7, <2>2
    <2>4. iter[s] = f[OneOf(s)] + iter[s \ {OneOf(s)}] BY <1>3, <2>1
    <2>5. g[s] = f[OneOf(s)] + g[s \ {OneOf(s)}] BY <1>2, <2>1
    <2> QED BY <2>3, <2>4, <2>5
<1> HIDE DEF Equal
<1>8. \A n \in Nat : n \in Equal BY <1>6, <1>7, SetInduction
<1>9. iter[S] = g[S] BY <1>5, <1>8 DEF Equal
<1> QED BY <1>1, <1>4, <1>9

\* Two partial sums agree where they are both defined.
LEMMA SumsAgree ==
    ASSUME NEW S, IsFiniteSet(S), NEW T \in SUBSET S, NEW f, NEW h, \A x \in T : f[x] = h[x],
           NEW a \in Sums(S, f), NEW b \in Sums(T, h)
    PROVE  a[T] = b[T]
<1> DEFINE Equal == {n \in Nat : \A s \in SUBSET T : Cardinality(s) = n => a[s] = b[s]}
<1>1. \A s \in SUBSET T : IsFiniteSet(s) /\ Cardinality(s) \in Nat /\ (Cardinality(s) = 0 <=> s = {})
    BY FS_Subset, FS_CardinalityType, FS_EmptySet
<1>2. \A s \in SUBSET T : a[s] = IF s = {} THEN 0 ELSE f[OneOf(s)] + a[s \ {OneOf(s)}] BY DEF Sums
<1>3. \A s \in SUBSET T : b[s] = IF s = {} THEN 0 ELSE h[OneOf(s)] + b[s \ {OneOf(s)}] BY DEF Sums
<1>4. 0 \in Equal BY <1>1, <1>2, <1>3
<1>5. ASSUME NEW n \in Nat, n \in Equal PROVE n + 1 \in Equal
    <2> SUFFICES ASSUME NEW s \in SUBSET T, Cardinality(s) = n + 1 PROVE a[s] = b[s]
        OBVIOUS
    <2>1. s # {} /\ OneOf(s) \in s BY <1>1 DEF OneOf
    <2>2. s \ {OneOf(s)} \in SUBSET T /\ Cardinality(s \ {OneOf(s)}) = n
        <3>1. Cardinality(s \ {OneOf(s)}) = Cardinality(s) - 1 BY <1>1, <2>1, FS_RemoveElement
        <3> QED BY <3>1
    <2>3. a[s \ {OneOf(s)}] = b[s \ {OneOf(s)}] BY <1>5, <2>2
    <2>4. a[s] = f[OneOf(s)] + a[s \ {OneOf(s)}] BY <1>2, <2>1
    <2>5. b[s] = h[OneOf(s)] + b[s \ {OneOf(s)}] BY <1>3, <2>1
    <2>6. f[OneOf(s)] = h[OneOf(s)] BY <2>1
    <2> QED BY <2>3, <2>4, <2>5, <2>6
<1> HIDE DEF Equal
<1>6. \A n \in Nat : n \in Equal BY <1>4, <1>5, SetInduction
<1> QED BY <1>1, <1>6 DEF Equal

\* A sum over a set depends on the values of its elements only.
LEMMA SumSame ==
    ASSUME NEW T, IsFiniteSet(T), NEW f, NEW h, \A x \in T : f[x] \in Int /\ f[x] = h[x]
    PROVE  SumOn(T, f) = SumOn(T, h)
<1>1. PICK a \in Sums(T, f) : SumOn(T, f) = a[T] BY SumIsFold
<1>2. PICK b \in Sums(T, h) : SumOn(T, h) = b[T] BY SumIsFold
<1>3. T \in SUBSET T OBVIOUS
<1> QED BY <1>1, <1>2, <1>3, SumsAgree

\* How a sum is taken apart.
LEMMA SumParts ==
    ASSUME NEW T, IsFiniteSet(T), NEW f, \A x \in T : f[x] \in Int
    PROVE  /\ SumOn(T, f) \in Int
           /\ T = {} => SumOn(T, f) = 0
           /\ T # {} => SumOn(T, f) = f[OneOf(T)] + SumOn(T \ {OneOf(T)}, f)
<1>1. PICK a \in Sums(T, f) : SumOn(T, f) = a[T] BY SumIsFold
<1>2. a[T] \in Int /\ a[T] = IF T = {} THEN 0 ELSE f[OneOf(T)] + a[T \ {OneOf(T)}] BY DEF Sums
<1>3. ASSUME T # {} PROVE SumOn(T \ {OneOf(T)}, f) = a[T \ {OneOf(T)}]
    <2> DEFINE R == T \ {OneOf(T)}
    <2>1. R \in SUBSET T /\ IsFiniteSet(R) BY FS_Subset
    <2> HIDE DEF R
    <2>2. PICK b \in Sums(R, f) : SumOn(R, f) = b[R] BY <2>1, SumIsFold
    <2>3. a[R] = b[R] BY <2>1, <2>2, SumsAgree
    <2> QED BY <2>2, <2>3 DEF R
<1> QED BY <1>1, <1>2, <1>3

\* Any element may be taken out.
LEMMA SumRemove ==
    ASSUME NEW S, IsFiniteSet(S), NEW f, \A x \in S : f[x] \in Int, NEW e \in S
    PROVE  SumOn(S, f) = f[e] + SumOn(S \ {e}, f)
<1> DEFINE Good(T) == \A x \in T : SumOn(T, f) = f[x] + SumOn(T \ {x}, f)
           P == {n \in Nat : \A T \in SUBSET S : Cardinality(T) = n => Good(T)}
<1>1. \A s \in SUBSET S : IsFiniteSet(s) /\ Cardinality(s) \in Nat /\ (Cardinality(s) = 0 <=> s = {})
    BY FS_Subset, FS_CardinalityType, FS_EmptySet
<1>2. 0 \in P BY <1>1
<1>3. ASSUME NEW n \in Nat, n \in P PROVE n + 1 \in P
    <2> SUFFICES ASSUME NEW T \in SUBSET S, Cardinality(T) = n + 1, NEW x \in T
                 PROVE  SumOn(T, f) = f[x] + SumOn(T \ {x}, f)
        OBVIOUS
    <2> DEFINE c == OneOf(T)
    <2>1. c \in T BY DEF OneOf
    <2>2. SumOn(T, f) = f[c] + SumOn(T \ {c}, f) BY <1>1, <2>1, SumParts
    <2> HIDE DEF c
    <2>3. CASE x = c BY <2>2, <2>3
    <2>4. CASE x # c
        <3>1. /\ T \ {c} \in SUBSET S /\ Cardinality(T \ {c}) = n
              /\ T \ {x} \in SUBSET S /\ Cardinality(T \ {x}) = n
            <4>1. Cardinality(T \ {c}) = Cardinality(T) - 1 BY <1>1, <2>1, FS_RemoveElement
            <4>2. Cardinality(T \ {x}) = Cardinality(T) - 1 BY <1>1, FS_RemoveElement
            <4> QED BY <4>1, <4>2
        <3>2. Good(T \ {c}) /\ Good(T \ {x}) BY <1>3, <3>1
        <3>3. x \in T \ {c} /\ c \in T \ {x} BY <2>1, <2>4
        <3>4. SumOn(T \ {c}, f) = f[x] + SumOn((T \ {c}) \ {x}, f) BY <3>2, <3>3
        <3>5. SumOn(T \ {x}, f) = f[c] + SumOn((T \ {x}) \ {c}, f) BY <3>2, <3>3
        <3>6. (T \ {c}) \ {x} = (T \ {x}) \ {c} OBVIOUS
        <3> DEFINE R == (T \ {c}) \ {x}
        <3>7. SumOn(R, f) \in Int
            <4>1. R \in SUBSET S OBVIOUS
            <4> HIDE DEF R
            <4> QED BY <1>1, <4>1, SumParts
        <3>8. f[x] \in Int /\ f[c] \in Int BY <2>1
        <3>9. SumOn(T, f) = f[c] + (f[x] + SumOn(R, f)) BY <2>2, <3>4
        <3>10. SumOn(T \ {x}, f) = f[c] + SumOn(R, f) BY <3>5, <3>6
        <3> HIDE DEF R
        <3> QED BY <3>7, <3>8, <3>9, <3>10
    <2> QED BY <2>3, <2>4
<1> HIDE DEF P
<1>4. \A n \in Nat : n \in P BY <1>2, <1>3, SetInduction
<1>5. Good(S) BY <1>1, <1>4 DEF P
<1> QED BY <1>5

\* A change of one value changes the sum by the difference.
LEMMA SumChange ==
    ASSUME NEW S, IsFiniteSet(S), NEW f, \A x \in S : f[x] \in Int, NEW e \in S,
           NEW h, h[e] \in Int, \A x \in S \ {e} : h[x] = f[x]
    PROVE  SumOn(S, h) = SumOn(S, f) - f[e] + h[e] /\ SumOn(S, f) \in Int
<1>1. IsFiniteSet(S \ {e}) BY FS_RemoveElement
<1>2. SumOn(S \ {e}, f) = SumOn(S \ {e}, h) BY <1>1, SumSame
<1>3. SumOn(S \ {e}, f) \in Int BY <1>1, SumParts
<1>4. SumOn(S, f) = f[e] + SumOn(S \ {e}, f) BY SumRemove
<1>5. SumOn(S, h) = h[e] + SumOn(S \ {e}, h)
    <2>1. \A x \in S : h[x] \in Int OBVIOUS
    <2> QED BY <2>1, SumRemove
<1> QED BY <1>2, <1>3, <1>4, <1>5

=============================================================================
