------------------------ MODULE ClientContext_proofs ------------------------
(***************************************************************************)
(* Theorems about ClientContext, for every size of the buffers and every   *)
(* time-out: the bytes of a write arrive in order and once, what a         *)
(* synchronous write or a flush that waited to its end leaves is           *)
(* acknowledged, and reading gives the window back exactly, so the end of  *)
(* a WiFiClient closes its connection and does not reset it.               *)
(***************************************************************************)
EXTENDS ClientContext, SequenceTheorems, WellFoundedInduction, TLAPS

\* n bytes of a write, of which a came before.
Count(a, n) == [i \in 1..n |-> a + i]

Sources == [kind : {"none", "array", "stream"}, size : Nat, pos : Nat, buffer : Seq(Nat), fetched : Nat]

\* A stream's buffer holds what was fetched and not released.
Exact(s) ==
    /\ s.pos <= s.size
    /\ s.kind = "stream" => s.pos <= s.fetched /\ s.buffer = Count(s.pos, s.fetched - s.pos)

\* What has to be known of the types.
WriteTypes ==
    /\ pc \in {"none", "idle", "connecting", "writing", "flushing", "deleted"}
    /\ pcb \in BOOLEAN /\ conn \in States
    /\ source \in Sources /\ written \in Nat
    /\ queue \in 0..SndBuf
    /\ flushed \in BOOLEAN

\* A write that goes on has got as far as its source says.
WriteExact ==
    /\ Exact(source)
    /\ pc = "writing" => written = source.pos
    /\ WrittenExact

\* What a wait has seen of the send buffer, and lwIP has only got rid of since.
SeenBounds == pc = "flushing" => seen \in Nat /\ queue <= seen

\* A live pcb is known to the context; one the context knows of is live, or lwIP
\* has just freed it.
PcbKnown ==
    /\ conn \in {"SYN_SENT", "ESTABLISHED"} => pcb
    /\ pcb => conn \in {"SYN_SENT", "ESTABLISHED", "gone"}

Sound == WriteTypes /\ WriteExact /\ SeenBounds /\ PcbKnown

----------------------------------------------------------------------------
(* Sequences of consecutive bytes. *)

LEMMA CountType ==
    ASSUME NEW a \in Nat, NEW n \in Nat
    PROVE  /\ Count(a, n) \in Seq(Nat) /\ Len(Count(a, n)) = n
           /\ \A i \in 1..n : Count(a, n)[i] = a + i
<1>1. Count(a, n) \in [1..n -> Nat]
  BY DEF Count
<1> QED
  BY <1>1 DEF Count

\* Two sequences of numbers that agree everywhere.
LEMMA SameNumbers ==
    ASSUME NEW p \in Seq(Nat), NEW q \in Seq(Nat), NEW n \in Nat, Len(p) = n, Len(q) = n,
           \A i \in 1..n : p[i] = q[i]
    PROVE  p = q
BY SeqEqual

\* More of them after those there are.
LEMMA CountCat ==
    ASSUME NEW a \in Nat, NEW m \in Nat, NEW n \in Nat
    PROVE  Count(a, m) \o Count(a + m, n) = Count(a, m + n)
<1> DEFINE p == Count(a, m)
           q == Count(a + m, n)
           r == Count(a, m + n)
<1>1. p \in Seq(Nat) /\ Len(p) = m /\ \A i \in 1..m : p[i] = a + i
  BY CountType
<1>2. a + m \in Nat /\ m + n \in Nat
  OBVIOUS
<1>3. q \in Seq(Nat) /\ Len(q) = n /\ \A i \in 1..n : q[i] = a + m + i
  BY <1>2, CountType
<1>4. r \in Seq(Nat) /\ Len(r) = m + n /\ \A i \in 1..(m + n) : r[i] = a + i
  BY <1>2, CountType
<1> HIDE DEF p, q, r
<1>5. /\ p \o q \in Seq(Nat)
      /\ Len(p \o q) = Len(p) + Len(q)
      /\ \A i \in 1..Len(p) + Len(q) : (p \o q)[i] = IF i <= Len(p) THEN p[i] ELSE q[i - Len(p)]
  BY <1>1, <1>3, ConcatProperties
<1>6. Len(p \o q) = m + n
  BY <1>1, <1>3, <1>5
<1>7. ASSUME NEW i \in 1..(m + n) PROVE (p \o q)[i] = r[i]
  <2>0. i \in 1..Len(p) + Len(q)
    BY <1>1, <1>3
  <2>1. (p \o q)[i] = IF i <= Len(p) THEN p[i] ELSE q[i - Len(p)]
    BY <2>0, <1>5
  <2>2. CASE i <= m
    <3>1. (p \o q)[i] = p[i] /\ i \in 1..m
      BY <1>1, <2>1, <2>2
    <3> QED BY <1>1, <1>4, <3>1
  <2>3. CASE i > m
    <3>1. (p \o q)[i] = q[i - m] /\ i - m \in 1..n
      BY <1>1, <2>1, <2>3
    <3>2. q[i - m] = a + i
      BY <1>3, <3>1
    <3> QED BY <1>4, <3>1, <3>2
  <2>4. i <= m \/ i > m
    OBVIOUS
  <2> QED BY <2>2, <2>3, <2>4, Zenon
<1>8. p \o q = r
  BY <1>2, <1>4, <1>5, <1>6, <1>7, SameNumbers
<1> QED BY <1>8 DEF p, q, r

\* The first n of them, and what is left without those.
LEMMA CountSub ==
    ASSUME NEW a \in Nat, NEW m \in Nat, NEW n \in 0..m
    PROVE  /\ SubSeq(Count(a, m), 1, n) = Count(a, n)
           /\ SubSeq(Count(a, m), n + 1, m) = Count(a + n, m - n)
<1> DEFINE c == Count(a, m)
           first == Count(a, n)
           rest  == Count(a + n, m - n)
<1>0. n \in Nat /\ n + 1 \in Int /\ a + n \in Nat /\ m - n \in Nat
  OBVIOUS
<1>1. c \in Seq(Nat) /\ Len(c) = m /\ \A i \in 1..m : c[i] = a + i
  BY CountType
<1>2. first \in Seq(Nat) /\ Len(first) = n /\ \A i \in 1..n : first[i] = a + i
  BY <1>0, CountType
<1>3. rest \in Seq(Nat) /\ Len(rest) = m - n /\ \A i \in 1..(m - n) : rest[i] = a + n + i
  BY <1>0, CountType
<1> HIDE DEF c, first, rest
<1>4. \A i \in 1..m : c[i] \in Nat
  BY <1>1
<1>5. SubSeq(c, 1, n) = first
  <2>1. \A i \in 1..n : c[i] \in Nat
    BY <1>4
  <2>2. /\ SubSeq(c, 1, n) \in Seq(Nat)
        /\ Len(SubSeq(c, 1, n)) = IF 1 <= n THEN n - 1 + 1 ELSE 0
        /\ \A i \in 1..n - 1 + 1 : SubSeq(c, 1, n)[i] = c[1 + i - 1]
    BY <1>0, <2>1, SubSeqProperties
  <2>3. Len(SubSeq(c, 1, n)) = n
    BY <1>0, <2>2
  <2>4. ASSUME NEW i \in 1..n PROVE SubSeq(c, 1, n)[i] = first[i]
    BY <1>0, <1>1, <1>2, <2>2
  <2> QED
    BY <1>0, <1>2, <2>2, <2>3, <2>4, SameNumbers
<1>6. SubSeq(c, n + 1, m) = rest
  <2>1. \A i \in (n + 1)..m : c[i] \in Nat
    BY <1>0, <1>4
  <2>2. /\ SubSeq(c, n + 1, m) \in Seq(Nat)
        /\ Len(SubSeq(c, n + 1, m)) = IF n + 1 <= m THEN m - (n + 1) + 1 ELSE 0
        /\ \A i \in 1..m - (n + 1) + 1 : SubSeq(c, n + 1, m)[i] = c[n + 1 + i - 1]
    BY <1>0, <2>1, SubSeqProperties
  <2>3. Len(SubSeq(c, n + 1, m)) = m - n
    BY <1>0, <2>2
  <2>4. ASSUME NEW i \in 1..(m - n) PROVE SubSeq(c, n + 1, m)[i] = rest[i]
    <3>1. i \in 1..m - (n + 1) + 1 /\ n + 1 + i - 1 = n + i /\ n + i \in 1..m
      BY <1>0
    <3>2. SubSeq(c, n + 1, m)[i] = c[n + i]
      BY <2>2, <3>1
    <3> QED BY <1>0, <1>1, <1>3, <3>1, <3>2
  <2> QED
    BY <1>0, <1>3, <2>2, <2>3, <2>4, SameNumbers
<1> QED BY <1>5, <1>6 DEF c, first, rest

----------------------------------------------------------------------------
(* The data sources. *)

\* What get_buffer(n) leaves is a source that holds the n bytes it returns.
LEMMA FetchedExact ==
    ASSUME NEW s \in Sources, Exact(s), NEW n \in 0..Left(s)
    PROVE  LET f == Fetched(s, n) IN
           /\ f \in Sources /\ Exact(f)
           /\ f.kind = s.kind /\ f.size = s.size /\ f.pos = s.pos
           /\ f.kind = "stream" => n <= f.fetched - f.pos
           /\ Offered(f, n) = Count(s.pos, n)
<1> DEFINE f == Fetched(s, n)
<1>0. n \in Nat /\ s.pos \in Nat /\ s.fetched \in Nat /\ s.buffer \in Seq(Nat)
  BY DEF Sources, Exact, Left
<1>1. CASE s.kind = "stream" /\ n > s.fetched - s.pos
  <2> DEFINE m == s.fetched - s.pos
             k == n - m
  <2>1. m \in Nat /\ k \in Nat /\ m + k = n /\ s.fetched = s.pos + m /\ s.buffer = Count(s.pos, m)
    BY <1>0, <1>1 DEF Exact
  <2>2. f = [s EXCEPT !.buffer = s.buffer \o [i \in 1..k |-> s.fetched + i], !.fetched = s.pos + n]
    BY <1>1 DEF Fetched
  <2>3. [i \in 1..k |-> s.fetched + i] = Count(s.pos + m, k)
    BY <2>1 DEF Count
  <2> HIDE DEF m, k
  <2>4. s.buffer \o [i \in 1..k |-> s.fetched + i] = Count(s.pos, n)
    <3> DEFINE p == s.pos
    <3>1. p \in Nat
      BY <1>0
    <3> HIDE DEF p
    <3>2. Count(p, m) \o Count(p + m, k) = Count(p, m + k)
      BY <2>1, <3>1, CountCat
    <3> QED BY <2>1, <2>3, <3>2 DEF p
  <2>5. f = [s EXCEPT !.buffer = Count(s.pos, n), !.fetched = s.pos + n]
    BY <2>2, <2>4
  <2>6. Count(s.pos, n) \in Seq(Nat) /\ SubSeq(Count(s.pos, n), 1, n) = Count(s.pos, n)
    <3> DEFINE p == s.pos
    <3>1. p \in Nat /\ n \in 0..n
      BY <1>0
    <3> HIDE DEF p
    <3>2. Count(p, n) \in Seq(Nat)
      BY <1>0, <3>1, CountType
    <3>3. SubSeq(Count(p, n), 1, n) = Count(p, n)
      BY <1>0, <3>1, CountSub
    <3> QED BY <3>2, <3>3 DEF p
  <2> HIDE DEF f
  <2>7. f \in Sources /\ f.kind = s.kind /\ f.size = s.size /\ f.pos = s.pos
    <3> DEFINE b == Count(s.pos, n)
               g == [s EXCEPT !.buffer = b]
    <3>1. b \in Seq(Nat) /\ s.pos + n \in Nat
      BY <1>0, <2>6
    <3>2. f = [g EXCEPT !.fetched = s.pos + n]
      BY <2>5
    <3> HIDE DEF b
    <3>3. g \in Sources /\ g.kind = s.kind /\ g.size = s.size /\ g.pos = s.pos
      BY <3>1 DEF Sources
    <3> HIDE DEF g
    <3> QED BY <3>1, <3>2, <3>3 DEF Sources
  <2>8. f.fetched = s.pos + n /\ f.buffer = Count(s.pos, n)
    BY <2>5 DEF Sources
  <2>9. Exact(f) /\ n <= f.fetched - f.pos
    <3>1. f.fetched - f.pos = n /\ f.pos <= f.fetched
      BY <1>0, <2>7, <2>8
    <3>2. f.buffer = Count(f.pos, f.fetched - f.pos)
      BY <2>7, <2>8, <3>1
    <3> QED BY <2>7, <3>1, <3>2, <1>0 DEF Exact
  <2>10. Offered(f, n) = SubSeq(Count(s.pos, n), 1, n)
    BY <1>1, <2>7, <2>8 DEF Offered
  <2> QED BY <2>6, <2>7, <2>9, <2>10 DEF f
<1>2. CASE s.kind = "stream" /\ ~(n > s.fetched - s.pos)
  <2>1. f = s
    BY <1>2 DEF Fetched
  <2>2. s.buffer = Count(s.pos, s.fetched - s.pos) /\ s.fetched - s.pos \in Nat
    BY <1>0, <1>2 DEF Exact
  <2>3. n \in 0..(s.fetched - s.pos)
    BY <1>0, <1>2, <2>2
  <2>4. SubSeq(s.buffer, 1, n) = Count(s.pos, n)
    <3> DEFINE p == s.pos
               m == s.fetched - s.pos
    <3>1. p \in Nat /\ m \in Nat /\ n \in 0..m /\ s.buffer = Count(p, m)
      BY <1>0, <2>2, <2>3
    <3> HIDE DEF p, m
    <3>2. SubSeq(Count(p, m), 1, n) = Count(p, n)
      BY <3>1, CountSub
    <3> QED BY <3>1, <3>2 DEF p
  <2>5. Offered(s, n) = Count(s.pos, n)
    BY <1>2, <2>4 DEF Offered
  <2> QED BY <2>1, <2>3, <2>5, <2>2
<1>3. CASE s.kind # "stream"
  <2>1. f = s
    BY <1>3 DEF Fetched
  <2>2. Offered(s, n) = Count(s.pos, n)
    BY <1>3 DEF Offered, Count
  <2> QED BY <1>3, <2>1, <2>2
<1> QED BY <1>1, <1>2, <1>3

\* release_buffer(n) of bytes that were fetched leaves the rest.
LEMMA ReleasedExact ==
    ASSUME NEW s \in Sources, Exact(s), NEW n \in 0..Left(s),
           s.kind = "stream" => n <= s.fetched - s.pos
    PROVE  /\ Released(s, n) \in Sources /\ Exact(Released(s, n))
           /\ Released(s, n).pos = s.pos + n
<1> DEFINE r == Released(s, n)
<1>0. /\ n \in Nat /\ s.pos \in Nat /\ s.size \in Nat /\ s.fetched \in Nat /\ s.buffer \in Seq(Nat)
      /\ s.pos + n \in Nat /\ s.pos + n <= s.size
  BY DEF Sources, Exact, Left
<1>1. CASE s.kind = "stream"
  <2> DEFINE m == s.fetched - s.pos
  <2>1. m \in Nat /\ n \in 0..m /\ s.buffer = Count(s.pos, m) /\ m - n \in Nat
    BY <1>0, <1>1 DEF Exact
  <2>3. SubSeq(s.buffer, n + 1, Len(s.buffer)) = Count(s.pos + n, m - n)
    <3> DEFINE p == s.pos
    <3>1. p \in Nat /\ s.buffer = Count(p, m)
      BY <1>0, <2>1
    <3> HIDE DEF p, m
    <3>2. Len(Count(p, m)) = m
      BY <2>1, <3>1, CountType
    <3>3. SubSeq(Count(p, m), n + 1, m) = Count(p + n, m - n)
      BY <2>1, <3>1, CountSub
    <3> QED BY <3>1, <3>2, <3>3 DEF p
  <2>4. r = [s EXCEPT !.pos = s.pos + n, !.buffer = Count(s.pos + n, m - n)]
    BY <1>1, <2>3 DEF Released
  <2>5. Count(s.pos + n, m - n) \in Seq(Nat)
    BY <1>0, <2>1, CountType
  <2> HIDE DEF r
  <2>6. r \in Sources /\ r.pos = s.pos + n /\ r.size = s.size /\ r.fetched = s.fetched
    BY <1>0, <2>4, <2>5 DEF Sources
  <2>7. r.buffer = Count(s.pos + n, m - n)
    BY <2>4 DEF Sources
  <2>8. m - n = r.fetched - r.pos /\ r.pos <= r.fetched
    BY <1>0, <2>1, <2>6
  <2>9. r.buffer = Count(r.pos, r.fetched - r.pos)
    BY <2>6, <2>7, <2>8
  <2> QED BY <1>0, <2>6, <2>8, <2>9 DEF Exact, r
<1>2. CASE s.kind # "stream"
  <2>1. r = [s EXCEPT !.pos = s.pos + n]
    BY <1>2 DEF Released, Sources
  <2> HIDE DEF r
  <2>2. r \in Sources /\ r.pos = s.pos + n /\ r.size = s.size /\ r.kind = s.kind
    BY <1>0, <2>1 DEF Sources
  <2> QED BY <1>0, <1>2, <2>2 DEF Exact, r
<1> QED BY <1>1, <1>2

----------------------------------------------------------------------------
(* The steps. *)

LEMMA FromOne == \A n \in Nat : Count(0, n) = [i \in 1..n |-> i]
BY DEF Count

LEMMA SizeTypes == SndBuf \in Nat
BY ContextAssumption DEF ContextAssumption

\* One round of a write goes on where the last one ended.
LEMMA RoundExact ==
    ASSUME NEW STATE s, NEW STATE done, NEW STATE before,
           s \in Sources, Exact(s), done = s.pos, before = Count(0, done),
           pcb \in BOOLEAN, queue \in 0..SndBuf,
           WriteRound(s, done, before)
    PROVE  /\ source' \in Sources /\ Exact(source')
           /\ written' \in Nat /\ sent' = Count(0, written')
           /\ queue' \in 0..SndBuf
           /\ pc' \in {"idle", "flushing", "writing"}
           /\ pc' = "writing" => written' = source'.pos
           /\ pc' = "flushing" => seen' = queue'
           /\ pc' = "idle" => ~(sync /\ pcb)
<1> DEFINE n == IF pcb THEN Min2(SndBuf - queue, Left(s)) ELSE 0
           f == Fetched(s, n)
<1>0. done \in Nat /\ s.pos \in Nat /\ s.size \in Nat
  BY DEF Sources
<1>1. n \in 0..Left(s) /\ n \in Nat /\ queue + n \in 0..SndBuf
  BY <1>0, SizeTypes DEF Min2, Left, Exact
<1> HIDE DEF n
<1>2. /\ f \in Sources /\ Exact(f)
      /\ f.kind = s.kind /\ f.size = s.size /\ f.pos = s.pos
      /\ f.kind = "stream" => n <= f.fetched - f.pos
      /\ Offered(f, n) = Count(s.pos, n)
  BY <1>1, FetchedExact
<1>3. n \in 0..Left(f)
  BY <1>1, <1>2 DEF Left
<1>4. /\ Released(f, n) \in Sources /\ Exact(Released(f, n))
      /\ Released(f, n).pos = f.pos + n
  BY <1>2, <1>3, ReleasedExact
<1>5. before \o Offered(f, n) = Count(0, done + n)
  <2>1. 0 + done = done /\ 0 \in Nat
    BY <1>0
  <2>2. Count(0, done) \o Count(0 + done, n) = Count(0, done + n)
    BY <1>0, <1>1, <2>1, CountCat
  <2> QED BY <1>2, <2>1, <2>2
<1>6. NoSource \in Sources /\ Exact(NoSource)
  BY DEF NoSource, Sources, Exact
<1> HIDE DEF f
<1>7. PICK ok \in BOOLEAN :
        LET rest  == IF ok THEN Released(f, n) ELSE f
            given == IF ok THEN queue + n ELSE queue
        IN /\ written' = IF ok THEN done + n ELSE done
           /\ sent' = IF ok THEN before \o Offered(f, n) ELSE before
           /\ queue' = given
           /\ \/ /\ source' = NoSource
                 /\ \/ pc' = "flushing" /\ seen' = given
                    \/ pc' = "idle" /\ ~(sync /\ pcb)
              \/ source' = rest /\ pc' = "writing"
  BY DEF WriteRound, BeginFlush, n, f
<1>8. CASE ok
  BY <1>0, <1>1, <1>2, <1>4, <1>5, <1>6, <1>7, <1>8
<1>9. CASE ~ok
  BY <1>0, <1>2, <1>6, <1>7, <1>9
<1> QED BY <1>8, <1>9

LEMMA InitSound == Init => Sound
<1> SUFFICES ASSUME Init PROVE Sound
  OBVIOUS
<1>1. NoSource \in Sources /\ Exact(NoSource)
  BY DEF NoSource, Sources, Exact
<1>2. sent = Count(0, 0) /\ WrittenExact
  BY DEF Init, Count, WrittenExact
<1>3. WriteTypes
  <2>1. pcb \in BOOLEAN /\ flushed \in BOOLEAN
    BY DEF Init
  <2>2. queue \in 0..SndBuf /\ written \in Nat
    BY SizeTypes DEF Init
  <2> QED BY <1>1, <2>1, <2>2 DEF Init, WriteTypes, States
<1>4. WriteExact
  BY <1>1, <1>2 DEF Init, WriteExact
<1>5. SeenBounds /\ PcbKnown
  BY DEF Init, SeenBounds, PcbKnown
<1> QED
  BY <1>3, <1>4, <1>5 DEF Sound

\* close() leaves no pcb.
LEMMA CloseSound ==
    ASSUME NEW STATE w, Sound, Close(w)
    PROVE  pcb' = FALSE /\ conn' \in {"none", "closing", "gone"}
BY DEF Close, Sound, WriteTypes, PcbKnown, States

LEMMA StepSound == Sound /\ [Next]_vars => Sound'
<1> SUFFICES ASSUME Sound, [Next]_vars PROVE Sound'
  OBVIOUS
<1> USE SizeTypes DEF Sound, WriteTypes, SeenBounds, PcbKnown, States
<1>0. WrittenExact <=> sent = Count(0, written)
  BY FromOne DEF WrittenExact
<1>1. CASE Adopt
  BY <1>1 DEF Adopt, WriteExact, WrittenExact, historyVars
<1>2. CASE Connect \/ ConnectRefused
  BY <1>2 DEF Connect, ConnectRefused, WriteExact, WrittenExact, contextVars, historyVars
<1>3. CASE ConnectReturns
  BY <1>3 DEF ConnectReturns, WriteExact, WrittenExact, historyVars
<1>4. CASE Unref
  <2>1. pcb' = FALSE /\ conn' \in {"none", "closing", "gone"}
    BY <1>4 DEF Unref, Close
  <2> QED BY <1>4, <2>1 DEF Unref, WriteExact, WrittenExact
<1>5. ASSUME NEW kind \in {"array", "stream"}, NEW size \in 1..MaxWrite, Write(kind, size)
      PROVE  Sound'
  <2> DEFINE s == [NoSource EXCEPT !.kind = kind, !.size = size]
  <2>1. s \in Sources /\ Exact(s) /\ s.pos = 0
    <3>1. s = [kind |-> kind, size |-> size, pos |-> 0, buffer |-> <<>>, fetched |-> 0]
      <4> DEFINE g == [NoSource EXCEPT !.kind = kind]
      <4>1. g = [kind |-> kind, size |-> 0, pos |-> 0, buffer |-> <<>>, fetched |-> 0]
        BY DEF NoSource
      <4>2. s = [g EXCEPT !.size = size]
        OBVIOUS
      <4> HIDE DEF g, s
      <4> QED BY <4>1, <4>2
    <3>2. size \in Nat /\ Count(0, 0) = <<>>
      BY ContextAssumption DEF ContextAssumption, Count
    <3> HIDE DEF s
    <3> QED BY <3>1, <3>2 DEF Sources, Exact
  <2>2. <<>> = Count(0, 0)
    BY DEF Count
  <2>3. WriteRound(s, 0, <<>>)
    BY <1>5 DEF Write
  <2> HIDE DEF s
  <2>4. /\ source' \in Sources /\ Exact(source')
        /\ written' \in Nat /\ sent' = Count(0, written')
        /\ queue' \in 0..SndBuf
        /\ pc' \in {"idle", "flushing", "writing"}
        /\ pc' = "writing" => written' = source'.pos
        /\ pc' = "flushing" => seen' = queue'
    BY <2>1, <2>2, <2>3, RoundExact
  <2>5. WrittenExact'
    BY <2>4, FromOne DEF WrittenExact
  <2>6. flushed' \in BOOLEAN
    BY <1>5 DEF Write
  <2> QED BY <1>5, <2>4, <2>5, <2>6 DEF Write, WriteExact
<1>6. CASE WriteLoop
  <2>1. written = source.pos /\ sent = Count(0, written)
    BY <1>0, <1>6 DEF WriteLoop, WriteExact
  <2>2. WriteRound(source, written, sent) /\ Exact(source)
    BY <1>6 DEF WriteLoop, WriteExact
  <2>3. /\ source' \in Sources /\ Exact(source')
        /\ written' \in Nat /\ sent' = Count(0, written')
        /\ queue' \in 0..SndBuf
        /\ pc' \in {"idle", "flushing", "writing"}
        /\ pc' = "writing" => written' = source'.pos
        /\ pc' = "flushing" => seen' = queue'
    BY <2>1, <2>2, RoundExact
  <2>4. WrittenExact'
    BY <2>3, FromOne DEF WrittenExact
  <2> QED BY <1>6, <2>3, <2>4 DEF WriteLoop, WriteExact
<1>7. ASSUME NEW what \in {"flush", "stop"}, Flush(what) PROVE Sound'
  BY <1>7 DEF Flush, BeginFlush, WriteExact, WrittenExact, lwipVars, historyVars
<1>8. CASE FlushLoop
  <2>1. CASE Sent \/ waited > FlushWait
    <3>1. /\ pc' = "idle" /\ flushed' = (Sent /\ ~(goal = "stop" /\ closeFailed'))
          /\ UNCHANGED <<source, written, queue, sent>>
          /\ IF goal = "stop" THEN Close(wnd) ELSE UNCHANGED <<pcb, conn, closeFailed>>
      BY <1>8, <2>1 DEF FlushLoop
    <3>2. pcb' \in BOOLEAN /\ conn' \in States /\ PcbKnown'
      <4>1. CASE goal = "stop"
        BY <3>1, <4>1, CloseSound
      <4>2. CASE goal # "stop"
        <5>1. UNCHANGED <<pcb, conn>>
          BY <3>1, <4>2
        <5> QED BY <5>1
      <4> QED BY <4>1, <4>2
    <3>3. flushed' \in BOOLEAN
      BY <3>1, Zenon
    <3> QED BY <3>1, <3>2, <3>3 DEF WriteExact, WrittenExact
  <2>2. CASE ~(Sent \/ waited > FlushWait)
    <3>1. /\ seen' = queue
          /\ UNCHANGED <<pc, flushed, pcb, conn, queue, source, written, sent>>
      BY <1>8, <2>2 DEF FlushLoop
    <3>2. WriteTypes' /\ PcbKnown'
      <4>1. flushed' \in BOOLEAN /\ pcb' \in BOOLEAN
        BY <3>1, Zenon
      <4> QED BY <3>1, <4>1, Zenon
    <3>3. WriteExact' /\ SeenBounds'
      BY <3>1 DEF WriteExact, WrittenExact
    <3> QED BY <3>2, <3>3
  <2> QED BY <2>1, <2>2
<1>9. CASE Tick
  BY <1>9 DEF Tick, WriteExact, WrittenExact, contextVars, lwipVars, historyVars
<1>10. ASSUME NEW n, Read(n) PROVE Sound'
  BY <1>10 DEF Read, Consume, WriteExact, WrittenExact, historyVars
<1>11. CASE Connected
  BY <1>11 DEF Connected, WriteExact, WrittenExact, historyVars
<1>12. ASSUME NEW n, Receive(n) PROVE Sound'
  BY <1>12 DEF Receive, WriteExact, WrittenExact
<1>13. ASSUME NEW n, Acked(n) PROVE Sound'
  BY <1>13 DEF Acked, WriteExact, WrittenExact, historyVars
<1>14. CASE Poll
  BY <1>14 DEF Poll, WriteExact, WrittenExact, lwipVars, historyVars
<1>15. CASE Closed \/ Error
  <2>1. /\ pcb' = FALSE /\ conn' = "gone"
        /\ UNCHANGED <<pc, source, written, seen, queue, sent, flushed>>
    BY <1>15 DEF Closed, Error, Dangling, lwipVars, historyVars
  <2>2. WriteTypes'
    <3>1. pcb' \in BOOLEAN /\ flushed' \in BOOLEAN
      BY <2>1, Zenon
    <3>2. queue' \in 0..SndBuf
      BY <2>1
    <3> QED BY <2>1, <3>1, <3>2, Zenon
  <2>3. WriteExact' /\ SeenBounds' /\ PcbKnown'
    BY <2>1 DEF WriteExact, WrittenExact
  <2> QED BY <2>2, <2>3
<1>17. CASE Freed
  BY <1>17 DEF Freed, WriteExact, WrittenExact, contextVars, historyVars
<1>16. CASE UNCHANGED vars
  BY <1>16 DEF vars, WriteExact, WrittenExact, contextVars, lwipVars, clockVars, historyVars
<1> QED
  BY <1>1, <1>2, <1>3, <1>4, <1>5, <1>6, <1>7, <1>8, <1>9, <1>10, <1>11, <1>12, <1>13, <1>14,
     <1>15, <1>16, <1>17 DEF Next, Sketch, Stack

\* A connection starts with nothing to be acknowledged.
SyncAcked ==
    /\ pc \in {"none", "connecting"} => queue = 0
    /\ SyncIdleIsAcked

LEMMA InitAcked == Init => SyncAcked
BY DEF Init, SyncAcked, SyncIdleIsAcked

\* A step that ends no call leaves a context at rest as it was, or with less to be
\* acknowledged.
LEMMA StepAcked == Sound /\ SyncAcked /\ [Next]_vars => SyncAcked'
<1> SUFFICES ASSUME Sound, SyncAcked, [Next]_vars PROVE SyncAcked'
  OBVIOUS
<1>0. queue \in 0..SndBuf /\ SndBuf \in Nat
  BY SizeTypes DEF Sound, WriteTypes
<1> USE DEF SyncAcked, SyncIdleIsAcked
<1>1. CASE Adopt
  BY <1>1 DEF Adopt
<1>2. CASE Connect \/ ConnectRefused
  BY <1>2 DEF Connect, ConnectRefused
<1>3. CASE ConnectReturns
  BY <1>3 DEF ConnectReturns
<1>4. CASE Unref
  BY <1>4 DEF Unref
<1>5. ASSUME NEW s, NEW done, NEW before, WriteRound(s, done, before), UNCHANGED <<sync, pcb>>
      PROVE  SyncAcked'
  <2>1. pc' \in {"idle", "writing", "flushing"} /\ (pc' = "idle" => ~(sync /\ pcb))
    BY <1>5 DEF WriteRound, BeginFlush
  <2> QED BY <1>5, <2>1
<1>6. ASSUME NEW kind, NEW size, Write(kind, size) PROVE SyncAcked'
  BY <1>5, <1>6 DEF Write
<1>7. CASE WriteLoop
  BY <1>5, <1>7 DEF WriteLoop
<1>8. ASSUME NEW what, Flush(what) PROVE SyncAcked'
  BY <1>8 DEF Flush, BeginFlush
<1>9. CASE FlushLoop
  <2>1. CASE Sent \/ waited > FlushWait
    <3>1. pc' = "idle" /\ flushed' = (Sent /\ ~(goal = "stop" /\ closeFailed'))
      BY <1>9, <2>1 DEF FlushLoop
    <3>2. CASE goal = "stop"
      <4>1. ~pcb'
        BY <1>9, <2>1, <3>2 DEF FlushLoop, Close
      <4> QED BY <3>1, <4>1
    <3>3. CASE goal # "stop" /\ Sent
      <4>1. UNCHANGED <<pcb, queue>>
        BY <1>9, <2>1, <3>3 DEF FlushLoop
      <4>2. pcb => queue = 0
        BY <1>0, <1>9, <3>3 DEF Sent, FlushLoop, Sound, SeenBounds
      <4> QED BY <3>1, <4>1, <4>2
    <3>4. CASE ~Sent
      <4>1. ~flushed'
        BY <3>1, <3>4
      <4> QED BY <3>1, <4>1
    <3> QED BY <3>2, <3>3, <3>4
  <2>2. CASE ~(Sent \/ waited > FlushWait)
    <3>1. pc' = "flushing"
      BY <1>9, <2>2 DEF FlushLoop
    <3> QED BY <3>1
  <2> QED BY <2>1, <2>2
\* The sketch stays where it is and nothing is given to lwIP.
<1>10. ASSUME UNCHANGED <<pc, sync, flushed>>, pcb' => pcb, queue' \in 0..queue PROVE SyncAcked'
  BY <1>0, <1>10
<1>11. CASE Tick
  BY <1>0, <1>10, <1>11 DEF Tick, contextVars, lwipVars, historyVars
<1>12. ASSUME NEW n, Read(n) PROVE SyncAcked'
  BY <1>0, <1>10, <1>12 DEF Read, historyVars
<1>13. CASE Connected \/ Poll \/ Closed \/ Freed \/ Error
  BY <1>0, <1>10, <1>13 DEF Connected, Poll, Closed, Freed, Error, contextVars, lwipVars, historyVars
<1>14. ASSUME NEW n, Receive(n) PROVE SyncAcked'
  BY <1>0, <1>10, <1>14 DEF Receive
<1>15. ASSUME NEW n, Acked(n) PROVE SyncAcked'
  BY <1>0, <1>10, <1>15 DEF Acked, historyVars
<1>16. CASE UNCHANGED vars
  BY <1>0, <1>10, <1>16 DEF vars, contextVars, lwipVars, historyVars
<1> QED
  BY <1>1, <1>2, <1>3, <1>4, <1>6, <1>7, <1>8, <1>9, <1>11, <1>12, <1>13, <1>14, <1>15, <1>16
     DEF Next, Sketch, Stack

----------------------------------------------------------------------------
(* The lengths of a chain. *)

\* A set of numbers has a least one.
LEMMA LeastNumber ==
    ASSUME NEW T \in SUBSET Nat, T # {}
    PROVE  \E n \in T : \A m \in T : n <= m
<1> DEFINE R == OpToRel(<, Nat)
<1>1. IsWellFoundedOn(R, Nat)
  BY NatLessThanWellFounded
<1>2. PICK n \in T : \A m \in T : ~(<<m, n>> \in R)
  <2> HIDE DEF R
  <2> QED BY <1>1, WFMin
<1>3. ASSUME NEW m \in T PROVE n <= m
  <2>1. n \in Nat /\ m \in Nat
    OBVIOUS
  <2>2. ~(m < n)
    BY <1>2, <2>1 DEF OpToRel
  <2> QED BY <2>1, <2>2
<1> QED BY <1>3

\* f gives the length of every beginning of the chain s.
Ends(s, f) ==
    /\ f \in [0..Len(s) -> Nat]
    /\ f[0] = 0
    /\ \A n \in 1..Len(s) : f[n] = f[n - 1] + s[n]

LEMMA EndsExist ==
    ASSUME NEW s \in Seq(Nat)
    PROVE  \E f : Ends(s, f)
<1> DEFINE upTo(k, f) == /\ f \in [0..k -> Nat]
                         /\ f[0] = 0
                         /\ \A n \in 1..k : f[n] = f[n - 1] + s[n]
           T == {k \in 0..Len(s) : ~\E f : upTo(k, f)}
<1>0. T \in SUBSET Nat
  OBVIOUS
<1>1. ASSUME T # {} PROVE FALSE
  <2>1. PICK k \in T : \A m \in T : k <= m
    <3> HIDE DEF T
    <3> QED BY <1>0, <1>1, LeastNumber
  <2>2. k \in 0..Len(s) /\ ~\E f : upTo(k, f)
    BY <2>1
  <2>3. CASE k = 0
    <3> DEFINE z == [n \in 0..0 |-> 0]
    <3>1. upTo(0, z)
      OBVIOUS
    <3> QED BY <2>2, <2>3, <3>1
  <2>4. CASE k # 0
    <3>1. k - 1 \in 0..Len(s) /\ k \in 1..Len(s) /\ k \in Nat
      BY <2>2, <2>4
    <3>2. PICK f : upTo(k - 1, f)
      <4>1. k - 1 \notin T
        <5> HIDE DEF T
        <5> QED BY <2>1, <3>1
      <4> HIDE DEF upTo
      <4> QED BY <3>1, <4>1
    <3> DEFINE g == [n \in 0..k |-> IF n = k THEN f[k - 1] + s[k] ELSE f[n]]
    <3>3. f[k - 1] + s[k] \in Nat
      BY <3>1, <3>2
    <3>4. \A n \in 0..k : g[n] = IF n = k THEN f[k - 1] + s[k] ELSE f[n]
      OBVIOUS
    <3>5. g \in [0..k -> Nat]
      BY <2>2, <3>1, <3>2, <3>3
    <3> HIDE DEF g
    <3>6. upTo(k, g)
      <4>1. g[0] = 0
        BY <3>1, <3>2, <3>4
      <4>2. ASSUME NEW n \in 1..k PROVE g[n] = g[n - 1] + s[n]
        <5>1. g[n - 1] = f[n - 1]
          BY <3>1, <3>4
        <5>2. CASE n = k
          BY <3>1, <3>4, <5>1, <5>2
        <5>3. CASE n # k
          <6>1. n \in 1..(k - 1) /\ g[n] = f[n]
            BY <3>1, <3>4, <5>3
          <6> QED BY <3>2, <5>1, <6>1
        <5> QED BY <5>2, <5>3
      <4> QED BY <3>5, <4>1, <4>2
    <3> QED BY <2>2, <3>6
  <2> QED BY <2>3, <2>4
<1>2. Len(s) \in 0..Len(s)
  OBVIOUS
<1>3. \E f : upTo(Len(s), f)
  BY <1>1, <1>2
<1> QED BY <1>3 DEF Ends

\* The sum of a chain is where it ends.
LEMMA SumIsEnd ==
    ASSUME NEW s \in Seq(Nat), NEW f, Ends(s, f)
    PROVE  Sum(s) = f[Len(s)]
<1> DEFINE upTo[n \in 0..Len(s)] == IF n = 0 THEN 0 ELSE upTo[n - 1] + s[n]
<1>1. Sum(s) = upTo[Len(s)]
  BY DEF Sum
<1>2. f = [n \in 0..Len(s) |-> IF n = 0 THEN 0 ELSE f[n - 1] + s[n]]
  BY DEF Ends
<1>3. upTo = [n \in 0..Len(s) |-> IF n = 0 THEN 0 ELSE upTo[n - 1] + s[n]]
  BY <1>2
<1> HIDE DEF upTo
<1>4. upTo[0] = 0 /\ \A n \in 1..Len(s) : upTo[n] = upTo[n - 1] + s[n]
  <2>1. \A n \in 0..Len(s) : upTo[n] = IF n = 0 THEN 0 ELSE upTo[n - 1] + s[n]
    BY <1>3
  <2> QED BY <2>1
<1> DEFINE T == {n \in 0..Len(s) : upTo[n] # f[n]}
<1>5. ASSUME T # {} PROVE FALSE
  <2>0. T \in SUBSET Nat
    OBVIOUS
  <2>1. PICK n \in T : \A m \in T : n <= m
    <3> HIDE DEF T
    <3> QED BY <1>5, <2>0, LeastNumber
  <2>2. n # 0
    BY <1>4, <2>1 DEF Ends
  <2>3. n \in 1..Len(s) /\ n - 1 \in 0..Len(s) /\ n - 1 \notin T
    BY <2>1, <2>2
  <2>4. upTo[n - 1] = f[n - 1]
    BY <2>3
  <2>5. upTo[n] = f[n]
    BY <1>4, <2>3, <2>4 DEF Ends
  <2> QED BY <2>1, <2>5
<1> QED BY <1>1, <1>5

\* A chain with one more pbuf.
LEMMA SumAppend ==
    ASSUME NEW s \in Seq(Nat), NEW n \in Nat
    PROVE  Sum(Append(s, n)) = Sum(s) + n
<1> DEFINE t == Append(s, n)
<1>1. t \in Seq(Nat) /\ Len(t) = Len(s) + 1 /\ t[Len(s) + 1] = n /\ \A i \in 1..Len(s) : t[i] = s[i]
  OBVIOUS
<1> HIDE DEF t
<1>2. PICK f : Ends(t, f)
  BY <1>1, EndsExist
<1> DEFINE g == [i \in 0..Len(s) |-> f[i]]
<1>3. Ends(s, g)
  <2>1. g \in [0..Len(s) -> Nat] /\ g[0] = 0
    BY <1>1, <1>2 DEF Ends
  <2>2. ASSUME NEW i \in 1..Len(s) PROVE g[i] = g[i - 1] + s[i]
    BY <1>1, <1>2 DEF Ends
  <2> QED BY <2>1, <2>2 DEF Ends
<1>4. Sum(s) = g[Len(s)]
  BY <1>3, SumIsEnd
<1>5. Sum(t) = f[Len(t)]
  BY <1>1, <1>2, SumIsEnd
<1>6. f[Len(t)] = f[Len(s)] + n
  <2>1. Len(t) \in 1..Len(t) /\ Len(t) - 1 = Len(s)
    BY <1>1
  <2>2. f[Len(t)] = f[Len(t) - 1] + t[Len(t)]
    BY <1>2, <2>1 DEF Ends
  <2> QED BY <1>1, <2>1, <2>2
<1> QED BY <1>4, <1>5, <1>6 DEF t

\* Cutting a chain after the kth pbuf.
LEMMA SumCut ==
    ASSUME NEW s \in Seq(Nat), NEW f, Ends(s, f), NEW k \in 0..Len(s)
    PROVE  /\ Sum(SubSeq(s, 1, k)) = f[k]
           /\ Sum(SubSeq(s, k + 1, Len(s))) = f[Len(s)] - f[k]
<1>1. Sum(SubSeq(s, 1, k)) = f[k]
  <2> DEFINE t == SubSeq(s, 1, k)
             g == [i \in 0..k |-> f[i]]
  <2>1. t \in Seq(Nat) /\ Len(t) = k /\ \A i \in 1..k : t[i] = s[i]
    OBVIOUS
  <2> HIDE DEF t
  <2>2. g \in [0..k -> Nat] /\ g[0] = 0
    BY DEF Ends
  <2>3. ASSUME NEW i \in 1..k PROVE g[i] = g[i - 1] + t[i]
    BY <2>1 DEF Ends
  <2>4. Ends(t, g)
    BY <2>1, <2>2, <2>3 DEF Ends
  <2>5. Sum(t) = g[k]
    BY <2>1, <2>4, SumIsEnd
  <2> QED BY <2>5 DEF t
<1>2. Sum(SubSeq(s, k + 1, Len(s))) = f[Len(s)] - f[k]
  <2> DEFINE t == SubSeq(s, k + 1, Len(s))
             m == Len(s) - k
             g == [i \in 0..m |-> f[k + i] - f[k]]
  <2>1. t \in Seq(Nat) /\ Len(t) = m /\ m \in Nat /\ \A i \in 1..m : t[i] = s[k + i]
    OBVIOUS
  <2> HIDE DEF t
  <2>2. ASSUME NEW i \in 1..m PROVE g[i] = g[i - 1] + t[i]
    <3>1. f[k + i] = f[k + (i - 1)] + s[k + i] /\ i - 1 \in 0..m
      <4>1. k + i \in 1..Len(s) /\ (k + i) - 1 = k + (i - 1) /\ i - 1 \in 0..m
        BY <2>1
      <4>2. f[k + i] = f[(k + i) - 1] + s[k + i]
        BY <4>1 DEF Ends
      <4> QED BY <4>1, <4>2
    <3>2. f[k + i] \in Nat /\ f[k + (i - 1)] \in Nat /\ f[k] \in Nat
      <4>1. k + i \in 0..Len(s) /\ k + (i - 1) \in 0..Len(s)
        BY <2>1
      <4>2. \A j \in 0..Len(s) : f[j] \in Nat
        BY DEF Ends
      <4> QED BY <4>1, <4>2
    <3>3. s[k + i] \in Nat
      OBVIOUS
    <3>4. g[i] = f[k + i] - f[k] /\ g[i - 1] = f[k + (i - 1)] - f[k]
      BY <3>1
    <3>5. t[i] = s[k + i]
      BY <2>1
    <3> HIDE DEF g, m
    <3> QED BY <3>1, <3>2, <3>3, <3>4, <3>5
  <2>3. \A i \in 0..m : g[i] = f[k + i] - f[k]
    OBVIOUS
  <2>4. g[0] = 0
    BY DEF Ends
  <2> DEFINE T == {i \in 0..m : ~(g[i] \in Nat)}
  <2> HIDE DEF g
  <2>5. ASSUME T # {} PROVE FALSE
    <3>0. T \in SUBSET Nat
      BY <2>1
    <3>1. PICK i \in T : \A j \in T : i <= j
      <4> HIDE DEF T
      <4> QED BY <2>5, <3>0, LeastNumber
    <3>2. i # 0 /\ i \in 0..m
      BY <2>4, <3>1
    <3>3. i \in 1..m /\ i - 1 \in 0..m /\ i - 1 \notin T
      <4>1. i \in 1..m /\ i - 1 \in 0..m
        BY <2>1, <3>2
      <4>2. i - 1 \notin T
        <5> HIDE DEF T
        <5> QED BY <2>1, <3>1, <4>1
      <4> QED BY <4>1, <4>2
    <3>4. g[i - 1] \in Nat
      BY <3>3
    <3>5. t[i] \in Nat
      <4>1. Len(t) = m
        BY <2>1
      <4> HIDE DEF m
      <4> QED BY <2>1, <3>3, <4>1
    <3> QED BY <2>2, <3>1, <3>3, <3>4, <3>5
  <2>6. g \in [0..m -> Nat]
    BY <2>5 DEF g
  <2>7. Ends(t, g)
    BY <2>1, <2>2, <2>4, <2>6 DEF Ends
  <2>8. Sum(t) = g[m]
    BY <2>1, <2>7, SumIsEnd
  <2> QED BY <2>1, <2>8 DEF t, g
<1> QED BY <1>1, <1>2

\* Every byte position lies in a pbuf, or at the end of the chain.
LEMMA EndsCover ==
    ASSUME NEW s \in Seq(Nat), NEW f, Ends(s, f), NEW at \in Nat
    PROVE  \E k \in 0..Len(s) : f[k] <= at /\ (k < Len(s) => f[k + 1] > at)
<1> DEFINE T == {k \in 0..Len(s) : f[k] > at}
<1>1. CASE T = {}
  <2>1. f[Len(s)] <= at /\ Len(s) \in 0..Len(s)
    BY <1>1 DEF Ends
  <2> QED BY <2>1
<1>2. CASE T # {}
  <2>0. T \in SUBSET Nat
    OBVIOUS
  <2>1. PICK m \in T : \A j \in T : m <= j
    <3> HIDE DEF T
    <3> QED BY <1>2, <2>0, LeastNumber
  <2>2. m # 0 /\ m \in 0..Len(s)
    BY <2>1 DEF Ends
  <2>3. m - 1 \in 0..Len(s) /\ f[m] > at /\ m = (m - 1) + 1
    BY <2>1, <2>2
  <2>4. f[m - 1] <= at
    <3>1. m - 1 \notin T
      <4> HIDE DEF T
      <4> QED BY <2>1, <2>2, <2>3
    <3>2. f[m - 1] \in Nat
      BY <2>3 DEF Ends
    <3> QED BY <2>3, <3>1, <3>2
  <2> QED BY <2>3, <2>4
<1> QED BY <1>1, <1>2

----------------------------------------------------------------------------
(* Reading. *)

\* What the peer may send and the chain account for the whole window, as long as
\* there is a pcb; a context starts with all of it.
Received ==
    /\ rxBuf \in Seq(1..Wnd) /\ offset \in Nat
    /\ IF rxBuf = <<>> THEN offset = 0 ELSE offset < Head(rxBuf)
    /\ wnd \in 0..Wnd
    /\ WindowExact
    /\ pc = "none" => rxBuf = <<>> /\ wnd = Wnd
    /\ pc \in {"none", "deleted"} => ~pcb

\* The bounds of the counters.
Bounded ==
    /\ goal \in {"write", "flush", "stop"} /\ sync \in BOOLEAN
    /\ source.size <= MaxWrite /\ written <= MaxWrite
    /\ sendWaiting \in BOOLEAN /\ connectPending \in BOOLEAN
    /\ seen \in {NotSeen} \cup 0..SndBuf
    /\ waited \in 0..Longest /\ turns \in 0..Timeout
    /\ writes \in 0..MaxWrites /\ received \in 0..MaxReceived
    /\ closeFailed \in BOOLEAN

LEMMA WindowTypes == Wnd \in Nat \ {0}
BY ContextAssumption DEF ContextAssumption

LEMMA SumEmpty == Sum(<<>>) = 0
<1> DEFINE f == [n \in 0..0 |-> 0]
<1>1. <<>> \in Seq(Nat) /\ Len(<<>>) = 0
  OBVIOUS
<1>2. Ends(<<>>, f)
  BY DEF Ends
<1> QED BY <1>1, <1>2, SumIsEnd

LEMMA SumType ==
    ASSUME NEW s \in Seq(Nat)
    PROVE  Sum(s) \in Nat
<1>1. PICK f : Ends(s, f)
  BY EndsExist
<1>2. Sum(s) = f[Len(s)]
  BY <1>1, SumIsEnd
<1> QED BY <1>1, <1>2 DEF Ends

LEMMA ChainType == \A s \in Seq(1..Wnd) : s \in Seq(Nat) /\ (s # <<>> => Head(s) \in 1..Wnd /\ Head(s) = s[1])
BY WindowTypes

\* What was read of the head of a chain is not more than the chain.
LEMMA OffsetInChain ==
    ASSUME Received
    PROVE  /\ rxBuf \in Seq(Nat) /\ Sum(rxBuf) \in Nat
           /\ Unread \in Nat /\ Unread = Sum(rxBuf) - offset
<1>1. rxBuf \in Seq(Nat)
  BY ChainType DEF Received
<1>2. Sum(rxBuf) \in Nat
  BY <1>1, SumType
<1>3. CASE rxBuf = <<>>
  BY <1>1, <1>2, <1>3, SumEmpty DEF Unread, Received
<1>4. CASE rxBuf # <<>>
  <2>1. PICK f : Ends(rxBuf, f)
    BY <1>1, EndsExist
  <2>2. 1 \in 0..Len(rxBuf) /\ 1 \in 1..Len(rxBuf)
    BY <1>1, <1>4
  <2>3. f[1] = Head(rxBuf)
    <3>1. f[1] = f[1 - 1] + rxBuf[1] /\ f[0] = 0
      BY <2>1, <2>2 DEF Ends
    <3>2. Head(rxBuf) = rxBuf[1] /\ rxBuf[1] \in Nat
      BY <1>1, <1>4, <2>2
    <3> QED BY <3>1, <3>2
  <2>4. Sum(SubSeq(rxBuf, 2, Len(rxBuf))) = f[Len(rxBuf)] - f[1]
    BY <1>1, <2>1, <2>2, SumCut
  <2>5. Sum(rxBuf) = f[Len(rxBuf)]
    BY <1>1, <2>1, SumIsEnd
  <2>6. SubSeq(rxBuf, 2, Len(rxBuf)) \in Seq(Nat)
    BY <1>1
  <2>7. Sum(SubSeq(rxBuf, 2, Len(rxBuf))) \in Nat
    BY <2>6, SumType
  <2>8. offset < Head(rxBuf) /\ offset \in Nat
    BY <1>4 DEF Received
  <2>9. offset <= Sum(rxBuf)
    <3> DEFINE a == f[Len(rxBuf)]
               b == f[1]
    <3>1. a \in Nat /\ b \in Nat /\ a - b \in Nat /\ offset < b
      BY <1>2, <2>1, <2>2, <2>3, <2>4, <2>5, <2>7, <2>8 DEF Ends
    <3> HIDE DEF a, b
    <3>2. offset <= a
      BY <2>8, <3>1
    <3> QED BY <2>5, <3>2 DEF a
  <2> QED BY <1>1, <1>2, <2>8, <2>9 DEF Unread
<1> QED BY <1>3, <1>4

\* _consume(n) of n unread bytes takes just those, and leaves no pbuf of which
\* nothing is left.
LEMMA ConsumeExact ==
    ASSUME Received, NEW n \in 1..Unread, Consume(n)
    PROVE  /\ rxBuf' \in Seq(1..Wnd) /\ offset' \in Nat
           /\ IF rxBuf' = <<>> THEN offset' = 0 ELSE offset' < Head(rxBuf')
           /\ Unread' = Unread - n
           /\ wnd' = IF pcb THEN Min2(Wnd, wnd + n) ELSE wnd
<1> DEFINE L == Len(rxBuf)
           at == offset + n
           Taken(k) == Sum(SubSeq(rxBuf, 1, k)) <= at /\ (k < L => Sum(SubSeq(rxBuf, 1, k + 1)) > at)
           k == CHOOSE k \in 0..L : Taken(k)
<1>1. /\ rxBuf \in Seq(Nat) /\ L \in Nat /\ Sum(rxBuf) \in Nat /\ rxBuf \in Seq(1..Wnd)
      /\ offset \in Nat /\ n \in Nat /\ at \in Nat
      /\ Unread = Sum(rxBuf) - offset /\ at <= Sum(rxBuf)
  BY OffsetInChain DEF Received
<1>2. PICK f : Ends(rxBuf, f)
  BY <1>1, EndsExist
<1>3. \A j \in 0..L : Sum(SubSeq(rxBuf, 1, j)) = f[j] /\ Sum(SubSeq(rxBuf, j + 1, L)) = f[L] - f[j] /\ f[j] \in Nat
  <2>1. \A j \in 0..L : f[j] \in Nat
    BY <1>2 DEF Ends
  <2> QED BY <1>1, <1>2, <2>1, SumCut
<1>4. Sum(rxBuf) = f[L]
  BY <1>1, <1>2, SumIsEnd
<1> HIDE DEF at
<1>5. \E j \in 0..L : Taken(j)
  <2>1. PICK j \in 0..L : f[j] <= at /\ (j < L => f[j + 1] > at)
    BY <1>1, <1>2, EndsCover
  <2>2. j < L => j + 1 \in 0..L
    BY <1>1
  <2> QED BY <1>3, <2>1, <2>2
<1>6. k \in 0..L /\ Taken(k)
  <2> HIDE DEF Taken
  <2> QED BY <1>5
<1>7. /\ rxBuf' = SubSeq(rxBuf, k + 1, L)
      /\ offset' = at - Sum(SubSeq(rxBuf, 1, k))
      /\ wnd' = IF pcb THEN Min2(Wnd, wnd + n) ELSE wnd
  BY DEF Consume, at
<1> HIDE DEF k
<1>8. /\ f[k] <= at /\ f[k] \in Nat
      /\ k < L => f[k + 1] > at
      /\ offset' = at - f[k] /\ offset' \in Nat
      /\ Sum(rxBuf') = f[L] - f[k]
  <2>1. k < L => k + 1 \in 0..L
    BY <1>1, <1>6
  <2>2. Sum(SubSeq(rxBuf, 1, k)) = f[k] /\ Sum(SubSeq(rxBuf, k + 1, L)) = f[L] - f[k] /\ f[k] \in Nat
    BY <1>3, <1>6
  <2>3. k < L => Sum(SubSeq(rxBuf, 1, k + 1)) = f[k + 1]
    BY <1>3, <2>1
  <2>4. f[k] <= at /\ (k < L => f[k + 1] > at)
    BY <1>6, <2>2, <2>3
  <2>5. offset' = at - f[k] /\ Sum(rxBuf') = f[L] - f[k]
    BY <1>7, <2>2
  <2>6. offset' \in Nat
    <3> DEFINE b == f[k]
    <3>1. b \in Nat /\ b <= at /\ offset' = at - b
      BY <2>2, <2>4, <2>5
    <3> HIDE DEF b
    <3> QED BY <1>1, <3>1
  <2> QED BY <2>2, <2>4, <2>5, <2>6
<1>9. rxBuf' \in Seq(1..Wnd) /\ Len(rxBuf') = L - k
  <2>1. \A i \in 1..L : rxBuf[i] \in 1..Wnd
    <3>1. rxBuf \in Seq(1..Wnd)
      BY <1>1
    <3> QED BY <3>1, ElementOfSeq
  <2> QED BY <1>1, <1>6, <1>7, <2>1
<1>10. IF rxBuf' = <<>> THEN offset' = 0 ELSE offset' < Head(rxBuf')
  <2>1. CASE k = L
    <3>1. rxBuf' = <<>>
      BY <1>1, <1>9, <2>1
    <3>2. at = f[L]
      BY <1>1, <1>3, <1>4, <1>8, <2>1
    <3> QED BY <1>8, <2>1, <3>1, <3>2
  <2>2. CASE k # L
    <3>1. k < L /\ k + 1 \in 1..L
      BY <1>1, <1>6, <2>2
    <3>2. f[k + 1] = f[k] + rxBuf[k + 1]
      <4>1. (k + 1) - 1 = k
        BY <1>6
      <4> QED BY <1>2, <3>1, <4>1 DEF Ends
    <3>3. rxBuf' # <<>> /\ Head(rxBuf') = rxBuf[k + 1]
      <4>1. Len(rxBuf') > 0
        BY <1>1, <1>6, <1>9, <3>1
      <4>2. rxBuf' # <<>>
        BY <4>1
      <4>3. SubSeq(rxBuf, k + 1, L)[1] = rxBuf[k + 1]
        <5>1. rxBuf \in Seq(Nat) /\ k + 1 \in 1..L /\ L = Len(rxBuf)
          BY <1>1, <3>1
        <5> QED BY <5>1
      <4>4. Head(rxBuf') = rxBuf'[1]
        BY <1>9, <4>2
      <4> QED BY <1>7, <4>2, <4>3, <4>4
    <3>4. rxBuf[k + 1] \in Nat
      BY <1>1, <3>1
    <3> QED BY <1>1, <1>8, <3>1, <3>2, <3>3, <3>4
  <2> QED BY <2>1, <2>2
<1>11. Unread' = Unread - n
  BY <1>1, <1>4, <1>8 DEF Unread, at
<1> QED BY <1>7, <1>8, <1>9, <1>10, <1>11

----------------------------------------------------------------------------
(* The steps, for what is received and for the bounds. *)

LEMMA LimitTypes ==
    {Timeout, FlushWait, Longest, MaxWrite, MaxWrites, MaxReceived} \subseteq Nat
BY ContextAssumption DEF ContextAssumption, Longest

\* One round of a write keeps the counters within their bounds.
LEMMA RoundBounded ==
    ASSUME NEW STATE s, NEW STATE done, NEW STATE before,
           s \in Sources, s.pos <= s.size, s.size <= MaxWrite, done = s.pos,
           queue \in 0..SndBuf,
           WriteRound(s, done, before)
    PROVE  /\ source'.size <= MaxWrite /\ written' <= MaxWrite
           /\ sendWaiting' \in BOOLEAN
           /\ goal' \in {goal, "write"} /\ seen' \in {seen} \cup 0..SndBuf
           /\ waited' \in {0, waited} /\ turns' = 0
           /\ pc' \in {"idle", "writing", "flushing"}
<1> DEFINE n == IF pcb THEN Min2(SndBuf - queue, Left(s)) ELSE 0
           f == Fetched(s, n)
<1>0. done \in Nat /\ s.pos \in Nat /\ s.size \in Nat /\ MaxWrite \in Nat
  BY LimitTypes DEF Sources
<1>1. n \in Nat /\ n <= s.size - s.pos /\ queue + n \in 0..SndBuf
  BY <1>0, SizeTypes DEF Min2, Left
<1> HIDE DEF n
<1>2. f.size = s.size
  BY DEF Fetched, Sources
<1>3. Released(f, n).size = s.size
  BY <1>2 DEF Released, Fetched, Sources
<1>4. NoSource.size = 0
  BY DEF NoSource
<1> HIDE DEF f
<1>5. PICK ok \in BOOLEAN :
        LET rest  == IF ok THEN Released(f, n) ELSE f
            given == IF ok THEN queue + n ELSE queue
        IN /\ turns' = 0
           /\ written' = IF ok THEN done + n ELSE done
           /\ \/ /\ source' = NoSource /\ sendWaiting' = FALSE
                 /\ \/ goal' = "write" /\ pc' = "flushing" /\ seen' = given /\ waited' = 0
                    \/ pc' = "idle" /\ waited' = 0 /\ UNCHANGED <<goal, seen>>
              \/ /\ source' = rest /\ sendWaiting' = TRUE
                 /\ pc' = "writing"
                 /\ waited' = IF ok THEN 0 ELSE waited
                 /\ UNCHANGED <<goal, seen>>
  BY DEF WriteRound, BeginFlush, n, f
<1>6. written' <= MaxWrite
  BY <1>0, <1>1, <1>5
<1>7. source'.size <= MaxWrite
  <2>1. source' \in {NoSource, f, Released(f, n)}
    BY <1>5
  <2> QED BY <1>0, <1>2, <1>3, <1>4, <2>1
<1>8. seen' \in {seen} \cup 0..SndBuf
  BY <1>1, <1>5
<1>9. waited' \in {0, waited} /\ turns' = 0
  BY <1>5
<1> QED BY <1>5, <1>6, <1>7, <1>8, <1>9

LEMMA InitReceived == Init => Received /\ Bounded
<1> SUFFICES ASSUME Init PROVE Received /\ Bounded
  OBVIOUS
<1>1. Received
  <2>1. rxBuf = <<>> /\ offset = 0 /\ pcb = FALSE /\ wnd = Wnd
    BY DEF Init
  <2>2. rxBuf \in Seq(1..Wnd)
    BY <2>1
  <2> QED BY <2>1, <2>2, WindowTypes DEF Received, WindowExact
<1>2. NoSource.size = 0
  BY DEF NoSource
<1>3. Bounded
  <2>1. sync \in BOOLEAN /\ sendWaiting \in BOOLEAN /\ connectPending \in BOOLEAN /\ closeFailed \in BOOLEAN
    BY DEF Init
  <2>2. goal \in {"write", "flush", "stop"} /\ seen \in {NotSeen} \cup 0..SndBuf
    BY DEF Init
  <2>3. source.size <= MaxWrite /\ written <= MaxWrite /\ writes \in 0..MaxWrites /\ received \in 0..MaxReceived
    BY <1>2, LimitTypes DEF Init
  <2>4. waited \in 0..Longest /\ turns \in 0..Timeout
    BY LimitTypes DEF Init
  <2> QED BY <2>1, <2>2, <2>3, <2>4 DEF Bounded
<1> QED BY <1>1, <1>3

LEMMA StepReceived == Sound /\ Received /\ [Next]_vars => Received'
<1> SUFFICES ASSUME Sound, Received, [Next]_vars PROVE Received'
  OBVIOUS
<1> USE WindowTypes DEF Sound, WriteTypes, PcbKnown
\* The chain and the window stay.
<1>0. ASSUME UNCHANGED <<rxBuf, offset, wnd>>,
             pcb' \in BOOLEAN, pcb' => pcb \/ pc = "none",
             pc' \notin {"none", "deleted"} \/ (UNCHANGED pc /\ (pcb' => pcb))
      PROVE  Received'
  <2>1. pc = "none" => wnd + Unread = Wnd
    BY SumEmpty DEF Received, Unread
  <2>2. Unread' = Unread
    BY <1>0 DEF Unread
  <2> QED BY <1>0, <2>1, <2>2 DEF Received, WindowExact
<1>1. CASE Adopt
  BY <1>0, <1>1 DEF Adopt
<1>2. CASE Connect \/ ConnectRefused
  <2>1. CASE Connect
    BY <1>0, <2>1 DEF Connect
  <2>2. CASE ConnectRefused
    <3>1. ~pcb /\ ~pcb' /\ pc' = "deleted" /\ UNCHANGED <<rxBuf, offset, wnd>>
      BY <2>2 DEF ConnectRefused, contextVars, Received
    <3> QED BY <3>1 DEF Received, WindowExact
  <2> QED BY <1>2, <2>1, <2>2
<1>3. CASE ConnectReturns
  <2>1. CASE pcb /\ conn = "ESTABLISHED"
    BY <1>0, <1>3, <2>1 DEF ConnectReturns
  <2>2. CASE ~(pcb /\ conn = "ESTABLISHED")
    <3>1. pcb' = FALSE /\ pc' = "deleted" /\ rxBuf' = <<>> /\ offset' = 0 /\ wnd' = wnd
      BY <1>3, <2>2 DEF ConnectReturns
    <3>2. rxBuf' \in Seq(1..Wnd)
      BY <3>1
    <3> QED BY <3>1, <3>2 DEF Received, WindowExact
  <2> QED BY <2>1, <2>2
<1>4. CASE Unref
  <2>1. pcb' = FALSE /\ pc' = "deleted" /\ rxBuf' = <<>> /\ offset' = 0
    BY <1>4 DEF Unref, Close
  <2>2. wnd' \in 0..Wnd
    <3>1. wnd' = IF pcb THEN Min2(Wnd, wnd + Sum(rxBuf)) ELSE wnd
      BY <1>4 DEF Unref
    <3>2. Sum(rxBuf) \in Nat
      BY OffsetInChain
    <3> QED BY <3>1, <3>2 DEF Min2, Received
  <2> QED BY <2>1, <2>2 DEF Received, WindowExact
<1>5. ASSUME NEW kind, NEW size, Write(kind, size) PROVE Received'
  <2>1. pc' \notin {"none", "deleted"}
    BY <1>5 DEF Write, WriteRound, BeginFlush
  <2> QED BY <1>0, <1>5, <2>1 DEF Write
<1>6. CASE WriteLoop
  <2>1. pc' \notin {"none", "deleted"}
    BY <1>6 DEF WriteLoop, WriteRound, BeginFlush
  <2> QED BY <1>0, <1>6, <2>1 DEF WriteLoop
<1>7. ASSUME NEW what, Flush(what) PROVE Received'
  BY <1>0, <1>7 DEF Flush, BeginFlush, lwipVars
<1>8. CASE FlushLoop
  <2>1. pc' \notin {"none", "deleted"} /\ UNCHANGED <<rxBuf, offset, wnd>> /\ (pcb' = pcb \/ pcb' = FALSE)
    BY <1>8 DEF FlushLoop, Close
  <2>2. pcb' \in BOOLEAN /\ (pcb' => pcb)
    <3>1. pcb \in BOOLEAN
      OBVIOUS
    <3>2. CASE pcb' = pcb
      <4>1. pcb' \in BOOLEAN
        BY <3>1, <3>2, Zenon
      <4>2. pcb' => pcb
        BY <3>2
      <4> QED BY <4>1, <4>2
    <3>3. CASE pcb' = FALSE
      BY <3>3
    <3> QED BY <2>1, <3>2, <3>3
  <2> QED BY <1>0, <2>1, <2>2
<1>9. CASE Tick
  BY <1>0, <1>9 DEF Tick, contextVars, lwipVars
<1>10. ASSUME NEW n, Read(n) PROVE Received'
  <2>1. n \in 1..Unread /\ Consume(n) /\ pc = "idle" /\ UNCHANGED <<pc, pcb>>
    BY <1>10 DEF Read
  <2>2. /\ rxBuf' \in Seq(1..Wnd) /\ offset' \in Nat
        /\ IF rxBuf' = <<>> THEN offset' = 0 ELSE offset' < Head(rxBuf')
        /\ Unread' = Unread - n
        /\ wnd' = IF pcb THEN Min2(Wnd, wnd + n) ELSE wnd
    BY <2>1, ConsumeExact
  <2>3. Unread \in Nat
    BY OffsetInChain
  <2>4. wnd' \in 0..Wnd /\ WindowExact'
    BY <2>1, <2>2, <2>3 DEF Received, WindowExact, Min2
  <2> QED BY <2>1, <2>2, <2>4 DEF Received
<1>11. CASE Connected
  BY <1>0, <1>11 DEF Connected, historyVars, Received
<1>12. ASSUME NEW n, Receive(n) PROVE Received'
  <2>1. /\ pcb /\ n \in 1..wnd /\ rxBuf' = Append(rxBuf, n) /\ wnd' = wnd - n
        /\ UNCHANGED <<pc, pcb, offset>>
    BY <1>12 DEF Receive
  <2>2. n \in 1..Wnd /\ wnd' \in 0..Wnd /\ pc # "none"
    BY <2>1 DEF Received
  <2>3. rxBuf' \in Seq(1..Wnd) /\ rxBuf' # <<>> /\ (rxBuf # <<>> => Head(rxBuf') = Head(rxBuf))
        /\ (rxBuf = <<>> => Head(rxBuf') = n)
    BY <2>1, <2>2 DEF Received
  <2>4. Unread' = Unread + n
    <3>1. rxBuf \in Seq(Nat) /\ Sum(rxBuf) \in Nat
      BY OffsetInChain
    <3>2. Sum(rxBuf') = Sum(rxBuf) + n
      BY <2>1, <2>2, <3>1, SumAppend
    <3> QED BY <2>1, <2>2, <3>1, <3>2 DEF Unread, Received
  <2>5. Unread \in Nat
    BY OffsetInChain
  <2>6. WindowExact'
    BY <2>1, <2>2, <2>4, <2>5 DEF Received, WindowExact
  <2>7. offset' \in Nat /\ offset' < Head(rxBuf')
    BY <2>1, <2>2, <2>3 DEF Received
  <2> QED BY <2>1, <2>2, <2>3, <2>6, <2>7 DEF Received
<1>13. ASSUME NEW n, Acked(n) PROVE Received'
  BY <1>0, <1>13 DEF Acked, historyVars
<1>14. CASE Poll
  BY <1>0, <1>14 DEF Poll, lwipVars, historyVars
<1>15. CASE Closed \/ Error
  BY <1>0, <1>15 DEF Closed, Error, lwipVars, Received
<1>17. CASE Freed
  BY <1>0, <1>17 DEF Freed, contextVars
<1>16. CASE UNCHANGED vars
  BY <1>0, <1>16 DEF vars, contextVars, lwipVars, historyVars
<1> QED
  BY <1>1, <1>2, <1>3, <1>4, <1>5, <1>6, <1>7, <1>8, <1>9, <1>10, <1>11, <1>12, <1>13, <1>14,
     <1>15, <1>16, <1>17 DEF Next, Sketch, Stack

LEMMA StepBounded == Sound /\ Bounded /\ [Next]_vars => Bounded'
<1> SUFFICES ASSUME Sound, Bounded, [Next]_vars PROVE Bounded'
  OBVIOUS
<1> USE LimitTypes, SizeTypes
<1>a. /\ pc \in {"none", "idle", "connecting", "writing", "flushing", "deleted"}
      /\ source \in Sources /\ source.pos <= source.size /\ written \in Nat /\ queue \in 0..SndBuf
      /\ pc = "writing" => written = source.pos
  BY DEF Sound, WriteTypes, WriteExact, Exact
<1>b. /\ goal \in {"write", "flush", "stop"} /\ seen \in {NotSeen} \cup 0..SndBuf
      /\ source.size <= MaxWrite /\ written <= MaxWrite
      /\ waited \in 0..Longest /\ turns \in 0..Timeout
      /\ writes \in 0..MaxWrites /\ received \in 0..MaxReceived
  BY DEF Bounded
<1>c. sync \in BOOLEAN /\ sendWaiting \in BOOLEAN /\ connectPending \in BOOLEAN /\ closeFailed \in BOOLEAN
  BY DEF Bounded
\* What a step may do to the numbers, and to the Booleans.
<1>d. ASSUME goal' \in {"write", "flush", "stop"}, seen' \in {NotSeen} \cup 0..SndBuf,
             source'.size <= MaxWrite, written' <= MaxWrite,
             waited' \in 0..Longest, turns' \in 0..Timeout,
             writes' \in 0..MaxWrites, received' \in 0..MaxReceived,
             sync' = sync, closeFailed' \in BOOLEAN \/ closeFailed' = closeFailed,
             sendWaiting' \in BOOLEAN \/ sendWaiting' = sendWaiting,
             connectPending' \in BOOLEAN \/ connectPending' = connectPending
      PROVE  Bounded'
  <2>1. sync' \in BOOLEAN /\ sendWaiting' \in BOOLEAN /\ connectPending' \in BOOLEAN /\ closeFailed' \in BOOLEAN
    BY <1>c, <1>d, Zenon
  <2> QED BY <1>d, <2>1 DEF Bounded
<1>1. CASE Adopt
  BY <1>1, <1>b, <1>d DEF Adopt, clockVars, historyVars
<1>2. CASE Connect
  <2>1. connectPending' \in BOOLEAN /\ UNCHANGED <<sync, closeFailed, sendWaiting>>
    BY <1>2 DEF Connect, historyVars
  <2> QED BY <1>2, <1>b, <1>d, <2>1 DEF Connect, historyVars
<1>17. CASE ConnectRefused
  BY <1>17, <1>b, <1>d DEF ConnectRefused, contextVars, clockVars, historyVars
<1>3. CASE ConnectReturns
  <2>1. connectPending' \in BOOLEAN /\ UNCHANGED <<sync, closeFailed, sendWaiting>>
    BY <1>3 DEF ConnectReturns, historyVars
  <2> QED BY <1>3, <1>b, <1>d, <2>1 DEF ConnectReturns, historyVars
<1>4. CASE Unref
  <2>1. closeFailed' \in BOOLEAN \/ closeFailed' = closeFailed
    BY <1>4 DEF Unref, Close
  <2>2. UNCHANGED <<sync, sendWaiting, connectPending>>
    BY <1>4 DEF Unref
  <2> QED BY <1>4, <1>b, <1>d, <2>1, <2>2 DEF Unref, clockVars
<1>5. ASSUME NEW kind \in {"array", "stream"}, NEW size \in 1..MaxWrite, Write(kind, size)
      PROVE  Bounded'
  <2> DEFINE s == [NoSource EXCEPT !.kind = kind, !.size = size]
  <2>1. s = [kind |-> kind, size |-> size, pos |-> 0, buffer |-> <<>>, fetched |-> 0]
    <3> DEFINE g == [NoSource EXCEPT !.kind = kind]
    <3>1. g = [kind |-> kind, size |-> 0, pos |-> 0, buffer |-> <<>>, fetched |-> 0]
      BY DEF NoSource
    <3>2. s = [g EXCEPT !.size = size]
      OBVIOUS
    <3> HIDE DEF g, s
    <3> QED BY <3>1, <3>2
  <2>2. WriteRound(s, 0, <<>>) /\ pc = "idle"
    BY <1>5 DEF Write
  <2> HIDE DEF s
  <2>3. s \in Sources /\ s.pos = 0 /\ s.size = size /\ size <= MaxWrite
    <3>1. size \in Nat /\ size <= MaxWrite
      OBVIOUS
    <3> QED BY <2>1, <3>1 DEF Sources
  <2>4. s.pos <= s.size /\ s.size <= MaxWrite
    BY <2>3
  <2>5. /\ source'.size <= MaxWrite /\ written' <= MaxWrite
        /\ sendWaiting' \in BOOLEAN
        /\ goal' \in {goal, "write"} /\ seen' \in {seen} \cup 0..SndBuf
        /\ waited' \in {0, waited} /\ turns' = 0
        /\ pc' \in {"idle", "writing", "flushing"}
    BY <1>a, <2>2, <2>3, <2>4, RoundBounded
  <2>6. UNCHANGED <<sync, closeFailed, connectPending, received>> /\ writes' \in 0..MaxWrites
    BY <1>5, <1>b DEF Write
  <2>7. waited' \in 0..Longest /\ turns' \in 0..Timeout
    BY <1>b, <2>5
  <2> QED BY <1>b, <1>d, <2>5, <2>6, <2>7
<1>6. CASE WriteLoop
  <2>1. WriteRound(source, written, sent) /\ pc = "writing"
    BY <1>6 DEF WriteLoop
  <2>3. /\ source'.size <= MaxWrite /\ written' <= MaxWrite
        /\ sendWaiting' \in BOOLEAN
        /\ goal' \in {goal, "write"} /\ seen' \in {seen} \cup 0..SndBuf
        /\ waited' \in {0, waited} /\ turns' = 0
        /\ pc' \in {"idle", "writing", "flushing"}
    BY <1>a, <1>b, <2>1, RoundBounded
  <2>4. UNCHANGED <<sync, closeFailed, connectPending, received, writes>>
    BY <1>6 DEF WriteLoop
  <2>5. waited' \in 0..Longest /\ turns' \in 0..Timeout
    BY <1>b, <2>3
  <2> QED BY <1>b, <1>d, <2>3, <2>4, <2>5
<1>7. ASSUME NEW what \in {"flush", "stop"}, Flush(what) PROVE Bounded'
  BY <1>7, <1>a, <1>b, <1>d DEF Flush, BeginFlush, historyVars
<1>8. CASE FlushLoop
  <2>1. /\ closeFailed' \in BOOLEAN \/ closeFailed' = closeFailed
        /\ seen' \in {NotSeen} \cup 0..SndBuf
        /\ UNCHANGED <<goal, sync, source, written, sendWaiting, connectPending, writes, received>>
    BY <1>8, <1>a DEF FlushLoop, Close
  <2>2. waited' \in 0..Longest /\ turns' \in 0..Timeout
    BY <1>8, <1>b DEF FlushLoop
  <2> QED BY <1>b, <1>d, <2>1, <2>2
<1>9. CASE Tick
  <2>1. turns' \in 0..Timeout
    BY <1>9, <1>b DEF Tick
  <2>2. waited' \in 0..Longest
    <3>1. PICK ticks \in 1..2 : waited' = Min2(waited + ticks, Longest)
      BY <1>9 DEF Tick
    <3> QED BY <1>b, <3>1 DEF Min2
  <2> QED BY <1>9, <1>b, <1>d, <2>1, <2>2 DEF Tick, contextVars, historyVars
<1>10. ASSUME NEW n, Read(n) PROVE Bounded'
  BY <1>10, <1>b, <1>d DEF Read, clockVars, historyVars
<1>11. CASE Connected
  BY <1>11, <1>b, <1>d DEF Connected, clockVars, historyVars
<1>12. ASSUME NEW n, Receive(n) PROVE Bounded'
  <2>1. received' \in 0..MaxReceived
    <3>1. n \in Int /\ n >= 1 /\ received + n <= MaxReceived /\ received' = received + n
      BY <1>12 DEF Receive
    <3> QED BY <1>b, <3>1
  <2> QED BY <1>12, <1>b, <1>d, <2>1 DEF Receive, clockVars
<1>13. ASSUME NEW n, Acked(n) PROVE Bounded'
  BY <1>13, <1>b, <1>d DEF Acked, clockVars, historyVars
<1>14. CASE Poll
  BY <1>14, <1>b, <1>d DEF Poll, clockVars, historyVars
<1>15. CASE Closed \/ Error
  <2>1. sendWaiting' \in BOOLEAN /\ connectPending' \in BOOLEAN /\ UNCHANGED <<sync, closeFailed>>
    BY <1>15 DEF Closed, Error, historyVars
  <2> QED BY <1>15, <1>b, <1>d, <2>1 DEF Closed, Error, clockVars, historyVars
<1>18. CASE Freed
  BY <1>18, <1>b, <1>d DEF Freed, contextVars, clockVars, historyVars
<1>16. CASE UNCHANGED vars
  BY <1>16, <1>b, <1>d DEF vars, contextVars, clockVars, historyVars
<1> QED
  BY <1>1, <1>2, <1>3, <1>4, <1>5, <1>6, <1>7, <1>8, <1>9, <1>10, <1>11, <1>12, <1>13, <1>14,
     <1>15, <1>16, <1>17, <1>18 DEF Next, Sketch, Stack

----------------------------------------------------------------------------
(* The theorems. *)

LEMMA SoundAlways == Spec => []Sound
<1> QED BY InitSound, StepSound, PTL DEF Spec

\* For every size of lwIP's buffers and every length of a write, lwIP gets the
\* bytes of a write in their order, none twice and none left out, though it may
\* refuse any chunk that was already fetched from a stream.
THEOREM WrittenTheorem == Spec => []WrittenExact
<1>1. Sound => WrittenExact
  BY DEF Sound, WriteExact
<1> QED BY <1>1, SoundAlways, PTL

\* With _sync, whatever the lengths of the writes and of lwIP's buffer, only a wait
\* that timed out leaves a write() that has returned unacknowledged on a live
\* connection.
THEOREM SyncTheorem == Spec => []SyncIdleIsAcked
<1>1. SyncAcked => SyncIdleIsAcked
  BY DEF SyncAcked
<1>2. Init => Sound /\ SyncAcked
  BY InitSound, InitAcked
<1>3. Sound /\ SyncAcked /\ [Next]_vars => (Sound /\ SyncAcked)'
  BY StepSound, StepAcked
<1> QED BY <1>1, <1>2, <1>3, PTL DEF Spec

\* A flush() or stop() that returns true leaves nothing unacknowledged on a live
\* connection, though the wait looks at the buffer as it was before its last delay.
THEOREM FlushTheorem == Spec => FlushMeansAcked
<1>1. Sound /\ [Next]_vars =>
        [pc = "flushing" /\ pc' # "flushing" /\ goal # "write" /\ flushed' => queue = 0 \/ ~pcb]_vars
  <2> SUFFICES ASSUME Sound, Next, pc = "flushing", pc' # "flushing", flushed'
               PROVE  queue = 0 \/ ~pcb
    OBVIOUS
  <2>1. FlushLoop
    BY DEF Next, Sketch, Stack, Adopt, Connect, ConnectRefused, Unref, Write, Flush, Read, ConnectReturns,
           WriteLoop, Tick, Connected, Poll, Closed, Freed, Error, Receive, Acked
  <2>2. Sent
    BY <2>1 DEF FlushLoop
  <2> QED
    BY <2>2, SizeTypes DEF Sent, Sound, WriteTypes, SeenBounds
<1> QED BY <1>1, SoundAlways, PTL DEF Spec, FlushMeansAcked

LEMMA Always == Spec => [](Sound /\ Received /\ Bounded)
<1>1. Init => Sound /\ Received /\ Bounded
  BY InitSound, InitReceived
<1>2. Sound /\ Received /\ Bounded /\ [Next]_vars => (Sound /\ Received /\ Bounded)'
  BY StepSound, StepReceived, StepBounded
<1> QED BY <1>1, <1>2, PTL DEF Spec

\* Everything has its type and keeps within its bound: in particular the head of
\* the chain is never used up.
THEOREM TypeTheorem == Spec => []TypeOK
<1>1. Sound /\ Received /\ Bounded => TypeOK
  <2> SUFFICES ASSUME Sound, Received, Bounded PROVE TypeOK
    OBVIOUS
  <2>1. /\ pcb \in BOOLEAN /\ sync \in BOOLEAN /\ sendWaiting \in BOOLEAN /\ connectPending \in BOOLEAN
        /\ flushed \in BOOLEAN /\ closeFailed \in BOOLEAN
    BY DEF Sound, WriteTypes, Bounded
  <2>2. \A i \in 1..Len(rxBuf) : rxBuf[i] \in 1..Wnd
    BY ElementOfSeq DEF Received
  <2>3. IF rxBuf = <<>> THEN offset = 0 ELSE offset \in 0..(Head(rxBuf) - 1)
    <3>1. CASE rxBuf # <<>>
      <4>1. Head(rxBuf) \in Nat /\ offset \in Nat /\ offset < Head(rxBuf)
        BY <3>1, ChainType, WindowTypes DEF Received
      <4> QED BY <3>1, <4>1
    <3> QED BY <3>1 DEF Received
  <2>4. /\ source.kind \in {"none", "array", "stream"}
        /\ source.size \in 0..MaxWrite /\ source.pos \in 0..source.size
        /\ written \in 0..MaxWrite
    BY LimitTypes DEF Sound, WriteTypes, WriteExact, Exact, Sources, Bounded
  <2> QED BY <2>1, <2>2, <2>3, <2>4 DEF TypeOK, Sound, WriteTypes, Received, Bounded
<1> QED BY <1>1, Always, PTL

\* However the peer cuts its data into segments and the sketch its reads, what is
\* unread and what the peer may still send make up the whole window.
THEOREM WindowTheorem == Spec => []WindowExact
<1>1. Received => WindowExact
  BY DEF Received
<1> QED BY <1>1, Always, PTL

\* The end of a WiFiClient gives back the window of all that was not read, so
\* lwIP closes an established connection and does not reset it.
THEOREM UnrefTheorem == Spec => UnrefIsGraceful
<1>1. Sound /\ Received /\ [Next]_vars =>
        [pc' = "deleted" /\ conn = "ESTABLISHED" => conn' = "closing" \/ closeFailed']_vars
  <2> SUFFICES ASSUME Sound, Received, Next, pc' = "deleted", conn = "ESTABLISHED"
               PROVE  conn' = "closing" \/ closeFailed'
    BY DEF vars
  <2>1. pcb
    BY DEF Sound, PcbKnown
  <2>2. Unref \/ ConnectReturns
    <3>1. pc \notin {"none", "deleted"}
      BY <2>1 DEF Received
    <3>2. pc # pc' /\ ~ConnectRefused
      BY <3>1 DEF ConnectRefused
    <3> QED BY <3>2 DEF Next, Sketch, Stack, Adopt, Connect, Write, WriteRound, BeginFlush, Flush,
                        Read, WriteLoop, FlushLoop, Tick, Connected, Poll, Closed, Freed, Error,
                        Receive, Acked
  <2>3. CASE Unref
    <3>1. wnd' = Min2(Wnd, wnd + Sum(rxBuf)) /\ Close(wnd')
      BY <2>1, <2>3 DEF Unref
    <3>2. wnd + (Sum(rxBuf) - offset) = Wnd /\ offset \in Nat /\ Sum(rxBuf) \in Nat /\ wnd \in 0..Wnd
      BY <2>1, OffsetInChain DEF Received, WindowExact
    <3>3. wnd' = Wnd
      BY <3>1, <3>2, WindowTypes DEF Min2
    <3> QED BY <2>1, <3>1, <3>3 DEF Close
  <2>4. CASE ConnectReturns
    BY <2>1, <2>4 DEF ConnectReturns
  <2> QED BY <2>2, <2>3, <2>4
<1> QED BY <1>1, Always, PTL DEF Spec, UnrefIsGraceful

=============================================================================
