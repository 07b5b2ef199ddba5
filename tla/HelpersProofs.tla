---------------------------- MODULE HelpersProofs ---------------------------
(***************************************************************************)
(* Proofs about Helpers for any keys, passwords of any length, any sizes   *)
(* of the IV and of the tag, and any damage that Reread does to a stored   *)
(* text; for any base and any draw of a code; and for names of any length. *)
(***************************************************************************)
EXTENDS Helpers, SequenceTheorems, FiniteSetTheorems, WellFoundedInduction, TLAPS

-----------------------------------------------------------------------------
(* Sequences.                                                              *)

\* f is a function on 1..n.
Spans(f, n) == n \in Nat /\ DOMAIN f = 1..n /\ f = [i \in 1..n |-> f[i]]

\* A function on 1..n is a sequence of its values.
LEMMA SpansSeq ==
  ASSUME NEW n, NEW f, Spans(f, n)
  PROVE  f \in Seq({f[i] : i \in 1..n}) /\ Len(f) = n /\ n \in Nat
<1> DEFINE S == {f[i] : i \in 1..n}
<1>1. f \in [1..n -> S] /\ n \in Nat
  BY DEF Spans
<1> HIDE DEF S
<1>2. f \in Seq(S)
  BY <1>1, SeqDef
<1>3. DOMAIN f = 1..n /\ DOMAIN f = 1..Len(f) /\ Len(f) \in Nat
  BY <1>1, <1>2, LenProperties
<1> QED BY <1>1, <1>2, <1>3 DEF S

LEMMA SeqSpans ==
  ASSUME NEW S, NEW f \in Seq(S)
  PROVE  Spans(f, Len(f))
<1>1. f \in [1..Len(f) -> S] /\ Len(f) \in Nat
  BY LenProperties
<1> QED BY <1>1 DEF Spans

LEMMA SpansSame ==
  ASSUME NEW n, NEW f, NEW g, Spans(f, n), Spans(g, n), \A i \in 1..n : f[i] = g[i]
  PROVE  f = g
BY DEF Spans

\* One after the other.
Joins(h, f, g) == h = f \o g

LEMMA SpansConcat ==
  ASSUME NEW m, NEW n, NEW f, NEW g, Spans(f, m), Spans(g, n), NEW h, Joins(h, f, g)
  PROVE  /\ Spans(h, m + n)
         /\ \A i \in 1..m : h[i] = f[i]
         /\ \A i \in 1..n : h[m + i] = g[i]
<1> DEFINE S == {f[i] : i \in 1..m} \cup {g[i] : i \in 1..n}
<1>1. /\ f \in Seq({f[i] : i \in 1..m}) /\ g \in Seq({g[i] : i \in 1..n})
      /\ Len(f) = m /\ Len(g) = n /\ m \in Nat /\ n \in Nat
  BY SpansSeq
<1>2. f \in Seq(S) /\ g \in Seq(S)
  BY <1>1, SeqMonotonic
<1> HIDE DEF S
<1>3. /\ f \o g \in Seq(S) /\ Len(f \o g) = Len(f) + Len(g)
      /\ \A i \in 1..Len(f)+Len(g) :
           (f \o g)[i] = IF i <= Len(f) THEN f[i] ELSE g[i - Len(f)]
  BY ONLY <1>2, ConcatProperties, Zenon
<1> USE DEF Joins
<1>4. Spans(h, m + n)
  BY <1>1, <1>3, SeqSpans
<1>5. \A i \in 1..m : h[i] = f[i]
  BY <1>1, <1>3
<1>6. \A i \in 1..n : m + i \in 1..m+n /\ ~(m + i <= m) /\ m + i - m = i
  BY <1>1
<1>7. \A i \in 1..n : h[m + i] = g[i]
  BY <1>1, <1>3, <1>6
<1> QED BY <1>4, <1>5, <1>7

\* The part from a to b.
LEMMA SpansSubSeq ==
  ASSUME NEW n, NEW f, Spans(f, n), NEW a \in 1..n+1, NEW b \in 0..n, a <= b + 1
  PROVE  /\ Spans(SubSeq(f, a, b), b - a + 1)
         /\ \A i \in 1..b-a+1 : SubSeq(f, a, b)[i] = f[a + i - 1]
<1> DEFINE S == {f[i] : i \in 1..n}
<1>1. n \in Nat /\ a \in Int /\ b \in Int /\ \A i \in a..b : f[i] \in S
  BY DEF Spans
<1> HIDE DEF S
<1>2. \A c, d \in Int : (\A i \in c..d : f[i] \in S) =>
        /\ SubSeq(f, c, d) \in Seq(S)
        /\ Len(SubSeq(f, c, d)) = IF c <= d THEN d - c + 1 ELSE 0
        /\ \A i \in 1..d-c+1 : SubSeq(f, c, d)[i] = f[c + i - 1]
  BY ONLY SubSeqProperties
<1>3. /\ SubSeq(f, a, b) \in Seq(S)
      /\ Len(SubSeq(f, a, b)) = IF a <= b THEN b - a + 1 ELSE 0
      /\ \A i \in 1..b-a+1 : SubSeq(f, a, b)[i] = f[a + i - 1]
  BY ONLY <1>1, <1>2, SMT
<1>4. Len(SubSeq(f, a, b)) = b - a + 1
  BY <1>3
<1> QED BY <1>3, <1>4, SeqSpans

\* The first b.
LEMMA SpansFirst ==
  ASSUME NEW n, NEW f, Spans(f, n), NEW b \in 0..n
  PROVE  /\ Spans(SubSeq(f, 1, b), b)
         /\ \A i \in 1..b : SubSeq(f, 1, b)[i] = f[i]
<1>1. n \in Nat /\ b \in Nat
  BY DEF Spans
<1>2. PICK a : a = 1
  OBVIOUS
<1>3. a \in 1..n+1 /\ a <= b + 1 /\ b - a + 1 = b /\ \A i \in 1..b : a + i - 1 = i
  BY <1>1, <1>2
<1>4. /\ Spans(SubSeq(f, a, b), b - a + 1)
      /\ \A i \in 1..b-a+1 : SubSeq(f, a, b)[i] = f[a + i - 1]
  BY <1>3, SpansSubSeq
<1> QED BY <1>2, <1>3, <1>4

\* Those behind the first b.
LEMMA SpansBehind ==
  ASSUME NEW n, NEW f, Spans(f, n), NEW b \in 0..n
  PROVE  /\ Spans(SubSeq(f, b + 1, n), n - b)
         /\ \A i \in 1..n-b : SubSeq(f, b + 1, n)[i] = f[b + i]
<1>1. n \in Nat /\ b \in Nat
  BY DEF Spans
<1>2. PICK a : a = b + 1
  OBVIOUS
<1>3. /\ a \in 1..n+1 /\ n \in 0..n /\ a <= n + 1 /\ n - a + 1 = n - b
      /\ \A i \in 1..n-b : a + i - 1 = b + i
  BY <1>1, <1>2
<1>4. /\ Spans(SubSeq(f, a, n), n - a + 1)
      /\ \A i \in 1..n-a+1 : SubSeq(f, a, n)[i] = f[a + i - 1]
  BY <1>3, SpansSubSeq
<1> QED BY <1>2, <1>3, <1>4

-----------------------------------------------------------------------------
(* What is sealed and stored.                                              *)

LEMMA SizesType == IvBytes \in Nat \ {0} /\ TagBytes \in Nat \ {0} /\ MaxPassword \in Nat
BY SizesAssumption DEF SizesAssumption

LEMMA PasswordIs ==
  ASSUME NEW p \in Password
  PROVE  Len(p) \in Nat \ {0} /\ Spans(p, Len(p))
<1>1. PICK n \in 0..MaxPassword : p \in [1..n -> {"a", "b"}]
  BY DEF Password, SeqOf
<1>2. n \in Nat /\ Spans(p, n)
  BY <1>1, SizesType DEF Spans
<1>3. Len(p) = n
  BY <1>2, SpansSeq
<1>4. n # 0
  <2> SUFFICES ASSUME n = 0 PROVE p = <<>>
    BY DEF Password
  <2>1. p \in Seq({"a", "b"})
    BY <1>1, <1>2, SeqDef
  <2> QED BY <1>3, <2>1, EmptySeq
<1> QED BY <1>2, <1>3, <1>4

\* A byte of the ciphertext is made of its key, IV, place and character, a byte of the
\* tag of the whole password.
CipherByte(key, iv, p, i) == <<"byte", key, iv, i, p[i]>>
TagByte(key, iv, p, i) == <<"tag", key, iv, p, i>>
IvByte(i) == <<"iv", i>>
Junk == <<"junk">>

\* None of them is one that was put there instead, and they say of which key, IV and
\* password they are.
LEMMA BytesTell ==
  ASSUME NEW k, NEW l, NEW iv, NEW jv, NEW p, NEW q, NEW i, NEW j
  PROVE  /\ CipherByte(k, iv, p, i) # Junk /\ TagByte(k, iv, p, i) # Junk /\ IvByte(i) # Junk
         /\ CipherByte(k, iv, p, i) # TagByte(l, jv, q, j)
         /\ CipherByte(k, iv, p, i) = CipherByte(l, jv, q, j) => k = l /\ iv = jv
         /\ TagByte(k, iv, p, i) = TagByte(l, jv, q, j) => p = q /\ i = j
BY DEF CipherByte, TagByte, IvByte, Junk

LEMMA SealedIs ==
  ASSUME NEW key, NEW iv, NEW p \in Password
  PROVE  /\ Spans(Sealed(key, iv, p), Len(p) + TagBytes)
         /\ \A i \in 1..Len(p) : Sealed(key, iv, p)[i] = CipherByte(key, iv, p, i)
         /\ \A i \in 1..TagBytes : Sealed(key, iv, p)[Len(p) + i] = TagByte(key, iv, p, i)
<1> DEFINE n == Len(p)
           f == [i \in 1..n |-> CipherByte(key, iv, p, i)]
           g == [i \in 1..TagBytes |-> TagByte(key, iv, p, i)]
           h == Sealed(key, iv, p)
<1>1. n \in Nat /\ DOMAIN p = 1..n
  BY PasswordIs DEF Spans
<1>2. Joins(h, f, g)
  BY <1>1 DEF Sealed, CipherByte, TagByte, Joins
<1>3. Spans(f, n) /\ Spans(g, TagBytes)
  BY <1>1, SizesType DEF Spans
<1>4. /\ \A i \in 1..n : f[i] = CipherByte(key, iv, p, i)
      /\ \A i \in 1..TagBytes : g[i] = TagByte(key, iv, p, i)
  OBVIOUS
<1> HIDE DEF n, f, g, h
<1>5. /\ Spans(h, n + TagBytes)
      /\ \A i \in 1..n : h[i] = f[i]
      /\ \A i \in 1..TagBytes : h[n + i] = g[i]
  BY ONLY <1>2, <1>3, SpansConcat
<1> QED BY <1>4, <1>5 DEF n, h

\* The text that encrypt stores.
LEMMA StoredIs ==
  ASSUME NEW s \in Setting, KeyAccepted(s), NEW p \in Password
  PROVE  /\ AesTakes(s)
         /\ Spans(Encrypt(s, p), IvBytes + (Len(p) + TagBytes))
         /\ \A i \in 1..IvBytes : Encrypt(s, p)[i] = IvByte(i)
         /\ \A i \in 1..Len(p)+TagBytes : Encrypt(s, p)[IvBytes + i] = Sealed(s.key, Iv, p)[i]
<1> DEFINE t == Sealed(s.key, Iv, p)
           n == Len(p) + TagBytes
           h == Encrypt(s, p)
<1>1. AesTakes(s)
  BY DEF AesTakes, KeyAccepted
<1>2. Spans(t, n)
  BY SealedIs
<1>3. Spans(Iv, IvBytes) /\ \A i \in 1..IvBytes : Iv[i] = IvByte(i)
  BY SizesType DEF Iv, IvByte, Spans
<1>4. Joins(h, Iv, t)
  BY <1>1 DEF Encrypt, Joins
<1> HIDE DEF t, n, h
<1>5. /\ Spans(h, IvBytes + n)
      /\ \A i \in 1..IvBytes : h[i] = Iv[i]
      /\ \A i \in 1..n : h[IvBytes + i] = t[i]
  BY ONLY <1>2, <1>3, <1>4, SpansConcat
<1> QED BY <1>1, <1>3, <1>5 DEF t, n, h

-----------------------------------------------------------------------------
(* What decrypt makes of a damaged text.                                   *)

\* What is left of a text after m bytes, one of which may have been changed.
Damaged(raw, m, changed) ==
  LET left == SubSeq(raw, 1, m)
  IN  [i \in DOMAIN left |-> IF i = changed THEN Junk ELSE left[i]]

\* The bytes behind the IV.
Behind(text) == SubSeq(text, Len(IvOf(text)) + 1, Len(text))

LEMMA DamagedIs ==
  ASSUME NEW n, NEW raw, Spans(raw, n), NEW m \in IvBytes+1..n, NEW changed
  PROVE  LET text == Damaged(raw, m, changed)
         IN  /\ \A i \in 1..m : text[i] = IF i = changed THEN Junk ELSE raw[i]
             /\ Spans(IvOf(text), IvBytes)
             /\ \A i \in 1..IvBytes : IvOf(text)[i] = text[i]
             /\ Spans(Behind(text), m - IvBytes)
             /\ \A i \in 1..m-IvBytes : Behind(text)[i] = text[IvBytes + i]
<1> DEFINE left == SubSeq(raw, 1, m)
           text == Damaged(raw, m, changed)
<1>1. n \in Nat /\ m \in Nat /\ m \in 0..n /\ IvBytes \in 0..m
  BY SizesType DEF Spans
<1>2. Spans(left, m) /\ \A i \in 1..m : left[i] = raw[i]
  BY <1>1, SpansFirst
<1> HIDE DEF left
<1>3. Spans(text, m) /\ \A i \in 1..m : text[i] = IF i = changed THEN Junk ELSE raw[i]
  BY <1>2 DEF Damaged, left, Spans
<1> HIDE DEF text
<1>4. Spans(IvOf(text), IvBytes) /\ \A i \in 1..IvBytes : IvOf(text)[i] = text[i]
  BY <1>1, <1>3, SpansFirst DEF IvOf
<1>5. Len(IvOf(text)) = IvBytes /\ Len(text) = m
  BY <1>3, <1>4, SpansSeq
<1>6. Spans(Behind(text), m - IvBytes) /\ \A i \in 1..m-IvBytes : Behind(text)[i] = text[IvBytes + i]
  BY <1>1, <1>3, <1>5, SpansBehind DEF Behind
<1> QED BY <1>3, <1>4, <1>6 DEF text

\* A password fits a stored text only if the text is whole and unchanged, the key is the
\* one it was stored with, and the password the one that was stored.
LEMMA OriginalFits ==
  ASSUME NEW s \in Setting, KeyAccepted(s), NEW key, NEW p \in Password, NEW q \in Password,
         NEW m \in IvBytes+1..Len(Encrypt(s, p)), NEW changed \in 0..Len(Encrypt(s, p)),
         Sealed(key, IvOf(Damaged(Encrypt(s, p), m, changed)), q)
           = Behind(Damaged(Encrypt(s, p), m, changed))
  PROVE  q = p /\ m = Len(Encrypt(s, p)) /\ changed = 0 /\ key = s.key
<1> DEFINE raw == Encrypt(s, p)
           text == Damaged(raw, m, changed)
           iv == IvOf(text)
           end == Behind(text)
           n == Len(p)
           o == Len(q)
           t == Sealed(s.key, Iv, p)
           N == IvBytes + (n + TagBytes)
<1>1. n \in Nat \ {0} /\ o \in Nat \ {0}
  BY PasswordIs
<1>2. /\ Spans(raw, N)
      /\ \A i \in 1..n+TagBytes : raw[IvBytes + i] = t[i]
  BY StoredIs
<1>3. /\ \A i \in 1..n : t[i] = CipherByte(s.key, Iv, p, i)
      /\ \A i \in 1..TagBytes : t[n + i] = TagByte(s.key, Iv, p, i)
  BY SealedIs
<1>4. /\ Spans(end, o + TagBytes)
      /\ \A i \in 1..o : end[i] = CipherByte(key, iv, q, i)
      /\ \A i \in 1..TagBytes : end[o + i] = TagByte(key, iv, q, i)
  BY SealedIs
<1>5. Len(raw) = N
  BY <1>2, SpansSeq
<1>6. N \in Nat /\ m \in IvBytes+1..N /\ changed \in 0..N
  BY <1>1, <1>5, SizesType
<1> HIDE DEF raw, N
<1>7. /\ \A i \in 1..m : text[i] = IF i = changed THEN Junk ELSE raw[i]
      /\ \A i \in 1..IvBytes : iv[i] = text[i]
      /\ Spans(end, m - IvBytes)
      /\ \A i \in 1..m-IvBytes : end[i] = text[IvBytes + i]
  BY <1>2, <1>6, DamagedIs
<1> HIDE DEF text, iv, end, n, o, t
<1>8. m - IvBytes = o + TagBytes /\ m \in Nat
  <2>1. Len(end) = m - IvBytes /\ Len(end) = o + TagBytes
    BY <1>4, <1>7, SpansSeq
  <2> QED BY <1>6, <2>1, SizesType
<1>9. \A i \in 1..o+TagBytes : end[i] # Junk
  <2> SUFFICES ASSUME NEW i \in 1..o+TagBytes PROVE end[i] # Junk
    OBVIOUS
  <2>1. CASE i \in 1..o
    BY <1>4, <2>1, BytesTell
  <2>2. CASE i \notin 1..o
    <3>1. i - o \in 1..TagBytes /\ o + (i - o) = i
      BY <1>1, <2>2, SizesType
    <3>2. PICK k \in 1..TagBytes : i = o + k
      BY <3>1
    <3> QED BY <1>4, <3>2, BytesTell
  <2> QED BY <2>1, <2>2
\* The end of the text is the end of what was stored, byte by byte.
<1>10. \A i \in 1..o+TagBytes : IvBytes + i # changed /\ i \in 1..n+TagBytes /\ end[i] = t[i]
  <2> SUFFICES ASSUME NEW i \in 1..o+TagBytes
               PROVE  IvBytes + i # changed /\ i \in 1..n+TagBytes /\ end[i] = t[i]
    OBVIOUS
  <2>1. i \in 1..m-IvBytes /\ IvBytes + i \in 1..m
    BY <1>1, <1>8, SizesType
  <2>2. i \in 1..n+TagBytes
    BY <1>1, <1>6, <2>1, SizesType DEF N
  <2>3. end[i] = text[IvBytes + i] /\ end[i] # Junk
    BY <1>7, <1>9, <2>1
  <2>4. IvBytes + i # changed /\ text[IvBytes + i] = raw[IvBytes + i]
    BY <1>7, <2>1, <2>3
  <2> QED BY <1>2, <2>2, <2>3, <2>4
<1>11. key = s.key /\ iv = Iv
  <2>1. 1 \in 1..o+TagBytes /\ 1 \in 1..o /\ 1 \in 1..n
    BY <1>1, SizesType
  <2>2. CipherByte(key, iv, q, 1) = CipherByte(s.key, Iv, p, 1)
    BY <1>3, <1>4, <1>10, <2>1
  <2> QED BY <2>2, BytesTell
<1>12. q = p /\ m = N
  <2>1. TagBytes \in 1..TagBytes /\ o + TagBytes \in 1..o+TagBytes
    BY <1>1, SizesType
  <2>2. t[o + TagBytes] = TagByte(key, iv, q, TagBytes) /\ o + TagBytes \in 1..n+TagBytes
    BY <1>4, <1>10, <2>1
  <2>3. o + TagBytes \notin 1..n
    BY <1>3, <2>2, BytesTell
  <2>4. PICK k \in 1..TagBytes : o + TagBytes = n + k
    <3>1. o + TagBytes - n \in 1..TagBytes /\ n + (o + TagBytes - n) = o + TagBytes
      BY <1>1, <2>2, <2>3, SizesType
    <3> QED BY <3>1
  <2>5. t[o + TagBytes] = TagByte(s.key, Iv, p, k)
    BY <1>3, <2>4
  <2>6. q = p
    <3>1. TagByte(key, iv, q, TagBytes) = TagByte(s.key, Iv, p, k)
      BY <2>2, <2>5
    <3> QED BY <3>1 DEF TagByte
  <2>7. m = N
    BY <1>1, <1>6, <1>8, <2>6, SizesType DEF N, n, o
  <2> QED BY <2>6, <2>7
<1>13. changed = 0
  <2>1. CASE changed \in 1..IvBytes
    <3>1. changed \in 1..m
      BY <1>6, <2>1, SizesType
    <3>2. iv[changed] = Junk
      BY <1>7, <2>1, <3>1
    <3>3. Iv[changed] = IvByte(changed)
      BY <2>1 DEF Iv, IvByte
    <3> QED BY <1>11, <3>2, <3>3, BytesTell
  <2>2. CASE changed \notin 0..IvBytes
    <3>1. changed - IvBytes \in 1..o+TagBytes /\ IvBytes + (changed - IvBytes) = changed
      BY <1>1, <1>6, <1>8, <1>12, <2>2, SizesType
    <3>2. PICK i \in 1..o+TagBytes : IvBytes + i = changed
      BY <3>1
    <3> QED BY <1>10, <3>2
  <2> QED BY <1>6, <2>1, <2>2, SizesType
<1> QED BY <1>5, <1>11, <1>12, <1>13 DEF raw

\* And the original does fit the text that nothing happened to.
LEMMA WholeFits ==
  ASSUME NEW s \in Setting, KeyAccepted(s), NEW p \in Password
  PROVE  LET text == Damaged(Encrypt(s, p), Len(Encrypt(s, p)), 0)
         IN  Sealed(s.key, IvOf(text), p) = Behind(text)
<1> DEFINE raw == Encrypt(s, p)
           text == Damaged(raw, Len(raw), 0)
           iv == IvOf(text)
           end == Behind(text)
           t == Sealed(s.key, Iv, p)
           n == Len(p) + TagBytes
           N == IvBytes + n
<1>1. /\ Spans(raw, N)
      /\ \A i \in 1..IvBytes : raw[i] = IvByte(i)
      /\ \A i \in 1..n : raw[IvBytes + i] = t[i]
  BY StoredIs
<1>2. Spans(t, n)
  BY SealedIs
<1>3. Len(raw) = N
  BY <1>1, SpansSeq
<1>4. n \in Nat \ {0} /\ N \in IvBytes+1..N /\ N - IvBytes = n
  BY PasswordIs, SizesType
<1> HIDE DEF raw, N, n, t
<1>5. /\ \A i \in 1..N : text[i] = IF i = 0 THEN Junk ELSE raw[i]
      /\ Spans(iv, IvBytes)
      /\ \A i \in 1..IvBytes : iv[i] = text[i]
      /\ Spans(end, N - IvBytes)
      /\ \A i \in 1..N-IvBytes : end[i] = text[IvBytes + i]
  BY <1>1, <1>3, <1>4, DamagedIs
<1> HIDE DEF text, iv, end
<1>6. iv = Iv
  <2>1. Spans(Iv, IvBytes) /\ \A i \in 1..IvBytes : Iv[i] = IvByte(i)
    BY SizesType DEF Iv, IvByte, Spans
  <2>2. \A i \in 1..IvBytes : i \in 1..N /\ i # 0
    BY <1>4, SizesType
  <2>3. \A i \in 1..IvBytes : iv[i] = Iv[i]
    BY <1>1, <1>5, <2>1, <2>2
  <2> QED BY <1>5, <2>1, <2>3, SpansSame
<1>7. end = t
  <2>1. \A i \in 1..n : IvBytes + i \in 1..N /\ IvBytes + i # 0
    BY <1>4, SizesType
  <2>2. \A i \in 1..n : end[i] = t[i]
    BY <1>1, <1>4, <1>5, <2>1
  <2> QED BY <1>2, <1>4, <1>5, <2>2, SpansSame
<1> QED BY <1>6, <1>7 DEF t, iv, end, text, raw

\* What Reread makes of a password.
Outcome(written, read, p, hex, missing, changed) ==
  LET raw   == Encrypt(written, p)
      chars == 2 * Len(raw) - missing
  IN  Decrypt(read, Damaged(raw, chars \div 2, changed), chars, hex)

OutcomeRight(written, read, p, hex, missing, changed) ==
  IF hex /\ missing = 0 /\ changed = 0 /\ written.key = read.key
  THEN Outcome(written, read, p, hex, missing, changed) = [error |-> None, text |-> p]
  ELSE Outcome(written, read, p, hex, missing, changed).error \notin {None, "key size"}

LEMMA DecryptIsRight ==
  ASSUME NEW written \in Setting, NEW read \in Setting,
         KeyAccepted(written), KeyAccepted(read),
         NEW p \in Password, NEW hex \in BOOLEAN,
         NEW missing \in 0..(2 * Len(Encrypt(written, p))),
         NEW changed \in 0..Len(Encrypt(written, p))
  PROVE  OutcomeRight(written, read, p, hex, missing, changed)
<1> DEFINE raw == Encrypt(written, p)
           N == Len(raw)
           chars == 2 * N - missing
           m == chars \div 2
           text == Damaged(raw, m, changed)
           result == Outcome(written, read, p, hex, missing, changed)
           intact == hex /\ missing = 0 /\ changed = 0 /\ written.key = read.key
           fits == {q \in Password : Sealed(read.key, IvOf(text), q) = Behind(text)}
<1>1. N \in Nat /\ N > IvBytes + 1
  <2>1. N = IvBytes + (Len(p) + TagBytes)
    BY StoredIs, SpansSeq
  <2> HIDE DEF N
  <2> QED BY <2>1, PasswordIs, SizesType
<1>2. AesTakes(read)
  BY StoredIs
<1>3. result = Decrypt(read, text, chars, hex)
  BY DEF Outcome
<1>4. result.error \notin {None, "key size"} /\ ~intact => OutcomeRight(written, read, p, hex, missing, changed)
  BY DEF OutcomeRight
<1>5. result = [error |-> None, text |-> p] /\ intact => OutcomeRight(written, read, p, hex, missing, changed)
  BY DEF OutcomeRight
<1> HIDE DEF N, result
<1>6. missing \in 0..2*N /\ chars \in Nat
  BY <1>1 DEF N
<1>7. CASE chars < 2 * IvBytes + 2
  <2>1. missing # 0
    BY <1>1, <1>6, <1>7, SizesType
  <2>2. result.error = "too short"
    BY <1>3, <1>7 DEF Decrypt, Raises
  <2> QED BY <1>4, <2>1, <2>2 DEF None
<1>8. CASE ~(chars < 2 * IvBytes + 2) /\ (~hex \/ chars % 2 = 1)
  <2>1. ~hex \/ missing # 0
    BY <1>1, <1>6, <1>8
  <2>2. result.error = "non-hex"
    BY <1>3, <1>8 DEF Decrypt, Raises
  <2> QED BY <1>4, <2>1, <2>2 DEF None
<1>9. CASE ~(chars < 2 * IvBytes + 2) /\ hex /\ chars % 2 # 1
  <2>1. m \in IvBytes+1..N /\ chars = 2 * m
    BY <1>1, <1>6, <1>9, SizesType
  <2>2. result = IF fits = {} THEN Raises("InvalidTag")
                 ELSE [error |-> None, text |-> CHOOSE q \in fits : TRUE]
    BY <1>2, <1>3, <1>9 DEF Decrypt, Behind
  <2>3. \A q \in fits : q = p /\ m = N /\ changed = 0 /\ read.key = written.key
    BY <2>1, OriginalFits DEF N
  <2>4. CASE intact
    <3>1. m = N /\ changed = 0 /\ read.key = written.key
      BY <1>1, <2>1, <2>4
    <3>2. p \in fits
      BY <3>1, WholeFits DEF N
    <3>3. fits = {p}
      BY <2>3, <3>2
    <3> HIDE DEF fits
    <3>4. result = [error |-> None, text |-> p]
      BY <2>2, <3>3
    <3> QED BY <1>5, <2>4, <3>4
  <2>5. CASE ~intact
    <3>1. m # N \/ changed # 0 \/ read.key # written.key
      BY <1>1, <1>9, <2>1, <2>5
    <3>2. fits = {}
      BY <2>3, <3>1
    <3> HIDE DEF fits
    <3>3. result.error = "InvalidTag"
      BY <2>2, <3>2 DEF Raises
    <3> QED BY <1>4, <2>5, <3>3 DEF None
  <2> QED BY <2>4, <2>5
<1> QED BY <1>7, <1>8, <1>9

-----------------------------------------------------------------------------
\* The worker reads the password that the bot stored, or is told that it cannot: no
\* other key, no missing end, no changed byte and no character that is not hex makes decrypt
\* return another password, and no key
\* that the settings accept is one that AESGCM refuses (crypto.py:60-94, config.py:59-75).
THEOREM PasswordsReadBack == Spec => []PasswordOrError
<1>1. call.fn # "decrypt" => PasswordOrError
  BY DEF PasswordOrError
<1>2. call'.fn # "decrypt" => PasswordOrError'
  BY DEF PasswordOrError
<1>3. Init => PasswordOrError
  <2>1. Init => call.fn # "decrypt"
    BY DEF Init, None
  <2> QED BY <1>1, <2>1
<1>4. PasswordOrError /\ UNCHANGED call => PasswordOrError'
  BY DEF PasswordOrError
<1>5. TypeBack \/ Suggest => PasswordOrError'
  <2>1. TypeBack => call'.fn # "decrypt"
    BY DEF TypeBack
  <2>2. Suggest => call'.fn # "decrypt"
    BY DEF Suggest
  <2> QED BY <1>2, <2>1, <2>2
<1>6. Reread => PasswordOrError'
  <2> SUFFICES ASSUME NEW written \in Setting, NEW read \in Setting,
                      KeyAccepted(written), KeyAccepted(read),
                      NEW p \in Password, NEW hex \in BOOLEAN,
                      NEW missing \in 0..(2 * Len(Encrypt(written, p))),
                      NEW changed \in 0..Len(Encrypt(written, p)),
                      call' = [fn |-> "decrypt", password |-> p,
                               intact |-> /\ hex /\ missing = 0 /\ changed = 0
                                          /\ written.key = read.key,
                               result |-> Outcome(written, read, p, hex, missing, changed)]
               PROVE  PasswordOrError'
    <3> SUFFICES ASSUME Reread PROVE PasswordOrError'
      OBVIOUS
    <3>1. PICK written \in Setting, read \in Setting, p \in Password, hex \in BOOLEAN :
            /\ KeyAccepted(written) /\ KeyAccepted(read)
            /\ \E missing \in 0..(2 * Len(Encrypt(written, p))), changed \in 0..Len(Encrypt(written, p)) :
                 call' = [fn |-> "decrypt", password |-> p,
                          intact |-> /\ hex /\ missing = 0 /\ changed = 0
                                     /\ written.key = read.key,
                          result |-> Outcome(written, read, p, hex, missing, changed)]
      BY DEF Reread, Outcome, Damaged, Junk
    <3> QED BY <3>1
  <2>1. OutcomeRight(written, read, p, hex, missing, changed)
    BY DecryptIsRight
  <2> QED BY <2>1 DEF PasswordOrError, OutcomeRight
<1> QED BY <1>3, <1>4, <1>5, <1>6, PTL DEF Spec, Next

-----------------------------------------------------------------------------
(* Induction.                                                              *)

\* A set of naturals that has an element has a least one: the segments below its
\* elements are finite sets, which strict inclusion orders well.
LEMMA LeastNumber ==
  ASSUME NEW T \in SUBSET Nat, T # {}
  PROVE  \E n \in T : \A m \in T : n <= m
<1> DEFINE Below == {0..n : n \in T}
           R == StrictSubsetOrdering(Nat)
           S == FiniteSubsetsOf(Nat)
<1>1. IsWellFoundedOn(R, S)
  BY FS_StrictSubsetOrderingWellFounded
<1>2. Below \subseteq S /\ Below # {}
  <2>1. \A n \in T : IsFiniteSet(0..n) /\ 0..n \in SUBSET Nat
    BY FS_Interval
  <2> QED BY <2>1 DEF FiniteSubsetsOf
<1> HIDE DEF R, S
<1>3. PICK X \in Below : \A Y \in Below : ~(<<Y, X>> \in R)
  <2> HIDE DEF Below
  <2> QED BY <1>1, <1>2, WFMin
<1>4. PICK n \in T : X = 0..n
  BY <1>3
<1>5. ASSUME NEW m \in T, ~(n <= m) PROVE FALSE
  <2>1. 0..m \subseteq 0..n /\ 0..m # 0..n
    BY <1>5
  <2>2. <<0..m, X>> \in R
    BY <1>4, <2>1 DEF R, StrictSubsetOrdering
  <2> QED BY <1>3, <2>2
<1> QED BY <1>5

\* Induction up to N, for what holds on a set of numbers.
LEMMA Climb ==
  ASSUME NEW N \in Nat, NEW H \in SUBSET (0..N), 0 \in H,
         \A n \in 1..N : n - 1 \in H => n \in H
  PROVE  H = 0..N
<1> SUFFICES ASSUME (0..N) \ H # {} PROVE FALSE
  OBVIOUS
<1>1. (0..N) \ H \in SUBSET Nat
  OBVIOUS
<1>2. PICK n \in (0..N) \ H : \A m \in (0..N) \ H : n <= m
  BY <1>1, LeastNumber
<1>3. n \in 1..N /\ n - 1 \in 0..N /\ ~(n <= n - 1)
  BY <1>2
<1> QED BY <1>2, <1>3

\* The least and the largest number of a bounded set.
LEMMA MinIs ==
  ASSUME NEW T \in SUBSET Nat, T # {}
  PROVE  Min(T) \in T /\ \A m \in T : Min(T) <= m
<1>1. \E n \in T : \A m \in T : n =< m
  BY LeastNumber
<1> QED BY <1>1 DEF Min

LEMMA MaxIs ==
  ASSUME NEW N \in Nat, NEW T \in SUBSET (0..N), T # {}
  PROVE  Max(T) \in T /\ \A m \in T : m <= Max(T)
<1> DEFINE U == {N - n : n \in T}
<1>1. U \in SUBSET Nat /\ U # {}
  <2>1. \A n \in T : N - n \in Nat
    OBVIOUS
  <2> QED BY <2>1
<1> HIDE DEF U
<1>2. PICK u \in U : \A v \in U : u <= v
  BY <1>1, LeastNumber
<1>3. PICK n \in T : u = N - n
  BY DEF U
<1>4. \A m \in T : n >= m
  <2> TAKE m \in T
  <2>1. N - m \in U
    BY DEF U
  <2> QED BY <1>2, <1>3, <2>1
<1>5. \E x \in T : \A y \in T : x >= y
  BY <1>4
<1> QED BY <1>5 DEF Max

-----------------------------------------------------------------------------
(* The powers of the base.                                                 *)

LEMMA BaseType == Base \in Nat \ {0} /\ OtpLengths \subseteq 4..10 /\ SlugCut \in 1..100
BY SizesAssumption DEF SizesAssumption

\* The recursion that defines Power has a solution.
LEMMA PowerIs == Power = [w \in 0..10 |-> IF w = 0 THEN 1 ELSE Base * Power[w - 1]]
<1> DEFINE Solves(g, N) == g = [w \in 0..N |-> IF w = 0 THEN 1 ELSE Base * g[w - 1]]
           H == {N \in 0..10 : \E g : Solves(g, N)}
<1>1. \E g : Solves(g, 0)
  <2> DEFINE g == [w \in 0..0 |-> 1]
  <2>1. Solves(g, 0)
    OBVIOUS
  <2> HIDE DEF Solves, g
  <2> QED BY <2>1
<1>2. ASSUME NEW N \in 1..10, NEW g, Solves(g, N - 1) PROVE \E h : Solves(h, N)
  <2> DEFINE h == [w \in 0..N |-> IF w = 0 THEN 1 ELSE Base * g[w - 1]]
  <2>1. \A w \in 0..N-1 : h[w] = g[w]
    BY <1>2
  <2>2. \A w \in 0..N : (IF w = 0 THEN 1 ELSE Base * g[w - 1]) = (IF w = 0 THEN 1 ELSE Base * h[w - 1])
    <3>1. \A w \in 0..N : w = 0 \/ w - 1 \in 0..N-1
      OBVIOUS
    <3> HIDE DEF h
    <3> QED BY <2>1, <3>1
  <2>3. h = [w \in 0..N |-> IF w = 0 THEN 1 ELSE Base * h[w - 1]]
    <3> DEFINE k == [w \in 0..N |-> IF w = 0 THEN 1 ELSE Base * h[w - 1]]
    <3>1. h = k
      BY <2>2, Zenon
    <3> QED BY <3>1
  <2>4. Solves(h, N)
    <3> HIDE DEF h
    <3> QED BY <2>3
  <2> HIDE DEF Solves, h
  <2> QED BY <2>4
<1>3. H = 0..10
  <2> HIDE DEF Solves
  <2>1. H \in SUBSET (0..10) /\ 0 \in H
    BY <1>1
  <2>2. \A n \in 1..10 : n - 1 \in H => n \in H
    BY <1>2
  <2> HIDE DEF H
  <2> QED BY <2>1, <2>2, Climb
<1>4. \E g : Solves(g, 10)
  <2> HIDE DEF Solves
  <2> QED BY <1>3
<1> QED BY <1>4 DEF Power

LEMMA PowerType ==
  /\ \A w \in 0..10 : Power[w] \in Nat \ {0}
  /\ Power[0] = 1
  /\ \A w \in 1..10 : Power[w] = Base * Power[w - 1]
  /\ \A v, w \in 0..10 : v <= w => Power[v] <= Power[w]
<1>1. Power[0] = 1 /\ \A w \in 1..10 : Power[w] = Base * Power[w - 1]
  BY PowerIs
<1>2. \A b, p \in Nat \ {0} : b * p \in Nat \ {0} /\ p <= b * p
  OBVIOUS
<1>3. {w \in 0..10 : Power[w] \in Nat \ {0}} = 0..10
  <2> DEFINE H == {w \in 0..10 : Power[w] \in Nat \ {0}}
  <2>1. 0 \in H
    BY <1>1
  <2>2. ASSUME NEW w \in 1..10, w - 1 \in H PROVE w \in H
    BY <1>1, <1>2, <2>2, BaseType
  <2>3. H \in SUBSET (0..10)
    OBVIOUS
  <2> HIDE DEF H
  <2>4. H = 0..10
    BY <2>1, <2>2, <2>3, Climb
  <2> QED BY <2>4 DEF H
<1>4. ASSUME NEW v \in 0..10 PROVE {w \in 0..10 : v <= w => Power[v] <= Power[w]} = 0..10
  <2> DEFINE H == {w \in 0..10 : v <= w => Power[v] <= Power[w]}
  <2>1. 0 \in H
    BY <1>3
  <2>2. ASSUME NEW w \in 1..10, w - 1 \in H PROVE w \in H
    <3>1. Power[w] \in Nat \ {0} /\ Power[w - 1] \in Nat \ {0} /\ Power[v] \in Nat \ {0}
      BY <1>3
    <3>2. Power[w - 1] <= Power[w]
      BY <1>1, <1>2, <3>1, BaseType
    <3>3. v <= w => v <= w - 1 \/ v = w
      OBVIOUS
    <3> QED BY <2>2, <3>1, <3>2, <3>3
  <2>3. H \in SUBSET (0..10)
    OBVIOUS
  <2> HIDE DEF H
  <2>4. H = 0..10
    BY <2>1, <2>2, <2>3, Climb
  <2> QED BY <2>4 DEF H
<1> QED BY <1>1, <1>3, <1>4

-----------------------------------------------------------------------------
(* Codes.                                                                  *)

\* Reading a code digit by digit.
Reads(read, code, N) == read = [n \in 0..N |-> IF n = 0 THEN 0 ELSE read[n - 1] * Base + code[n]]

LEMMA ReadsExists ==
  ASSUME NEW code, NEW N \in Nat
  PROVE  \E read : Reads(read, code, N)
<1> DEFINE H == {n \in 0..N : \E read : Reads(read, code, n)}
<1>1. \E read : Reads(read, code, 0)
  <2> DEFINE g == [n \in 0..0 |-> 0]
  <2>1. Reads(g, code, 0)
    BY DEF Reads
  <2> HIDE DEF g
  <2> QED BY <2>1
<1>2. ASSUME NEW n \in 1..N, NEW g, Reads(g, code, n - 1) PROVE \E h : Reads(h, code, n)
  <2> DEFINE h == [i \in 0..n |-> IF i = 0 THEN 0 ELSE g[i - 1] * Base + code[i]]
  <2>1. \A i \in 0..n-1 : h[i] = g[i]
    BY <1>2 DEF Reads
  <2>2. \A i \in 0..n : (IF i = 0 THEN 0 ELSE g[i - 1] * Base + code[i])
                        = (IF i = 0 THEN 0 ELSE h[i - 1] * Base + code[i])
    <3>1. \A i \in 0..n : i = 0 \/ i - 1 \in 0..n-1
      OBVIOUS
    <3> HIDE DEF h
    <3> QED BY <2>1, <3>1
  <2>3. h = [i \in 0..n |-> IF i = 0 THEN 0 ELSE h[i - 1] * Base + code[i]]
    BY <2>2, Zenon
  <2> HIDE DEF h
  <2>4. Reads(h, code, n)
    BY <2>3 DEF Reads
  <2> QED BY <2>4
<1>3. H = 0..N
  <2>1. H \in SUBSET (0..N) /\ 0 \in H
    BY <1>1
  <2>2. \A n \in 1..N : n - 1 \in H => n \in H
    BY <1>2
  <2> HIDE DEF H
  <2> QED BY <2>1, <2>2, Climb
<1> QED BY <1>3

\* What Number reads off a code, n digits from the front.
LEMMA NumberIs ==
  ASSUME NEW code, Len(code) \in Nat
  PROVE  \E read : Reads(read, code, Len(code)) /\ Number(code) = read[Len(code)]
<1> DEFINE read == CHOOSE read : Reads(read, code, Len(code))
<1>1. Reads(read, code, Len(code))
  <2>1. \E g : Reads(g, code, Len(code))
    BY ReadsExists
  <2> QED BY <2>1
<1>2. Number(code) = read[Len(code)]
  BY DEF Number, Reads
<1> HIDE DEF read
<1> QED BY <1>1, <1>2

\* Digits that are those of a value make up the value.
LEMMA DigitsAdd ==
  ASSUME NEW L \in 1..10, NEW value \in 0..(Power[L] - 1), NEW code, Len(code) = L,
         \A i \in 1..L : code[i] = (value \div Power[L - i]) % Base
  PROVE  Number(code) = value
<1> PICK read : Reads(read, code, L) /\ Number(code) = read[L]
  BY NumberIs
<1>1. \A a, b, p \in Nat : b > 0 /\ p > 0 => ((a \div (b * p)) * b) + ((a \div p) % b) = a \div p
  <2> TAKE a, b, p \in Nat
  <2> SUFFICES ASSUME b > 0, p > 0
               PROVE  ((a \div (b * p)) * b) + ((a \div p) % b) = a \div p
    OBVIOUS
  <2>1. a \div p \in Nat /\ a \div (b * p) = (a \div p) \div b
    OBVIOUS
  <2> PICK c \in Nat : c = a \div p
    BY <2>1
  <2>2. ((c \div b) * b) + (c % b) = c
    OBVIOUS
  <2> QED BY <2>1, <2>2
<1>2. value \in Nat /\ value \div Power[L] = 0 /\ value \div Power[0] = value
  <2>1. L \in 0..10
    OBVIOUS
  <2>2. PICK p \in Nat \ {0} : p = Power[L]
    BY <2>1, PowerType
  <2>3. value \in 0..(p - 1) /\ Power[0] = 1
    BY <2>2, PowerType
  <2>4. value \in Nat /\ value \div p = 0 /\ value \div 1 = value
    BY <2>3
  <2> QED BY <2>2, <2>3, <2>4
<1> DEFINE H == {n \in 0..L : read[n] = value \div Power[L - n]}
<1>3. H = 0..L
  <2>1. 0 \in H
    <3>1. read[0] = 0 /\ L - 0 = L
      BY DEF Reads
    <3> QED BY <1>2, <3>1
  <2>2. ASSUME NEW n \in 1..L, n - 1 \in H PROVE n \in H
    <3>1. read[n] = read[n - 1] * Base + code[n]
      BY DEF Reads
    <3>2. L - (n - 1) \in 1..10 /\ L - (n - 1) - 1 = L - n /\ L - n \in 0..10
      OBVIOUS
    <3>3. PICK p \in Nat \ {0} : p = Power[L - n] /\ Power[L - (n - 1)] = Base * p
      BY <3>2, PowerType
    <3>4. read[n - 1] = value \div (Base * p)
      BY <2>2, <3>3
    <3>5. ((value \div (Base * p)) * Base) + ((value \div p) % Base) = value \div p
      <4>1. value \in Nat /\ Base \in Nat /\ p \in Nat /\ Base > 0 /\ p > 0
        BY <1>2, BaseType
      <4> QED BY <1>1, <4>1, Zenon
    <3> QED BY <3>1, <3>3, <3>4, <3>5
  <2>3. H \in SUBSET (0..L)
    OBVIOUS
  <2> HIDE DEF H
  <2> QED BY <2>1, <2>2, <2>3, Climb
<1>4. L \in 0..L /\ L - L = 0
  OBVIOUS
<1> QED BY <1>2, <1>3, <1>4

\* A value that has L digits has no more without its zeros.
LEMMA DecimalIs ==
  ASSUME NEW L \in 1..10, NEW value \in 0..(Power[L] - 1)
  PROVE  \E w \in 1..L :
           /\ value < Power[w]
           /\ Decimal(value) = [i \in 1..w |-> (value \div Power[w - i]) % Base]
<1> DEFINE W == {w \in 1..10 : value < Power[w]}
           w == Min(W)
<1>1. L \in W
  BY PowerType
<1>2. W \in SUBSET Nat
  OBVIOUS
<1>3. Decimal(value) = [i \in 1..w |-> (value \div Power[w - i]) % Base]
  BY DEF Decimal
<1>4. w \in W /\ w <= L
  <2> HIDE DEF W
  <2> QED BY <1>1, <1>2, MinIs
<1>5. w \in 1..L /\ value < Power[w]
  <2> HIDE DEF w
  <2> QED BY <1>4
<1> HIDE DEF w
<1> QED BY <1>3, <1>5

\* A code has its length, its digits are those of the value.
LEMMA CodeIs ==
  ASSUME NEW L \in 1..10, NEW value \in 0..(Power[L] - 1)
  PROVE  /\ Spans(GenerateOtp(L, value), L) /\ Len(GenerateOtp(L, value)) = L
         /\ \A i \in 1..L : GenerateOtp(L, value)[i] = (value \div Power[L - i]) % Base
<1> PICK w \in 1..L :
      /\ value < Power[w]
      /\ Decimal(value) = [i \in 1..w |-> (value \div Power[w - i]) % Base]
  BY DecimalIs
<1> DEFINE z == [i \in 1..(L - w) |-> 0]
           d == Decimal(value)
<1>1. w \in Nat /\ L - w \in Nat /\ (L - w) + w = L
  OBVIOUS
<1>2. Spans(d, w) /\ Spans(z, L - w)
  BY <1>1 DEF Spans
<1>3. Len(d) = w
  BY <1>2, SpansSeq
<1>4. Joins(GenerateOtp(L, value), z, d)
  BY <1>3 DEF GenerateOtp, Joins
<1>5. /\ Spans(GenerateOtp(L, value), L)
      /\ \A i \in 1..(L - w) : GenerateOtp(L, value)[i] = z[i]
      /\ \A i \in 1..w : GenerateOtp(L, value)[(L - w) + i] = d[i]
  <2> HIDE DEF z, d
  <2> PICK m \in Nat : m = L - w
    BY <1>1
  <2> PICK g : g = GenerateOtp(L, value)
    OBVIOUS
  <2>1. Spans(g, m + w) /\ (\A i \in 1..m : g[i] = z[i]) /\ (\A i \in 1..w : g[m + i] = d[i])
    <3>1. Joins(g, z, d) /\ Spans(z, m) /\ Spans(d, w)
      BY <1>2, <1>4
    <3> QED BY <3>1, SpansConcat
  <2> QED BY <1>1, <2>1
<1>6. Len(GenerateOtp(L, value)) = L
  BY <1>5, SpansSeq
<1>7. ASSUME NEW i \in 1..L PROVE GenerateOtp(L, value)[i] = (value \div Power[L - i]) % Base
  <2>1. CASE i \in 1..(L - w)
    <3>1. w \in 0..10 /\ L - i \in 0..10 /\ w <= L - i
      BY <2>1
    <3>2. PICK p \in Nat \ {0} : p = Power[L - i] /\ Power[w] <= p /\ Power[w] \in Nat
      BY <3>1, PowerType
    <3>3. value \in Nat /\ value < p
      <4>1. L \in 0..10
        OBVIOUS
      <4>2. PICK top \in Nat \ {0} : top = Power[L]
        BY <4>1, PowerType
      <4>3. value \in 0..(top - 1)
        BY <4>2
      <4>4. PICK low \in Nat : low = Power[w] /\ value < low /\ low <= p
        BY <3>2
      <4> QED BY <4>3, <4>4
    <3>4. value \div p = 0
      BY <3>2, <3>3
    <3>5. GenerateOtp(L, value)[i] = 0
      BY <1>5, <2>1
    <3>6. 0 % Base = 0
      BY BaseType
    <3> QED BY <3>2, <3>4, <3>5, <3>6
  <2>2. CASE i \notin 1..(L - w)
    <3> PICK j : j = i - (L - w)
      OBVIOUS
    <3>1. j \in 1..w /\ (L - w) + j = i /\ w - j = L - i
      BY <2>2
    <3>2. GenerateOtp(L, value)[i] = d[j]
      BY <1>5, <3>1
    <3> QED BY <3>1, <3>2
  <2> QED BY <2>1, <2>2
<1> QED BY <1>5, <1>6, <1>7

-----------------------------------------------------------------------------
(* Stripping.                                                              *)

\* The characters other than c begin at a and end at b.
Kept(text, n, c, a, b) ==
  /\ a <= b /\ text[a] # c /\ text[b] # c
  /\ \A i \in 1..n : text[i] # c => a <= i /\ i <= b

\* Stripping leaves what is between the first and the last other character.
LEMMA StripIs ==
  ASSUME NEW n, NEW text, Spans(text, n), NEW c
  PROVE  \/ Strip(text, c) = <<>> /\ \A i \in 1..n : text[i] = c
         \/ \E a, b \in 1..n : Kept(text, n, c, a, b) /\ Strip(text, c) = SubSeq(text, a, b)
<1> DEFINE kept == {i \in 1..n : text[i] # c}
<1>1. n \in Nat /\ DOMAIN text = 1..n
  BY DEF Spans
<1>2. Strip(text, c) = IF kept = {} THEN <<>> ELSE SubSeq(text, Min(kept), Max(kept))
  BY <1>1 DEF Strip
<1>3. CASE kept = {}
  BY <1>2, <1>3
<1>4. CASE kept # {}
  <2>1. kept \in SUBSET Nat /\ kept \in SUBSET (0..n)
    BY <1>1
  <2>2. /\ Min(kept) \in kept /\ \A i \in kept : Min(kept) <= i
        /\ Max(kept) \in kept /\ \A i \in kept : i <= Max(kept)
    <3> HIDE DEF kept
    <3> QED BY <1>1, <1>4, <2>1, MinIs, MaxIs
  <2> PICK a : a = Min(kept)
    OBVIOUS
  <2> PICK b : b = Max(kept)
    OBVIOUS
  <2>3. a \in kept /\ b \in kept /\ \A i \in kept : a <= i /\ i <= b
    BY <2>2
  <2>4. Strip(text, c) = SubSeq(text, a, b)
    BY <1>2, <1>4
  <2> QED BY <2>3, <2>4 DEF Kept
<1> QED BY <1>3, <1>4

\* What is typed before or after a code.
LEMMA EdgeIs ==
  ASSUME NEW edge \in {<<>>, <<Space>>}
  PROVE  \E m \in 0..1 : Spans(edge, m) /\ \A i \in 1..m : edge[i] = Space
<1>1. CASE edge = <<>>
  <2>1. Spans(edge, 0)
    BY <1>1 DEF Spans
  <2> QED BY <2>1
<1>2. CASE edge = <<Space>>
  <2>1. Spans(edge, 1) /\ edge[1] = Space
    BY <1>2 DEF Spans
  <2> QED BY <2>1
<1> QED BY <1>1, <1>2

\* Spaces around a code do not matter.
LEMMA StrippedCode ==
  ASSUME NEW L \in Nat \ {0}, NEW code, Spans(code, L), \A i \in 1..L : code[i] # Space,
         NEW m \in Nat, NEW before, Spans(before, m), \A i \in 1..m : before[i] = Space,
         NEW k \in Nat, NEW after, Spans(after, k), \A i \in 1..k : after[i] = Space
  PROVE  Strip(before \o code \o after, Space) = code
<1> PICK head : Joins(head, before, code)
  BY DEF Joins
<1> PICK text : Joins(text, head, after)
  BY DEF Joins
<1>1. before \o code \o after = text
  BY DEF Joins
<1>2. /\ Spans(head, m + L)
      /\ \A i \in 1..m : head[i] = before[i]
      /\ \A i \in 1..L : head[m + i] = code[i]
  BY SpansConcat
<1> PICK h \in Nat : h = m + L
  OBVIOUS
<1> PICK n \in Nat : n = h + k
  OBVIOUS
<1>3. /\ Spans(text, n)
      /\ \A i \in 1..h : text[i] = head[i]
      /\ \A i \in 1..k : text[h + i] = after[i]
  <2>1. Spans(head, h) /\ Spans(after, k) /\ Joins(text, head, after)
    BY <1>2
  <2>2. /\ Spans(text, h + k)
        /\ \A i \in 1..h : text[i] = head[i]
        /\ \A i \in 1..k : text[h + i] = after[i]
    BY <2>1, SpansConcat
  <2> QED BY <2>2
<1>4. \A i \in 1..n : IF i \in (m + 1)..h THEN text[i] # Space ELSE text[i] = Space
  <2> TAKE i \in 1..n
  <2>1. CASE i \in 1..m
    BY <1>2, <1>3, <2>1
  <2>2. CASE i \in (m + 1)..h
    <3> PICK j : j = i - m
      OBVIOUS
    <3>1. j \in 1..L /\ m + j = i /\ i \in 1..h
      BY <2>2
    <3> QED BY <1>2, <1>3, <2>2, <3>1
  <2>3. CASE i \notin 1..h
    <3> PICK j : j = i - h
      OBVIOUS
    <3>1. j \in 1..k /\ h + j = i /\ i \notin (m + 1)..h
      BY <2>3
    <3> QED BY <1>3, <3>1
  <2>4. i \in 1..m \/ i \in (m + 1)..h \/ i \notin 1..h
    OBVIOUS
  <2> QED BY <2>1, <2>2, <2>3, <2>4
<1>5. m + 1 \in 1..n /\ m + 1 \in (m + 1)..h /\ h \in 1..n /\ h \in (m + 1)..h
  OBVIOUS
<1>6. ~ \A i \in 1..n : text[i] = Space
  BY <1>4, <1>5
<1>7. PICK a, b \in 1..n : Kept(text, n, Space, a, b) /\ Strip(text, Space) = SubSeq(text, a, b)
  <2>1. Spans(text, n)
    BY <1>3
  <2> QED BY ONLY <1>6, <2>1, StripIs
<1>8. a = m + 1 /\ b = h
  <2>1. a \in (m + 1)..h /\ b \in (m + 1)..h
    BY <1>4, <1>7 DEF Kept
  <2>2. a <= m + 1 /\ h <= b
    BY <1>4, <1>5, <1>7 DEF Kept
  <2> QED BY <2>1, <2>2
<1>9. Spans(SubSeq(text, a, b), L) /\ \A i \in 1..L : SubSeq(text, a, b)[i] = text[m + i]
  <2>1. a \in 1..n+1 /\ b \in 0..n /\ a <= b + 1 /\ b - a + 1 = L /\ Spans(text, n)
    BY <1>3, <1>8
  <2>2. /\ Spans(SubSeq(text, a, b), b - a + 1)
        /\ \A i \in 1..b-a+1 : SubSeq(text, a, b)[i] = text[a + i - 1]
    BY ONLY <2>1, n \in Nat, SpansSubSeq
  <2>3. \A i \in 1..L : a + i - 1 = m + i
    BY <1>8
  <2> QED BY <2>1, <2>2, <2>3
<1>10. \A i \in 1..L : SubSeq(text, a, b)[i] = code[i]
  <2>1. \A i \in 1..L : m + i \in 1..h
    OBVIOUS
  <2>2. \A i \in 1..L : text[m + i] = head[m + i]
    BY <1>3, <2>1
  <2> QED BY <1>2, <1>9, <2>2
<1> QED BY <1>1, <1>7, <1>9, <1>10, SpansSame

-----------------------------------------------------------------------------
\* What generate_otp makes of a draw passes the verify endpoint's validator as it was
\* mailed, whatever the length and with a space at either end, and the draw can be read
\* off it, so that no two draws give the same code (otp.py:35-63, routes/otp.py:93-101).
THEOREM CodesReadBack == Spec => []CodesTypeBack
<1>1. call.fn # "otp" => CodesTypeBack
  BY DEF CodesTypeBack
<1>2. call'.fn # "otp" => CodesTypeBack'
  BY DEF CodesTypeBack
<1>3. Init => CodesTypeBack
  <2>1. Init => call.fn # "otp"
    BY DEF Init, None
  <2> QED BY <1>1, <2>1
<1>4. CodesTypeBack /\ UNCHANGED call => CodesTypeBack'
  BY DEF CodesTypeBack
<1>5. Suggest \/ Reread => CodesTypeBack'
  <2>1. Suggest => call'.fn # "otp"
    BY DEF Suggest
  <2>2. Reread => call'.fn # "otp"
    BY DEF Reread
  <2> QED BY <1>2, <2>1, <2>2
<1>6. TypeBack => CodesTypeBack'
  <2> SUFFICES ASSUME NEW L \in OtpLengths, NEW before \in {<<>>, <<Space>>},
                      NEW after \in {<<>>, <<Space>>}, NEW value \in 0..(Power[L] - 1),
                      NEW code, code = GenerateOtp(L, value),
                      call' = [fn |-> "otp", length |-> L, value |-> value, code |-> code,
                               typed |-> ValidateCode(before \o code \o after)]
               PROVE  CodesTypeBack'
    BY DEF TypeBack
  <2>1. L \in 1..10 /\ L \in Nat \ {0} /\ L \in 4..10
    BY BaseType
  <2>2. /\ Spans(code, L) /\ Len(code) = L
        /\ \A i \in 1..L : code[i] = (value \div Power[L - i]) % Base
    BY <2>1, CodeIs
  <2>3. \A i \in 1..L : code[i] \in Digit /\ code[i] # Space
    <3> TAKE i \in 1..L
    <3>1. L \in 0..10 /\ L - i \in 0..10
      BY <2>1
    <3>2. PICK top \in Nat \ {0} : top = Power[L]
      BY <3>1, PowerType
    <3>3. PICK p \in Nat \ {0} : p = Power[L - i]
      BY <3>1, PowerType
    <3>4. value \in Nat
      <4>1. value \in 0..(top - 1)
        BY <3>2
      <4> QED BY <4>1
    <3>5. value \div p \in Nat
      BY <3>3, <3>4
    <3>6. (value \div p) % Base \in 0..(Base - 1)
      BY <3>5, BaseType
    <3>7. code[i] \in 0..(Base - 1)
      BY <2>2, <3>3, <3>6
    <3> QED BY <3>7, BaseType DEF Digit, Space
  <2>4. Strip(before \o code \o after, Space) = code
    <3> PICK m \in 0..1 : Spans(before, m) /\ \A i \in 1..m : before[i] = Space
      BY EdgeIs
    <3> PICK k \in 0..1 : Spans(after, k) /\ \A i \in 1..k : after[i] = Space
      BY EdgeIs
    <3> QED BY <2>1, <2>2, <2>3, StrippedCode
  <2>5. DOMAIN code = 1..L
    BY <2>2 DEF Spans
  <2>6. ValidateCode(before \o code \o after) = code
    <3> DEFINE text == before \o code \o after
    <3> HIDE DEF text
    <3>1. Strip(text, Space) = code => ValidateCode(text) = code
      BY <2>1, <2>2, <2>3, <2>5 DEF ValidateCode
    <3> QED BY <2>4, <3>1 DEF text
  <2>7. Number(code) = value
    BY <2>1, <2>2, DigitsAdd
  <2> QED BY <2>2, <2>6, <2>7 DEF CodesTypeBack
<1> QED BY <1>3, <1>4, <1>5, <1>6, PTL DEF Spec, Next

-----------------------------------------------------------------------------
(* Suggested slugs.                                                        *)

SlugChar == {Letter, Hyphen}

\* Building a slug character by character.
Builds(slug, name, N) ==
  slug = [n \in 0..N |-> IF n = 0 THEN <<>> ELSE Extended(slug[n - 1], name[n])]

LEMMA BuildsExists ==
  ASSUME NEW name, NEW N \in Nat
  PROVE  \E slug : Builds(slug, name, N)
<1> DEFINE H == {n \in 0..N : \E slug : Builds(slug, name, n)}
<1>1. \E slug : Builds(slug, name, 0)
  <2> DEFINE g == [n \in 0..0 |-> <<>>]
  <2>1. Builds(g, name, 0)
    BY DEF Builds
  <2> HIDE DEF g
  <2> QED BY <2>1
<1>2. ASSUME NEW n \in 1..N, NEW g, Builds(g, name, n - 1) PROVE \E h : Builds(h, name, n)
  <2> DEFINE h == [i \in 0..n |-> IF i = 0 THEN <<>> ELSE Extended(g[i - 1], name[i])]
  <2>1. \A i \in 0..n-1 : h[i] = g[i]
    BY <1>2 DEF Builds
  <2>2. \A i \in 0..n : (IF i = 0 THEN <<>> ELSE Extended(g[i - 1], name[i]))
                        = (IF i = 0 THEN <<>> ELSE Extended(h[i - 1], name[i]))
    <3>1. \A i \in 0..n : i = 0 \/ i - 1 \in 0..n-1
      OBVIOUS
    <3> HIDE DEF h
    <3> QED BY <2>1, <3>1
  <2>3. h = [i \in 0..n |-> IF i = 0 THEN <<>> ELSE Extended(h[i - 1], name[i])]
    BY <2>2, Zenon
  <2> HIDE DEF h
  <2>4. Builds(h, name, n)
    BY <2>3 DEF Builds
  <2> QED BY <2>4
<1>3. H = 0..N
  <2>1. H \in SUBSET (0..N) /\ 0 \in H
    BY <1>1
  <2>2. \A n \in 1..N : n - 1 \in H => n \in H
    BY <1>2
  <2> HIDE DEF H
  <2> QED BY <2>1, <2>2, Climb
<1> QED BY <1>3

\* A slug is made of letters and hyphens.
LEMMA HyphenatedIs ==
  ASSUME NEW name, Len(name) \in Nat
  PROVE  Hyphenated(name) \in Seq(SlugChar)
<1> PICK N \in Nat : N = Len(name)
  OBVIOUS
<1> DEFINE slug == CHOOSE slug : Builds(slug, name, N)
           H == {n \in 0..N : slug[n] \in Seq(SlugChar)}
<1>1. Builds(slug, name, N)
  <2>1. \E g : Builds(g, name, N)
    BY BuildsExists
  <2> QED BY <2>1
<1>2. Hyphenated(name) = slug[N]
  BY DEF Hyphenated, Builds
<1> HIDE DEF slug
<1>3. slug[0] = <<>> /\ \A n \in 1..N : slug[n] = Extended(slug[n - 1], name[n])
  BY <1>1 DEF Builds
<1>4. \A s \in Seq(SlugChar) : \A c : Extended(s, c) \in Seq(SlugChar)
  BY AppendProperties DEF Extended, SlugChar
<1>5. H = 0..N
  <2>1. 0 \in H
    <3>1. <<>> \in Seq(SlugChar)
      BY EmptySeq
    <3>2. slug[0] \in Seq(SlugChar)
      BY <1>3, <3>1, Zenon
    <3>3. 0 \in 0..N
      OBVIOUS
    <3> QED BY <3>2, <3>3
  <2>2. ASSUME NEW n \in 1..N, n - 1 \in H PROVE n \in H
    BY <1>3, <1>4, <2>2
  <2>3. H \in SUBSET (0..N)
    OBVIOUS
  <2> HIDE DEF H
  <2> QED BY <2>1, <2>2, <2>3, Climb
<1> QED BY <1>2, <1>5

\* A stripped slug is empty or begins and ends with a letter.
LEMMA StrippedSlug ==
  ASSUME NEW s \in Seq(SlugChar)
  PROVE  \/ Strip(s, Hyphen) = <<>>
         \/ \E n \in Nat \ {0} :
              /\ Spans(Strip(s, Hyphen), n)
              /\ \A i \in 1..n : Strip(s, Hyphen)[i] \in SlugChar
              /\ Strip(s, Hyphen)[1] = Letter /\ Strip(s, Hyphen)[n] = Letter
<1> PICK n \in Nat : n = Len(s)
  OBVIOUS
<1>1. Spans(s, n) /\ \A i \in 1..n : s[i] \in SlugChar
  <2>1. Spans(s, Len(s))
    BY SeqSpans
  <2> QED BY <2>1
<1> SUFFICES ASSUME Strip(s, Hyphen) # <<>>
             PROVE  \E k \in Nat \ {0} :
                      /\ Spans(Strip(s, Hyphen), k)
                      /\ \A i \in 1..k : Strip(s, Hyphen)[i] \in SlugChar
                      /\ Strip(s, Hyphen)[1] = Letter /\ Strip(s, Hyphen)[k] = Letter
  OBVIOUS
<1>2. PICK a, b \in 1..n : Kept(s, n, Hyphen, a, b) /\ Strip(s, Hyphen) = SubSeq(s, a, b)
  BY <1>1, StripIs
<1>3. a <= b /\ s[a] = Letter /\ s[b] = Letter
  BY <1>1, <1>2 DEF Kept, SlugChar
<1>4. /\ Spans(SubSeq(s, a, b), b - a + 1)
      /\ \A i \in 1..b-a+1 : SubSeq(s, a, b)[i] = s[a + i - 1]
  <2>1. a \in 1..n+1 /\ b \in 0..n /\ a <= b + 1 /\ Spans(s, n)
    BY <1>1, <1>3
  <2> QED BY <2>1, SpansSubSeq
<1> PICK k \in Nat \ {0} : k = b - a + 1
  BY <1>3
<1>5. /\ \A i \in 1..k : a + i - 1 \in 1..n
      /\ 1 \in 1..k /\ k \in 1..k /\ a + 1 - 1 = a /\ a + k - 1 = b
  BY <1>3
<1>6. Spans(SubSeq(s, a, b), k) /\ \A i \in 1..k : SubSeq(s, a, b)[i] = s[a + i - 1]
  BY <1>4
<1>7. /\ \A i \in 1..k : SubSeq(s, a, b)[i] \in SlugChar
      /\ SubSeq(s, a, b)[1] = Letter /\ SubSeq(s, a, b)[k] = Letter
  BY <1>1, <1>3, <1>5, <1>6
<1> QED BY <1>2, <1>6, <1>7

\* The cut of a slug is its beginning.
LEMMA CutIs ==
  ASSUME NEW n \in Nat \ {0}, NEW slug, Spans(slug, n)
  PROVE  \E m \in 1..n :
           /\ m <= SlugCut /\ (m = n \/ m = SlugCut)
           /\ Spans(SubSeq(slug, 1, Min({SlugCut, Len(slug)})), m)
           /\ \A i \in 1..m : SubSeq(slug, 1, Min({SlugCut, Len(slug)}))[i] = slug[i]
<1>1. Len(slug) = n
  BY SpansSeq
<1>2. Min({SlugCut, n}) \in {SlugCut, n} /\ \A m \in {SlugCut, n} : Min({SlugCut, n}) <= m
  <2>1. {SlugCut, n} \in SUBSET Nat /\ {SlugCut, n} # {}
    BY BaseType
  <2> QED BY <2>1, MinIs
<1> PICK m : m = Min({SlugCut, n})
  OBVIOUS
<1>3. m \in 1..n /\ m \in 0..n /\ m <= SlugCut /\ (m = n \/ m = SlugCut)
  BY <1>2, BaseType
<1>4. Spans(SubSeq(slug, 1, m), m) /\ \A i \in 1..m : SubSeq(slug, 1, m)[i] = slug[i]
  BY <1>3, SpansFirst
<1> QED BY <1>1, <1>3, <1>4

\* What the wizard suggests is accepted, short, or cut behind a hyphen.
LEMMA SlugifyIs ==
  ASSUME NEW name, Len(name) \in Nat
  PROVE  \/ SlugAccepted(Slugify(name))
         \/ Len(Slugify(name)) < 3
         \/ Len(Slugify(name)) = SlugCut /\ Last(Slugify(name)) = Hyphen
<1> DEFINE slug == Strip(Hyphenated(name), Hyphen)
           cut == SubSeq(slug, 1, Min({SlugCut, Len(slug)}))
<1>1. Slugify(name) = IF cut = <<>> THEN Fallback ELSE cut
  BY DEF Slugify
<1>2. \/ slug = <<>>
      \/ \E n \in Nat \ {0} :
           /\ Spans(slug, n)
           /\ \A i \in 1..n : slug[i] \in SlugChar
           /\ slug[1] = Letter /\ slug[n] = Letter
  BY HyphenatedIs, StrippedSlug
<1>3. CASE slug = <<>>
  <2>1. cut = <<>>
    <3>1. Len(slug) = 0
      BY <1>3
    <3>2. Min({SlugCut, 0}) = 0
      <4>1. {SlugCut, 0} \in SUBSET Nat /\ {SlugCut, 0} # {}
        BY BaseType
      <4>2. Min({SlugCut, 0}) \in {SlugCut, 0} /\ \A m \in {SlugCut, 0} : Min({SlugCut, 0}) <= m
        BY <4>1, MinIs
      <4> QED BY <4>2, BaseType
    <3>3. SubSeq(<<>>, 1, 0) = <<>>
      OBVIOUS
    <3> QED BY <1>3, <3>1, <3>2, <3>3
  <2>2. Slugify(name) = Fallback
    BY <1>1, <2>1
  <2>3. Len(Fallback) = 7 /\ Spans(Fallback, 7)
    <3>1. Spans(Fallback, 7)
      BY DEF Fallback, Spans
    <3> QED BY <3>1, SpansSeq
  <2>4. SlugAccepted(Fallback)
    BY <2>3 DEF SlugAccepted, Last, Fallback
  <2> QED BY <2>2, <2>4
<1>4. ASSUME NEW n \in Nat \ {0}, Spans(slug, n), \A i \in 1..n : slug[i] \in SlugChar,
             slug[1] = Letter, slug[n] = Letter
      PROVE  SlugAccepted(cut) \/ Len(cut) < 3 \/ (Len(cut) = SlugCut /\ Last(cut) = Hyphen)
  <2> HIDE DEF slug
  <2>1. PICK m \in 1..n :
           /\ m <= SlugCut /\ (m = n \/ m = SlugCut)
           /\ Spans(cut, m) /\ \A i \in 1..m : cut[i] = slug[i]
    BY <1>4, CutIs
  <2> HIDE DEF cut
  <2>2. Len(cut) = m /\ DOMAIN cut = 1..m
    <3>1. Spans(cut, m)
      BY <2>1
    <3> QED BY <3>1, SpansSeq DEF Spans
  <2>3. 1 \in 1..m /\ m \in 1..m
    OBVIOUS
  <2>4. (\A i \in 1..m : cut[i] \in SlugChar) /\ cut[1] = Letter
    BY <1>4, <2>1, <2>3
  <2>5. cut[m] = Letter \/ (m = SlugCut /\ cut[m] = Hyphen)
    <3>1. cut[m] = slug[m] /\ cut[m] \in {Letter, Hyphen}
      BY <2>1, <2>3, <2>4 DEF SlugChar
    <3>2. m = n => cut[m] = Letter
      BY <1>4, <3>1
    <3>3. (m = n \/ m = SlugCut) /\ (cut[m] = Letter \/ cut[m] = Hyphen)
      BY <2>1, <3>1
    <3> QED BY <3>2, <3>3, Zenon
  <2>6. m <= 100 /\ Last(cut) = cut[m]
    BY <2>1, <2>2, BaseType DEF Last
  <2>7. m >= 3 /\ cut[m] = Letter => SlugAccepted(cut)
    <3> SUFFICES ASSUME m >= 3, cut[m] = Letter PROVE SlugAccepted(cut)
      OBVIOUS
    <3>1. m \in 3..100
      BY <2>6
    <3>2. \A i \in 1..m : cut[i] \in {Letter, Hyphen}
      BY <2>4 DEF SlugChar
    <3> QED BY <2>2, <2>4, <2>6, <3>1, <3>2 DEF SlugAccepted
  <2> QED BY <2>2, <2>5, <2>6, <2>7
<1>5. ASSUME NEW n \in Nat \ {0}, Spans(slug, n) PROVE cut # <<>>
  <2> HIDE DEF slug
  <2>1. PICK m \in 1..n : Spans(cut, m)
    BY <1>5, CutIs
  <2> HIDE DEF cut
  <2> QED BY <2>1 DEF Spans
<1> HIDE DEF slug, cut
<1> QED BY <1>1, <1>2, <1>3, <1>4, <1>5

-----------------------------------------------------------------------------
\* The wizard refuses a slug that it suggested itself only if the name gives less than three
\* characters or is cut behind a hyphen, for names of any length and wherever the cut is
\* (new_project.py:44-52, 106-113).
THEOREM SuggestionsFit == Spec => []SuggestionFits
<1>1. call.fn # "slug" => SuggestionFits
  BY DEF SuggestionFits
<1>2. call'.fn # "slug" => SuggestionFits'
  BY DEF SuggestionFits
<1>3. Init => SuggestionFits
  <2>1. Init => call.fn # "slug"
    BY DEF Init, None
  <2> QED BY <1>1, <2>1
<1>4. SuggestionFits /\ UNCHANGED call => SuggestionFits'
  BY DEF SuggestionFits
<1>5. TypeBack \/ Reread => SuggestionFits'
  <2>1. TypeBack => call'.fn # "slug"
    BY DEF TypeBack
  <2>2. Reread => call'.fn # "slug"
    BY DEF Reread
  <2> QED BY <1>2, <2>1, <2>2
<1>6. Suggest => SuggestionFits'
  <2> SUFFICES ASSUME NEW name \in SeqOf({Letter, Other}, MaxName),
                      call' = [fn |-> "slug", slug |-> Slugify(name),
                               accepted |-> SlugAccepted(Slugify(name))]
               PROVE  SuggestionFits'
    BY DEF Suggest
  <2>1. Len(name) \in Nat
    <3>1. PICK n \in 0..MaxName : name \in [1..n -> {Letter, Other}]
      BY DEF SeqOf
    <3>2. n \in Nat /\ Spans(name, n)
      BY <3>1 DEF Spans
    <3> QED BY <3>2, SpansSeq
  <2>2. \/ SlugAccepted(Slugify(name))
        \/ Len(Slugify(name)) < 3
        \/ Len(Slugify(name)) = SlugCut /\ Last(Slugify(name)) = Hyphen
    BY <2>1, SlugifyIs
  <2> QED BY <2>2 DEF SuggestionFits
<1> QED BY <1>3, <1>4, <1>5, <1>6, PTL DEF Spec, Next

=============================================================================
