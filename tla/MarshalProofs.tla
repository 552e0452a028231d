--------------------------- MODULE MarshalProofs ---------------------------
(***************************************************************************)
(* Proofs about Marshal, for any set of strings of any length, Nul bytes   *)
(* and bytes that are no UTF-8 included.                                   *)
(***************************************************************************)
EXTENDS Marshal, SequenceTheorems, WellFoundedInduction, TLAPS

(* The strings that are sent are sequences of bytes, and are not nil.      *)
LEMMA StrBytes == \A s \in Str : s \in Seq(Byte) /\ s # None
<1>1. {Nul, Text, Bad} \subseteq Byte
  BY DEF Byte
<1>2. \A s \in Str : s \in Seq({Nul, Text, Bad})
  BY StrAssumption
<1>3. \A s \in Str : s \in Seq(Byte)
  BY <1>1, <1>2, SeqMonotonic
<1> QED
  BY <1>3, NoneAssumption

(* A set of natural numbers that is not empty has a least element.         *)
LEMMA LeastElement ==
  ASSUME NEW T \in SUBSET Nat, T # {}
  PROVE  \E x \in T : \A y \in T : x <= y
<1> DEFINE R == {ss \in Nat \X Nat : ss[1] < ss[2]}
<1>1. IsWellFoundedOn(R, Nat)
  BY NatLessThanWellFounded DEF OpToRel
<1>2. PICK x \in T : \A y \in T : ~(<<y, x>> \in R)
  <2> HIDE DEF R
  <2> QED
    BY <1>1, WFMin
<1>3. ASSUME NEW y \in T PROVE x <= y
  <2>1. ~(<<y, x>> \in R)
    BY <1>2
  <2>2. ~(y < x)
    BY <2>1
  <2> QED
    BY <2>2
<1> QED
  BY <1>3

(* FirstNul is the position of a Nul that none precedes.                   *)
LEMMA LeastNul ==
  ASSUME NEW b \in Seq(Byte), Terminated(b)
  PROVE  /\ FirstNul(b) \in 1 .. Len(b)
         /\ b[FirstNul(b)] = Nul
         /\ \A k \in 1 .. FirstNul(b) - 1 : b[k] # Nul
<1> DEFINE T == {i \in DOMAIN b : b[i] = Nul}
<1>1. DOMAIN b = 1 .. Len(b) /\ Len(b) \in Nat
  BY LenProperties
<1>2. T \in SUBSET Nat /\ T # {}
  BY <1>1 DEF Terminated
<1>3. PICK x \in T : \A y \in T : x <= y
  BY <1>2, LeastElement
<1>4. ASSUME NEW k \in 1 .. x - 1 PROVE b[k] # Nul
  <2>1. k \in DOMAIN b /\ ~(x <= k)
    BY <1>1, <1>3
  <2> QED
    BY <1>3, <2>1
<1>5. \E i \in DOMAIN b : b[i] = Nul /\ \A k \in 1 .. i - 1 : b[k] # Nul
  BY <1>3, <1>4
<1>6. /\ FirstNul(b) \in DOMAIN b /\ b[FirstNul(b)] = Nul
      /\ \A k \in 1 .. FirstNul(b) - 1 : b[k] # Nul
  BY <1>5, Zenon DEF FirstNul
<1> QED
  BY <1>1, <1>6

(* There is only one such position.                                        *)
LEMMA OneFirstNul ==
  ASSUME NEW b \in Seq(Byte), NEW i \in 1 .. Len(b), b[i] = Nul,
         \A k \in 1 .. i - 1 : b[k] # Nul
  PROVE  Terminated(b) /\ FirstNul(b) = i
<1>1. DOMAIN b = 1 .. Len(b) /\ Len(b) \in Nat
  BY LenProperties
<1>2. Terminated(b)
  BY <1>1 DEF Terminated
<1> DEFINE n == FirstNul(b)
<1>3. n \in 1 .. Len(b) /\ b[n] = Nul /\ \A k \in 1 .. n - 1 : b[k] # Nul
  BY <1>2, LeastNul
<1> HIDE DEF n
<1>4. ~(n < i)
  BY <1>1, <1>3
<1>5. ~(i < n)
  BY <1>1, <1>3
<1>6. n = i
  BY <1>1, <1>3, <1>4, <1>5
<1> QED
  BY <1>2, <1>6 DEF n

(* A copy that is terminated is read back whole if it had no Nul, and up   *)
(* to its first Nul otherwise.                                             *)
LEMMA ReadBack ==
  ASSUME NEW s \in Seq(Byte), ~Terminated(s)
  PROVE  CString(Append(s, Nul)) = {s}
<1> DEFINE b == Append(s, Nul)
<1>1. /\ b \in Seq(Byte) /\ Len(b) = Len(s) + 1 /\ b[Len(s) + 1] = Nul
      /\ \A k \in 1 .. Len(s) : b[k] = s[k]
  BY AppendProperties DEF Byte
<1>2. Len(s) \in Nat /\ DOMAIN s = 1 .. Len(s) /\ s \in [1 .. Len(s) -> Byte]
  BY LenProperties
<1>3. Terminated(b) /\ FirstNul(b) = Len(s) + 1
  <2> HIDE DEF b
  <2>1. Len(s) + 1 \in 1 .. Len(b)
    BY <1>1, <1>2
  <2>2. \A k \in 1 .. (Len(s) + 1) - 1 : b[k] # Nul
    BY <1>1, <1>2 DEF Terminated
  <2> QED
    BY <1>1, <2>1, <2>2, OneFirstNul
<1>4. CString(b) = {SubSeq(b, 1, Len(s))}
  <2>1. FirstNul(b) - 1 = Len(s)
    BY <1>2, <1>3
  <2> QED
    BY <1>3, <2>1 DEF CString
<1>5. SubSeq(b, 1, Len(s)) = s
  <2> HIDE DEF b
  <2> DEFINE u == SubSeq(b, 1, Len(s))
  <2>1. \A k \in 1 .. Len(s) : b[k] \in Byte
    BY <1>1, <1>2
  <2>2. /\ u \in Seq(Byte)
        /\ Len(u) = IF 1 <= Len(s) THEN Len(s) - 1 + 1 ELSE 0
        /\ \A k \in 1 .. Len(s) - 1 + 1 : u[k] = b[1 + k - 1]
    BY <1>2, <2>1, SubSeqProperties
  <2> HIDE DEF u
  <2>3. Len(u) = Len(s) /\ \A k \in 1 .. Len(u) : u[k] = s[k]
    BY <1>1, <1>2, <2>2
  <2>4. u = s
    BY <2>2, <2>3, SeqEqual
  <2> QED
    BY <2>4 DEF u
<1> QED
  BY <1>4, <1>5

(* The part of a terminated buffer before its first Nul.                   *)
Prefix(s) == SubSeq(s, 1, FirstNul(s) - 1)

(* What is read before the first Nul has no Nul, and the expected length.  *)
LEMMA PrefixFacts ==
  ASSUME NEW s \in Seq(Byte), Terminated(s)
  PROVE  /\ Prefix(s) \in Seq(Byte)
         /\ Len(Prefix(s)) = FirstNul(s) - 1
         /\ ~Terminated(Prefix(s))
         /\ \A k \in 1 .. FirstNul(s) - 1 : Prefix(s)[k] = s[k]
<1> DEFINE n == FirstNul(s)
           u == SubSeq(s, 1, n - 1)
<1>1. n \in 1 .. Len(s) /\ \A k \in 1 .. n - 1 : s[k] # Nul
  BY LeastNul
<1>2. Len(s) \in Nat /\ s \in [1 .. Len(s) -> Byte]
  BY LenProperties
<1> HIDE DEF n
<1>3. n - 1 \in Int /\ n - 1 >= 0 /\ \A k \in 1 .. n - 1 : s[k] \in Byte
  BY <1>1, <1>2
<1>4. /\ u \in Seq(Byte)
      /\ Len(u) = IF 1 <= n - 1 THEN (n - 1) - 1 + 1 ELSE 0
      /\ \A k \in 1 .. (n - 1) - 1 + 1 : u[k] = s[1 + k - 1]
  BY <1>3, SubSeqProperties
<1> HIDE DEF u
<1>5. Len(u) = n - 1 /\ \A k \in 1 .. n - 1 : u[k] = s[k]
  BY <1>1, <1>2, <1>3, <1>4
<1>6. DOMAIN u = 1 .. n - 1
  BY <1>4, <1>5, LenProperties
<1>7. ~Terminated(u)
  BY <1>1, <1>5, <1>6 DEF Terminated
<1> QED
  BY <1>4, <1>5, <1>7 DEF Prefix, u, n

(* Cutting at the first Nul: the Nul that post() appends changes nothing   *)
(* for a string that has one already.                                      *)
LEMMA CutAtNul ==
  ASSUME NEW s \in Seq(Byte), Terminated(s)
  PROVE  CString(Append(s, Nul)) = {Prefix(s)}
<1> DEFINE b == Append(s, Nul)
           n == FirstNul(s)
           u == SubSeq(b, 1, n - 1)
<1>1. /\ b \in Seq(Byte) /\ Len(b) = Len(s) + 1
      /\ \A k \in 1 .. Len(s) : b[k] = s[k]
  BY AppendProperties DEF Byte
<1>2. Len(s) \in Nat /\ s \in [1 .. Len(s) -> Byte]
  BY LenProperties
<1>3. n \in 1 .. Len(s) /\ s[n] = Nul /\ \A k \in 1 .. n - 1 : s[k] # Nul
  BY LeastNul
<1>4. Terminated(b) /\ FirstNul(b) = n
  <2> HIDE DEF b, n
  <2>1. n \in 1 .. Len(b) /\ b[n] = Nul /\ \A k \in 1 .. n - 1 : b[k] # Nul
    BY <1>1, <1>2, <1>3
  <2> QED
    BY <1>1, <2>1, OneFirstNul
<1>5. CString(b) = {u}
  BY <1>4 DEF CString
<1>6. u = Prefix(s)
  <2>1. /\ Prefix(s) \in Seq(Byte) /\ Len(Prefix(s)) = n - 1
        /\ \A k \in 1 .. n - 1 : Prefix(s)[k] = s[k]
    BY PrefixFacts
  <2> HIDE DEF b, n
  <2>2. \A k \in 1 .. n - 1 : b[k] \in Byte
    BY <1>1, <1>2, <1>3
  <2>3. n - 1 \in Int /\ n - 1 >= 0
    BY <1>2, <1>3
  <2>4. /\ u \in Seq(Byte)
        /\ Len(u) = IF 1 <= n - 1 THEN (n - 1) - 1 + 1 ELSE 0
        /\ \A k \in 1 .. (n - 1) - 1 + 1 : u[k] = b[1 + k - 1]
    BY <2>2, <2>3, SubSeqProperties
  <2> HIDE DEF u
  <2>5. Len(u) = n - 1 /\ \A k \in 1 .. n - 1 : u[k] = s[k]
    BY <1>1, <1>2, <1>3, <2>3, <2>4
  <2> QED
    BY <2>1, <2>4, <2>5, SeqEqual
<1> QED
  BY <1>5, <1>6

(* Decoding as UTF-8 keeps the length and every Nul, and keeps text.       *)
LEMMA Utf8Facts ==
  ASSUME NEW s \in Seq(Byte)
  PROVE  /\ Utf8(s) \in Seq(Byte) /\ Len(Utf8(s)) = Len(s)
         /\ \A i \in 1 .. Len(s) : Utf8(s)[i] = Nul <=> s[i] = Nul
         /\ ~Has(s, Bad) => Utf8(s) = s
<1> DEFINE u == Utf8(s)
<1>1. /\ Len(s) \in Nat /\ DOMAIN s = 1 .. Len(s)
      /\ s \in [1 .. Len(s) -> Byte]
  BY LenProperties
<1>2. \A i \in 1 .. Len(s) : u[i] = IF s[i] = Bad THEN Subst ELSE s[i]
  BY <1>1 DEF Utf8
<1>3. u \in [1 .. Len(s) -> Byte]
  BY <1>1 DEF Utf8, Byte
<1> HIDE DEF u
<1>4. u \in Seq(Byte)
  BY <1>1, <1>3, SeqDef
<1>5. Len(u) = Len(s)
  <2>1. DOMAIN u = 1 .. Len(u) /\ DOMAIN u = 1 .. Len(s) /\ Len(u) \in Nat
    BY <1>3, <1>4, LenProperties
  <2>2. ~(Len(u) < Len(s)) /\ ~(Len(s) < Len(u))
    <3>1. \A i \in Nat : i \in 1 .. Len(u) <=> i \in 1 .. Len(s)
      BY <2>1
    <3>2. Len(u) \in 1 .. Len(u) <=> Len(u) \in 1 .. Len(s)
      BY <2>1, <3>1
    <3>3. Len(s) \in 1 .. Len(u) <=> Len(s) \in 1 .. Len(s)
      BY <1>1, <3>1
    <3> QED
      BY <1>1, <2>1, <3>2, <3>3
  <2>3. Len(u) \in Nat /\ Len(s) \in Nat
    BY <1>1, <2>1
  <2> QED
    BY <2>2, <2>3
<1>6. \A i \in 1 .. Len(s) : u[i] = Nul <=> s[i] = Nul
  BY <1>2 DEF Nul, Bad, Subst
<1>7. ASSUME ~Has(s, Bad) PROVE u = s
  <2>1. \A i \in 1 .. Len(u) : u[i] = s[i]
    BY <1>1, <1>2, <1>5, <1>7 DEF Has
  <2> QED
    BY <1>4, <1>5, <2>1, SeqEqual
<1> QED
  BY <1>4, <1>5, <1>6, <1>7 DEF u

(* So the first Nul is where it was.                                       *)
LEMMA Utf8Nul ==
  ASSUME NEW s \in Seq(Byte)
  PROVE  /\ Terminated(Utf8(s)) <=> Terminated(s)
         /\ Terminated(s) => FirstNul(Utf8(s)) = FirstNul(s)
<1> DEFINE u == Utf8(s)
<1>1. /\ u \in Seq(Byte) /\ Len(u) = Len(s)
      /\ \A i \in 1 .. Len(s) : u[i] = Nul <=> s[i] = Nul
  BY Utf8Facts
<1> HIDE DEF u
<1>2. Len(s) \in Nat /\ DOMAIN s = 1 .. Len(s) /\ DOMAIN u = 1 .. Len(s)
  BY <1>1, LenProperties
<1>3. Terminated(u) <=> Terminated(s)
  BY <1>1, <1>2 DEF Terminated
<1>4. ASSUME Terminated(s) PROVE FirstNul(u) = FirstNul(s)
  <2> DEFINE n == FirstNul(s)
  <2>1. n \in 1 .. Len(s) /\ s[n] = Nul /\ \A k \in 1 .. n - 1 : s[k] # Nul
    BY <1>4, LeastNul
  <2> HIDE DEF n
  <2>2. n \in 1 .. Len(u) /\ u[n] = Nul /\ \A k \in 1 .. n - 1 : u[k] # Nul
    BY <1>1, <1>2, <2>1
  <2>3. FirstNul(u) = n
    BY <1>1, <2>2, OneFirstNul
  <2> QED
    BY <2>3 DEF n
<1> QED
  BY <1>3, <1>4 DEF u

(* Decoding and cutting commute.                                           *)
LEMMA Utf8Prefix ==
  ASSUME NEW s \in Seq(Byte), Terminated(s)
  PROVE  Prefix(Utf8(s)) = Utf8(Prefix(s))
<1> DEFINE n == FirstNul(s)
           u == Prefix(Utf8(s))
           v == Utf8(Prefix(s))
<1>1. /\ Utf8(s) \in Seq(Byte) /\ Terminated(Utf8(s)) /\ FirstNul(Utf8(s)) = n
  BY Utf8Facts, Utf8Nul
<1>2. /\ u \in Seq(Byte) /\ Len(u) = n - 1
      /\ \A k \in 1 .. n - 1 : u[k] = Utf8(s)[k]
  BY <1>1, PrefixFacts
<1>3. /\ Prefix(s) \in Seq(Byte) /\ Len(Prefix(s)) = n - 1
      /\ \A k \in 1 .. n - 1 : Prefix(s)[k] = s[k]
  BY PrefixFacts
<1>4. v \in Seq(Byte) /\ Len(v) = n - 1
  BY <1>3, Utf8Facts
<1>5. /\ n \in 1 .. Len(s) /\ Len(s) \in Nat /\ DOMAIN s = 1 .. Len(s)
      /\ DOMAIN Prefix(s) = 1 .. n - 1
  BY <1>3, LeastNul, LenProperties
<1>6. \A k \in 1 .. n - 1 : v[k] = Utf8(s)[k]
  <2> HIDE DEF n
  <2>1. \A k \in 1 .. n - 1 : k \in DOMAIN s
    BY <1>5
  <2> QED
    BY <1>3, <1>5, <2>1 DEF Utf8
<1> HIDE DEF u, v, n
<1>7. \A k \in 1 .. Len(u) : u[k] = v[k]
  BY <1>2, <1>6
<1>8. u = v
  BY <1>2, <1>4, <1>7, SeqEqual
<1> QED
  BY <1>8 DEF u, v

-----------------------------------------------------------------------------
(* The inductive invariant: what each stage has made of the one before.    *)

(* The buffer that post() made.                                            *)
Posted ==
  IF req = None THEN buf = None /\ len = 0
                ELSE buf = Append(req, Nul) /\ len = Len(req)

(* The value that get_req of the Node.js binding returned.                 *)
Decoded == who = "node" /\ js = IF req = None THEN None ELSE Utf8(req)

(* The response of each runtime.                                           *)
Responded ==
  \/ /\ who \in {"go", "java"} /\ rc = 0
     /\ rsp = (IF req = None THEN <<>> ELSE req) /\ rspLen = len
  \/ /\ who \in {"python", "rust"} /\ rc = 0 /\ req # None
     /\ rspLen = 0 /\ \E s \in CString(Append(req, Nul)) : rsp = Append(s, Nul)
  \/ /\ who = "node" /\ rc = 0 /\ rspLen = 0
     /\ IF req = None THEN rsp \in {None, <<Nul>>}
                      ELSE rsp = Append(Utf8(req), Nul)
  \/ /\ who = "any" /\ rc \in {0, 7} /\ sent \in Str \cup {None}
     /\ \/ sent = None /\ rsp = None
        \/ sent \notin {None, <<>>} /\ rsp = sent /\ rspLen = Len(sent)
        \/ /\ sent # None /\ ~Terminated(sent)
           /\ rsp = Append(sent, Nul) /\ rspLen = 0

(* What the event handler makes of the response.                           *)
Results(v) == IF rc # 0 THEN <<FALSE, rc, v>> ELSE <<TRUE, v, None>>

Pushed == \E v \in Value : out = Results(v)

MarshalInv ==
  /\ stage \in {"lua", "posted", "js", "responded", "done"}
  /\ req \in Str \cup {None}
  /\ stage # "lua" => Posted
  /\ stage = "js" => Decoded
  /\ stage \in {"responded", "done"} => Responded
  /\ stage = "done" => Pushed

(* The first Len(req) bytes of the posted buffer are the request.          *)
LEMMA RequestInBuffer ==
  ASSUME NEW s \in Str
  PROVE  SubSeq(Append(s, Nul), 1, Len(s)) = s
<1> DEFINE b == Append(s, Nul)
           u == SubSeq(b, 1, Len(s))
<1>1. s \in Seq(Byte)
  BY StrBytes
<1>2. /\ b \in Seq(Byte) /\ Len(b) = Len(s) + 1
      /\ \A k \in 1 .. Len(s) : b[k] = s[k]
  BY <1>1, AppendProperties DEF Byte
<1>3. Len(s) \in Nat /\ s \in [1 .. Len(s) -> Byte]
  BY <1>1, LenProperties
<1> HIDE DEF b
<1>4. \A k \in 1 .. Len(s) : b[k] \in Byte
  BY <1>2, <1>3
<1>5. /\ u \in Seq(Byte)
      /\ Len(u) = IF 1 <= Len(s) THEN Len(s) - 1 + 1 ELSE 0
      /\ \A k \in 1 .. Len(s) - 1 + 1 : u[k] = b[1 + k - 1]
  BY <1>3, <1>4, SubSeqProperties
<1> HIDE DEF u
<1>6. Len(u) = Len(s) /\ \A k \in 1 .. Len(u) : u[k] = s[k]
  BY <1>2, <1>3, <1>5
<1>7. u = s
  BY <1>1, <1>5, <1>6, SeqEqual
<1> QED
  BY <1>7 DEF u, b

(* Three values, one after the other, with nothing pushed in one place.    *)
Piled(a, b, c, p) ==
  \/ p = <<a>> \o <<>> \o <<b>> \o <<c>>
  \/ p = <<a>> \o <<b>> \o <<c>> \o <<>>

(* The three values on top of what is pushed on a frame.                   *)
Top(f, p) == [i \in 1 .. 3 |-> (<<f>> \o p)[Len(<<f>> \o p) - 3 + i]]

(* The pushes are the three values.                                        *)
LEMMA ThreeMore ==
  ASSUME NEW a, NEW b, NEW c, NEW p, Piled(a, b, c, p)
  PROVE  p \in Seq({a, b, c}) /\ Len(p) = 3 /\ p[1] = a /\ p[2] = b /\ p[3] = c
<1> DEFINE S == {a, b, c}
           x == <<a>>
           y == x \o <<b>>
           z == y \o <<c>>
<1>1. x \in Seq(S) /\ Len(x) = 1 /\ x[1] = a /\ b \in S /\ c \in S
  OBVIOUS
<1> HIDE DEF x, S
<1>2. /\ y \in Seq(S) /\ Len(y) = Len(x) + 1 /\ y[Len(x) + 1] = b
      /\ \A i \in 1 .. Len(x) : y[i] = x[i]
  <2>1. y = Append(x, b)
    BY <1>1, AppendIsConcat
  <2> HIDE DEF y
  <2>2. x \in Seq(S) /\ b \in S
    BY <1>1
  <2> QED
    BY <2>1, <2>2, AppendProperties
<1> HIDE DEF y
<1>3. Len(y) = 2 /\ y[1] = a /\ y[2] = b
  BY <1>1, <1>2
<1>4. /\ z \in Seq(S) /\ Len(z) = Len(y) + 1 /\ z[Len(y) + 1] = c
      /\ \A i \in 1 .. Len(y) : z[i] = y[i]
  <2>1. z = Append(y, c)
    BY <1>1, <1>2, AppendIsConcat
  <2> HIDE DEF z
  <2>2. y \in Seq(S) /\ c \in S
    BY <1>1, <1>2
  <2> QED
    BY <2>1, <2>2, AppendProperties
<1> HIDE DEF z
<1>5. Len(z) = 3 /\ z[1] = a /\ z[2] = b /\ z[3] = c
  BY <1>3, <1>4
<1>6. x \o <<>> = x /\ z \o <<>> = z
  BY <1>1, <1>4, ConcatEmptySeq
<1>7. p = z
  BY <1>6 DEF Piled, x, y, z
<1> QED
  BY <1>4, <1>5, <1>7 DEF S

(* The three values on top of four.                                        *)
LEMMA TopThree ==
  ASSUME NEW S, NEW p \in Seq(S), Len(p) = 3, NEW f \in S
  PROVE  Top(f, p) = <<p[1], p[2], p[3]>>
<1> DEFINE l == <<f>>
           s == l \o p
           t == [i \in 1 .. 3 |-> s[Len(s) - 3 + i]]
<1>1. l \in Seq(S) /\ Len(l) = 1
  OBVIOUS
<1> HIDE DEF l
<1>2. /\ Len(s) = Len(l) + Len(p)
      /\ \A i \in 1 .. Len(l) + Len(p) :
           s[i] = IF i <= Len(l) THEN l[i] ELSE p[i - Len(l)]
  BY <1>1, ConcatProperties
<1> HIDE DEF s
<1>3. Len(s) = 4 /\ \A i \in 1 .. 4 : s[i] = IF i <= 1 THEN l[i] ELSE p[i - 1]
  BY <1>1, <1>2
<1>4. s[2] = p[1] /\ s[3] = p[2] /\ s[4] = p[3]
  BY <1>3
<1>5. t = [i \in 1 .. 3 |-> s[1 + i]]
  BY <1>3
<1>6. t = <<p[1], p[2], p[3]>>
  BY <1>4, <1>5
<1> QED
  BY <1>6 DEF Top, s, l

(* So the three are what is taken from the top.                            *)
LEMMA ThreeTaken ==
  ASSUME NEW a, NEW b, NEW c, NEW p, NEW f, Piled(a, b, c, p)
  PROVE  Top(f, p) = <<a, b, c>>
<1>1. p \in Seq({a, b, c}) /\ Len(p) = 3 /\ p[1] = a /\ p[2] = b /\ p[3] = c
  BY ThreeMore
<1> DEFINE R == {a, b, c}
           S == R \cup {f}
<1>2. p \in Seq(R) /\ R \subseteq S /\ f \in S
  BY <1>1
<1> HIDE DEF R, S
<1>3. p \in Seq(S)
  BY <1>2, SeqMonotonic
<1>4. Top(f, p) = <<p[1], p[2], p[3]>>
  BY <1>1, <1>2, <1>3, TopThree
<1> QED
  BY <1>1, <1>4

(* The coroutine is resumed with what was pushed, all of it and nothing    *)
(* else: on each of the paths the pushes are as many as are taken.         *)
LEMMA AllTaken ==
  ASSUME NEW v, Resume(<<Frame>> \o Pushes(v))
  PROVE  out' = Results(v)
<1>1. out' = Top(Frame, Pushes(v))
  BY DEF Resume, NArgs, Top
<1>2. CASE rc = 0
  <2>1. Piled(TRUE, v, None, Pushes(v))
    BY <1>2 DEF Pushes, Piled
  <2> QED
    BY <1>1, <1>2, <2>1, ThreeTaken DEF Results
<1>3. CASE rc # 0
  <2>1. Piled(FALSE, rc, v, Pushes(v))
    BY <1>3 DEF Pushes, Piled
  <2> QED
    BY <1>1, <1>3, <2>1, ThreeTaken DEF Results
<1> QED
  BY <1>2, <1>3

(* The invariant holds initially.                                          *)
LEMMA InitMarshal == Init => MarshalInv
BY DEF Init, MarshalInv

(* Every step keeps the invariant.                                         *)
LEMMA MarshalStep == MarshalInv /\ [Next]_vars => MarshalInv'
<1> SUFFICES ASSUME MarshalInv, [Next]_vars
             PROVE  MarshalInv'
  OBVIOUS
<1>1. CASE Post
  BY <1>1 DEF MarshalInv, Post, Posted
<1>2. CASE CopyEcho
  <2>1. /\ stage = "posted" /\ who \in {"go", "java"} /\ stage' = "responded"
        /\ rc' = 0 /\ rspLen' = len
        /\ rsp' = IF buf = None THEN <<>> ELSE SubSeq(buf, 1, len)
        /\ UNCHANGED <<who, req, buf, len>>
    BY <1>2 DEF CopyEcho, Respond
  <2>2. Posted /\ Posted'
    BY <2>1 DEF MarshalInv, Posted
  <2>3. rsp' = IF req = None THEN <<>> ELSE req
    <3>1. CASE req = None
      BY <2>1, <2>2, <3>1 DEF Posted
    <3>2. CASE req # None
      <4>1. req \in Str /\ buf = Append(req, Nul) /\ len = Len(req)
        BY <2>2, <3>2 DEF MarshalInv, Posted
      <4>2. buf # None
        BY <4>1, StrBytes, AppendProperties, NoneAssumption DEF Byte
      <4> QED
        BY <2>1, <3>2, <4>1, <4>2, RequestInBuffer
    <3> QED
      BY <3>1, <3>2
  <2>4. Responded'
    BY <2>1, <2>3 DEF Responded
  <2> QED
    BY <2>1, <2>2, <2>4 DEF MarshalInv
<1>3. CASE StrdupEcho
  <2>1. /\ stage = "posted" /\ who \in {"python", "rust"} /\ buf # None
        /\ stage' = "responded" /\ rc' = 0 /\ rspLen' = 0
        /\ \E s \in CString(buf) : rsp' = Append(s, Nul)
        /\ UNCHANGED <<who, req, buf, len>>
    BY <1>3 DEF StrdupEcho, Respond
  <2>2. Posted /\ Posted'
    BY <2>1 DEF MarshalInv, Posted
  <2>3. req # None /\ buf = Append(req, Nul)
    BY <2>1, <2>2 DEF Posted
  <2>4. Responded'
    BY <2>1, <2>3 DEF Responded
  <2> QED
    BY <2>1, <2>2, <2>4 DEF MarshalInv
<1>4. CASE NodeGetReq
  <2>1. /\ stage = "posted" /\ who = "node" /\ stage' = "js"
        /\ js' = IF buf = None THEN None ELSE Utf8(SubSeq(buf, 1, len))
        /\ UNCHANGED <<who, req, buf, len>>
    BY <1>4 DEF NodeGetReq
  <2>2. Posted /\ Posted'
    BY <2>1 DEF MarshalInv, Posted
  <2>3. Decoded'
    <3>1. CASE req = None
      BY <2>1, <2>2, <3>1 DEF Posted, Decoded
    <3>2. CASE req # None
      <4>1. req \in Str /\ buf = Append(req, Nul) /\ len = Len(req)
        BY <2>2, <3>2 DEF MarshalInv, Posted
      <4>2. buf # None
        BY <4>1, StrBytes, AppendProperties, NoneAssumption DEF Byte
      <4> QED
        BY <2>1, <3>2, <4>1, <4>2, RequestInBuffer DEF Decoded
    <3> QED
      BY <3>1, <3>2
  <2> QED
    BY <2>1, <2>2, <2>3 DEF MarshalInv
<1>5. CASE NodeRespond
  <2>1. /\ stage = "js" /\ stage' = "responded" /\ rc' = 0 /\ rspLen' = 0
        /\ IF js = None THEN rsp' \in {None, <<Nul>>} ELSE rsp' = Append(js, Nul)
        /\ UNCHANGED <<who, req, buf, len>>
    BY <1>5 DEF NodeRespond, Respond
  <2>2. Posted' /\ Decoded
    BY <2>1 DEF MarshalInv, Posted
  <2>3. req # None => Utf8(req) # None
    BY StrBytes, Utf8Facts, NoneAssumption DEF MarshalInv
  <2>4. Responded'
    BY <2>1, <2>2, <2>3 DEF Responded, Decoded
  <2> QED
    BY <2>1, <2>2, <2>4 DEF MarshalInv
<1>6. CASE AnyRespond
  <2>1. PICK c \in {0, 7}, s \in Str \cup {None} :
          /\ sent' = s
          /\ \/ s = None /\ Respond(c, None, 0)
             \/ s \notin {None, <<>>} /\ Respond(c, s, Len(s))
             \/ s # None /\ ~Terminated(s) /\ Respond(c, Append(s, Nul), 0)
    BY <1>6 DEF AnyRespond
  <2>2. /\ stage = "posted" /\ who = "any" /\ stage' = "responded" /\ rc' = c
        /\ UNCHANGED <<who, req, buf, len>>
    BY <1>6, <2>1 DEF AnyRespond, Respond
  <2>3. Posted'
    BY <2>2 DEF MarshalInv, Posted
  <2>4. Responded'
    BY <2>1, <2>2 DEF Responded, Respond, Terminated
  <2> QED
    BY <2>2, <2>3, <2>4 DEF MarshalInv
<1>7. CASE EventHandler
  <2>1. /\ stage = "responded" /\ stage' = "done"
        /\ \E v \in Value : Resume(<<Frame>> \o Pushes(v))
        /\ UNCHANGED <<who, req, buf, len, js, rc, rsp, rspLen, sent>>
    BY <1>7 DEF EventHandler
  <2>2. Posted' /\ Responded'
    BY <2>1 DEF MarshalInv, Posted, Responded
  <2>3. Value' = Value
    BY <2>1 DEF Value
  <2>4. Pushed'
    <3>1. PICK v \in Value : Resume(<<Frame>> \o Pushes(v))
      BY <2>1
    <3>2. out' = Results(v)
      BY <3>1, AllTaken
    <3>3. Results(v)' = Results(v)
      BY <2>1 DEF Results
    <3> QED
      BY <2>3, <3>2, <3>3 DEF Pushed
  <2> QED
    BY <2>1, <2>2, <2>4 DEF MarshalInv
<1>8. CASE UNCHANGED vars
  BY <1>8 DEF MarshalInv, vars, Posted, Decoded, Responded, Pushed, Results, Value
<1> QED
  BY <1>1, <1>2, <1>3, <1>4, <1>5, <1>6, <1>7, <1>8 DEF Next

(* The inductive invariant holds.                                          *)
THEOREM MarshalInvariant == Spec => []MarshalInv
BY InitMarshal, MarshalStep, PTL DEF Spec

-----------------------------------------------------------------------------
(* The properties.                                                         *)

(* In the end Data is one of the values the event handler may have made.   *)
LEMMA DataPushed ==
  ASSUME MarshalInv, stage = "done"
  PROVE  Data \in Value /\ out = Results(Data)
<1>1. PICK v \in Value : out = Results(v)
  BY DEF MarshalInv, Pushed
<1>2. CASE rc = 0
  <2>1. out = <<TRUE, v, None>>
    BY <1>1, <1>2 DEF Results
  <2>2. out[2] = v
    BY <2>1
  <2> QED
    BY <1>1, <1>2, <2>2 DEF Data
<1>3. CASE rc # 0
  <2>1. out = <<FALSE, rc, v>>
    BY <1>1, <1>3 DEF Results
  <2>2. out[3] = v
    BY <2>1
  <2> QED
    BY <1>1, <1>3, <2>2 DEF Data
<1> QED
  BY <1>2, <1>3

(* What a runtime sends by the README's rules is what Lua gets, as the     *)
(* results of the call and with nothing else among them.                   *)
THEOREM DataIsDelivered == Spec => []DataDelivered
<1>1. ASSUME MarshalInv, stage = "done", who = "any"
      PROVE  Data = sent
  <2>1. Data \in Value
    BY <1>1, DataPushed
  <2>2. /\ sent \in Str \cup {None}
        /\ \/ sent = None /\ rsp = None
           \/ sent \notin {None, <<>>} /\ rsp = sent /\ rspLen = Len(sent)
           \/ /\ sent # None /\ ~Terminated(sent)
              /\ rsp = Append(sent, Nul) /\ rspLen = 0
    BY <1>1 DEF MarshalInv, Responded
  <2>3. CASE sent = None /\ rsp = None
    BY <2>1, <2>3 DEF Value
  <2>4. CASE sent \notin {None, <<>>} /\ rsp = sent /\ rspLen = Len(sent)
    <3>1. sent \in Seq(Byte)
      BY <2>2, <2>4, StrBytes
    <3>2. Len(sent) # 0
      BY <2>4, <3>1, EmptySeq
    <3>3. SubSeq(sent, 1, Len(sent)) = sent
      BY <3>1, SubSeqFull
    <3> QED
      BY <2>1, <2>4, <3>2, <3>3 DEF Value
  <2>5. CASE /\ sent # None /\ ~Terminated(sent)
             /\ rsp = Append(sent, Nul) /\ rspLen = 0
    <3>1. sent \in Seq(Byte)
      BY <2>2, <2>5, StrBytes
    <3>2. rsp # None
      BY <2>5, <3>1, AppendProperties, NoneAssumption DEF Byte
    <3>3. Value = {sent}
      BY <2>5, <3>1, <3>2, ReadBack DEF Value
    <3> QED
      BY <2>1, <3>3
  <2> QED
    BY <2>1, <2>2, <2>3, <2>4, <2>5
<1>2. MarshalInv => DataDelivered
  <2> SUFFICES ASSUME MarshalInv, stage = "done", who = "any"
               PROVE  out = IF rc = 0 THEN <<TRUE, sent, None>> ELSE <<FALSE, rc, sent>>
    BY DEF DataDelivered
  <2>1. out = Results(sent)
    BY <1>1, DataPushed
  <2> QED
    BY <2>1 DEF Results
<1> QED
  BY <1>2, MarshalInvariant, PTL

(* A response that is one of the C strings in a terminated copy of s is    *)
(* read as s if s has no Nul, and as its prefix otherwise.                 *)
LEMMA CopiedString ==
  ASSUME NEW s \in Seq(Byte), rspLen = 0, rsp = Append(s, Nul)
  PROVE  Value = IF Terminated(s) THEN {Prefix(s)} ELSE {s}
<1>1. rsp # None
  BY AppendProperties, NoneAssumption DEF Byte
<1> QED
  BY <1>1, ReadBack, CutAtNul DEF Value

(* Go and Java give back what they were sent unless it is empty; Python,   *)
(* Rust and Node.js cut it at the first Nul, wherever that is.             *)
THEOREM EchoIsExact == Spec => []EchoExact
<1>1. ASSUME MarshalInv, stage = "done", who # "any", req # None
      PROVE  /\ who \in {"go", "java"} /\ req # <<>> => Data = req
             /\ who \in {"python", "rust"} => Data = Cut(req)
             /\ who = "node" => Data = Utf8(Cut(req))
  <2>1. Data \in Value
    BY <1>1, DataPushed
  <2>2. req \in Seq(Byte) /\ Posted
    BY <1>1, StrBytes DEF MarshalInv
  <2>3. Cut(req) = IF Terminated(req) THEN Prefix(req) ELSE req
    BY DEF Cut, Has, Terminated, Prefix
  <2>4. CASE who \in {"go", "java"}
    <3>1. rsp = req /\ rspLen = Len(req)
      BY <1>1, <2>2, <2>4 DEF MarshalInv, Responded, Posted
    <3>2. req # <<>> => Len(req) # 0
      BY <2>2, EmptySeq
    <3>3. SubSeq(req, 1, Len(req)) = req
      BY <2>2, SubSeqFull
    <3>4. req # <<>> => Value = {req}
      BY <1>1, <3>1, <3>2, <3>3 DEF Value
    <3> QED
      BY <2>1, <2>4, <3>4
  <2>5. CASE who \in {"python", "rust"}
    <3>1. PICK s \in CString(Append(req, Nul)) : rspLen = 0 /\ rsp = Append(s, Nul)
      BY <1>1, <2>5 DEF MarshalInv, Responded
    <3>2. CASE Terminated(req)
      <4>1. s = Prefix(req)
        BY <2>2, <3>1, <3>2, CutAtNul
      <4>2. s \in Seq(Byte) /\ ~Terminated(s)
        BY <2>2, <3>2, <4>1, PrefixFacts
      <4>3. Value = {s}
        BY <3>1, <4>2, CopiedString
      <4> QED
        BY <2>1, <2>3, <2>5, <3>2, <4>1, <4>3
    <3>3. CASE ~Terminated(req)
      <4>1. s = req
        BY <2>2, <3>1, <3>3, ReadBack
      <4>2. Value = {req}
        BY <2>2, <3>1, <3>3, <4>1, CopiedString
      <4> QED
        BY <2>1, <2>3, <2>5, <3>3, <4>2
    <3> QED
      BY <3>2, <3>3
  <2>6. CASE who = "node"
    <3> DEFINE u == Utf8(req)
    <3>1. rspLen = 0 /\ rsp = Append(u, Nul)
      BY <1>1, <2>6 DEF MarshalInv, Responded
    <3>2. u \in Seq(Byte) /\ (Terminated(u) <=> Terminated(req))
      BY <2>2, Utf8Facts, Utf8Nul
    <3>3. Value = IF Terminated(u) THEN {Prefix(u)} ELSE {u}
      BY <3>1, <3>2, CopiedString
    <3>4. Terminated(req) => Prefix(u) = Utf8(Prefix(req))
      BY <2>2, Utf8Prefix
    <3> QED
      BY <2>1, <2>3, <2>6, <3>2, <3>3, <3>4
  <2>7. who \in {"go", "java", "python", "rust", "node"}
    BY <1>1 DEF MarshalInv, Responded
  <2> QED
    BY <2>4, <2>5, <2>6, <2>7
<1>2. MarshalInv => EchoExact
  BY <1>1 DEF EchoExact
<1> QED
  BY <1>2, MarshalInvariant, PTL

(* Text that is not empty and has no Nul in it.                            *)
PlainText(s) == s # <<>> /\ ~Has(s, Nul) /\ ~Has(s, Bad)

(* What the five echo runtimes agree on: such a string comes back as it    *)
(* was sent, whichever of them is asked.                                   *)
TextKept ==
  stage = "done" /\ who # "any" /\ req # None /\ PlainText(req) => Data = req

(* Plain text survives every echo runtime of the repository.               *)
THEOREM TextIsKept == Spec => []TextKept
<1>1. ASSUME MarshalInv, EchoExact, stage = "done", who # "any", req # None,
             PlainText(req)
      PROVE  Data = req
  <2>1. req \in Seq(Byte)
    BY <1>1, StrBytes DEF MarshalInv
  <2>2. Cut(req) = req /\ Utf8(req) = req
    BY <1>1, <2>1, Utf8Facts DEF PlainText, Cut
  <2>3. who \in {"go", "java", "python", "rust", "node"}
    BY <1>1 DEF MarshalInv, Responded
  <2> QED
    BY <1>1, <2>2, <2>3 DEF EchoExact, PlainText
<1>2. MarshalInv /\ EchoExact => TextKept
  BY <1>1 DEF TextKept
<1> QED
  BY <1>2, MarshalInvariant, EchoIsExact, PTL

=============================================================================
