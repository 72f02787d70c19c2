---------------------------- MODULE RouterFaceProofs ----------------------------
(***************************************************************************)
(* The router process gives account of every message and every order, for  *)
(* any back-ends, any number of messages and orders, and any of the errors *)
(* its threads may meet (RouterFace).                                      *)
(*                                                                         *)
(* The inductive invariant FInv states where things are by the sets of the *)
(* sequences' elements; the lemmas before it say what appending to, taking *)
(* from and joining sequences does to those sets.                          *)
(***************************************************************************)
EXTENDS RouterFace, SequenceTheorems, TLAPS

-----------------------------------------------------------------------------
(* The elements of a sequence                                              *)

(* The elements of a sequence, and its head.                               *)
LEMMA ToSetIn ==
  ASSUME NEW S, NEW s \in Seq(S)
  PROVE  /\ ToSet(s) \subseteq S
         /\ ToSet(s) = {s[i] : i \in 1 .. Len(s)}
         /\ s # << >> => Head(s) \in ToSet(s) /\ Head(s) = s[1]
<1>1. Len(s) \in Nat /\ DOMAIN s = 1 .. Len(s)
  BY LenProperties
<1>2. \A i \in 1 .. Len(s) : s[i] \in S
  BY ElementOfSeq
<1>3. s # << >> => 1 \in 1 .. Len(s) /\ Head(s) = s[1]
  BY <1>1, EmptySeq, HeadTailProperties
<1>. QED
  BY <1>1, <1>2, <1>3 DEF ToSet

(* One element more.                                                       *)
LEMMA ToSetAppend ==
  ASSUME NEW S, NEW s \in Seq(S), NEW e \in S
  PROVE  ToSet(Append(s, e)) = ToSet(s) \union {e}
<1> DEFINE t == Append(s, e)
<1>1. /\ t \in Seq(S) /\ Len(t) = Len(s) + 1 /\ t[Len(s) + 1] = e
      /\ \A i \in 1 .. Len(s) : t[i] = s[i]
  BY AppendProperties
<1> HIDE DEF t
<1>2. /\ Len(s) \in Nat
      /\ ToSet(s) = {s[i] : i \in 1 .. Len(s)}
      /\ ToSet(t) = {t[i] : i \in 1 .. Len(s) + 1}
  BY <1>1, ToSetIn, LenProperties
<1>3. \A i \in 1 .. Len(s) + 1 : i \in 1 .. Len(s) \/ i = Len(s) + 1
  BY <1>2
<1>4. 1 .. Len(s) \subseteq 1 .. Len(s) + 1 /\ Len(s) + 1 \in 1 .. Len(s) + 1
  BY <1>2
<1>5. ToSet(t) = ToSet(s) \union {e}
  BY <1>1, <1>2, <1>3, <1>4
<1>. QED BY <1>5 DEF t

(* What Tail leaves out is the head, if it is there once.                  *)
LEMMA ToSetTail ==
  ASSUME NEW S, NEW s \in Seq(S), s # << >>
  PROVE  /\ Head(s) \in S /\ Tail(s) \in Seq(S)
         /\ ToSet(s) = {Head(s)} \union ToSet(Tail(s))
         /\ IsInjective(s) => IsInjective(Tail(s)) /\ Head(s) \notin ToSet(Tail(s))
<1> DEFINE t == Tail(s)
<1>1. /\ t \in Seq(S) /\ Len(t) = Len(s) - 1 /\ Head(s) = s[1] /\ Head(s) \in S
      /\ \A i \in 1 .. Len(t) : t[i] = s[i + 1]
  BY HeadTailProperties, ElementOfSeq, EmptySeq, LenProperties
<1> HIDE DEF t
<1>2. /\ Len(s) \in Nat /\ Len(s) # 0
      /\ DOMAIN s = 1 .. Len(s) /\ DOMAIN t = 1 .. Len(s) - 1
      /\ ToSet(s) = {s[i] : i \in 1 .. Len(s)}
      /\ ToSet(t) = {t[i] : i \in 1 .. Len(s) - 1}
  BY <1>1, ToSetIn, LenProperties, EmptySeq
<1>3. \A i \in 1 .. Len(s) : i = 1 \/ (i - 1 \in 1 .. Len(s) - 1 /\ t[i - 1] = s[i])
  BY <1>1, <1>2
<1>4. \A i \in 1 .. Len(s) - 1 : i + 1 \in 1 .. Len(s) /\ t[i] = s[i + 1] /\ i + 1 # 1
  BY <1>1, <1>2
<1>5. 1 \in 1 .. Len(s)
  BY <1>2
<1>6. ToSet(s) = {Head(s)} \union ToSet(t)
  <2>1. ASSUME NEW x \in ToSet(s) PROVE x \in {Head(s)} \union ToSet(t)
    BY <1>1, <1>2, <1>3
  <2>2. ASSUME NEW x \in ToSet(t) PROVE x \in ToSet(s)
    BY <1>2, <1>4
  <2>. QED BY <1>1, <1>2, <1>5, <2>1, <2>2
<1>7. ASSUME IsInjective(s) PROVE IsInjective(t) /\ Head(s) \notin ToSet(t)
  <2>1. \A i, j \in 1 .. Len(s) : s[i] = s[j] => i = j
    BY <1>2, <1>7 DEF IsInjective
  <2>2. ASSUME NEW i \in 1 .. Len(s) - 1, NEW j \in 1 .. Len(s) - 1, t[i] = t[j]
        PROVE  i = j
    <3>1. i + 1 = j + 1
      BY <1>4, <2>1, <2>2
    <3>. QED BY <1>2, <3>1
  <2>3. Head(s) \notin ToSet(t)
    BY <1>1, <1>2, <1>4, <1>5, <2>1
  <2>. QED BY <1>2, <2>2, <2>3 DEF IsInjective
<1>. QED BY <1>1, <1>6, <1>7 DEF t

(* What was not there may be appended.                                     *)
LEMMA InjectiveAppend ==
  ASSUME NEW S, NEW s \in Seq(S), NEW e \in S, IsInjective(s), e \notin ToSet(s)
  PROVE  IsInjective(Append(s, e))
<1> DEFINE t == Append(s, e)
<1>1. /\ t \in Seq(S) /\ Len(t) = Len(s) + 1 /\ t[Len(s) + 1] = e
      /\ \A i \in 1 .. Len(s) : t[i] = s[i]
  BY AppendProperties
<1> HIDE DEF t
<1>2. /\ Len(s) \in Nat /\ DOMAIN s = 1 .. Len(s) /\ DOMAIN t = 1 .. Len(s) + 1
      /\ ToSet(s) = {s[i] : i \in 1 .. Len(s)}
  BY <1>1, ToSetIn, LenProperties
<1>3. \A i \in 1 .. Len(s) + 1 : i \in 1 .. Len(s) \/ i = Len(s) + 1
  BY <1>2
<1>4. \A i, j \in 1 .. Len(s) : s[i] = s[j] => i = j
  BY <1>2 DEF IsInjective
<1>5. \A i \in 1 .. Len(s) : s[i] # e
  BY <1>2
<1>6. ASSUME NEW i \in 1 .. Len(s) + 1, NEW j \in 1 .. Len(s) + 1, t[i] = t[j]
      PROVE  i = j
  BY <1>1, <1>3, <1>4, <1>5, <1>6
<1>7. IsInjective(t)
  BY <1>2, <1>6 DEF IsInjective
<1>. QED BY <1>7 DEF t

(* The places of two sequences that are joined.                            *)
LEMMA ConcatAt ==
  ASSUME NEW S, NEW s \in Seq(S), NEW t \in Seq(S)
  PROVE  /\ s \o t \in Seq(S)
         /\ Len(s) \in Nat /\ Len(t) \in Nat /\ Len(s \o t) = Len(s) + Len(t)
         /\ \A i \in 1 .. Len(s) : (s \o t)[i] = s[i]
         /\ \A i \in Len(s) + 1 .. Len(s) + Len(t) :
              i - Len(s) \in 1 .. Len(t) /\ (s \o t)[i] = t[i - Len(s)]
         /\ \A i \in 1 .. Len(s) + Len(t) :
              i \in 1 .. Len(s) \/ i \in Len(s) + 1 .. Len(s) + Len(t)
         /\ \A i \in 1 .. Len(t) :
              i + Len(s) \in Len(s) + 1 .. Len(s) + Len(t) /\ (s \o t)[i + Len(s)] = t[i]
<1> DEFINE u == s \o t
<1>1. /\ u \in Seq(S) /\ Len(u) = Len(s) + Len(t)
      /\ \A i \in 1 .. Len(s) + Len(t) : u[i] = IF i <= Len(s) THEN s[i] ELSE t[i - Len(s)]
  BY ConcatProperties
<1>2. Len(s) \in Nat /\ Len(t) \in Nat
  BY LenProperties
<1> HIDE DEF u
<1>3. \A i \in 1 .. Len(s) : u[i] = s[i]
  BY <1>1, <1>2
<1>4. \A i \in Len(s) + 1 .. Len(s) + Len(t) : i - Len(s) \in 1 .. Len(t) /\ u[i] = t[i - Len(s)]
  BY <1>1, <1>2
<1>5. \A i \in 1 .. Len(t) : i + Len(s) \in Len(s) + 1 .. Len(s) + Len(t) /\ u[i + Len(s)] = t[i]
  BY SMTT(20), <1>1, <1>2
<1>6. \A i \in 1 .. Len(s) + Len(t) : i \in 1 .. Len(s) \/ i \in Len(s) + 1 .. Len(s) + Len(t)
  BY <1>2
<1>. QED BY <1>1, <1>2, <1>3, <1>4, <1>5, <1>6 DEF u

(* Two sequences that are joined have the elements of both.                *)
LEMMA ToSetConcat ==
  ASSUME NEW S, NEW s \in Seq(S), NEW t \in Seq(S)
  PROVE  /\ ToSet(s \o t) = ToSet(s) \union ToSet(t)
         /\ IsInjective(s) /\ IsInjective(t) /\ ToSet(s) \intersect ToSet(t) = {}
              => IsInjective(s \o t)
<1> DEFINE u == s \o t
           n == Len(s)
           k == Len(t)
<1>1. /\ u \in Seq(S) /\ n \in Nat /\ k \in Nat /\ Len(u) = n + k
      /\ \A i \in 1 .. n : u[i] = s[i]
      /\ \A i \in n + 1 .. n + k : i - n \in 1 .. k /\ u[i] = t[i - n]
      /\ \A i \in 1 .. n + k : i \in 1 .. n \/ i \in n + 1 .. n + k
      /\ \A i \in 1 .. k : i + n \in n + 1 .. n + k /\ u[i + n] = t[i]
  BY ConcatAt
<1>2. /\ ToSet(s) = {s[i] : i \in 1 .. n} /\ ToSet(t) = {t[i] : i \in 1 .. k}
      /\ DOMAIN s = 1 .. n /\ DOMAIN t = 1 .. k
  BY ToSetIn, LenProperties
<1>3. ToSet(u) = {u[i] : i \in 1 .. n + k} /\ DOMAIN u = 1 .. n + k
  <2> HIDE DEF u
  <2>. QED BY <1>1, ToSetIn, LenProperties
<1> HIDE DEF u, n, k
<1>4. \A i \in 1 .. n : i \in 1 .. n + k
  BY <1>1
<1>5. \A i \in n + 1 .. n + k : i \in 1 .. n + k
  BY <1>1
<1>6. ToSet(u) = ToSet(s) \union ToSet(t)
  <2>1. ASSUME NEW x \in ToSet(u) PROVE x \in ToSet(s) \union ToSet(t)
    BY <1>1, <1>2, <1>3
  <2>2. ASSUME NEW x \in ToSet(s) PROVE x \in ToSet(u)
    BY <1>1, <1>2, <1>3, <1>4
  <2>3. ASSUME NEW x \in ToSet(t) PROVE x \in ToSet(u)
    BY <1>1, <1>2, <1>3, <1>5
  <2>. QED BY <2>1, <2>2, <2>3
<1>7. ASSUME IsInjective(s), IsInjective(t), ToSet(s) \intersect ToSet(t) = {}
      PROVE  IsInjective(u)
  <2> SUFFICES ASSUME NEW i \in 1 .. n + k, NEW j \in 1 .. n + k, u[i] = u[j]
               PROVE  i = j
    BY <1>3 DEF IsInjective
  <2>1. CASE i \in 1 .. n /\ j \in 1 .. n
    BY <1>1, <1>2, <1>7, <2>1 DEF IsInjective
  <2>2. CASE i \in n + 1 .. n + k /\ j \in n + 1 .. n + k
    <3>1. t[i - n] = t[j - n] /\ i - n \in 1 .. k /\ j - n \in 1 .. k
      BY <1>1, <2>2
    <3>2. i - n = j - n
      BY <1>2, <1>7, <3>1 DEF IsInjective
    <3>. QED BY <1>1, <3>2
  <2>3. \A a \in 1 .. n, b \in n + 1 .. n + k : u[a] # u[b]
    <3> SUFFICES ASSUME NEW a \in 1 .. n, NEW b \in n + 1 .. n + k, u[a] = u[b] PROVE FALSE
      OBVIOUS
    <3>1. u[a] \in ToSet(s) /\ u[b] \in ToSet(t)
      BY <1>1, <1>2
    <3>. QED BY <1>7, <3>1
  <2>. QED BY <1>1, <2>1, <2>2, <2>3
<1>. QED BY <1>6, <1>7 DEF u

(* A sequence of what is in it.                                            *)
LEMMA SeqOfFewer ==
  ASSUME NEW S, NEW T, NEW s \in Seq(S), ToSet(s) \subseteq T
  PROVE  s \in Seq(T)
<1>1. Len(s) \in Nat /\ s \in [1 .. Len(s) -> S]
  BY LenProperties
<1>2. \A i \in 1 .. Len(s) : s[i] \in T
  BY ToSetIn
<1>3. s \in [1 .. Len(s) -> T]
  BY <1>1, <1>2
<1>. QED BY <1>1, <1>3, SeqDef

(* Every element is smaller than those that follow it.                     *)
Increasing(s) == \A i, j \in 1 .. Len(s) : i < j => s[i] < s[j]

(* A larger number may be appended.                                        *)
LEMMA IncreasingAppend ==
  ASSUME NEW S, NEW s \in Seq(S), NEW e \in S, Increasing(s), \A x \in ToSet(s) : x < e
  PROVE  Increasing(Append(s, e))
<1> DEFINE t == Append(s, e)
<1>1. /\ Len(t) = Len(s) + 1 /\ t[Len(s) + 1] = e /\ Len(s) \in Nat
      /\ \A i \in 1 .. Len(s) : t[i] = s[i]
      /\ ToSet(s) = {s[i] : i \in 1 .. Len(s)}
  BY AppendProperties, LenProperties, ToSetIn
<1> HIDE DEF t
<1>2. ASSUME NEW i \in 1 .. Len(s) + 1, NEW j \in 1 .. Len(s) + 1, i < j
      PROVE  t[i] < t[j]
  <2>1. i \in 1 .. Len(s) /\ t[i] = s[i]
    BY <1>1, <1>2
  <2>2. CASE j \in 1 .. Len(s)
    <3>1. s[i] < s[j]
      BY <1>2, <2>1, <2>2 DEF Increasing
    <3>. QED BY <1>1, <2>1, <2>2, <3>1
  <2>3. CASE j = Len(s) + 1
    <3>1. s[i] \in ToSet(s) /\ t[j] = e
      BY <1>1, <2>1, <2>3
    <3>. QED BY <2>1, <3>1
  <2>. QED BY <1>1, <2>2, <2>3
<1>3. Increasing(t)
  BY <1>1, <1>2 DEF Increasing
<1>. QED BY <1>3 DEF t

(* What follows the head is larger.                                        *)
LEMMA IncreasingTail ==
  ASSUME NEW S, NEW s \in Seq(S), s # << >>, Increasing(s)
  PROVE  Increasing(Tail(s)) /\ \A y \in ToSet(Tail(s)) : Head(s) < y
<1> DEFINE t == Tail(s)
<1>1. /\ Len(s) \in Nat /\ Len(s) # 0 /\ t \in Seq(S) /\ Len(t) = Len(s) - 1
      /\ \A i \in 1 .. Len(t) : t[i] = s[i + 1]
  BY HeadTailProperties, LenProperties, EmptySeq
<1>2. Head(s) = s[1]
  BY ToSetIn
<1> HIDE DEF t
<1>3. ToSet(t) = {t[i] : i \in 1 .. Len(t)}
  BY <1>1, ToSetIn
<1>4. \A i \in 1 .. Len(t) : i + 1 \in 1 .. Len(s) /\ 1 < i + 1
  BY <1>1
<1>5. ASSUME NEW i \in 1 .. Len(t), NEW j \in 1 .. Len(t), i < j PROVE t[i] < t[j]
  <2>1. i + 1 < j + 1
    BY <1>1, <1>5
  <2>2. s[i + 1] < s[j + 1]
    BY <1>4, <2>1 DEF Increasing
  <2>. QED BY <1>1, <2>2
<1>6. ASSUME NEW i \in 1 .. Len(t) PROVE s[1] < t[i]
  <2>1. 1 \in 1 .. Len(s)
    BY <1>1
  <2>2. s[1] < s[i + 1]
    BY <1>4, <2>1 DEF Increasing
  <2>. QED BY <1>1, <2>2
<1>7. Increasing(t) /\ \A y \in ToSet(t) : Head(s) < y
  BY <1>2, <1>3, <1>5, <1>6 DEF Increasing
<1>. QED BY <1>7 DEF t

(* Sequences of smaller and of larger numbers may be joined.               *)
LEMMA IncreasingConcat ==
  ASSUME NEW S, NEW s \in Seq(S), NEW t \in Seq(S), Increasing(s), Increasing(t),
         \A x \in ToSet(s), y \in ToSet(t) : x < y
  PROVE  Increasing(s \o t)
<1> DEFINE u == s \o t
           n == Len(s)
           k == Len(t)
<1>1. /\ n \in Nat /\ k \in Nat /\ Len(u) = n + k
      /\ \A i \in 1 .. n : u[i] = s[i]
      /\ \A i \in n + 1 .. n + k : i - n \in 1 .. k /\ u[i] = t[i - n]
      /\ \A i \in 1 .. n + k : i \in 1 .. n \/ i \in n + 1 .. n + k
  BY ConcatAt
<1>2. ToSet(s) = {s[i] : i \in 1 .. n} /\ ToSet(t) = {t[i] : i \in 1 .. k}
  BY ToSetIn
<1>3. /\ \A i, j \in 1 .. n : i < j => s[i] < s[j]
      /\ \A i, j \in 1 .. k : i < j => t[i] < t[j]
  BY DEF Increasing
<1> HIDE DEF u, n, k
<1>4. ASSUME NEW i \in 1 .. n + k, NEW j \in 1 .. n + k, i < j
      PROVE  u[i] < u[j]
  <2>1. CASE i \in 1 .. n /\ j \in 1 .. n
    BY <1>1, <1>3, <1>4, <2>1
  <2>2. CASE i \in n + 1 .. n + k /\ j \in n + 1 .. n + k
    <3>1. i - n < j - n
      BY <1>1, <1>4
    <3>2. i - n \in 1 .. k /\ j - n \in 1 .. k /\ u[i] = t[i - n] /\ u[j] = t[j - n]
      BY <1>1, <2>2
    <3>3. t[i - n] < t[j - n]
      BY <1>3, <3>1, <3>2
    <3>. QED BY <3>2, <3>3
  <2>3. CASE i \in 1 .. n /\ j \in n + 1 .. n + k
    <3>1. u[i] \in ToSet(s) /\ u[j] \in ToSet(t)
      BY <1>1, <1>2, <2>3
    <3>. QED BY <3>1
  <2>4. ~ (i \in n + 1 .. n + k /\ j \in 1 .. n)
    BY <1>1, <1>4
  <2>. QED BY <1>1, <2>1, <2>2, <2>3, <2>4
<1>5. Increasing(u)
  BY <1>1, <1>4 DEF Increasing
<1>. QED BY <1>5 DEF u

-----------------------------------------------------------------------------
(* The numbers of messages and of orders.                                  *)
Numbers == Nat

FaceTyped ==
  /\ inbox \in Seq(Numbers) /\ published \in Seq(Numbers)
  /\ outgoing \in Seq(Numbers) /\ delivered \in Seq(Numbers)
  /\ ready \in Seq(Backends) /\ announced \in Seq(Backends)
  /\ work \in [Backends -> Numbers \union {None}]
  /\ backend \in [Backends -> {"start", "wait", "send", "ended"}]
  /\ arrived \in 0 .. MaxMessages /\ consumed \in 0 .. MaxOrders
  /\ senders \subseteq Backends /\ failed \subseteq Backends

ControlTyped ==
  /\ polled \subseteq {"back", "out", "front"} /\ worker \in WorkerStates
  /\ errors \in 0 .. 3 /\ (Alive => errors <= 2)
  /\ receiver \in {"consume", "deliver", "ended"} /\ linked \in BOOLEAN
  /\ stopAgents \in BOOLEAN /\ stopQueue \in BOOLEAN /\ died \in BOOLEAN
  /\ main \in MainStates

(* What was polled is still there to be read.                              *)
PolledIsThere ==
  /\ "back" \in polled => announced # << >>
  /\ "out" \in polled => outgoing # << >>
  /\ "front" \in polled => inbox # << >> /\ ready # << >>

Offered == ToSet(ready) \union ToSet(announced)

(* A back-end is offered once, and only while it has nothing to do.        *)
OffersIdle ==
  /\ IsInjective(ready) /\ IsInjective(announced)
  /\ ToSet(ready) \intersect ToSet(announced) = {}
  /\ \A b \in Offered : work[b] = None /\ backend[b] \in {"wait", "ended"}
  /\ \A b \in Backends : /\ backend[b] = "send" => work[b] # None
                         /\ backend[b] = "start" => work[b] = None

Held == {work[b] : b \in Backends} \ {None}

(* The messages are divided among the places where they may be.            *)
MessagesDivided ==
  /\ IsInjective(inbox) /\ IsInjective(published)
  /\ \A b, c \in Backends : work[b] # None /\ work[b] = work[c] => b = c
  /\ ToSet(inbox) \union Held \union ToSet(published) \union lost = 1 .. arrived
  /\ ToSet(inbox) \intersect Held = {} /\ ToSet(inbox) \intersect ToSet(published) = {}
  /\ ToSet(inbox) \intersect lost = {} /\ Held \intersect ToSet(published) = {}
  /\ Held \intersect lost = {} /\ ToSet(published) \intersect lost = {}

LostByError == lost = {} \/ failed # {} \/ stopAgents

OrdersFollow ==
  /\ Increasing(delivered) /\ Increasing(outgoing)
  /\ \A x \in ToSet(delivered), y \in ToSet(outgoing) : x < y
  /\ ToSet(delivered) \union ToSet(outgoing) \union dropped \union ({order} \ {None}) = 1 .. consumed
  /\ IF receiver = "deliver"
     THEN /\ order = consumed /\ consumed # 0
          /\ consumed \notin ToSet(delivered) \union ToSet(outgoing)
     ELSE order = None

FInv ==
  /\ FaceTyped /\ ControlTyped
  /\ PolledIsThere
  /\ OffersIdle
  /\ MessagesDivided
  /\ LostByError
  /\ OrdersFollow

-----------------------------------------------------------------------------
(* No message or order is taken for none.                                  *)
LEMMA NoneIsNoNumber == None \notin Numbers
  BY FaceAssumption DEF Numbers

-----------------------------------------------------------------------------
(* A router that starts satisfies the invariant.                           *)
LEMMA InitFInv == Init => FInv
<1> SUFFICES ASSUME Init PROVE FInv
  OBVIOUS
<1>1. \A S : << >> \in Seq(S)
  BY EmptySeq
<1>2. ToSet(<< >>) = {} /\ IsInjective(<< >>) /\ Increasing(<< >>)
  BY DEF ToSet, IsInjective, Increasing
<1>3. FaceTyped
  BY <1>1, FaceAssumption DEF Init, FaceTyped
<1>4. ControlTyped
  <2>1. /\ linked \in BOOLEAN /\ stopAgents \in BOOLEAN /\ stopQueue \in BOOLEAN
        /\ died \in BOOLEAN
    BY DEF Init
  <2>2. /\ polled = {} /\ worker = "bind" /\ errors = 0 /\ receiver = "consume" /\ main = "run"
    BY DEF Init
  <2>. QED BY <2>1, <2>2 DEF ControlTyped, WorkerStates, MainStates
<1>5. PolledIsThere /\ LostByError
  BY DEF Init, PolledIsThere, LostByError
<1>6. OffersIdle
  BY <1>2 DEF Init, OffersIdle, Offered
<1>7. MessagesDivided
  <2>1. Held = {}
    BY DEF Init, Held
  <2>2. 1 .. 0 = {}
    OBVIOUS
  <2>. QED BY <1>2, <2>1, <2>2 DEF Init, MessagesDivided
<1>8. OrdersFollow
  BY <1>2 DEF Init, OrdersFollow
<1>. QED
  BY <1>3, <1>4, <1>5, <1>6, <1>7, <1>8 DEF FInv

-----------------------------------------------------------------------------
(* The threads' states stay what they may be, and the worker ends the      *)
(* process at the third error.                                             *)
LEMMA ControlKept ==
  ASSUME FInv, [Next]_vars
  PROVE  ControlTyped'
<1> USE DEF ControlTyped, WorkerStates, MainStates
<1>0. ControlTyped
  BY DEF FInv
<1>1. CASE UNCHANGED vars
  BY <1>0, <1>1 DEF vars, loop, broker, stops, Alive
<1>2. CASE Arrive
  BY <1>0, <1>2 DEF Arrive, loop, broker, stops, Alive
<1>3. CASE Worker
  <2>1. CASE Poll
    BY <1>0, <2>1 DEF Poll, Readable, broker, stops, Alive
  <2>2. CASE TakeReady \/ PassOn \/ Dispatch
    <3>1. /\ UNCHANGED <<worker, receiver, linked, stopAgents, stopQueue, died, main>>
          /\ polled' \subseteq polled /\ errors' \in {0, errors}
      BY <2>2 DEF TakeReady, PassOn, Dispatch, broker, stops
    <3>. QED BY <1>0, <3>1 DEF Alive
  <2>3. CASE Bind \/ LeaveLoop \/ BackendsJoined
    BY <1>0, <2>3 DEF Bind, LeaveLoop, BackendsJoined, broker, stops, Alive
  <2>. QED BY <1>3, <2>1, <2>2, <2>3 DEF Worker
<1>4. CASE ReadFails
  BY <1>0, <1>4 DEF ReadFails, Working, TooMany, Abort, broker, stops, Alive
<1>5. CASE BindFails
  BY <1>0, <1>5 DEF BindFails, CallbackOfDeath, broker, Alive
<1>6. ASSUME NEW b \in Backends,
             \/ Connect(b) \/ ConnectFails(b) \/ Receive(b) \/ Publish(b)
             \/ PublishFails(b) \/ BackendEnds(b)
      PROVE  ControlTyped'
  <2>1. UNCHANGED <<loop, broker, stops>>
    BY <1>6 DEF Connect, ConnectFails, Receive, Publish, PublishFails, BackendEnds
  <2>. QED BY <1>0, <2>1 DEF loop, broker, stops, Alive
<1>7. ASSUME NEW b \in Backends, PublishIsFatal(b) \/ MemoryIsLost(b) PROVE ControlTyped'
  BY ZenonT(30), <1>0, <1>7 DEF PublishIsFatal, MemoryIsLost, Abort, loop, broker, stops, Alive
<1>8. CASE Consume \/ Deliver \/ NoRecipient \/ ReceiverFails \/ ReceiverStops
  BY ZenonT(30), <1>0, <1>8 DEF Consume, Deliver, NoRecipient, ReceiverFails, ReceiverStops, Link,
     CallbackOfDeath, loop, stops, Alive
<1>9. CASE Signal \/ Main
  BY ZenonT(30), <1>0, <1>9 DEF Signal, Main, RunReturns, ReceiverJoined, StopAgents, WorkerJoined,
     loop, broker, Alive
<1>. QED
  BY <1>1, <1>2, <1>3, <1>4, <1>5, <1>6, <1>7, <1>8, <1>9 DEF Next

-----------------------------------------------------------------------------
(* What becomes of one message or offer keeps the types.                   *)
LEMMA FaceTypesKept ==
  ASSUME FInv, [Next]_vars
  PROVE  FaceTyped'
<1>0. FaceTyped /\ PolledIsThere /\ OrdersFollow /\ OffersIdle
  BY DEF FInv
<1>a. arrived \in Nat /\ arrived + 1 \in Numbers /\ consumed \in Nat /\ consumed + 1 \in Numbers
  BY <1>0, FaceAssumption DEF FaceTyped, Numbers
<1>b. << >> \in Seq(Numbers)
  BY EmptySeq
<1>1. CASE UNCHANGED <<agents, ready, pool, upward, consumed, down>>
  BY <1>0, <1>1 DEF FaceTyped, agents, pool, upward, down
<1>2. CASE Arrive
  <2>1. inbox' \in Seq(Numbers)
    BY <1>0, <1>2, <1>a, AppendProperties DEF Arrive, FaceTyped
  <2>2. arrived' \in 0 .. MaxMessages
    BY <1>0, <1>2, FaceAssumption DEF Arrive, FaceTyped
  <2>. QED
    BY <1>0, <1>2, <2>1, <2>2 DEF Arrive, FaceTyped, loop, pool, upward, broker, down
<1>3. CASE TakeReady
  <2>1. announced # << >> /\ announced \in Seq(Backends) /\ ready \in Seq(Backends)
    BY <1>0, <1>3 DEF TakeReady, PolledIsThere, FaceTyped
  <2>2. Head(announced) \in Backends /\ Tail(announced) \in Seq(Backends)
    BY <2>1, HeadTailProperties
  <2>3. Append(ready, Head(announced)) \in Seq(Backends)
    BY <2>1, <2>2, AppendProperties
  <2>. QED
    BY <1>0, <1>3, <2>2, <2>3 DEF TakeReady, FaceTyped, agents, upward, broker, down
<1>4. CASE PassOn
  <2>1. outgoing # << >> /\ outgoing \in Seq(Numbers) /\ delivered \in Seq(Numbers)
    BY <1>0, <1>4 DEF PassOn, PolledIsThere, FaceTyped
  <2>2. Head(outgoing) \in Numbers /\ Tail(outgoing) \in Seq(Numbers)
    BY <2>1, HeadTailProperties
  <2>3. Append(delivered, Head(outgoing)) \in Seq(Numbers)
    BY <2>1, <2>2, AppendProperties
  <2>. QED
    BY <1>0, <1>4, <2>2, <2>3 DEF PassOn, FaceTyped, agents, pool, upward, broker
<1>5. CASE Dispatch
  <2>1. inbox # << >> /\ inbox \in Seq(Numbers) /\ ready # << >> /\ ready \in Seq(Backends)
    BY <1>0, <1>5 DEF Dispatch, PolledIsThere, FaceTyped
  <2>2. /\ Head(inbox) \in Numbers /\ Tail(inbox) \in Seq(Numbers)
        /\ Head(ready) \in Backends /\ Tail(ready) \in Seq(Backends)
    BY <2>1, HeadTailProperties
  <2>. QED
    BY <1>0, <1>5, <2>2 DEF Dispatch, ReadyLeft, FaceTyped, broker, down
<1>6. CASE BindFails
  BY <1>0, <1>6 DEF BindFails, FaceTyped, agents, upward, broker, down
<1>7. ASSUME NEW b \in Backends, Connect(b) \/ ConnectFails(b) \/ Receive(b) PROVE FaceTyped'
  <2>1. Append(announced, b) \in Seq(Backends)
    BY <1>0, AppendProperties DEF FaceTyped
  <2>. QED
    BY <1>0, <1>7, <2>1 DEF Connect, ConnectFails, Receive, Goto, FaceTyped, agents, loop,
       upward, broker, down
<1>8. ASSUME NEW b \in Backends, Publish(b) PROVE FaceTyped'
  <2>1. Append(announced, b) \in Seq(Backends)
    BY <1>0, AppendProperties DEF FaceTyped
  <2>2. work[b] \in Numbers
    BY <1>0, <1>8 DEF Publish, FaceTyped, OffersIdle
  <2>3. Append(published, work[b]) \in Seq(Numbers)
    BY <1>0, <2>2, AppendProperties DEF FaceTyped
  <2>. QED
    BY <1>0, <1>8, <2>1, <2>3 DEF Publish, Goto, Announce, FaceTyped, agents, loop, broker, down
<1>9. ASSUME NEW b \in Backends, PublishFails(b) \/ PublishIsFatal(b) \/ BackendEnds(b)
      PROVE  FaceTyped'
  BY <1>0, <1>9 DEF PublishFails, PublishIsFatal, BackendEnds, GiveUp, Goto, FaceTyped, agents,
     loop, broker, down
<1>10. CASE Consume
  BY <1>0, <1>10, FaceAssumption DEF Consume, FaceTyped, agents, loop, pool, upward, down
<1>11. CASE Deliver
  <2>1. order \in Numbers
    BY <1>0, <1>11, <1>a DEF Deliver, OrdersFollow, Numbers
  <2>2. Append(outgoing, order) \in Seq(Numbers)
    BY <1>0, <2>1, AppendProperties DEF FaceTyped
  <2>. QED BY <1>0, <1>11, <2>2 DEF Deliver, FaceTyped, agents, loop, pool, upward
<1>12. CASE NoRecipient \/ ReceiverFails
  BY <1>0, <1>12 DEF NoRecipient, ReceiverFails, FaceTyped, agents, loop, pool, upward
<1>. QED
  <2>1. Bind \/ Poll \/ LeaveLoop \/ BackendsJoined \/ ReadFails \/ ReceiverStops \/ Signal \/ Main
          \/ UNCHANGED vars
        => UNCHANGED <<agents, ready, pool, upward, consumed, down>>
    BY DEF Bind, Poll, LeaveLoop, BackendsJoined, ReadFails, ReceiverStops, Signal, Main, RunReturns,
       ReceiverJoined, StopAgents, WorkerJoined, vars, loop, broker
  <2>2. ASSUME NEW b \in Backends, MemoryIsLost(b)
        PROVE  UNCHANGED <<agents, ready, pool, upward, consumed, down>>
    BY <2>2 DEF MemoryIsLost, loop, broker
  <2>. QED
    BY <1>1, <1>2, <1>3, <1>4, <1>5, <1>6, <1>7, <1>8, <1>9, <1>10, <1>11, <1>12, <2>1, <2>2
       DEF Next, Worker

-----------------------------------------------------------------------------
(* What is polled is only read by the worker.                              *)
LEMMA PolledKept ==
  ASSUME FInv, [Next]_vars
  PROVE  PolledIsThere'
<1>0. PolledIsThere /\ FaceTyped /\ OrdersFollow
  BY DEF FInv
<1>a. arrived + 1 \in Numbers /\ consumed \in Numbers
  BY <1>0, FaceAssumption DEF FaceTyped, Numbers
<1>1. CASE polled' \subseteq polled /\ UNCHANGED <<inbox, ready, announced, outgoing>>
  BY <1>0, <1>1 DEF PolledIsThere
<1>2. CASE polled' = {}
  BY <1>2 DEF PolledIsThere
<1>3. CASE Arrive
  <2>1. inbox' # << >>
    BY SMTT(20), <1>0, <1>3, <1>a, AppendProperties DEF Arrive, FaceTyped
  <2>. QED BY <1>0, <1>3, <2>1 DEF Arrive, PolledIsThere, loop, pool, down
<1>4. CASE Poll
  BY <1>4 DEF Poll, Readable, PolledIsThere, agents, pool, down
<1>5. CASE TakeReady
  <2>1. Head(announced) \in Backends /\ ready \in Seq(Backends)
    BY <1>0, <1>5, HeadTailProperties DEF TakeReady, PolledIsThere, FaceTyped
  <2>2. ready' # << >>
    BY <1>5, <2>1, AppendProperties DEF TakeReady
  <2>. QED BY <1>0, <1>5, <2>2 DEF TakeReady, PolledIsThere, agents, down
<1>6. CASE PassOn
  BY <1>0, <1>6 DEF PassOn, PolledIsThere, agents, pool
<1>7. ASSUME NEW b \in Backends, Connect(b) \/ Publish(b) PROVE PolledIsThere'
  <2>1. announced' # << >>
    BY <1>0, <1>7, AppendProperties DEF Connect, Publish, Announce, FaceTyped
  <2>. QED BY <1>0, <1>7, <2>1 DEF Connect, Publish, PolledIsThere, agents, loop, down
<1>8. CASE Deliver
  <2>1. order \in Numbers
    BY <1>0, <1>8, <1>a DEF Deliver, OrdersFollow
  <2>2. outgoing' # << >>
    BY <1>0, <1>8, <2>1, AppendProperties DEF Deliver, FaceTyped
  <2>. QED BY <1>0, <1>8, <2>2 DEF Deliver, PolledIsThere, agents, loop, pool
<1>. QED
  <2>1. Bind \/ LeaveLoop \/ BackendsJoined \/ BindFails \/ Consume \/ NoRecipient \/ ReceiverFails
          \/ ReceiverStops \/ Signal \/ Main \/ UNCHANGED vars
        => polled' = polled /\ UNCHANGED <<inbox, ready, announced, outgoing>>
    BY DEF Bind, LeaveLoop, BackendsJoined, BindFails, Consume, NoRecipient, ReceiverFails,
       ReceiverStops, Signal, Main, RunReturns, ReceiverJoined, StopAgents, WorkerJoined,
       vars, agents, loop, pool, down
  <2>2. ASSUME NEW b \in Backends,
               \/ ConnectFails(b) \/ Receive(b) \/ PublishFails(b) \/ PublishIsFatal(b)
               \/ MemoryIsLost(b) \/ BackendEnds(b)
        PROVE  polled' = polled /\ UNCHANGED <<inbox, ready, announced, outgoing>>
    BY <2>2 DEF ConnectFails, Receive, PublishFails, PublishIsFatal, MemoryIsLost, BackendEnds,
       agents, loop, pool, down
  <2>3. Dispatch \/ ReadFails => polled' = {}
    BY DEF Dispatch, ReadFails
  <2>. QED
    BY <1>1, <1>2, <1>3, <1>4, <1>5, <1>6, <1>7, <1>8, <2>1, <2>2, <2>3 DEF Next, Worker

-----------------------------------------------------------------------------
(* A back-end that is not offered changes its own state.                   *)
LEMMA OffersKeptBy ==
  ASSUME FaceTyped, OffersIdle, NEW b \in Backends, NEW to, NEW m,
         b \notin Offered \/ (m = None /\ to \in {"wait", "ended"}),
         to # "start", to = "send" => m # None,
         backend' = [backend EXCEPT ![b] = to], work' = [work EXCEPT ![b] = m],
         UNCHANGED <<ready, announced>>
  PROVE  OffersIdle'
<1>1. Offered \subseteq Backends
  BY ToSetIn DEF Offered, FaceTyped
<1>2. \A c \in Offered : work[c] = None /\ backend[c] \in {"wait", "ended"}
  BY DEF OffersIdle
<1>3. /\ \A c \in Backends \ {b} : work'[c] = work[c] /\ backend'[c] = backend[c]
      /\ work'[b] = m /\ backend'[b] = to
  BY DEF FaceTyped
<1>4. \A c \in Offered : work'[c] = None /\ backend'[c] \in {"wait", "ended"}
  BY <1>1, <1>2, <1>3
<1>5. \A c \in Backends : /\ backend'[c] = "send" => work'[c] # None
                          /\ backend'[c] = "start" => work'[c] = None
  BY <1>3 DEF OffersIdle
<1>. QED
  BY <1>4, <1>5 DEF OffersIdle, Offered

(* A back-end that is not offered, and has nothing to do, is announced.    *)
LEMMA OffersKeptWith ==
  ASSUME FaceTyped, OffersIdle, NEW b \in Backends, b \notin Offered,
         announced' = Append(announced, b), ready' = ready,
         backend' = [backend EXCEPT ![b] = "wait"], work' = [work EXCEPT ![b] = None]
  PROVE  OffersIdle'
<1>1. /\ Offered \subseteq Backends /\ ready \in Seq(Backends) /\ announced \in Seq(Backends)
      /\ IsInjective(ready) /\ IsInjective(announced)
      /\ ToSet(ready) \intersect ToSet(announced) = {}
  BY ToSetIn DEF Offered, FaceTyped, OffersIdle
<1>2. ToSet(announced') = ToSet(announced) \union {b} /\ IsInjective(announced')
  BY <1>1, ToSetAppend, InjectiveAppend DEF Offered
<1>3. /\ \A c \in Backends \ {b} : work'[c] = work[c] /\ backend'[c] = backend[c]
      /\ work'[b] = None /\ backend'[b] = "wait"
  BY DEF FaceTyped
<1>4. Offered' = Offered \union {b}
  BY <1>2 DEF Offered
<1>5. \A c \in Offered' : work'[c] = None /\ backend'[c] \in {"wait", "ended"}
  BY <1>1, <1>3, <1>4 DEF OffersIdle
<1>6. \A c \in Backends : /\ backend'[c] = "send" => work'[c] # None
                          /\ backend'[c] = "start" => work'[c] = None
  BY <1>3 DEF OffersIdle
<1>. QED
  BY <1>1, <1>2, <1>5, <1>6 DEF OffersIdle, Offered

(* A back-end is offered once and idle: it announces itself only when it   *)
(* starts and when it has published, and is taken from the offers with its *)
(* message.                                                                *)
LEMMA OffersKept ==
  ASSUME FInv, [Next]_vars
  PROVE  OffersIdle'
<1>0. PolledIsThere /\ FaceTyped /\ OffersIdle
  BY DEF FInv
<1>a. \A b \in Backends : work = [work EXCEPT ![b] = work[b]]
  BY <1>0 DEF FaceTyped
<1>1. CASE UNCHANGED <<ready, announced, work, backend>>
  BY <1>0, <1>1 DEF OffersIdle, Offered
<1>2. CASE TakeReady
  <2> DEFINE b == Head(announced)
  <2>1. announced # << >> /\ announced \in Seq(Backends) /\ ready \in Seq(Backends)
    BY <1>0, <1>2 DEF TakeReady, PolledIsThere, FaceTyped
  <2>2. /\ b \in Backends /\ ToSet(announced) = {b} \union ToSet(Tail(announced))
        /\ IsInjective(Tail(announced)) /\ b \notin ToSet(Tail(announced))
    BY <1>0, <2>1, ToSetTail DEF OffersIdle
  <2>3. b \notin ToSet(ready) /\ IsInjective(ready)
        /\ ToSet(ready) \intersect ToSet(announced) = {}
    BY <1>0, <2>2 DEF OffersIdle
  <2> HIDE DEF b
  <2>4. ToSet(Append(ready, b)) = ToSet(ready) \union {b} /\ IsInjective(Append(ready, b))
    BY <2>1, <2>2, <2>3, ToSetAppend, InjectiveAppend
  <2>5. ready' = Append(ready, b) /\ announced' = Tail(announced) /\ UNCHANGED <<work, backend>>
    BY <1>2 DEF TakeReady, b
  <2>6. Offered' = Offered
    BY <2>2, <2>4, <2>5 DEF Offered
  <2>7. ToSet(ready') \intersect ToSet(announced') = {}
    BY <2>2, <2>3, <2>4, <2>5
  <2>. QED BY <1>0, <2>2, <2>4, <2>5, <2>6, <2>7 DEF OffersIdle
<1>3. CASE Dispatch
  <2> DEFINE b == Head(ready)
  <2>1. ready # << >> /\ ready \in Seq(Backends)
    BY <1>0, <1>3 DEF Dispatch, PolledIsThere, FaceTyped
  <2>2. /\ b \in Backends /\ ToSet(ready) = {b} \union ToSet(Tail(ready))
        /\ IsInjective(Tail(ready)) /\ b \notin ToSet(Tail(ready))
    BY <1>0, <2>1, ToSetTail DEF OffersIdle
  <2>3. backend[b] \in {"wait", "ended"} /\ b \notin ToSet(announced)
    BY <1>0, <2>2 DEF OffersIdle, Offered
  <2>4. ready' = Tail(ready) /\ UNCHANGED <<announced, backend>>
        /\ (work' = [work EXCEPT ![b] = Head(inbox)] \/ work' = work)
    BY <1>3 DEF Dispatch, ReadyLeft
  <2> HIDE DEF b
  <2>5. b \notin Offered' /\ Offered' \subseteq Offered /\ Offered \subseteq Backends
    BY <1>0, <2>2, <2>3, <2>4, ToSetIn DEF Offered, FaceTyped
  <2>6. \A c \in Backends \ {b} : work'[c] = work[c]
    BY <1>0, <2>4 DEF FaceTyped
  <2>7. \A c \in Offered' : work'[c] = None /\ backend'[c] \in {"wait", "ended"}
    BY <1>0, <2>4, <2>5, <2>6 DEF OffersIdle
  <2>8. \A c \in Backends : /\ backend'[c] = "send" => work'[c] # None
                            /\ backend'[c] = "start" => work'[c] = None
    BY <1>0, <2>3, <2>4, <2>6 DEF OffersIdle
  <2>9. ToSet(ready') \intersect ToSet(announced') = {}
    BY <1>0, <2>2, <2>4 DEF OffersIdle
  <2>. QED BY <1>0, <2>2, <2>4, <2>7, <2>8, <2>9 DEF OffersIdle
<1>4. CASE BindFails
  <2>1. Offered \subseteq Backends /\ Offered' = Offered
    BY <1>0, <1>4, ToSetIn DEF BindFails, Offered, FaceTyped
  <2>2. \A c \in Backends : backend'[c] = "ended"
    BY <1>4 DEF BindFails
  <2>. QED BY <1>0, <1>4, <2>1, <2>2 DEF BindFails, OffersIdle
<1>5. ASSUME NEW b \in Backends, Connect(b) \/ Publish(b) PROVE OffersIdle'
  <2>1. /\ b \notin Offered
        /\ announced' = Append(announced, b) /\ ready' = ready
        /\ backend' = [backend EXCEPT ![b] = "wait"] /\ work' = [work EXCEPT ![b] = None]
    BY <1>0, <1>5, <1>a DEF Connect, Publish, Goto, Announce, OffersIdle, loop
  <2>. QED BY <1>0, <2>1, OffersKeptWith
<1>6. ASSUME NEW b \in Backends, ConnectFails(b) \/ Receive(b) PROVE OffersIdle'
  <2> DEFINE to == IF backend[b] = "start" THEN "ended" ELSE "send"
  <2>1. /\ b \notin Offered /\ to # "start" /\ (to = "send" => work[b] # None)
        /\ backend' = [backend EXCEPT ![b] = to] /\ work' = [work EXCEPT ![b] = work[b]]
        /\ UNCHANGED <<ready, announced>>
    BY <1>0, <1>6, <1>a DEF ConnectFails, Receive, Goto, OffersIdle, loop
  <2> HIDE DEF to
  <2>. QED BY <1>0, <2>1, OffersKeptBy
<1>7. ASSUME NEW b \in Backends, PublishFails(b) \/ PublishIsFatal(b) PROVE OffersIdle'
  <2>1. /\ backend' = [backend EXCEPT ![b] = "wait"] /\ work' = [work EXCEPT ![b] = None]
        /\ UNCHANGED <<ready, announced>>
    BY <1>7 DEF PublishFails, PublishIsFatal, Goto, GiveUp, loop
  <2>. QED BY <1>0, <2>1, OffersKeptBy
<1>8. ASSUME NEW b \in Backends, BackendEnds(b) PROVE OffersIdle'
  <2>1. /\ backend' = [backend EXCEPT ![b] = "ended"] /\ work' = [work EXCEPT ![b] = None]
        /\ UNCHANGED <<ready, announced>>
    BY <1>8 DEF BackendEnds, Goto, GiveUp, loop
  <2>. QED BY <1>0, <2>1, OffersKeptBy
<1>. QED
  <2>1. Arrive \/ Bind \/ Poll \/ PassOn \/ LeaveLoop \/ BackendsJoined \/ ReadFails \/ Consume
          \/ Deliver \/ NoRecipient \/ ReceiverFails \/ ReceiverStops \/ Signal \/ Main
          \/ UNCHANGED vars
        => UNCHANGED <<ready, announced, work, backend>>
    BY DEF Arrive, Bind, Poll, PassOn, LeaveLoop, BackendsJoined, ReadFails, Consume, Deliver,
       NoRecipient, ReceiverFails, ReceiverStops, Signal, Main, RunReturns, ReceiverJoined,
       StopAgents, WorkerJoined, vars, loop, pool
  <2>2. ASSUME NEW b \in Backends, MemoryIsLost(b)
        PROVE  UNCHANGED <<ready, announced, work, backend>>
    BY <2>2 DEF MemoryIsLost, loop, pool
  <2>. QED
    BY <1>1, <1>2, <1>3, <1>4, <1>5, <1>6, <1>7, <1>8, <2>1, <2>2 DEF Next, Worker

-----------------------------------------------------------------------------
(* The messages with back-ends when one back-end gives up or gets one.     *)
LEMMA HeldWithout ==
  ASSUME FaceTyped, MessagesDivided, NEW b \in Backends, work' = [work EXCEPT ![b] = None]
  PROVE  /\ Held' = Held \ ({work[b]} \ {None}) /\ {work[b]} \ {None} \subseteq Held
         /\ \A c, d \in Backends : work'[c] # None /\ work'[c] = work'[d] => c = d
<1>1. work'[b] = None /\ \A c \in Backends \ {b} : work'[c] = work[c]
  BY DEF FaceTyped
<1>2. \A c, d \in Backends : work[c] # None /\ work[c] = work[d] => c = d
  BY DEF MessagesDivided
<1>. QED BY <1>1, <1>2 DEF Held

(* A back-end that had none is given a message.                            *)
LEMMA HeldWith ==
  ASSUME FaceTyped, MessagesDivided, NEW b \in Backends, work[b] = None,
         NEW m, m # None, m \notin Held, work' = [work EXCEPT ![b] = m]
  PROVE  /\ Held' = Held \union {m}
         /\ \A c, d \in Backends : work'[c] # None /\ work'[c] = work'[d] => c = d
<1>1. work'[b] = m /\ \A c \in Backends \ {b} : work'[c] = work[c]
  BY DEF FaceTyped
<1>2. \A c, d \in Backends : work[c] # None /\ work[c] = work[d] => c = d
  BY DEF MessagesDivided
<1>3. \A c \in Backends : work[c] # None => work[c] \in Held
  BY DEF Held
<1>. QED BY <1>1, <1>2, <1>3 DEF Held

(* A message that is given up leaves the back-end for those that are lost. *)
LEMMA GiveUpKeeps ==
  ASSUME FaceTyped, MessagesDivided, NEW b \in Backends, GiveUp(b), UNCHANGED <<agents, published>>
  PROVE  MessagesDivided'
<1> DEFINE M == {work[b]} \ {None}
<1>1. /\ Held' = Held \ M /\ M \subseteq Held /\ lost' = lost \union M
      /\ \A c, d \in Backends : work'[c] # None /\ work'[c] = work'[d] => c = d
  BY HeldWithout DEF GiveUp
<1> HIDE DEF M
<1>. QED BY <1>1 DEF MessagesDivided, agents

(* Every step leaves each message in one place.                            *)
LEMMA MessagesKept ==
  ASSUME FInv, [Next]_vars
  PROVE  MessagesDivided'
<1>0. FaceTyped /\ MessagesDivided /\ PolledIsThere /\ OffersIdle
  BY DEF FInv
<1>1. CASE UNCHANGED <<arrived, inbox, work, published, lost>>
  BY <1>0, <1>1 DEF MessagesDivided, Held
<1>2. CASE Arrive
  <2> DEFINE m == arrived + 1
  <2>1. /\ arrived \in Nat /\ m \in Numbers /\ m \notin 1 .. arrived
        /\ 1 .. arrived + 1 = 1 .. arrived \union {m}
    BY <1>0, FaceAssumption DEF FaceTyped, Numbers
  <2>2. m \notin ToSet(inbox) \union Held \union ToSet(published) \union lost
    BY <1>0, <2>1 DEF MessagesDivided
  <2>3. inbox' = Append(inbox, m) /\ arrived' = arrived + 1 /\ UNCHANGED <<work, published, lost>>
    BY <1>2 DEF Arrive, pool, upward
  <2> HIDE DEF m
  <2>4. ToSet(inbox') = ToSet(inbox) \union {m} /\ IsInjective(inbox')
    BY <1>0, <2>1, <2>2, <2>3, ToSetAppend, InjectiveAppend DEF FaceTyped, MessagesDivided
  <2>5. Held' = Held
    BY <2>3 DEF Held
  <2>. QED BY <1>0, <2>1, <2>2, <2>3, <2>4, <2>5 DEF MessagesDivided
<1>3. CASE Dispatch
  <2> DEFINE b == Head(ready)
             m == Head(inbox)
  <2>1. inbox # << >> /\ inbox \in Seq(Numbers) /\ ready # << >> /\ ready \in Seq(Backends)
    BY <1>0, <1>3 DEF Dispatch, PolledIsThere, FaceTyped
  <2>2. /\ m \in Numbers /\ ToSet(inbox) = {m} \union ToSet(Tail(inbox))
        /\ IsInjective(Tail(inbox)) /\ m \notin ToSet(Tail(inbox))
    BY <1>0, <2>1, ToSetTail DEF MessagesDivided
  <2>3. b \in Backends /\ work[b] = None
    BY <1>0, <2>1, ToSetIn DEF OffersIdle, Offered
  <2>4. m # None /\ m \notin Held
    BY <1>0, <2>2, NoneIsNoNumber DEF MessagesDivided
  <2>5. /\ inbox' = Tail(inbox) /\ UNCHANGED <<arrived, published>>
        /\ \/ work' = [work EXCEPT ![b] = m] /\ lost' = lost
           \/ work' = work /\ lost' = lost \union {m}
    BY <1>3 DEF Dispatch
  <2> HIDE DEF b, m
  <2>6. CASE work' = [work EXCEPT ![b] = m] /\ lost' = lost
    <3>1. /\ Held' = Held \union {m}
          /\ \A c, d \in Backends : work'[c] # None /\ work'[c] = work'[d] => c = d
      BY <1>0, <2>3, <2>4, <2>6, HeldWith
    <3>. QED BY <1>0, <2>2, <2>4, <2>5, <2>6, <3>1 DEF MessagesDivided
  <2>7. CASE work' = work /\ lost' = lost \union {m}
    <3>1. Held' = Held
      BY <2>7 DEF Held
    <3>. QED BY <1>0, <2>2, <2>4, <2>5, <2>7, <3>1 DEF MessagesDivided
  <2>. QED BY <2>5, <2>6, <2>7
<1>4. ASSUME NEW b \in Backends, Publish(b) PROVE MessagesDivided'
  <2> DEFINE m == work[b]
  <2>1. m # None /\ m \in Numbers /\ published \in Seq(Numbers)
    BY <1>0, <1>4 DEF Publish, OffersIdle, FaceTyped
  <2>2. /\ published' = Append(published, m) /\ UNCHANGED <<arrived, inbox, lost>>
        /\ work' = [work EXCEPT ![b] = None]
    BY <1>4 DEF Publish, agents
  <2>3. /\ Held' = Held \ {m} /\ m \in Held
        /\ \A c, d \in Backends : work'[c] # None /\ work'[c] = work'[d] => c = d
    BY <1>0, <2>1, <2>2, HeldWithout
  <2> HIDE DEF m
  <2>4. m \notin ToSet(published)
    BY <1>0, <2>3 DEF MessagesDivided
  <2>5. ToSet(published') = ToSet(published) \union {m} /\ IsInjective(published')
    BY <1>0, <2>1, <2>2, <2>4, ToSetAppend, InjectiveAppend DEF MessagesDivided
  <2>. QED BY <1>0, <2>2, <2>3, <2>5 DEF MessagesDivided
<1>5. ASSUME NEW b \in Backends, PublishFails(b) \/ PublishIsFatal(b) \/ BackendEnds(b)
      PROVE  MessagesDivided'
  BY <1>0, <1>5, GiveUpKeeps DEF PublishFails, PublishIsFatal, BackendEnds
<1>. QED
  <2>1. Bind \/ Poll \/ TakeReady \/ PassOn \/ LeaveLoop \/ BackendsJoined \/ ReadFails \/ BindFails
          \/ Consume \/ Deliver \/ NoRecipient \/ ReceiverFails \/ ReceiverStops \/ Signal \/ Main
          \/ UNCHANGED vars
        => UNCHANGED <<arrived, inbox, work, published, lost>>
    BY DEF Bind, Poll, TakeReady, PassOn, LeaveLoop, BackendsJoined, ReadFails, BindFails, Consume,
       Deliver, NoRecipient, ReceiverFails, ReceiverStops, Signal, Main, RunReturns, ReceiverJoined,
       StopAgents, WorkerJoined, vars, agents, pool, upward
  <2>2. ASSUME NEW b \in Backends, Connect(b) \/ ConnectFails(b) \/ Receive(b) \/ MemoryIsLost(b)
        PROVE  UNCHANGED <<arrived, inbox, work, published, lost>>
    BY <2>2 DEF Connect, ConnectFails, Receive, MemoryIsLost, agents, pool, upward
  <2>. QED
    BY <1>1, <1>2, <1>3, <1>4, <1>5, <2>1, <2>2 DEF Next, Worker

(* A message is given up with an error of a back-end or when the face of   *)
(* the agents stops.                                                       *)
LEMMA LostKept ==
  ASSUME FInv, [Next]_vars
  PROVE  LostByError'
<1>0. LostByError /\ FaceTyped
  BY DEF FInv
<1>1. CASE lost' = lost /\ failed \subseteq failed' /\ (stopAgents => stopAgents')
  BY <1>0, <1>1 DEF LostByError
<1>2. ASSUME NEW b \in Backends, PublishFails(b) \/ PublishIsFatal(b) PROVE LostByError'
  BY <1>2 DEF PublishFails, PublishIsFatal, LostByError
<1>3. ASSUME NEW b \in Backends, BackendEnds(b) PROVE LostByError'
  BY <1>3 DEF BackendEnds, LostByError, stops
<1>4. CASE Dispatch
  BY <1>0, <1>4 DEF Dispatch, LostByError, stops
<1>. QED
  <2>1. Arrive \/ Bind \/ Poll \/ TakeReady \/ PassOn \/ LeaveLoop \/ BackendsJoined \/ ReadFails
          \/ Consume \/ Deliver \/ NoRecipient \/ ReceiverFails \/ ReceiverStops
          \/ Signal \/ RunReturns \/ ReceiverJoined \/ WorkerJoined \/ UNCHANGED vars
        => UNCHANGED <<lost, failed, stopAgents>>
    BY DEF Arrive, Bind, Poll, TakeReady, PassOn, LeaveLoop, BackendsJoined, ReadFails, Consume,
       Deliver, NoRecipient, ReceiverFails, ReceiverStops, Signal, RunReturns, ReceiverJoined,
       WorkerJoined, vars, pool, upward, stops
  <2>2. ASSUME NEW b \in Backends,
               Connect(b) \/ ConnectFails(b) \/ Receive(b) \/ Publish(b) \/ MemoryIsLost(b)
        PROVE  lost' = lost /\ failed \subseteq failed' /\ stopAgents' = stopAgents
    BY <2>2 DEF Connect, ConnectFails, Receive, Publish, MemoryIsLost, pool, upward, stops
  <2>3. BindFails => lost' = lost /\ failed \subseteq failed' /\ stopAgents' = stopAgents
    BY <1>0 DEF BindFails, FaceTyped, upward
  <2>4. StopAgents => UNCHANGED <<lost, failed>> /\ stopAgents'
    BY DEF StopAgents, pool, upward
  <2>. QED
    BY <1>1, <1>2, <1>3, <1>4, <2>1, <2>2, <2>3, <2>4 DEF Next, Worker, Main

-----------------------------------------------------------------------------
(* Orders are appended to those that are waiting, and taken from their     *)
(* head.                                                                   *)
LEMMA OrdersKept ==
  ASSUME FInv, [Next]_vars
  PROVE  OrdersFollow'
<1>0. FaceTyped /\ PolledIsThere /\ OrdersFollow
  BY DEF FInv
<1>a. consumed \in Nat
  BY <1>0, FaceAssumption DEF FaceTyped
<1>b. \A n \in Nat : n # None
  BY FaceAssumption
<1>1. CASE UNCHANGED <<delivered, outgoing, dropped, order, consumed, receiver>>
  BY <1>0, <1>1 DEF OrdersFollow
<1>2. CASE PassOn
  <2> DEFINE h == Head(outgoing)
             t == Tail(outgoing)
  <2>1. outgoing # << >> /\ outgoing \in Seq(Numbers) /\ delivered \in Seq(Numbers)
    BY <1>0, <1>2 DEF PassOn, PolledIsThere, FaceTyped
  <2>2. h \in Numbers /\ t \in Seq(Numbers) /\ ToSet(outgoing) = {h} \union ToSet(t)
    BY <2>1, ToSetTail
  <2>3. Increasing(t) /\ \A y \in ToSet(t) : h < y
    BY <1>0, <2>1, IncreasingTail DEF OrdersFollow
  <2>4. /\ outgoing' = t /\ UNCHANGED <<order, consumed, receiver>>
        /\ \/ delivered' = Append(delivered, h) /\ dropped' = dropped
           \/ delivered' = delivered /\ dropped' = dropped \union {h}
    BY <1>2 DEF PassOn, broker
  <2> HIDE DEF h, t
  <2>5. CASE delivered' = Append(delivered, h) /\ dropped' = dropped
    <3>1. ToSet(delivered') = ToSet(delivered) \union {h}
      BY <2>1, <2>2, <2>5, ToSetAppend
    <3>2. \A x \in ToSet(delivered) : x < h
      BY <1>0, <2>2 DEF OrdersFollow
    <3>3. Increasing(delivered')
      BY <1>0, <2>1, <2>2, <2>5, <3>2, IncreasingAppend DEF OrdersFollow
    <3>4. \A x \in ToSet(delivered'), y \in ToSet(outgoing') : x < y
      BY <1>0, <2>2, <2>3, <2>4, <3>1 DEF OrdersFollow
    <3>5. ToSet(delivered') \union ToSet(outgoing') = ToSet(delivered) \union ToSet(outgoing)
      BY <2>2, <2>4, <3>1
    <3>. QED BY <1>0, <2>3, <2>4, <2>5, <3>3, <3>4, <3>5 DEF OrdersFollow
  <2>6. CASE delivered' = delivered /\ dropped' = dropped \union {h}
    BY <1>0, <2>2, <2>3, <2>4, <2>6 DEF OrdersFollow
  <2>. QED BY <2>4, <2>5, <2>6
<1>3. CASE Consume
  <2> DEFINE n == consumed + 1
  <2>1. /\ consumed' = n /\ order' = n /\ receiver' = "deliver" /\ receiver = "consume"
        /\ UNCHANGED <<delivered, outgoing, dropped>>
    BY <1>3 DEF Consume, down
  <2>2. n # None /\ n # 0 /\ n \notin 1 .. consumed /\ 1 .. n = 1 .. consumed \union {n}
    BY <1>a, <1>b
  <2> HIDE DEF n
  <2>3. ToSet(delivered) \union ToSet(outgoing) \union dropped = 1 .. consumed
    BY <1>0, <2>1 DEF OrdersFollow
  <2>4. n \notin ToSet(delivered) \union ToSet(outgoing)
    BY <2>2, <2>3
  <2>5. ToSet(delivered) \union ToSet(outgoing) \union dropped \union ({n} \ {None}) = 1 .. n
    BY <2>2, <2>3
  <2>. QED BY <1>0, <2>1, <2>2, <2>4, <2>5 DEF OrdersFollow
<1>4. CASE Deliver
  <2>1. /\ outgoing' = Append(outgoing, order) /\ order' = None /\ receiver' = "consume"
        /\ receiver = "deliver" /\ UNCHANGED <<delivered, dropped, consumed>>
    BY <1>4 DEF Deliver
  <2>2. /\ order \in Numbers /\ order = consumed /\ order # None
        /\ order \notin ToSet(delivered) \union ToSet(outgoing)
    BY <1>0, <1>a, <1>b, <2>1 DEF OrdersFollow, Numbers
  <2>3. ToSet(outgoing') = ToSet(outgoing) \union {order}
    BY <1>0, <2>1, <2>2, ToSetAppend DEF FaceTyped
  <2>4. \A x \in ToSet(delivered) \union ToSet(outgoing) : x < order
    <3>1. \A x \in ToSet(delivered) \union ToSet(outgoing) : x \in 1 .. consumed /\ x # consumed
      BY <1>0, <2>2 DEF OrdersFollow
    <3>2. \A x \in 1 .. consumed : x # consumed => x < consumed
      BY <1>a
    <3>. QED BY <2>2, <3>1, <3>2
  <2>5. Increasing(outgoing')
    BY <1>0, <2>1, <2>2, <2>4, IncreasingAppend DEF OrdersFollow, FaceTyped
  <2>6. \A x \in ToSet(delivered'), y \in ToSet(outgoing') : x < y
    BY <1>0, <2>1, <2>3, <2>4 DEF OrdersFollow
  <2>. QED BY <1>0, <2>1, <2>2, <2>3, <2>5, <2>6 DEF OrdersFollow
<1>5. CASE NoRecipient \/ ReceiverFails
  <2>1. /\ dropped' = dropped \union ({order} \ {None}) /\ order' = None /\ receiver' # "deliver"
        /\ UNCHANGED <<delivered, outgoing, consumed>>
    BY <1>0, <1>5, <1>a, <1>b DEF NoRecipient, ReceiverFails, OrdersFollow
  <2>. QED BY <1>0, <2>1 DEF OrdersFollow
<1>6. CASE ReceiverStops
  BY <1>0, <1>6 DEF ReceiverStops, OrdersFollow, down
<1>. QED
  <2>1. Arrive \/ Bind \/ Poll \/ TakeReady \/ Dispatch \/ LeaveLoop \/ BackendsJoined \/ ReadFails
          \/ BindFails \/ Signal \/ Main \/ UNCHANGED vars
        => UNCHANGED <<delivered, outgoing, dropped, order, consumed, receiver>>
    BY DEF Arrive, Bind, Poll, TakeReady, Dispatch, LeaveLoop, BackendsJoined, ReadFails, BindFails,
       Signal, Main, RunReturns, ReceiverJoined, StopAgents, WorkerJoined, vars, broker, down
  <2>2. ASSUME NEW b \in Backends,
               \/ Connect(b) \/ ConnectFails(b) \/ Receive(b) \/ Publish(b) \/ PublishFails(b)
               \/ PublishIsFatal(b) \/ MemoryIsLost(b) \/ BackendEnds(b)
        PROVE  UNCHANGED <<delivered, outgoing, dropped, order, consumed, receiver>>
    BY <2>2 DEF Connect, ConnectFails, Receive, Publish, PublishFails, PublishIsFatal, MemoryIsLost,
       BackendEnds, broker, down
  <2>. QED
    BY <1>1, <1>2, <1>3, <1>4, <1>5, <1>6, <2>1, <2>2 DEF Next, Worker

(* Every step keeps the invariant.                                         *)
LEMMA StepFInv == FInv /\ [Next]_vars => FInv'
<1>. QED
  BY FaceTypesKept, ControlKept, PolledKept, OffersKept, MessagesKept, LostKept, OrdersKept DEF FInv

(* The invariant holds of everything the router process can do.            *)
THEOREM FInvHolds == Spec => []FInv
<1> QED BY InitFInv, StepFInv, PTL DEF Spec

-----------------------------------------------------------------------------
(* The variables of the router process take the values they should         *)
(* (zeromq_agent_face.cpp, rabbit_mq_face.cpp).                            *)
THEOREM FaceTypeCorrect == Spec => []TypeOK
<1>1. ASSUME FInv PROVE TypeOK
  <2> USE <1>1 DEF FInv
  <2>1. /\ ToSet(inbox) \subseteq 1 .. arrived /\ Held \subseteq 1 .. arrived
        /\ ToSet(published) \subseteq 1 .. arrived /\ lost \subseteq 1 .. arrived
    BY DEF MessagesDivided
  <2>2. /\ ToSet(outgoing) \subseteq 1 .. consumed /\ ToSet(delivered) \subseteq 1 .. consumed
        /\ dropped \subseteq 1 .. consumed /\ order \in 1 .. consumed \union {None}
    BY DEF OrdersFollow
  <2>3. /\ inbox \in Seq(1 .. arrived) /\ published \in Seq(1 .. arrived)
        /\ outgoing \in Seq(1 .. consumed) /\ delivered \in Seq(1 .. consumed)
    BY <2>1, <2>2, SeqOfFewer DEF FaceTyped
  <2>4. work \in [Backends -> (1 .. arrived) \union {None}]
    BY <2>1 DEF Held, FaceTyped
  <2>. QED BY <2>1, <2>2, <2>3, <2>4 DEF FaceTyped, ControlTyped, TypeOK
<1>. QED BY <1>1, FInvHolds, PTL

(* No back-end is on offer twice or with work.                             *)
LEMMA FInvOneRole ==
  ASSUME FInv
  PROVE  OneRole
<1>1. /\ ready \in Seq(Backends) /\ announced \in Seq(Backends)
      /\ IsInjective(ready) /\ IsInjective(announced)
      /\ ToSet(ready) \intersect ToSet(announced) = {}
  BY DEF FInv, FaceTyped, OffersIdle
<1>2. ToSet(ready \o announced) = Offered /\ IsInjective(ready \o announced)
  BY <1>1, ToSetConcat DEF Offered
<1>. QED BY <1>2 DEF FInv, OffersIdle, PolledIsThere, OneRole

(* The invariant gives account of all messages and orders.                 *)
LEMMA FInvAccounted ==
  ASSUME FInv
  PROVE  Accounted
<1> DEFINE held == {b \in Backends : work[b] # None}
           places == <<ToSet(inbox), {work[b] : b \in held}, ToSet(published), lost>>
<1>1. OneRole
  BY FInvOneRole
<1>2. IsInjective(inbox \o published)
  BY ToSetConcat DEF FInv, FaceTyped, MessagesDivided
<1>3. IsInjective(Restrict(work, held))
  BY DEF FInv, MessagesDivided, IsInjective, Restrict
<1>4. {work[b] : b \in held} = Held
  BY DEF Held
<1>5. UNION Range(places) = 1 .. arrived
  <2>1. DOMAIN places = 1 .. 4
    OBVIOUS
  <2>2. Range(places) = {ToSet(inbox), Held, ToSet(published), lost}
    <3>1. places[1] = ToSet(inbox) /\ places[2] = Held /\ places[3] = ToSet(published) /\ places[4] = lost
      BY <1>4
    <3>2. 1 .. 4 = {1, 2, 3, 4}
      OBVIOUS
    <3> HIDE DEF places
    <3>. QED BY <2>1, <3>1, <3>2 DEF Range
  <2>. QED BY <2>2 DEF FInv, MessagesDivided
<1>6. \A i, j \in 1 .. 4 : i # j => places[i] \cap places[j] = {}
  <2>1. places[1] = ToSet(inbox) /\ places[2] = Held /\ places[3] = ToSet(published) /\ places[4] = lost
    BY <1>4
  <2>2. 1 .. 4 = {1, 2, 3, 4}
    OBVIOUS
  <2> HIDE DEF places
  <2>. QED BY <2>1, <2>2 DEF FInv, MessagesDivided
<1>7. IsSorted(delivered \o outgoing, <)
  <2>1. Increasing(delivered \o outgoing)
    BY IncreasingConcat DEF FInv, FaceTyped, OrdersFollow
  <2>. QED BY <2>1 DEF IsSorted, Increasing
<1>8. ToSet(delivered \o outgoing) \union dropped \union ({order} \ {None}) = 1 .. consumed
  BY ToSetConcat DEF FInv, FaceTyped, OrdersFollow
<1>9. lost = {} \/ failed # {} \/ stopAgents
  BY DEF FInv, LostByError
<1>. QED
  BY <1>1, <1>2, <1>3, <1>5, <1>6, <1>7, <1>8, <1>9 DEF Accounted

(* A message of an agent is in one place - before the worker, with one     *)
(* back-end, published once, or given up with an error or when the face    *)
(* stops - and orders are passed on once and in the order in which they    *)
(* were consumed, or dropped (backend_main and worker_main of              *)
(* zeromq_agent_face.cpp, receiver_main of rabbit_mq_face.cpp).            *)
THEOREM MessagesAreAccounted == Spec => []Accounted
<1> QED BY FInvAccounted, FInvHolds, PTL

=================================================================================
