-------------------------- MODULE ProfileFormProofs --------------------------
(***************************************************************************)
(* A profile that is opened in the form and saved again keeps its          *)
(* proposals, whatever the catalogue of groups and however many are ticked.*)
(***************************************************************************)
EXTENDS ProfileForm, FiniteSetTheorems, TLAPS

-----------------------------------------------------------------------------
(* Arithmetic: a number and its digits.                                     *)

LEMMA Digits ==
  ASSUME NEW d \in Nat \ {0}, NEW q \in Nat, NEW r \in 0 .. d - 1
  PROVE  (q * d + r) \div d = q /\ (q * d + r) % d = r
OBVIOUS

LEMMA Divided ==
  ASSUME NEW d \in Nat \ {0}, NEW m \in Nat
  PROVE  /\ m \div d \in Nat /\ m % d \in 0 .. d - 1
         /\ m = (m \div d) * d + (m % d)
OBVIOUS

LEMMA Below ==
  ASSUME NEW a \in Nat, NEW d \in Nat \ {0}, NEW q \in Nat, NEW r \in 0 .. d - 1
  PROVE  q * d + r < a * d <=> q < a
OBVIOUS

-----------------------------------------------------------------------------
(* Places in order.                                                         *)

Increasing(f, m) ==
  /\ f \in [1 .. m -> Nat]
  /\ \A i, j \in 1 .. m : i < j => f[i] < f[j]

LEMMA ImageCardinality ==
  ASSUME NEW m \in Nat, NEW f, Increasing(f, m), NEW k \in 0 .. m
  PROVE  Cardinality({f[i] : i \in 1 .. k}) = k
<1> DEFINE T == {f[i] : i \in 1 .. k}
           g == [i \in 1 .. k |-> f[i]]
<1>1. IsFiniteSet(1 .. k) /\ Cardinality(1 .. k) = k
  BY FS_Interval
<1>2. \A i, j \in 1 .. k : f[i] = f[j] => i = j
  BY DEF Increasing
<1>3. g \in Injection(1 .. k, T) /\ g \in Surjection(1 .. k, T)
  BY <1>2 DEF Injection, Surjection, IsInjective
<1>4. ExistsBijection(1 .. k, T)
  BY <1>3 DEF ExistsBijection, Bijection
<1> QED BY <1>1, <1>4, FS_Bijection

\* A set is listed in order by the increasing function whose image it is.
LEMMA InOrderIs ==
  ASSUME NEW m \in Nat, NEW f, Increasing(f, m), NEW S, S = {f[i] : i \in 1 .. m}
  PROVE  InOrder(S) = f
<1>1. Cardinality(S) = m
  BY ImageCardinality
<1> DEFINE before == [i \in S |-> Cardinality({j \in S : j < i})]
<1>2. ASSUME NEW k \in 1 .. m PROVE before[f[k]] = k - 1
  <2>1. {j \in S : j < f[k]} = {f[i] : i \in 1 .. k - 1}
    BY <1>2 DEF Increasing
  <2>2. Cardinality({f[i] : i \in 1 .. k - 1}) = k - 1
    BY <1>2, ImageCardinality
  <2>3. f[k] \in S
    BY <1>2
  <2> QED BY <2>1, <2>2, <2>3
<1>3. InOrder(S) = [k \in 1 .. m |-> CHOOSE i \in S : before[i] = k - 1]
  BY <1>1 DEF InOrder
<1> HIDE DEF before
<1>4. ASSUME NEW k \in 1 .. m PROVE (CHOOSE i \in S : before[i] = k - 1) = f[k]
  <2>1. f[k] \in S /\ before[f[k]] = k - 1
    BY <1>2, <1>4
  <2>2. \A i \in S : before[i] = k - 1 => i = f[k]
    BY <1>2, <1>4
  <2> QED BY <2>1, <2>2
<1>5. f = [k \in 1 .. m |-> f[k]]
  BY DEF Increasing
<1> QED BY <1>3, <1>4, <1>5

\* What stands at i has not occurred before.
Fresh(s, i) == \A j \in 1 .. i - 1 : s[j] # s[i]

\* f lists the places of a list at which something occurs first.
Places(s, f, m) ==
  /\ Increasing(f, m)
  /\ \A k \in 1 .. m : f[k] \in 1 .. Len(s)
  /\ \A i \in 1 .. Len(s) : Fresh(s, i) <=> \E k \in 1 .. m : f[k] = i

LEMMA UniqueIs ==
  ASSUME NEW s, Len(s) \in Nat, NEW m \in Nat, NEW f, Places(s, f, m)
  PROVE  Unique(s) = [k \in 1 .. m |-> s[f[k]]]
<1> DEFINE first == {i \in 1 .. Len(s) : Fresh(s, i)}
<1>1. first = {f[k] : k \in 1 .. m}
  BY DEF Places
<1> HIDE DEF first
<1>2. InOrder(first) = f
  BY <1>1, InOrderIs DEF Places
<1>3. Unique(s) = [k \in 1 .. Len(InOrder(first)) |-> s[InOrder(first)[k]]]
  BY DEF Unique, Each, first, Fresh
<1>4. Len(f) = m
  BY DEF Places, Increasing
<1> QED BY <1>2, <1>3, <1>4

\* Nothing is left out of a list without repetitions.
LEMMA UniqueTicked ==
  ASSUME NEW S, NEW s \in Seq(S), Ticked(s) PROVE Unique(s) = s
<1> DEFINE m == Len(s)
           f == [k \in 1 .. m |-> k]
<1>1. Increasing(f, m) /\ \A k \in 1 .. m : f[k] = k
  BY DEF Increasing
<1> HIDE DEF f
<1>2. m \in Nat /\ Places(s, f, m)
  BY <1>1 DEF Places, Fresh, Ticked
<1>3. Unique(s) = [k \in 1 .. m |-> s[f[k]]]
  BY <1>2, UniqueIs
<1>4. [k \in 1 .. m |-> s[f[k]]] = [k \in 1 .. m |-> s[k]]
  BY <1>1
<1>5. s = [k \in 1 .. m |-> s[k]]
  OBVIOUS
<1> QED BY <1>3, <1>4, <1>5

LEMMA InOrderAll ==
  ASSUME NEW m \in Nat PROVE InOrder(1 .. m) = [k \in 1 .. m |-> k]
<1> DEFINE f == [k \in 1 .. m |-> k]
<1>1. Increasing(f, m) /\ 1 .. m = {f[i] : i \in 1 .. m}
  BY DEF Increasing
<1> HIDE DEF f
<1>2. InOrder(1 .. m) = f
  BY <1>1, InOrderIs
<1> QED BY <1>2 DEF f

-----------------------------------------------------------------------------
(* The nested loops: the outer ones give a number q, and for each q the     *)
(* innermost one runs through c.                                            *)

LEMMA NestedDiv ==
  ASSUME NEW i \in Nat \ {0}, NEW g \in Nat \ {0}, NEW m \in Nat
  PROVE  m \div (i * g) = (m \div g) \div i
<1> DEFINE q == m \div g
           c == m % g
           a == q \div i
           b == q % i
<1>1. q \in Nat /\ c \in 0 .. g - 1 /\ m = q * g + c
  BY Divided
<1>2. a \in Nat /\ b \in 0 .. i - 1 /\ q = a * i + b
  BY <1>1, Divided
<1> HIDE DEF q, c, a, b
<1>3. i * g \in Nat \ {0}
  OBVIOUS
<1>4. b * g + c \in 0 .. i * g - 1
  <2>1. b * g + c \in Nat
    BY <1>1, <1>2
  <2>2. b * g + c < i * g
    BY <1>1, <1>2, Below
  <2> QED BY <1>3, <2>1, <2>2
<1>5. m = a * (i * g) + (b * g + c)
  <2>1. (a * i + b) * g = a * (i * g) + b * g
    BY <1>1, <1>2
  <2> QED BY <1>1, <1>2, <2>1
<1>6. m \div (i * g) = a
  <2>1. PICK d, r : d = i * g /\ r = b * g + c
    OBVIOUS
  <2>2. d \in Nat \ {0} /\ r \in 0 .. d - 1 /\ m = a * d + r
    BY <1>3, <1>4, <1>5, <2>1
  <2>3. m \div d = a
    BY <1>2, <2>2, Digits
  <2> QED BY <2>1, <2>3
<1> QED BY <1>6 DEF a, q

LEMMA Cyclic ==
  ASSUME NEW d \in Nat \ {0}, NEW q \in Nat, q >= d PROVE (q - d) % d = q % d
<1>1. PICK a, b : a = q \div d /\ b = q % d
  OBVIOUS
<1>2. a \in Nat /\ b \in 0 .. d - 1 /\ q = a * d + b
  BY <1>1, Divided
<1>3. a # 0
  BY <1>2
<1>4. PICK e \in Nat : e = a - 1 /\ q - d = e * d + b
  BY <1>2, <1>3
<1>5. (e * d + b) % d = b
  BY <1>2, <1>4, Digits
<1> QED BY <1>1, <1>4, <1>5

LEMMA Small ==
  ASSUME NEW d \in Nat \ {0}, NEW q \in 0 .. d - 1 PROVE q % d = q /\ q \div d = 0
<1>1. q = 0 * d + q
  OBVIOUS
<1> QED BY <1>1, Digits

\* The k-th round of m times g, taken apart, ...
LEMMA Apart ==
  ASSUME NEW m \in Nat, NEW g \in Nat \ {0}, NEW k \in 1 .. m * g
  PROVE  LET q == (k - 1) \div g  c == (k - 1) % g IN
         q \in 0 .. m - 1 /\ c \in 0 .. g - 1 /\ k = q * g + c + 1
<1>1. PICK q, c : q = (k - 1) \div g /\ c = (k - 1) % g
  OBVIOUS
<1>2. k - 1 \in Nat /\ k - 1 < m * g
  OBVIOUS
<1>3. q \in Nat /\ c \in 0 .. g - 1 /\ k - 1 = q * g + c
  BY <1>1, <1>2, Divided
<1>4. q < m
  BY <1>2, <1>3, Below
<1>5. k = q * g + c + 1
  BY <1>3
<1> QED BY <1>1, <1>3, <1>4, <1>5

\* ... and put together.
LEMMA Together ==
  ASSUME NEW m \in Nat, NEW g \in Nat \ {0}, NEW q \in 0 .. m - 1, NEW c \in 0 .. g - 1,
         NEW k, k = q * g + c + 1
  PROVE  k \in 1 .. m * g /\ (k - 1) \div g = q /\ (k - 1) % g = c
<1>1. k - 1 = q * g + c /\ k \in Nat \ {0}
  OBVIOUS
<1>2. q * g + c < m * g
  BY Below
<1> QED BY <1>1, <1>2, Digits

\* s is what m rounds through t list when there are g rounds within each.
Rounds(s, t, m, g) ==
  /\ Len(s) = m * g
  /\ \A k \in 1 .. m * g : s[k] = t[(((k - 1) \div g) % Len(t)) + 1]

\* What comes again, in the rounds within or after all of t, is left out.
LEMMA UniqueRounds ==
  ASSUME NEW S, NEW t \in Seq(S), Ticked(t), t # <<>>,
         NEW m \in Nat, m >= Len(t), NEW g \in Nat \ {0},
         NEW s, Rounds(s, t, m, g)
  PROVE  Unique(s) = t
<1> DEFINE n == Len(t)
           f == [b \in 1 .. n |-> (b - 1) * g + 1]
<1>1. n \in Nat \ {0} /\ m * g \in Nat
  OBVIOUS
<1>2. \A b \in 1 .. n : f[b] = (b - 1) * g + 1
  OBVIOUS
<1>3. \A b \in 1 .. n : /\ f[b] \in 1 .. m * g /\ (f[b] - 1) \div g = b - 1
                        /\ s[f[b]] = t[b]
  <2> SUFFICES ASSUME NEW b \in 1 .. n
               PROVE  /\ f[b] \in 1 .. m * g /\ (f[b] - 1) \div g = b - 1
                      /\ s[f[b]] = t[b]
    OBVIOUS
  <2>1. PICK q, k : q = b - 1 /\ k = f[b]
    OBVIOUS
  <2>2. q \in 0 .. m - 1 /\ q \in 0 .. n - 1 /\ k = q * g + 0 + 1 /\ 0 \in 0 .. g - 1
    BY <1>1, <1>2, <2>1
  <2> HIDE DEF f, n
  <2>6. k \in 1 .. m * g /\ (k - 1) \div g = q
    BY <2>2, Together
  <2>7. q % n = q
    BY <1>1, <2>2, Small
  <2>8. f[b] \in 1 .. m * g /\ (f[b] - 1) \div g = b - 1 /\ (b - 1) % n = b - 1
    BY <2>1, <2>6, <2>7
  <2>4. s[f[b]] = t[(((f[b] - 1) \div g) % n) + 1]
    BY <2>8 DEF n, Rounds
  <2>5. s[f[b]] = t[(b - 1) + 1]
    BY <2>8, <2>4
  <2> QED BY <2>8, <2>5
<1>4. Increasing(f, n)
  <2>1. f \in [1 .. n -> Nat]
    OBVIOUS
  <2>2. ASSUME NEW i \in 1 .. n, NEW j \in 1 .. n, i < j PROVE f[i] < f[j]
    <3>1. (i - 1) * g + 0 < (j - 1) * g
      BY <2>2, Below
    <3>2. (i - 1) * g \in Nat /\ (j - 1) * g \in Nat
      BY <2>2
    <3> QED BY <1>2, <2>2, <3>1, <3>2
  <2> QED BY <2>1, <2>2 DEF Increasing
<1> HIDE DEF f, n
<1>5. ASSUME NEW b \in 1 .. n PROVE Fresh(s, f[b])
  <2> SUFFICES ASSUME NEW j \in 1 .. f[b] - 1 PROVE s[j] # s[f[b]]
    BY DEF Fresh
  <2>1. j \in 1 .. m * g
    BY <1>1, <1>3, <1>5
  <2>2. PICK q, c : q = (j - 1) \div g /\ c = (j - 1) % g
    OBVIOUS
  <2>3. q \in 0 .. m - 1 /\ c \in 0 .. g - 1 /\ j = q * g + c + 1
    BY <2>1, <2>2, Apart
  <2>4. q < b - 1
    <3>1. PICK a \in Nat : a = b - 1
      BY <1>1, <1>5
    <3>2. f[b] = a * g + 1 /\ a * g \in Nat
      BY <1>2, <1>5, <3>1
    <3>3. q * g + c < a * g
      BY <1>1, <2>3, <3>2
    <3> QED BY <2>3, <3>1, <3>3, Below
  <2>5. q % n = q
    <3>1. q \in 0 .. n - 1
      BY <1>1, <1>5, <2>3, <2>4
    <3> QED BY <1>1, <3>1, Small
  <2>6. s[j] = t[q + 1]
    BY <2>1, <2>2, <2>5 DEF n, Rounds
  <2>7. q + 1 \in 1 .. n /\ q + 1 # b
    BY <1>1, <1>5, <2>3, <2>4
  <2> QED BY <1>3, <1>5, <2>6, <2>7 DEF Ticked, n
<1>6. ASSUME NEW i \in 1 .. m * g, Fresh(s, i) PROVE \E b \in 1 .. n : f[b] = i
  <2>1. PICK q, c : q = (i - 1) \div g /\ c = (i - 1) % g
    OBVIOUS
  <2>2. q \in 0 .. m - 1 /\ c \in 0 .. g - 1 /\ i = q * g + c + 1
    BY <1>6, <2>1, Apart
  <2>3. s[i] = t[(q % n) + 1]
    BY <1>6, <2>1 DEF n, Rounds
  <2>4. c = 0
    <3>1. SUFFICES ASSUME c # 0 PROVE FALSE
      OBVIOUS
    <3>2. PICK d, j : d = c - 1 /\ j = i - 1
      OBVIOUS
    <3>3. d \in 0 .. g - 1 /\ j = q * g + d + 1 /\ j \in 1 .. i - 1
      BY <2>2, <3>1, <3>2
    <3>4. j \in 1 .. m * g /\ (j - 1) \div g = q
      BY <2>2, <3>3, Together
    <3>5. s[j] = t[(q % n) + 1]
      BY <3>4 DEF n, Rounds
    <3> QED BY <1>6, <2>3, <3>3, <3>5 DEF Fresh
  <2>5. q < n
    <3>1. SUFFICES ASSUME q >= n PROVE FALSE
      BY <1>1, <2>2
    <3>2. PICK p, j : p = q - n /\ j = p * g + 0 + 1
      OBVIOUS
    <3>3. p \in 0 .. m - 1 /\ 0 \in 0 .. g - 1 /\ p < q
      BY <1>1, <2>2, <3>1, <3>2
    <3>4. j \in 1 .. m * g /\ (j - 1) \div g = p
      <4>1. p \in 0 .. m - 1 /\ 0 \in 0 .. g - 1 /\ j = p * g + 0 + 1
        BY <3>2, <3>3
      <4> QED BY <4>1, Together
    <3>5. s[j] = t[(p % n) + 1]
      BY <3>4 DEF n, Rounds
    <3>6. p % n = q % n
      <4>1. q \in Nat /\ q >= n /\ n \in Nat \ {0}
        BY <1>1, <2>2, <3>1
      <4>2. (q - n) % n = q % n
        BY <4>1, Cyclic
      <4> QED BY <3>2, <4>2
    <3>7. j \in 1 .. i - 1
      <4>1. p * g + 0 < q * g
        BY <2>2, <3>3, Below
      <4>2. p * g \in Nat /\ q * g \in Nat
        BY <2>2, <3>3
      <4> QED BY <2>2, <2>4, <3>2, <4>1, <4>2
    <3> QED BY <1>6, <2>3, <3>4, <3>5, <3>6, <3>7 DEF Fresh
  <2>6. q + 1 \in 1 .. n /\ f[q + 1] = i
    BY <1>1, <1>2, <2>2, <2>4, <2>5
  <2> QED BY <2>6
<1>7. Places(s, f, n)
  BY <1>3, <1>4, <1>5, <1>6 DEF Places, Rounds
<1>8. Unique(s) = [b \in 1 .. n |-> s[f[b]]]
  <2>1. Len(s) \in Nat /\ n \in Nat
    BY <1>1 DEF Rounds
  <2> QED BY <1>7, <2>1, UniqueIs
<1>9. [b \in 1 .. n |-> s[f[b]]] = [b \in 1 .. n |-> t[b]]
  BY <1>3
<1>10. t = [b \in 1 .. n |-> t[b]]
  BY DEF n
<1> QED BY <1>8, <1>9, <1>10

\* s is r with each of its m rounds of g listed w times in a row.
Again(s, r, m, g, h) ==
  /\ Len(s) = m * h
  /\ \A k \in 1 .. m * h :
       s[k] = r[((k - 1) \div h) * g + (((k - 1) % h) % g) + 1]

\* What is listed again is left out.
LEMMA UniqueAgain ==
  ASSUME NEW m \in Nat, NEW g \in Nat \ {0}, NEW w \in Nat \ {0}, NEW h, h = w * g,
         NEW S, NEW r \in Seq(S), Ticked(r), Len(r) = m * g,
         NEW s, Again(s, r, m, g, h)
  PROVE  Unique(s) = r
<1> DEFINE n == m * g
           f == [k \in 1 .. n |-> ((k - 1) \div g) * h + ((k - 1) % g) + 1]
<1>1. n \in Nat /\ h \in Nat \ {0} /\ g <= h
  <2>1. PICK e \in Nat : w = e + 1
    OBVIOUS
  <2>2. h = e * g + g /\ e * g \in Nat
    BY <2>1
  <2> QED BY <2>2
<1>2. \A k \in 1 .. n : f[k] = ((k - 1) \div g) * h + ((k - 1) % g) + 1
  OBVIOUS
<1> HIDE DEF f
<1>3. ASSUME NEW k \in 1 .. n
      PROVE  \E q \in 0 .. m - 1, c \in 0 .. g - 1 :
               /\ k = q * g + c + 1 /\ (k - 1) \div g = q /\ (k - 1) % g = c
               /\ f[k] = q * h + c + 1 /\ f[k] \in 1 .. m * h /\ s[f[k]] = r[k]
  <2>1. PICK q, c, i : q = (k - 1) \div g /\ c = (k - 1) % g /\ i = f[k]
    OBVIOUS
  <2>2. q \in 0 .. m - 1 /\ c \in 0 .. g - 1 /\ k = q * g + c + 1
    BY <1>3, <2>1, Apart
  <2>3. i = q * h + c + 1
    BY <1>2, <1>3, <2>1
  <2>4. c \in 0 .. h - 1
    BY <1>1, <2>2
  <2>5. i \in 1 .. m * h /\ (i - 1) \div h = q /\ (i - 1) % h = c
    BY <1>1, <2>2, <2>3, <2>4, Together
  <2>6. c % g = c
    BY <2>2, Small
  <2>7. s[i] = r[q * g + c + 1]
    BY <2>5, <2>6 DEF Again
  <2> QED BY <2>1, <2>2, <2>3, <2>5, <2>7
<1> HIDE DEF n
<1>4. Increasing(f, n)
  <2>1. f \in [1 .. n -> Nat]
    <3>1. \A k \in 1 .. n : f[k] \in Nat
      <4> SUFFICES ASSUME NEW k \in 1 .. n PROVE f[k] \in Nat
        OBVIOUS
      <4>1. f[k] \in 1 .. m * h
        BY <1>3
      <4> QED BY <1>1, <4>1
    <3>2. f = [k \in 1 .. n |-> f[k]]
      BY DEF f
    <3> QED BY <3>1, <3>2
  <2>2. ASSUME NEW i \in 1 .. n, NEW j \in 1 .. n, i < j PROVE f[i] < f[j]
    <3>1. PICK p \in 0 .. m - 1, b \in 0 .. g - 1 : 
            i = p * g + b + 1 /\ f[i] = p * h + b + 1
      BY <1>3
    <3>2. PICK q \in 0 .. m - 1, c \in 0 .. g - 1 : 
            j = q * g + c + 1 /\ f[j] = q * h + c + 1
      BY <1>3
    <3>4. p * h \in Nat /\ q * h \in Nat
      BY <1>1, <3>1, <3>2
    <3>5. CASE p = q
      BY <2>2, <3>1, <3>2, <3>4, <3>5
    <3>6. CASE p < q
      <4>1. b \in 0 .. h - 1
        BY <1>1, <3>1
      <4>2. p * h + b < q * h
        BY <1>1, <3>1, <3>2, <3>6, <4>1, Below
      <4> QED BY <3>1, <3>2, <3>4, <4>2
    <3>7. CASE q < p
      <4>1. q * g + c < p * g
        BY <3>1, <3>2, <3>7, Below
      <4>2. q * g \in Nat /\ p * g \in Nat
        BY <3>1, <3>2
      <4> QED BY <2>2, <3>1, <3>2, <4>1, <4>2
    <3> QED BY <3>1, <3>2, <3>5, <3>6, <3>7
  <2> QED BY <2>1, <2>2 DEF Increasing
<1>5. ASSUME NEW i \in 1 .. m * h
      PROVE  \E q \in 0 .. m - 1, v \in 0 .. h - 1 :
               /\ i = q * h + v + 1 /\ v % g \in 0 .. g - 1
               /\ s[i] = r[q * g + (v % g) + 1]
  <2>1. PICK q, v : q = (i - 1) \div h /\ v = (i - 1) % h
    OBVIOUS
  <2>2. q \in 0 .. m - 1 /\ v \in 0 .. h - 1 /\ i = q * h + v + 1
    BY <1>1, <1>5, <2>1, Apart
  <2>3. s[i] = r[q * g + (v % g) + 1]
    BY <1>5, <2>1 DEF Again
  <2>4. v % g \in 0 .. g - 1
    <3>1. v \in Nat
      BY <1>1, <2>2
    <3> QED BY <3>1, Divided
  <2> QED BY <2>2, <2>3, <2>4
<1>6. ASSUME NEW k \in 1 .. n PROVE Fresh(s, f[k])
  <2> SUFFICES ASSUME NEW j \in 1 .. f[k] - 1 PROVE s[j] # s[f[k]]
    BY DEF Fresh
  <2>1. PICK q \in 0 .. m - 1, c \in 0 .. g - 1 :
          (k - 1) \div g = q /\ (k - 1) % g = c /\ f[k] = q * h + c + 1
    BY <1>3, <1>6
  <2>2. f[k] \in 1 .. m * h /\ s[f[k]] = r[k]
    BY <1>3, <1>6
  <2>3. j \in 1 .. m * h
    BY <1>1, <2>2
  <2>4. PICK p \in 0 .. m - 1, v \in 0 .. h - 1 :
          /\ j = p * h + v + 1 /\ v % g \in 0 .. g - 1
          /\ s[j] = r[p * g + (v % g) + 1]
    BY <1>5, <2>3
  <2>5. PICK l, d : d = v % g /\ l = p * g + d + 1
    OBVIOUS
  <2>6. d \in 0 .. g - 1 /\ l \in 1 .. n /\ (l - 1) \div g = p /\ (l - 1) % g = d
    <3>1. d \in 0 .. g - 1 /\ l = p * g + d + 1
      BY <2>4, <2>5
    <3> QED BY <3>1, Together DEF n
  <2>8. l # k
    <3>1. SUFFICES ASSUME p = q, d = c PROVE FALSE
      BY <2>1, <2>6
    <3>2. v < c
      BY <1>1, <2>1, <2>2, <2>4, <3>1
    <3>3. v \in 0 .. g - 1
      BY <1>1, <2>1, <2>4, <3>2
    <3>4. v % g = v
      BY <3>3, Small
    <3> QED BY <2>5, <3>1, <3>2, <3>4
  <2> QED BY <1>6, <2>2, <2>4, <2>5, <2>6, <2>8 DEF Ticked, n
<1>7. ASSUME NEW i \in 1 .. m * h, Fresh(s, i) PROVE \E k \in 1 .. n : f[k] = i
  <2>1. PICK q \in 0 .. m - 1, v \in 0 .. h - 1 :
          /\ i = q * h + v + 1 /\ v % g \in 0 .. g - 1
          /\ s[i] = r[q * g + (v % g) + 1]
    BY <1>5, <1>7
  <2>2. v < g
    <3>1. SUFFICES ASSUME v >= g PROVE FALSE
      BY <1>1, <2>1
    <3>2. PICK u, j : u = v - g /\ j = i - g
      OBVIOUS
    <3>3. u \in 0 .. h - 1 /\ j = q * h + u + 1 /\ j \in 1 .. i - 1
      <4>1. q * h \in Nat
        BY <1>1, <2>1
      <4>2. u \in 0 .. h - 1
        <5>1. v \in Nat /\ v <= h - 1
          BY <1>1, <2>1
        <5>2. u \in Nat /\ u <= v
          BY <3>1, <3>2, <5>1
        <5> QED BY <1>1, <5>1, <5>2
      <4>3. j = q * h + u + 1
        BY <1>1, <2>1, <3>2, <4>1
      <4> QED BY <2>1, <3>2, <4>1, <4>2, <4>3
    <3>4. u % g = v % g
      <4>1. v \in Nat /\ v >= g
        BY <1>1, <2>1, <3>1
      <4>2. (v - g) % g = v % g
        BY <4>1, Cyclic
      <4> QED BY <3>2, <4>2
    <3>5. j \in 1 .. m * h /\ (j - 1) \div h = q /\ (j - 1) % h = u
      <4>1. u \in 0 .. h - 1 /\ j = q * h + u + 1 /\ h \in Nat \ {0}
        BY <1>1, <3>3
      <4> QED BY <4>1, Together
    <3>6. s[j] = r[q * g + (u % g) + 1]
      BY <3>5 DEF Again
    <3> QED BY <1>7, <2>1, <3>3, <3>4, <3>6 DEF Fresh
  <2>3. PICK k : k = q * g + v + 1
    OBVIOUS
  <2>4. v \in 0 .. g - 1
    BY <1>1, <2>1, <2>2
  <2>5. k \in 1 .. n /\ (k - 1) \div g = q /\ (k - 1) % g = v
    BY <2>3, <2>4, Together DEF n
  <2>6. f[k] = q * h + v + 1
    BY <1>2, <2>5
  <2> QED BY <2>1, <2>5, <2>6
<1>8. Places(s, f, n)
  <2>1. \A k \in 1 .. n : f[k] \in 1 .. m * h
    BY <1>3
  <2> QED BY <1>4, <1>6, <1>7, <2>1 DEF Places, Again
<1>9. Unique(s) = [k \in 1 .. n |-> s[f[k]]]
  <2>1. Len(s) \in Nat /\ n \in Nat
    BY <1>1 DEF Again
  <2> QED BY <1>8, <2>1, UniqueIs
<1>10. [k \in 1 .. n |-> s[f[k]]] = [k \in 1 .. n |-> r[k]]
  BY <1>3
<1>11. r = [k \in 1 .. n |-> r[k]]
  BY DEF n
<1> QED BY <1>9, <1>10, <1>11

-----------------------------------------------------------------------------
(* The proposals of three lists, none of which is empty: ks stands for the  *)
(* groups, or for None where none is ticked.                                *)

Listed(cs, is, ks) ==
  /\ cs \in Seq(Ciphers) /\ Ticked(cs) /\ Len(cs) \in Nat \ {0}
  /\ is \in Seq(Integrities) /\ Ticked(is) /\ Len(is) \in Nat \ {0}
  /\ ks # <<>> /\ Ticked(ks) /\ Len(ks) \in Nat \ {0}

Item(cs, is, ks, q, c) ==
  <<cs[(q \div Len(is)) + 1], is[(q % Len(is)) + 1], ks[c + 1]>>

Groups(gs) == IF gs = <<>> THEN <<None>> ELSE gs

Looped(cs, is, ks) ==
  [k \in 1 .. Len(cs) * Len(is) * Len(ks) |->
     Item(cs, is, ks, (k - 1) \div Len(ks), (k - 1) % Len(ks))]

LEMMA CombinationsAre ==
  ASSUME NEW cs, NEW is, NEW gs, Len(cs) \in Nat \ {0}, Len(is) \in Nat \ {0},
         Len(Groups(gs)) \in Nat \ {0}
  PROVE  Combinations(cs, is, gs) = Looped(cs, is, Groups(gs))
<1>1. PICK ks, m, g, i :
        ks = Groups(gs) /\ m = Len(cs) * Len(is) /\ g = Len(ks) /\ i = Len(is)
  OBVIOUS
<1>2. /\ i \in Nat \ {0} /\ g \in Nat \ {0} /\ Len(cs) \in Nat
      /\ m \in Nat /\ m * g \in Nat
  BY <1>1
<1>3. Combinations(cs, is, gs) =
        [k \in 1 .. m * g |-> <<cs[((k - 1) \div (i * g)) + 1],
                                is[(((k - 1) \div g) % i) + 1], ks[((k - 1) % g) + 1]>>]
  BY <1>1 DEF Combinations, Groups
<1>4. ASSUME NEW k \in 1 .. m * g PROVE (k - 1) \div (i * g) = ((k - 1) \div g) \div i
  <2>1. k - 1 \in Nat
    BY <1>2, <1>4
  <2> QED BY <1>2, <2>1, NestedDiv
<1>5. Combinations(cs, is, gs) =
        [k \in 1 .. m * g |-> <<cs[(((k - 1) \div g) \div i) + 1],
                                is[(((k - 1) \div g) % i) + 1], ks[((k - 1) % g) + 1]>>]
  BY <1>3, <1>4
<1> QED BY <1>1, <1>5 DEF Item, Looped

LEMMA ItemDigits ==
  ASSUME NEW cs, NEW is, NEW ks, Listed(cs, is, ks),
         NEW m, m = Len(cs) * Len(is), NEW q \in 0 .. m - 1
  PROVE  (q \div Len(is)) + 1 \in 1 .. Len(cs) /\ (q % Len(is)) + 1 \in 1 .. Len(is)
<1>1. PICK a, i, k : a = Len(cs) /\ i = Len(is) /\ k = q + 1
  OBVIOUS
<1>2. a \in Nat /\ i \in Nat \ {0} /\ m = a * i /\ m \in Nat
  BY <1>1 DEF Listed
<1>3. k \in 1 .. a * i /\ k - 1 = q
  BY <1>1, <1>2
<1>4. (k - 1) \div i \in 0 .. a - 1 /\ (k - 1) % i \in 0 .. i - 1
  BY <1>2, <1>3, Apart
<1>5. q \div i \in 0 .. a - 1 /\ q % i \in 0 .. i - 1
  BY <1>3, <1>4
<1> QED BY <1>1, <1>2, <1>5

\* Different rounds give different proposals.
LEMMA ItemsDiffer ==
  ASSUME NEW cs, NEW is, NEW ks, Listed(cs, is, ks),
         NEW p \in 0 .. Len(cs) * Len(is) - 1, NEW b \in 0 .. Len(ks) - 1,
         NEW q \in 0 .. Len(cs) * Len(is) - 1, NEW c \in 0 .. Len(ks) - 1,
         Item(cs, is, ks, p, b) = Item(cs, is, ks, q, c)
  PROVE  p = q /\ b = c
<1>1. PICK i, m, g : i = Len(is) /\ m = Len(cs) * Len(is) /\ g = Len(ks)
  OBVIOUS
<1>2. /\ cs[(p \div i) + 1] = cs[(q \div i) + 1]
      /\ is[(p % i) + 1] = is[(q % i) + 1] /\ ks[b + 1] = ks[c + 1]
  BY <1>1 DEF Item
<1>3. /\ (p \div i) + 1 \in 1 .. Len(cs) /\ (p % i) + 1 \in 1 .. i
      /\ (q \div i) + 1 \in 1 .. Len(cs) /\ (q % i) + 1 \in 1 .. i
  <2>1. p \in 0 .. m - 1 /\ q \in 0 .. m - 1
    BY <1>1
  <2> QED BY <1>1, <2>1, ItemDigits
<1>4. p \in Nat /\ q \in Nat /\ i \in Nat \ {0} /\ g \in Nat
  BY <1>1 DEF Listed
<1>5. p \div i = q \div i /\ p % i = q % i
  <2>1. (p \div i) + 1 = (q \div i) + 1
    BY <1>2, <1>3 DEF Listed, Ticked
  <2>2. (p % i) + 1 = (q % i) + 1
    BY <1>1, <1>2, <1>3 DEF Listed, Ticked
  <2>3. PICK u, v, x, y : u = p \div i /\ v = q \div i /\ x = p % i /\ y = q % i
    OBVIOUS
  <2>4. u \in Nat /\ v \in Nat /\ x \in Nat /\ y \in Nat
    <3>1. p \div i \in Nat /\ p % i \in 0 .. i - 1 /\ q \div i \in Nat /\ q % i \in 0 .. i - 1
      BY <1>4, Divided
    <3> QED BY <1>4, <2>3, <3>1
  <2>5. u + 1 = v + 1 /\ x + 1 = y + 1
    BY <2>1, <2>2, <2>3
  <2>6. u = v /\ x = y
    BY <2>4, <2>5
  <2> QED BY <2>3, <2>6
<1>6. p = q
  <2>1. p = (p \div i) * i + (p % i) /\ q = (q \div i) * i + (q % i)
    BY <1>4, Divided
  <2> QED BY <1>5, <2>1
<1>7. b = c
  <2>1. b + 1 \in 1 .. Len(ks) /\ c + 1 \in 1 .. Len(ks)
    BY <1>1, <1>4
  <2>2. b + 1 = c + 1
    BY <1>2, <2>1 DEF Listed, Ticked
  <2> QED BY <1>4, <2>2
<1> QED BY <1>6, <1>7

\* So a proposal is built once only.
LEMMA CombinationsTicked ==
  ASSUME NEW cs, NEW is, NEW gs, NEW ks, ks = Groups(gs), Listed(cs, is, ks),
         NEW C, C = Combinations(cs, is, gs)
  PROVE  /\ \E S : C \in Seq(S)
         /\ Len(C) = Len(cs) * Len(is) * Len(ks) /\ Ticked(C) /\ C # <<>>
         /\ BuildProposals(cs, is, gs) = C
<1>1. PICK m, g : m = Len(cs) * Len(is) /\ g = Len(ks)
  OBVIOUS
<1>2. /\ Len(cs) \in Nat \ {0} /\ Len(is) \in Nat \ {0} /\ Len(ks) \in Nat \ {0}
      /\ g \in Nat \ {0}
  BY <1>1 DEF Listed
<1>3. /\ m \in Nat /\ m * g \in Nat
      /\ C = [k \in 1 .. m * g |-> Item(cs, is, ks, (k - 1) \div g, (k - 1) % g)]
  <2>1. C = Looped(cs, is, ks)
    BY <1>2, CombinationsAre
  <2> QED BY <1>1, <1>2, <2>1 DEF Looped
<1>4. PICK S : S = {Item(cs, is, ks, (k - 1) \div g, (k - 1) % g) : k \in 1 .. m * g}
  OBVIOUS
<1>5. C \in Seq(S) /\ Len(C) = m * g
  BY <1>3, <1>4
<1>6. Ticked(C)
  <2> SUFFICES ASSUME NEW i \in 1 .. m * g, NEW j \in 1 .. m * g, C[i] = C[j] PROVE i = j
    BY <1>5 DEF Ticked
  <2>1. PICK p, b : p = (i - 1) \div g /\ b = (i - 1) % g
    OBVIOUS
  <2>2. PICK q, c : q = (j - 1) \div g /\ c = (j - 1) % g
    OBVIOUS
  <2>3. p \in 0 .. m - 1 /\ b \in 0 .. g - 1 /\ i = p * g + b + 1
    BY <1>2, <1>3, <2>1, Apart
  <2>4. q \in 0 .. m - 1 /\ c \in 0 .. g - 1 /\ j = q * g + c + 1
    BY <1>2, <1>3, <2>2, Apart
  <2>5. Item(cs, is, ks, p, b) = Item(cs, is, ks, q, c)
    BY <1>3, <2>1, <2>2
  <2>6. p = q /\ b = c
    <3>1. /\ p \in 0 .. Len(cs) * Len(is) - 1 /\ b \in 0 .. Len(ks) - 1
          /\ q \in 0 .. Len(cs) * Len(is) - 1 /\ c \in 0 .. Len(ks) - 1
      BY <1>1, <2>3, <2>4
    <3> QED BY <2>5, <3>1, ItemsDiffer
  <2> QED BY <2>3, <2>4, <2>6
<1>7. m * g # 0
  BY <1>1, <1>2, <1>3
<1>8. Unique(C) = C
  BY <1>5, <1>6, UniqueTicked
<1> QED BY <1>1, <1>5, <1>6, <1>7, <1>8 DEF BuildProposals

-----------------------------------------------------------------------------
(* What the form works out from the proposals.                              *)

Labels == {g.label : g \in DHGroups}

LEMMA KeywordOf ==
  ASSUME NEW x \in Labels
  PROVE  Known(Keyword(x)) /\ Label(Keyword(x)) = x /\ Keyword(x) # None
<1>1. PICK g \in DHGroups : g.label = x /\ Keyword(x) = g.keyword
  BY DEF Labels, Keyword
<1>2. PICK h \in DHGroups : h.keyword = g.keyword /\ Label(g.keyword) = h.label
  BY DEF Label
<1>3. h.label = g.label /\ g.keyword # None
  BY <1>2, FormAssumption
<1> QED BY <1>1, <1>2, <1>3 DEF Known

LEMMA NoneUnknown == ~Known(None)
BY FormAssumption DEF Known

\* What may be ticked when Save is not refused.
Chosen(l) ==
  /\ l.ciphers \in Seq(Ciphers) /\ Ticked(l.ciphers) /\ l.ciphers # <<>>
  /\ l.integrities \in Seq(Integrities) /\ Ticked(l.integrities) /\ l.integrities # <<>>
  /\ l.groups \in Seq(Labels) /\ Ticked(l.groups)

LEMMA KeywordsTicked ==
  ASSUME NEW ls \in Seq(Labels), Ticked(ls), NEW gs, gs = Each(Keyword, ls)
  PROVE  /\ gs \in Seq({Keyword(x) : x \in Labels}) /\ Len(gs) = Len(ls) /\ Ticked(gs)
         /\ \A i \in 1 .. Len(ls) : gs[i] = Keyword(ls[i]) /\ Label(gs[i]) = ls[i]
                                    /\ Known(gs[i])
         /\ gs = <<>> <=> ls = <<>>
<1>1. gs = [i \in 1 .. Len(ls) |-> Keyword(ls[i])]
  BY DEF Each
<1>2. gs \in Seq({Keyword(x) : x \in Labels}) /\ Len(gs) = Len(ls)
  BY <1>1
<1>3. \A i \in 1 .. Len(ls) : gs[i] = Keyword(ls[i]) /\ Label(gs[i]) = ls[i] /\ Known(gs[i])
  BY <1>1, KeywordOf
<1>4. Ticked(gs)
  <2> SUFFICES ASSUME NEW i \in 1 .. Len(ls), NEW j \in 1 .. Len(ls), gs[i] = gs[j]
               PROVE  i = j
    BY <1>2 DEF Ticked
  <2>1. ls[i] = ls[j]
    BY <1>3
  <2> QED BY <2>1 DEF Ticked
<1>5. gs = <<>> <=> ls = <<>>
  BY <1>2
<1> QED BY <1>2, <1>3, <1>4, <1>5

LEMMA ChosenListed ==
  ASSUME NEW l, Chosen(l), NEW ks, ks = Groups(Each(Keyword, l.groups))
  PROVE  Listed(l.ciphers, l.integrities, ks)
<1>1. PICK gs : gs = Each(Keyword, l.groups)
  OBVIOUS
<1>2. \E S : gs \in Seq(S)
  BY <1>1, KeywordsTicked DEF Chosen
<1>3. Ticked(gs)
  BY <1>1, KeywordsTicked DEF Chosen
<1>4. ks # <<>> /\ Ticked(ks) /\ Len(ks) \in Nat \ {0}
  <2>1. CASE gs = <<>>
    BY <1>1, <2>1 DEF Groups, Ticked
  <2>2. CASE gs # <<>>
    BY <1>1, <1>2, <1>3, <2>2 DEF Groups
  <2> QED BY <2>1, <2>2
<1>5. Len(l.ciphers) \in Nat \ {0} /\ Len(l.integrities) \in Nat \ {0}
  BY DEF Chosen
<1> QED BY <1>4, <1>5 DEF Listed, Chosen

Entries(s) == {s[k] : k \in 1 .. Len(s)}

\* Whatever is ticked, the list of proposals has each combination of a cipher,
\* an integrity and a group (of none, when no group is ticked), and has it once:
\* no combination that was ticked goes unoffered to the gateway.
THEOREM ProposalsComplete ==
  ASSUME NEW l, Chosen(l)
  PROVE  /\ Ticked(Proposals(l))
         /\ Entries(Proposals(l)) =
              Entries(l.ciphers) \X Entries(l.integrities)
                \X Entries(Groups(Each(Keyword, l.groups)))
<1>1. PICK cs, is, gs, ks, C :
        /\ cs = l.ciphers /\ is = l.integrities
        /\ gs = Each(Keyword, l.groups) /\ ks = Groups(gs)
        /\ C = Combinations(cs, is, gs)
  OBVIOUS
<1>2. Listed(cs, is, ks)
  BY <1>1, ChosenListed
<1>3. Proposals(l) = C /\ Ticked(C) /\ Len(C) = Len(cs) * Len(is) * Len(ks)
  <2>1. /\ ks = Groups(gs) /\ C = Combinations(cs, is, gs)
        /\ Proposals(l) = BuildProposals(cs, is, gs)
    BY <1>1 DEF Proposals
  <2> QED BY <1>2, <2>1, CombinationsTicked
<1>4. PICK a, i, m, g : a = Len(cs) /\ i = Len(is) /\ m = Len(cs) * Len(is) /\ g = Len(ks)
  OBVIOUS
<1>5. a \in Nat \ {0} /\ i \in Nat \ {0} /\ g \in Nat \ {0} /\ m = a * i /\ m \in Nat
  BY <1>2, <1>4 DEF Listed
<1>6. \A k \in 1 .. m * g : C[k] = Item(cs, is, ks, (k - 1) \div g, (k - 1) % g)
  <2>1. C = Looped(cs, is, ks)
    BY <1>1, <1>4, <1>5, CombinationsAre
  <2> QED BY <1>4, <2>1 DEF Looped
<1>7. Len(C) = m * g
  BY <1>3, <1>4
<1>8. ASSUME NEW k \in 1 .. m * g
      PROVE  C[k] \in Entries(cs) \X Entries(is) \X Entries(ks)
  <2>1. PICK q, c : q = (k - 1) \div g /\ c = (k - 1) % g
    OBVIOUS
  <2>2. q \in 0 .. m - 1 /\ c \in 0 .. g - 1
    BY <1>5, <1>8, <2>1, Apart
  <2>3. (q \div i) + 1 \in 1 .. a /\ (q % i) + 1 \in 1 .. i
    BY <1>2, <1>4, <2>2, ItemDigits
  <2>4. cs[(q \div i) + 1] \in Entries(cs) /\ is[(q % i) + 1] \in Entries(is)
    BY <1>4, <2>3 DEF Entries
  <2>5. c + 1 \in 1 .. g /\ ks[c + 1] \in Entries(ks)
    BY <1>4, <1>5, <2>2 DEF Entries
  <2>6. C[k] = <<cs[(q \div i) + 1], is[(q % i) + 1], ks[c + 1]>>
    <3>1. C[k] = Item(cs, is, ks, q, c)
      BY <1>6, <1>8, <2>1
    <3> QED BY <1>4, <3>1 DEF Item
  <2> QED BY <2>4, <2>5, <2>6
<1>9. ASSUME NEW x \in 1 .. a, NEW y \in 1 .. i, NEW z \in 1 .. g
      PROVE  <<cs[x], is[y], ks[z]>> \in Entries(C)
  <2>1. PICK x0, y0, z0 : x0 = x - 1 /\ y0 = y - 1 /\ z0 = z - 1
    OBVIOUS
  <2>2. x0 \in 0 .. a - 1 /\ y0 \in 0 .. i - 1 /\ z0 \in 0 .. g - 1
    BY <1>5, <1>9, <2>1
  <2>3. PICK p : p = x0 * i + y0 + 1
    OBVIOUS
  <2>4. p \in 1 .. m /\ (p - 1) \div i = x0 /\ (p - 1) % i = y0
    BY <1>5, <2>2, <2>3, Together
  <2>5. PICK q : q = p - 1
    OBVIOUS
  <2>6. q \in 0 .. m - 1 /\ q \div i = x0 /\ q % i = y0
    BY <1>5, <2>4, <2>5
  <2>7. PICK k : k = q * g + z0 + 1
    OBVIOUS
  <2>8. k \in 1 .. m * g /\ (k - 1) \div g = q /\ (k - 1) % g = z0
    BY <1>5, <2>2, <2>6, <2>7, Together
  <2>9. C[k] = <<cs[x0 + 1], is[y0 + 1], ks[z0 + 1]>>
    <3>1. C[k] = Item(cs, is, ks, q, z0)
      BY <1>6, <2>8
    <3> QED BY <1>4, <2>6, <3>1 DEF Item
  <2>10. x0 + 1 = x /\ y0 + 1 = y /\ z0 + 1 = z
    BY <1>5, <1>9, <2>1
  <2> QED BY <1>7, <2>8, <2>9, <2>10 DEF Entries
<1>10. Entries(C) = Entries(cs) \X Entries(is) \X Entries(ks)
  <2>1. \A e \in Entries(C) : e \in Entries(cs) \X Entries(is) \X Entries(ks)
    BY <1>7, <1>8 DEF Entries
  <2>2. ASSUME NEW e \in Entries(cs) \X Entries(is) \X Entries(ks)
        PROVE  e \in Entries(C)
    <3>1. PICK c \in Entries(cs), d \in Entries(is), f \in Entries(ks) : e = <<c, d, f>>
      BY <2>2
    <3>2. PICK x \in 1 .. a : c = cs[x]
      BY <1>4, <3>1 DEF Entries
    <3>3. PICK y \in 1 .. i : d = is[y]
      BY <1>4, <3>1 DEF Entries
    <3>4. PICK z \in 1 .. g : f = ks[z]
      BY <1>4, <3>1 DEF Entries
    <3> QED BY <1>9, <3>1, <3>2, <3>3, <3>4
  <2> QED BY <2>1, <2>2
<1> QED BY <1>1, <1>3, <1>10

\* The ciphers and the integrities are found again, each once, in order.
LEMMA SeedHeads ==
  ASSUME NEW cs, NEW is, NEW gs, NEW ks, ks = Groups(gs), Listed(cs, is, ks),
         NEW C, C = Combinations(cs, is, gs)
  PROVE  Seed(C).ciphers = cs /\ Seed(C).integrities = is
<1>1. PICK m, i, g, a : m = Len(cs) * Len(is) /\ i = Len(is) /\ g = Len(ks) /\ a = Len(cs)
  OBVIOUS
<1>2. /\ a \in Nat \ {0} /\ i \in Nat \ {0} /\ g \in Nat \ {0} /\ m = a * i
      /\ m \in Nat /\ m >= i /\ i * g \in Nat \ {0} /\ a * (i * g) = m * g
  <2>1. a \in Nat \ {0} /\ i \in Nat \ {0} /\ g \in Nat \ {0} /\ m = a * i
    BY <1>1 DEF Listed
  <2>2. PICK e \in Nat : a = e + 1
    BY <2>1
  <2>3. m = e * i + i /\ e * i \in Nat
    BY <2>1, <2>2
  <2>4. a * (i * g) = m * g
    BY <2>1
  <2>5. i * g \in Nat \ {0}
    BY <2>1
  <2> QED BY <2>1, <2>3, <2>4, <2>5
<1>3. /\ C = [k \in 1 .. m * g |-> Item(cs, is, ks, (k - 1) \div g, (k - 1) % g)]
      /\ Len(C) = m * g
  <2>1. C = Looped(cs, is, ks)
    BY <1>1, <1>2, CombinationsAre
  <2>2. Len(C) = m * g
    BY <1>1, CombinationsTicked
  <2> QED BY <1>1, <2>1, <2>2 DEF Looped
<1>4. Seed(C).ciphers = Unique([k \in 1 .. m * g |-> C[k][1]])
  BY <1>3 DEF Seed, Each
<1>5. Seed(C).integrities = Unique([k \in 1 .. m * g |-> C[k][2]])
  BY <1>3 DEF Seed, Each
<1>6. Unique([k \in 1 .. m * g |-> C[k][1]]) = cs
  <2>1. PICK s, h : s = [k \in 1 .. m * g |-> C[k][1]] /\ h = i * g
    OBVIOUS
  <2>2. ASSUME NEW k \in 1 .. m * g PROVE s[k] = cs[(((k - 1) \div h) % a) + 1]
    <3>1. s[k] = cs[(((k - 1) \div g) \div i) + 1]
      BY <1>1, <1>3, <2>1, <2>2 DEF Item
    <3>2. k - 1 \in Nat
      BY <1>2, <2>2
    <3>3. ((k - 1) \div g) \div i = (k - 1) \div h
      BY <1>2, <2>1, <3>2, NestedDiv
    <3>4. (k - 1) \div h \in 0 .. a - 1
      <4>1. h \in Nat \ {0} /\ a \in Nat /\ k \in 1 .. a * h
        BY <1>2, <2>1, <2>2
      <4> QED BY <4>1, Apart
    <3>5. ((k - 1) \div h) % a = (k - 1) \div h
      BY <1>2, <3>4, Small
    <3> QED BY <3>1, <3>3, <3>5
  <2>3. Len(s) = m * g
    <3>1. m * g \in Nat
      BY <1>2
    <3> QED BY <2>1, <3>1
  <2>4. Rounds(s, cs, a, h)
    BY <1>1, <1>2, <2>1, <2>2, <2>3 DEF Rounds
  <2>5. cs \in Seq(Ciphers) /\ Ticked(cs) /\ cs # <<>> /\ a >= Len(cs)
    BY <1>1, <1>2 DEF Listed
  <2>6. h \in Nat \ {0} /\ a \in Nat
    BY <1>2, <2>1
  <2> QED BY <2>1, <2>4, <2>5, <2>6, UniqueRounds
<1>7. Unique([k \in 1 .. m * g |-> C[k][2]]) = is
  <2>1. PICK s : s = [k \in 1 .. m * g |-> C[k][2]]
    OBVIOUS
  <2>2. ASSUME NEW k \in 1 .. m * g PROVE s[k] = is[(((k - 1) \div g) % i) + 1]
    BY <1>1, <1>3, <2>1, <2>2 DEF Item
  <2>3. Len(s) = m * g
    <3>1. m * g \in Nat
      BY <1>2
    <3> QED BY <2>1, <3>1
  <2>4. Rounds(s, is, m, g)
    BY <1>1, <2>2, <2>3 DEF Rounds
  <2>5. is \in Seq(Integrities) /\ Ticked(is) /\ is # <<>> /\ m >= Len(is)
    BY <1>1, <1>2 DEF Listed
  <2> QED BY <1>2, <2>1, <2>4, <2>5, UniqueRounds
<1> QED BY <1>4, <1>5, <1>6, <1>7

\* A group is found once for every cipher and integrity it goes with.
LEMMA SeedGroups ==
  ASSUME NEW cs, NEW is, NEW ls \in Seq(Labels), Ticked(ls),
         NEW gs, gs = Each(Keyword, ls), NEW ks, ks = Groups(gs), Listed(cs, is, ks),
         NEW C, C = Combinations(cs, is, gs)
  PROVE  Seed(C).groups =
           IF ls = <<>> THEN <<>>
           ELSE [k \in 1 .. Len(C) |-> ls[((k - 1) % Len(ls)) + 1]]
<1>1. PICK m, g : m = Len(cs) * Len(is) /\ g = Len(ks)
  OBVIOUS
<1>2. m \in Nat /\ g \in Nat \ {0} /\ m * g \in Nat
  <2>1. Len(cs) \in Nat \ {0} /\ Len(is) \in Nat \ {0} /\ g \in Nat \ {0}
    BY <1>1 DEF Listed
  <2>2. m \in Nat
    BY <1>1, <2>1
  <2> QED BY <2>1, <2>2
<1>3. /\ C = [k \in 1 .. m * g |-> Item(cs, is, ks, (k - 1) \div g, (k - 1) % g)]
      /\ Len(C) = m * g
  <2>1. C = Looped(cs, is, ks)
    BY CombinationsAre DEF Listed
  <2>2. Len(C) = m * g
    BY <1>1, CombinationsTicked
  <2> QED BY <1>1, <2>1, <2>2 DEF Looped
<1>4. \A k \in 1 .. m * g : C[k][3] = ks[((k - 1) % g) + 1]
  BY <1>3 DEF Item
<1> DEFINE S == {k \in 1 .. Len(C) : Known(C[k][3])}
<1>5. Seed(C).groups = [k \in 1 .. Len(InOrder(S)) |-> Label(C[InOrder(S)[k]][3])]
  BY DEF Seed, Each
<1>6. ASSUME NEW k \in 1 .. m * g PROVE ((k - 1) % g) + 1 \in 1 .. g
  <2>1. (k - 1) % g \in 0 .. g - 1
    BY <1>2, <1>6, Apart
  <2> QED BY <1>2, <2>1
<1> HIDE DEF S
<1>7. CASE ls = <<>>
  <2>1. ks = <<None>>
    <3>1. gs = <<>>
      BY <1>7, KeywordsTicked
    <3> QED BY <3>1 DEF Groups
  <2>2. S = {}
    <3>1. g = 1
      BY <1>1, <2>1
    <3>2. ASSUME NEW k \in 1 .. m * g PROVE ~Known(C[k][3])
      <4>1. C[k][3] = None
        BY <1>4, <1>6, <2>1, <3>1
      <4> QED BY <4>1, NoneUnknown
    <3> QED BY <1>3, <3>2 DEF S
  <2>3. InOrder(S) = [k \in 1 .. 0 |-> k]
    <3>1. S = 1 .. 0
      BY <2>2
    <3> QED BY <3>1, InOrderAll
  <2> QED BY <1>5, <1>7, <2>3
<1>8. CASE ls # <<>>
  <2>1. ks = gs /\ g = Len(ls)
    BY <1>1, <1>8, KeywordsTicked DEF Groups
  <2>2. ASSUME NEW k \in 1 .. m * g
        PROVE  Known(C[k][3]) /\ Label(C[k][3]) = ls[((k - 1) % g) + 1]
    <3>1. PICK j : j = ((k - 1) % g) + 1
      OBVIOUS
    <3>2. C[k][3] = gs[j] /\ j \in 1 .. Len(ls)
      BY <1>4, <1>6, <2>1, <2>2, <3>1
    <3>3. Label(gs[j]) = ls[j] /\ Known(gs[j])
      BY <3>2, KeywordsTicked
    <3> QED BY <3>1, <3>2, <3>3
  <2>3. S = 1 .. m * g
    BY <1>3, <2>2 DEF S
  <2>4. InOrder(S) = [k \in 1 .. m * g |-> k] /\ Len(InOrder(S)) = m * g
    BY <1>2, <2>3, InOrderAll
  <2>5. Seed(C).groups = [k \in 1 .. m * g |-> ls[((k - 1) % g) + 1]]
    <3>1. \A k \in 1 .. m * g : Label(C[InOrder(S)[k]][3]) = ls[((k - 1) % g) + 1]
      BY <2>2, <2>4
    <3> QED BY <1>5, <2>4, <3>1
  <2> QED BY <1>3, <1>8, <2>1, <2>5
<1> QED BY <1>7, <1>8

\* rep runs through gs, over and over.
Repeats(rep, gs, n) == rep = [k \in 1 .. n |-> gs[((k - 1) % Len(gs)) + 1]]

\* With each group listed that often, the proposals come out as before.
LEMMA AgainAll ==
  ASSUME NEW cs, NEW is, NEW gs, Listed(cs, is, gs),
         NEW C, C = Combinations(cs, is, gs), NEW rep, Repeats(rep, gs, Len(C))
  PROVE  BuildProposals(cs, is, rep) = C
<1>1. PICK m, g : m = Len(cs) * Len(is) /\ g = Len(gs)
  OBVIOUS
<1>2. m \in Nat \ {0} /\ g \in Nat \ {0} /\ m * g \in Nat \ {0}
  <2>1. Len(cs) \in Nat \ {0} /\ Len(is) \in Nat \ {0} /\ g \in Nat \ {0}
    BY <1>1 DEF Listed
  <2>2. m \in Nat \ {0}
    BY <1>1, <2>1
  <2> QED BY <2>1, <2>2
<1>3. Groups(gs) = gs
  BY DEF Groups, Listed
<1>4. /\ \E S : C \in Seq(S)
      /\ Len(C) = m * g /\ Ticked(C) /\ C # <<>>
  <2>1. PICK ks : ks = Groups(gs)
    OBVIOUS
  <2>2. Listed(cs, is, ks)
    BY <1>3, <2>1
  <2>3. /\ \E S : C \in Seq(S)
        /\ Len(C) = Len(cs) * Len(is) * Len(ks) /\ Ticked(C) /\ C # <<>>
    BY <2>1, <2>2, CombinationsTicked
  <2> QED BY <1>1, <1>3, <2>1, <2>3
<1>5. C = [k \in 1 .. m * g |-> Item(cs, is, gs, (k - 1) \div g, (k - 1) % g)]
  <2>1. C = Looped(cs, is, gs)
    BY <1>3, CombinationsAre DEF Listed
  <2> QED BY <1>1, <2>1 DEF Looped
<1>6. PICK h : h = m * g
  OBVIOUS
<1>7. /\ rep = [k \in 1 .. h |-> gs[((k - 1) % g) + 1]]
      /\ Len(rep) = h /\ rep # <<>>
  BY <1>1, <1>2, <1>4, <1>6 DEF Repeats
<1>8. Groups(rep) = rep
  BY <1>7 DEF Groups
<1>9. PICK s : s = Combinations(cs, is, rep)
  OBVIOUS
<1>10. s = [k \in 1 .. m * h |-> Item(cs, is, rep, (k - 1) \div h, (k - 1) % h)]
  <2>1. Len(cs) \in Nat \ {0} /\ Len(is) \in Nat \ {0} /\ Len(Groups(rep)) \in Nat \ {0}
    BY <1>2, <1>6, <1>7, <1>8 DEF Listed
  <2>2. s = Looped(cs, is, Groups(rep))
    BY <1>9, <2>1, CombinationsAre
  <2> QED BY <1>1, <1>7, <1>8, <2>2 DEF Looped
<1>11. Len(s) = m * h
  <2>1. m * h \in Nat
    BY <1>2, <1>6
  <2> QED BY <1>10, <2>1
<1>12. ASSUME NEW k \in 1 .. m * h
       PROVE  s[k] = C[((k - 1) \div h) * g + (((k - 1) % h) % g) + 1]
  <2>1. PICK q, v : q = (k - 1) \div h /\ v = (k - 1) % h
    OBVIOUS
  <2>2. q \in 0 .. m - 1 /\ v \in 0 .. h - 1
    <3>1. m \in Nat /\ h \in Nat \ {0}
      BY <1>2, <1>6
    <3> QED BY <1>12, <2>1, <3>1, Apart
  <2>3. PICK d, i : d = v % g /\ i = q * g + d + 1
    OBVIOUS
  <2>4. d \in 0 .. g - 1
    <3>1. v \in Nat
      BY <1>2, <1>6, <2>2
    <3> QED BY <1>2, <2>3, <3>1, Divided
  <2>5. i \in 1 .. m * g /\ (i - 1) \div g = q /\ (i - 1) % g = d
    <3>1. /\ m \in Nat /\ g \in Nat \ {0} /\ q \in 0 .. m - 1 /\ d \in 0 .. g - 1
          /\ i = q * g + d + 1
      BY <1>2, <2>2, <2>3, <2>4
    <3> QED BY <3>1, Together
  <2>6. C[i] = Item(cs, is, gs, q, d)
    BY <1>5, <2>5
  <2>7. rep[v + 1] = gs[d + 1]
    <3>1. v + 1 \in 1 .. h /\ (v + 1) - 1 = v
      BY <1>2, <1>6, <2>2
    <3> QED BY <1>7, <2>3, <3>1
  <2>8. s[k] = Item(cs, is, rep, q, v)
    BY <1>10, <1>12, <2>1
  <2>9. s[k] = C[i]
    BY <2>6, <2>7, <2>8 DEF Item
  <2> QED BY <2>1, <2>3, <2>9
<1>13. Again(s, C, m, g, h)
  BY <1>11, <1>12 DEF Again
<1>14. Unique(s) = C
  <2>1. PICK S : C \in Seq(S)
    BY <1>4
  <2>2. m \in Nat /\ g \in Nat \ {0} /\ m \in Nat \ {0}
    BY <1>2
  <2> QED BY <1>4, <1>6, <1>13, <2>1, <2>2, UniqueAgain
<1> QED BY <1>9, <1>14 DEF BuildProposals

\* What the form works out of the proposals gives the same proposals.
LEMMA SameProposals ==
  ASSUME NEW l, Chosen(l) PROVE Proposals(Seed(Proposals(l))) = Proposals(l)
<1>1. PICK cs, is, ls, gs, ks, C :
        /\ cs = l.ciphers /\ is = l.integrities /\ ls = l.groups
        /\ gs = Each(Keyword, ls) /\ ks = Groups(gs) /\ C = Combinations(cs, is, gs)
  OBVIOUS
<1>2. Listed(cs, is, ks) /\ ls \in Seq(Labels) /\ Ticked(ls)
  BY <1>1, ChosenListed DEF Chosen
<1>3. (\E S : C \in Seq(S)) /\ BuildProposals(cs, is, gs) = C
  BY <1>1, <1>2, CombinationsTicked
<1>4. Proposals(l) = C
  BY <1>1, <1>3 DEF Proposals
<1>5. Seed(C).ciphers = cs /\ Seed(C).integrities = is
  BY <1>1, <1>2, SeedHeads
<1>6. PICK seen : seen = Seed(C).groups
  OBVIOUS
<1>7. seen = IF ls = <<>> THEN <<>>
             ELSE [k \in 1 .. Len(C) |-> ls[((k - 1) % Len(ls)) + 1]]
  <2>1. /\ gs = Each(Keyword, ls) /\ ks = Groups(gs) /\ C = Combinations(cs, is, gs)
        /\ Listed(cs, is, ks) /\ ls \in Seq(Labels) /\ Ticked(ls)
    BY <1>1, <1>2
  <2>2. Seed(C).groups = IF ls = <<>> THEN <<>>
                         ELSE [k \in 1 .. Len(C) |-> ls[((k - 1) % Len(ls)) + 1]]
    BY <2>1, SeedGroups
  <2> QED BY <1>6, <2>2
<1>8. Proposals(Seed(C)) = BuildProposals(cs, is, Each(Keyword, seen))
  BY <1>5, <1>6 DEF Proposals
<1>9. CASE ls = <<>>
  BY <1>1, <1>3, <1>4, <1>7, <1>8, <1>9
<1>10. CASE ls # <<>>
  <2>1. gs # <<>> /\ Len(gs) = Len(ls) /\ Len(ls) \in Nat \ {0} /\ ks = gs
    <3>1. gs = Each(Keyword, ls) /\ ls \in Seq(Labels) /\ Ticked(ls)
      BY <1>1, <1>2
    <3>2. Len(gs) = Len(ls) /\ gs # <<>>
      BY <1>10, <3>1, KeywordsTicked
    <3>3. Len(ls) \in Nat \ {0}
      BY <1>10, <3>1
    <3> QED BY <1>1, <3>2, <3>3 DEF Groups
  <2>3. Len(C) \in Nat
    BY <1>3
  <2>4. Len(seen) = Len(C)
    BY <1>7, <1>10, <2>3
  <2>5. ASSUME NEW k \in 1 .. Len(C)
        PROVE  Keyword(seen[k]) = gs[((k - 1) % Len(gs)) + 1]
    <3>1. (k - 1) % Len(ls) \in 0 .. Len(ls) - 1
      <4>1. k - 1 \in Nat
        BY <2>3, <2>5
      <4> QED BY <2>1, <4>1, Divided
    <3>2. ((k - 1) % Len(ls)) + 1 \in 1 .. Len(ls)
      BY <2>1, <3>1
    <3>3. seen[k] = ls[((k - 1) % Len(ls)) + 1]
      BY <1>7, <1>10
    <3>4. \A i \in 1 .. Len(ls) : gs[i] = Keyword(ls[i])
      BY <1>1, <1>2, KeywordsTicked
    <3> QED BY <2>1, <3>2, <3>3, <3>4
  <2>6. Each(Keyword, seen) = [k \in 1 .. Len(C) |-> gs[((k - 1) % Len(gs)) + 1]]
    BY <2>4, <2>5 DEF Each
  <2>7. BuildProposals(cs, is, Each(Keyword, seen)) = C
    <3>1. Listed(cs, is, gs) /\ C = Combinations(cs, is, gs)
      BY <1>1, <1>2, <2>1
    <3>2. Repeats(Each(Keyword, seen), gs, Len(C))
      BY <2>6 DEF Repeats
    <3> QED BY <3>1, <3>2, AgainAll
  <2> QED BY <1>4, <1>8, <2>7
<1> QED BY <1>9, <1>10

-----------------------------------------------------------------------------
(* The form of a saved profile.                                             *)

\* What Save makes of a form does not depend on more of it than this.
LEMMA SavedSame ==
  ASSUME NEW x, NEW y, x.version = y.version, x.auth = y.auth,
         x.version = "IKEv1" => (x.mode = "Aggressive" <=> y.mode = "Aggressive"),
         x.gateway = y.gateway, x.localID = y.localID, x.remoteID = y.remoteID,
         x.auth = authSAML => x.saml = y.saml,
         Proposals(x.picks.ike) = Proposals(y.picks.ike),
         Proposals(x.picks.esp) = Proposals(y.picks.esp),
         x.split = y.split, x.split = "custom" => x.cidrs = y.cidrs
  PROVE  Saved(x) = Saved(y)
BY DEF Saved

LEMMA ThreeOptions ==
  ASSUME NEW a, NEW b, NEW c, NEW s, s = <<a, b, c>>
  PROVE  {s[i] : i \in DOMAIN s} = {a, b, c} /\ s[1] = a
OBVIOUS

LEMMA TwoOptions ==
  ASSUME NEW a, NEW b, NEW s, s = <<a, b>>
  PROVE  {s[i] : i \in DOMAIN s} = {a, b} /\ s[1] = a
OBVIOUS

LEMMA OfferedAre ==
  ASSUME NEW v
  PROVE  /\ v = "IKEv1" => /\ Offered(v) = {"PSK only", "PSK + XAuth", authSAML}
                           /\ AuthOptions(v)[1] = "PSK only"
         /\ v # "IKEv1" => /\ Offered(v) = {"PSK + EAP-MSCHAPv2", authSAML}
                           /\ AuthOptions(v)[1] = "PSK + EAP-MSCHAPv2"
<1>1. CASE v = "IKEv1"
  <2>1. AuthOptions(v) = <<"PSK only", "PSK + XAuth", authSAML>>
    BY <1>1 DEF AuthOptions
  <2> QED BY <1>1, <2>1, ThreeOptions DEF Offered
<1>2. CASE v # "IKEv1"
  <2>1. AuthOptions(v) = <<"PSK + EAP-MSCHAPv2", authSAML>>
    BY <1>2 DEF AuthOptions
  <2> QED BY <1>2, <2>1, TwoOptions DEF Offered
<1> QED BY <1>1, <1>2

LEMMA OptionKept ==
  ASSUME NEW v \in {"IKEv1", "IKEv2"}, NEW a \in Offered(v)
  PROVE  /\ AuthOption(AuthMode(v, a)) = a
         /\ AuthMode(v, a) \in {"psk_xauth_saml", "psk_eap_saml"} <=> a = authSAML
<1>1. CASE v = "IKEv1"
  <2>1. a \in {"PSK only", "PSK + XAuth", authSAML}
    BY <1>1, OfferedAre
  <2> QED BY <1>1, <2>1 DEF AuthMode, AuthOption, authSAML
<1>2. CASE v = "IKEv2"
  <2>1. a \in {"PSK + EAP-MSCHAPv2", authSAML}
    BY <1>2, OfferedAre
  <2> QED BY <1>2, <2>1 DEF AuthMode, AuthOption, authSAML
<1> QED BY <1>1, <1>2

LEMMA PicksChosen ==
  ASSUME NEW w \in Forms, ~Refused(w)
  PROVE  Chosen(w.picks.ike) /\ Chosen(w.picks.esp)
<1>1. w.picks \in Picks
  BY DEF Forms
<1>2. \A l \in {w.picks.ike, w.picks.esp} :
        /\ l.ciphers \in Seq(Ciphers) /\ Ticked(l.ciphers)
        /\ l.integrities \in Seq(Integrities) /\ Ticked(l.integrities)
        /\ l.groups \in Seq(Labels) /\ Ticked(l.groups)
  BY <1>1, FormAssumption DEF Labels
<1>3. \A l \in {w.picks.ike, w.picks.esp} : l.ciphers # <<>> /\ l.integrities # <<>>
  BY DEF Refused
<1> QED BY <1>2, <1>3 DEF Chosen

\* What is typed for a login survives: a port of 0 is none, and is not typed.
LEMMA EndpointKept ==
  ASSUME NEW w \in Forms, ~Refused(w), w.auth = authSAML
  PROVE  Shown(Saved(w)).saml = w.saml
<1>1. PICK h, n : w.saml = [host |-> h, port |-> n] /\ n \in Nat \cup {None}
  <2>1. w.saml \in [host : Addr \cup Host \cup {None}, port : Nat \cup {None}]
    BY FormAssumption DEF Forms
  <2> QED BY <2>1
<1>2. n # 0
  <2>1. ~BadEndpoint(w)
    BY DEF Refused
  <2>2. w.saml.port = n
    BY <1>1
  <2>3. n = None \/ n \in 1 .. MaxPort
    BY <2>1, <2>2 DEF BadEndpoint
  <2>4. CASE n = None
    BY <2>4, FormAssumption
  <2>5. CASE n \in 1 .. MaxPort
    BY <2>5
  <2> QED BY <2>3, <2>4, <2>5
<1>3. Saved(w).saml = [host |-> h, port |-> IF n = None THEN 0 ELSE n]
  BY <1>1 DEF Saved
<1>4. Shown(Saved(w)).saml =
        [Saved(w).saml EXCEPT !.port = IF @ = 0 THEN None ELSE @]
  BY DEF Shown
<1> QED BY <1>1, <1>2, <1>3, <1>4

LEMMA ShownSaved ==
  ASSUME NEW w \in Forms, ~Refused(w), NEW s, s = Shown(Saved(w))
  PROVE  /\ s.version = w.version /\ s.auth = w.auth
         /\ s.mode \in {"Main", "Aggressive"}
         /\ w.version = "IKEv1" => s.mode = w.mode
         /\ s.gateway = w.gateway /\ s.localID = w.localID /\ s.remoteID = w.remoteID
         /\ w.auth = authSAML => s.saml = w.saml
         /\ Proposals(s.picks.ike) = Proposals(w.picks.ike)
         /\ Proposals(s.picks.esp) = Proposals(w.picks.esp)
         /\ s.split = w.split /\ (w.split = "custom" => s.cidrs = w.cidrs)
<1>1. PICK p : p = Saved(w)
  OBVIOUS
<1>2. /\ w.version \in {"IKEv1", "IKEv2"} /\ w.mode \in {"Main", "Aggressive"}
      /\ w.auth \in Offered(w.version)
  BY DEF Forms
<1>3. s.version = w.version
  <2>1. p.ike = IF w.version = "IKEv1" THEN "v1" ELSE "v2"
    BY <1>1 DEF Saved
  <2>2. s.version = IF p.ike = "v1" THEN "IKEv1" ELSE "IKEv2"
    BY <1>1 DEF Shown
  <2> QED BY <1>2, <2>1, <2>2
<1>4. s.auth = w.auth
  <2>1. p.auth = AuthMode(w.version, w.auth)
    BY <1>1 DEF Saved
  <2>2. s.auth = AuthOption(p.auth)
    BY <1>1 DEF Shown
  <2> QED BY <1>2, <2>1, <2>2, OptionKept
<1>5. s.mode \in {"Main", "Aggressive"} /\ (w.version = "IKEv1" => s.mode = w.mode)
  <2>1. p.mode = IF w.version # "IKEv1" THEN ""
                 ELSE IF w.mode = "Aggressive" THEN "aggressive" ELSE "main"
    BY <1>1 DEF Saved
  <2>2. s.mode = IF p.mode = "aggressive" THEN "Aggressive" ELSE "Main"
    BY <1>1 DEF Shown
  <2> QED BY <1>2, <2>1, <2>2
<1>6. /\ s.gateway = w.gateway /\ s.localID = w.localID /\ s.remoteID = w.remoteID
      /\ s.split = w.split /\ (w.split = "custom" => s.cidrs = w.cidrs)
  <2>1. /\ p.gateway = w.gateway /\ p.localID = w.localID /\ p.remoteID = w.remoteID
        /\ p.split = w.split /\ (w.split = "custom" => p.cidrs = w.cidrs)
    BY <1>1 DEF Saved
  <2>2. /\ s.gateway = p.gateway /\ s.localID = p.localID /\ s.remoteID = p.remoteID
        /\ s.split = p.split /\ s.cidrs = p.cidrs
    BY <1>1 DEF Shown
  <2> QED BY <2>1, <2>2
<1>7. /\ Proposals(s.picks.ike) = Proposals(w.picks.ike)
      /\ Proposals(s.picks.esp) = Proposals(w.picks.esp)
  <2>1. /\ p.proposals.ike = Proposals(w.picks.ike)
        /\ p.proposals.esp = Proposals(w.picks.esp)
    BY <1>1 DEF Saved
  <2>2. s.picks.ike = Seed(p.proposals.ike) /\ s.picks.esp = Seed(p.proposals.esp)
    BY <1>1 DEF Shown
  <2> QED BY <2>1, <2>2, PicksChosen, SameProposals
<1>8. w.auth = authSAML => s.saml = w.saml
  BY EndpointKept
<1> QED BY <1>3, <1>4, <1>5, <1>6, <1>7, <1>8

\* Opened and saved without a change, a profile stays what it was.
LEMMA SavedAgain ==
  ASSUME NEW w \in Forms, ~Refused(w) PROVE Saved(Shown(Saved(w))) = Saved(w)
<1>1. PICK s : s = Shown(Saved(w))
  OBVIOUS
<1>2. Saved(s) = Saved(w)
  <2>1. /\ s.version = w.version /\ s.auth = w.auth
        /\ w.version = "IKEv1" => s.mode = w.mode
        /\ s.gateway = w.gateway /\ s.localID = w.localID /\ s.remoteID = w.remoteID
        /\ w.auth = authSAML => s.saml = w.saml
        /\ Proposals(s.picks.ike) = Proposals(w.picks.ike)
        /\ Proposals(s.picks.esp) = Proposals(w.picks.esp)
        /\ s.split = w.split /\ (w.split = "custom" => s.cidrs = w.cidrs)
    BY <1>1, ShownSaved
  <2> QED BY <2>1, SavedSame
<1> QED BY <1>1, <1>2

LEMMA Falls ==
  ASSUME NEW v PROVE AuthOptions(v)[1] \in Offered(v) \ {authSAML}
<1>1. CASE v = "IKEv1"
  <2>1. Offered(v) = {"PSK only", "PSK + XAuth", authSAML} /\ AuthOptions(v)[1] = "PSK only"
    BY <1>1, OfferedAre
  <2> QED BY <2>1 DEF authSAML
<1>2. CASE v # "IKEv1"
  <2>1. /\ Offered(v) = {"PSK + EAP-MSCHAPv2", authSAML}
        /\ AuthOptions(v)[1] = "PSK + EAP-MSCHAPv2"
    BY <1>2, OfferedAre
  <2> QED BY <2>1 DEF authSAML
<1> QED BY <1>1, <1>2

\* Opened and saved with a version chosen, it is what the form can save.
LEMMA SavedChanged ==
  ASSUME NEW w \in Forms, ~Refused(w), NEW v \in {"IKEv1", "IKEv2"}
  PROVE  \E y \in Forms : /\ ~Refused(y)
                          /\ Saved(ChooseVersion(Shown(Saved(w)), v)) = Saved(y)
<1> DEFINE pick(a) == IF a \in Offered(v) THEN a ELSE AuthOptions(v)[1]
<1>1. PICK s, y, x :
        /\ s = Shown(Saved(w)) /\ x = ChooseVersion(s, v)
        /\ y = [w EXCEPT !.version = v, !.auth = pick(w.auth), !.mode = s.mode]
  OBVIOUS
<1>2. /\ s.version = w.version /\ s.auth = w.auth
      /\ s.mode \in {"Main", "Aggressive"}
      /\ s.gateway = w.gateway /\ s.localID = w.localID /\ s.remoteID = w.remoteID
      /\ w.auth = authSAML => s.saml = w.saml
      /\ Proposals(s.picks.ike) = Proposals(w.picks.ike)
      /\ Proposals(s.picks.esp) = Proposals(w.picks.esp)
      /\ s.split = w.split /\ (w.split = "custom" => s.cidrs = w.cidrs)
  BY <1>1, ShownSaved
<1>3. /\ x.version = v /\ x.auth = pick(s.auth) /\ x.mode = s.mode
      /\ x.gateway = s.gateway /\ x.localID = s.localID /\ x.remoteID = s.remoteID
      /\ x.saml = s.saml /\ x.picks = s.picks /\ x.split = s.split /\ x.cidrs = s.cidrs
  <2>1. DOMAIN s = {"version", "mode", "auth", "gateway", "localID",
                    "remoteID", "split", "cidrs", "saml", "picks"}
    BY <1>1 DEF Shown
  <2>2. x = [s EXCEPT !.version = v, !.auth = pick(s.auth)]
    BY <1>1, <2>1 DEF ChooseVersion
  <2> HIDE DEF pick
  <2> QED BY <2>1, <2>2
<1>4. w \in [version : {"IKEv1", "IKEv2"}, mode : {"Main", "Aggressive"},
             auth : Offered("IKEv1") \cup Offered("IKEv2"),
             gateway : Addr \cup Host,
             localID : Ident \cup {None}, remoteID : Ident \cup {None},
             split : {"full", "custom"}, cidrs : Cidrs, picks : Picks,
             saml : Endpoints]
  BY DEF Forms
<1>5. pick(w.auth) \in Offered(v) /\ (pick(w.auth) = authSAML => w.auth = authSAML)
  BY Falls
<1> HIDE DEF pick
<1>6. /\ y.version = v /\ y.auth = pick(w.auth) /\ y.mode = s.mode
      /\ y.gateway = w.gateway /\ y.localID = w.localID /\ y.remoteID = w.remoteID
      /\ y.saml = w.saml /\ y.picks = w.picks /\ y.split = w.split /\ y.cidrs = w.cidrs
  BY <1>1, <1>4
<1>7. y \in Forms
  <2>1. y.auth \in Offered("IKEv1") \cup Offered("IKEv2")
    BY <1>5, <1>6
  <2>2. y.auth \in Offered(y.version)
    BY <1>5, <1>6
  <2>3. y \in [version : {"IKEv1", "IKEv2"}, mode : {"Main", "Aggressive"},
               auth : Offered("IKEv1") \cup Offered("IKEv2"),
               gateway : Addr \cup Host,
               localID : Ident \cup {None}, remoteID : Ident \cup {None},
               split : {"full", "custom"}, cidrs : Cidrs, picks : Picks,
               saml : Endpoints]
    BY <1>1, <1>2, <1>4, <1>6, <2>1
  <2> QED BY <2>2, <2>3 DEF Forms
<1>8. ~Refused(y)
  <2>1. BadEndpoint(y) <=> BadEndpoint(w)
    BY <1>6 DEF BadEndpoint
  <2>2. y.auth = authSAML => w.auth = authSAML
    BY <1>5, <1>6
  <2>3. y.picks = w.picks
    BY <1>6
  <2>4. /\ ~(w.auth = authSAML /\ BadEndpoint(w))
        /\ w.picks.ike.groups # <<>>
        /\ \A l \in {w.picks.ike, w.picks.esp} : l.ciphers # <<>> /\ l.integrities # <<>>
    BY DEF Refused
  <2> QED BY <2>1, <2>2, <2>3, <2>4 DEF Refused
<1>9. Saved(x) = Saved(y)
  <2>1. /\ x.version = y.version /\ x.auth = y.auth
        /\ x.version = "IKEv1" => (x.mode = "Aggressive" <=> y.mode = "Aggressive")
        /\ x.gateway = y.gateway /\ x.localID = y.localID /\ x.remoteID = y.remoteID
        /\ Proposals(x.picks.ike) = Proposals(y.picks.ike)
        /\ Proposals(x.picks.esp) = Proposals(y.picks.esp)
        /\ x.split = y.split /\ (x.split = "custom" => x.cidrs = y.cidrs)
    BY <1>2, <1>3, <1>6
  <2>2. x.auth = authSAML => x.saml = y.saml
    BY <1>2, <1>3, <1>5, <1>6
  <2> QED BY <2>1, <2>2, SavedSame
<1> QED BY <1>1, <1>7, <1>8, <1>9
=============================================================================
