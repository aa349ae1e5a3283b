----------------------------- MODULE NameProofs -----------------------------
(***************************************************************************)
(* The names of resources on the page (Listings), for any strings: no two  *)
(* resources have the same string, so that what is filed under it is their *)
(* own, and the kind can be read back from it.  Both rest on the character *)
(* sets of namespaces, types and subtypes (ListConstantsOK): the colons    *)
(* and slashes of a name come after the ones that matter.                  *)
(***************************************************************************)
EXTENDS Listings, FiniteSetTheorems, TLAPS

-----------------------------------------------------------------------------
(* Strings joined by separators. *)

\* The strings that names are made of.
Str == Seq(Token)

LEMMA LenNat == \A s \in Str : Len(s) \in Nat /\ DOMAIN s = 1..Len(s)
  BY DEF Str

\* Strings are the same when they are pointwise.
LEMMA SeqSame ==
    ASSUME NEW s \in Str, NEW t \in Str, Len(s) = Len(t), \A i \in 1..Len(s) : s[i] = t[i]
    PROVE  s = t
  BY DEF Str

\* Two strings around a separator.
Join(s, c, t) == s \o <<c>> \o t

\* What is where in them.
JoinIs(s, c, t) ==
    /\ Join(s, c, t) \in Str
    /\ Len(Join(s, c, t)) = Len(s) + 1 + Len(t)
    /\ \A i \in 1..Len(s) : Join(s, c, t)[i] = s[i]
    /\ Join(s, c, t)[Len(s) + 1] = c
    /\ \A i \in 1..Len(t) : Join(s, c, t)[Len(s) + 1 + i] = t[i]

LEMMA JoinParts ==
    \A s \in Str, c \in Token, t \in Str : JoinIs(s, c, t)
  BY SMTT(60) DEF JoinIs, Join, Str

\* It does not matter which of two joins is made first.
JoinsRight(s, c, t, d, u) == Join(Join(s, c, t), d, u) = Join(s, c, Join(t, d, u))

LEMMA JoinAssoc ==
    \A s \in Str, c \in Token, t \in Str, d \in Token, u \in Str : JoinsRight(s, c, t, d, u)
  BY SMTT(60) DEF JoinsRight, Join, Str

Without(s, c) == \A i \in 1..Len(s) : s[i] # c

\* Joining adds no other separator than the one between.
NoneAdded(s, c, t, d) == (c # d /\ Without(s, d) /\ Without(t, d)) => Without(Join(s, c, t), d)

LEMMA JoinWithout ==
    \A s \in Str, c \in Token, t \in Str, d \in Token : NoneAdded(s, c, t, d)
<1> TAKE s \in Str, c \in Token, t \in Str, d \in Token
<1> SUFFICES ASSUME c # d, Without(s, d), Without(t, d), NEW i \in 1..Len(Join(s, c, t))
             PROVE  Join(s, c, t)[i] # d
  BY Zenon DEF NoneAdded, Without
<1> DEFINE w == Join(s, c, t)
<1>1. JoinIs(s, c, t)
  BY JoinParts, Zenon
<1>2. /\ Len(w) = Len(s) + 1 + Len(t) /\ w[Len(s) + 1] = c
      /\ \A j \in 1..Len(s) : w[j] = s[j]
      /\ \A j \in 1..Len(t) : w[Len(s) + 1 + j] = t[j]
      /\ i \in 1..Len(w)
  BY <1>1, Zenon DEF JoinIs
<1> HIDE DEF w
<1>3. Len(s) \in Nat /\ Len(t) \in Nat
  BY LenNat, Zenon
<1> DEFINE k == i - Len(s) - 1
<1>4. (i \in 1..Len(s) \/ i = Len(s) + 1 \/ k \in 1..Len(t)) /\ i = Len(s) + 1 + k
  BY <1>2, <1>3
<1> HIDE DEF k
<1>5. w[i] # d
  BY <1>2, <1>4, Zenon DEF Without
<1> QED
  BY <1>5, Zenon DEF w

\* A string is cut at its first separator in one way only.
CutsOnce(c, s1, t1, s2, t2) ==
    (Without(s1, c) /\ Without(s2, c) /\ Join(s1, c, t1) = Join(s2, c, t2)) => s1 = s2 /\ t1 = t2

LEMMA CutOnce ==
    \A c \in Token, s1 \in Str, t1 \in Str, s2 \in Str, t2 \in Str : CutsOnce(c, s1, t1, s2, t2)
<1> TAKE c \in Token, s1 \in Str, t1 \in Str, s2 \in Str, t2 \in Str
<1> SUFFICES ASSUME Without(s1, c), Without(s2, c), Join(s1, c, t1) = Join(s2, c, t2)
             PROVE  s1 = s2 /\ t1 = t2
  BY Zenon DEF CutsOnce
<1>0. (\A i \in 1..Len(s1) : s1[i] # c) /\ (\A i \in 1..Len(s2) : s2[i] # c)
  BY Zenon DEF Without
<1> DEFINE w1 == Join(s1, c, t1)
           w2 == Join(s2, c, t2)
<1>6a. JoinIs(s1, c, t1) /\ JoinIs(s2, c, t2)
  BY JoinParts, Zenon
<1>1. /\ Len(w1) = Len(s1) + 1 + Len(t1) /\ w1[Len(s1) + 1] = c
      /\ \A i \in 1..Len(s1) : w1[i] = s1[i]
      /\ \A i \in 1..Len(t1) : w1[Len(s1) + 1 + i] = t1[i]
  BY <1>6a, Zenon DEF JoinIs
<1>2. /\ Len(w2) = Len(s2) + 1 + Len(t2) /\ w2[Len(s2) + 1] = c
      /\ \A i \in 1..Len(s2) : w2[i] = s2[i]
      /\ \A i \in 1..Len(t2) : w2[Len(s2) + 1 + i] = t2[i]
  BY <1>6a, Zenon DEF JoinIs
<1>3. w1 = w2
  OBVIOUS
<1> HIDE DEF w1, w2
<1>4. Len(s1) \in Nat /\ Len(s2) \in Nat /\ Len(t1) \in Nat /\ Len(t2) \in Nat
  BY LenNat, Zenon
<1>5. Len(s1) = Len(s2)
  <2>1. ASSUME Len(s1) < Len(s2) PROVE FALSE
    <3>1. Len(s1) + 1 \in 1..Len(s2)
      BY <1>4, <2>1
    <3> QED
      BY <1>0, <1>1, <1>2, <1>3, <3>1, Zenon
  <2>2. ASSUME Len(s2) < Len(s1) PROVE FALSE
    <3>1. Len(s2) + 1 \in 1..Len(s1)
      BY <1>4, <2>2
    <3> QED
      BY <1>0, <1>1, <1>2, <1>3, <3>1, Zenon
  <2> QED
    BY <2>1, <2>2, <1>4
<1>6. Len(t1) = Len(t2)
  BY <1>1, <1>2, <1>3, <1>4, <1>5
<1>7. \A i \in 1..Len(s1) : s1[i] = s2[i]
  BY <1>1, <1>2, <1>3, <1>5
<1>8. \A i \in 1..Len(t1) : t1[i] = t2[i]
  BY <1>1, <1>2, <1>3, <1>5, <1>6
<1> QED
  BY <1>5, <1>6, <1>7, <1>8, SeqSame

-----------------------------------------------------------------------------
(* The strings of resources. *)

\* The three strings of a kind have no separator in them.
LEMMA KindStrings ==
    ASSUME NEW r \in Resource
    PROVE  /\ r.kind[1] \in DOMAIN Namespaces /\ r.kind[2] \in DOMAIN Types
           /\ r.kind[3] \in DOMAIN Subtypes /\ r.name \in DOMAIN Names
           /\ \A x \in {Namespaces[r.kind[1]], Types[r.kind[2]], Subtypes[r.kind[3]]} :
                 x \in Str /\ \A i \in 1..Len(x) : x[i] # ":" /\ x[i] # "/"
           /\ Names[r.name] \in Str
<1>1. /\ r.kind \in Kind /\ r.name \in DOMAIN Names
  BY DEF Resource
<1>2. /\ r.kind[1] \in DOMAIN Namespaces /\ r.kind[2] \in DOMAIN Types
      /\ r.kind[3] \in DOMAIN Subtypes
  BY <1>1 DEF Kind
<1>3. ASSUME NEW S \in {Namespaces, Types, Subtypes, Names}, NEW k \in DOMAIN S
      PROVE  S[k] \in Str
  <2>1. S \in Seq(Str)
    BY ListConstantsOK, Zenon DEF Str
  <2> QED
    BY <2>1
<1>4. ASSUME NEW S \in {Namespaces, Types, Subtypes}, NEW k \in DOMAIN S
      PROVE  \A i \in 1..Len(S[k]) : S[k][i] # ":" /\ S[k][i] # "/"
  <2>1. \A j \in DOMAIN S[k] : S[k][j] \notin {":", "/"}
    BY ListConstantsOK, Zenon
  <2>2. DOMAIN S[k] = 1..Len(S[k])
    BY <1>3 DEF Str
  <2> QED
    BY <2>1, <2>2, Zenon
<1> QED
  BY <1>1, <1>2, <1>3, <1>4, Zenon

\* The string of a kind: its three strings, two colons between them.
LEMMA SubtypeForm ==
    ASSUME NEW r \in Resource
    PROVE  /\ SubtypeString(r) = Join(Namespaces[r.kind[1]], ":", Join(Types[r.kind[2]], ":", Subtypes[r.kind[3]]))
           /\ SubtypeString(r) \in Str
           /\ Without(SubtypeString(r), "/")
<1> DEFINE a == Namespaces[r.kind[1]]
           b == Types[r.kind[2]]
           c == Subtypes[r.kind[3]]
<1>1. /\ a \in Str /\ b \in Str /\ c \in Str
      /\ Without(a, "/") /\ Without(b, "/") /\ Without(c, "/")
  BY KindStrings, Zenon DEF Without
<1>2. SubtypeString(r) = Join(Join(a, ":", b), ":", c)
  BY DEF SubtypeString, Join
<1>3. ":" \in Token /\ "/" \in Token /\ ":" # "/"
  BY ListConstantsOK
<1> HIDE DEF a, b, c
<1>4. JoinsRight(a, ":", b, ":", c)
  BY <1>1, <1>3, JoinAssoc, Zenon
<1>5. JoinIs(b, ":", c)
  BY <1>1, <1>3, JoinParts, Zenon
<1>6. Join(b, ":", c) \in Str
  BY <1>5, Zenon DEF JoinIs
<1>7. JoinIs(a, ":", Join(b, ":", c))
  BY <1>1, <1>3, <1>6, JoinParts, Zenon
<1>8. Join(a, ":", Join(b, ":", c)) \in Str
  BY <1>7, Zenon DEF JoinIs
<1>9. NoneAdded(b, ":", c, "/") /\ NoneAdded(a, ":", Join(b, ":", c), "/")
  BY <1>1, <1>3, <1>6, JoinWithout, Zenon
<1> QED
  BY <1>1, <1>2, <1>3, <1>4, <1>8, <1>9, Zenon DEF JoinsRight, NoneAdded, a, b, c

\* What follows the two colons of the kind.
SubtypeAndName(r) ==
    IF Names[r.name] = <<>> THEN Subtypes[r.kind[3]] ELSE Join(Subtypes[r.kind[3]], "/", Names[r.name])

\* So the string of a resource has its namespace before the first colon and its
\* type before the second.
LEMMA NameForm ==
    ASSUME NEW r \in Resource
    PROVE  /\ SubtypeAndName(r) \in Str
           /\ NameString(r) = Join(Namespaces[r.kind[1]], ":", Join(Types[r.kind[2]], ":", SubtypeAndName(r)))
<1> DEFINE a == Namespaces[r.kind[1]]
           b == Types[r.kind[2]]
           c == Subtypes[r.kind[3]]
           n == Names[r.name]
<1>1. a \in Str /\ b \in Str /\ c \in Str /\ n \in Str
  BY KindStrings, Zenon
<1>2. SubtypeString(r) = Join(a, ":", Join(b, ":", c))
  BY SubtypeForm, Zenon
<1>3. NameString(r) = IF n = <<>> THEN SubtypeString(r) ELSE Join(SubtypeString(r), "/", n)
  BY DEF NameString, Join
<1>4. SubtypeAndName(r) = IF n = <<>> THEN c ELSE Join(c, "/", n)
  BY DEF SubtypeAndName
<1> HIDE DEF a, b, c, n
<1>5. ":" \in Token /\ "/" \in Token
  BY ListConstantsOK
<1>6. Join(c, "/", n) \in Str /\ Join(b, ":", c) \in Str
  <2>1. JoinIs(c, "/", n) /\ JoinIs(b, ":", c)
    BY <1>1, <1>5, JoinParts, Zenon
  <2> QED
    BY <2>1, Zenon DEF JoinIs
<1>7. JoinsRight(a, ":", Join(b, ":", c), "/", n) /\ JoinsRight(b, ":", c, "/", n)
  BY <1>1, <1>5, <1>6, JoinAssoc, Zenon
<1>8. Join(SubtypeString(r), "/", n) = Join(a, ":", Join(b, ":", Join(c, "/", n)))
  BY <1>2, <1>7, Zenon DEF JoinsRight
<1>9. CASE n = <<>>
  BY <1>1, <1>2, <1>3, <1>4, <1>9, Zenon DEF a, b
<1>10. CASE n # <<>>
  BY <1>3, <1>4, <1>6, <1>8, <1>10, Zenon DEF a, b
<1> QED
  BY <1>9, <1>10

\* No two resources have one string.
LEMMA NameInjective ==
    ASSUME NEW r \in Resource, NEW q \in Resource, NameString(r) = NameString(q)
    PROVE  r = q
<1>1. ":" \in Token /\ "/" \in Token
  BY ListConstantsOK
<1>2. ASSUME NEW x \in Resource
      PROVE  /\ \A s \in {Namespaces[x.kind[1]], Types[x.kind[2]], Subtypes[x.kind[3]]} :
                   s \in Str /\ Without(s, ":") /\ Without(s, "/")
             /\ Names[x.name] \in Str
             /\ SubtypeAndName(x) \in Str /\ Join(Types[x.kind[2]], ":", SubtypeAndName(x)) \in Str
  <2>1. /\ \A s \in {Namespaces[x.kind[1]], Types[x.kind[2]], Subtypes[x.kind[3]]} :
                   s \in Str /\ Without(s, ":") /\ Without(s, "/")
        /\ Names[x.name] \in Str
    BY KindStrings, Zenon DEF Without
  <2>2. SubtypeAndName(x) \in Str
    BY NameForm, Zenon
  <2>3. JoinIs(Types[x.kind[2]], ":", SubtypeAndName(x))
    BY <1>1, <2>1, <2>2, JoinParts, Zenon
  <2> QED
    BY <2>1, <2>2, <2>3, Zenon DEF JoinIs
<1>3. /\ Namespaces[r.kind[1]] = Namespaces[q.kind[1]]
      /\ Join(Types[r.kind[2]], ":", SubtypeAndName(r)) = Join(Types[q.kind[2]], ":", SubtypeAndName(q))
  <2>1. CutsOnce(":", Namespaces[r.kind[1]], Join(Types[r.kind[2]], ":", SubtypeAndName(r)),
                 Namespaces[q.kind[1]], Join(Types[q.kind[2]], ":", SubtypeAndName(q)))
    BY <1>1, <1>2, CutOnce, Zenon
  <2>2. Join(Namespaces[r.kind[1]], ":", Join(Types[r.kind[2]], ":", SubtypeAndName(r)))
           = Join(Namespaces[q.kind[1]], ":", Join(Types[q.kind[2]], ":", SubtypeAndName(q)))
    BY NameForm, Zenon
  <2> QED
    BY <1>2, <2>1, <2>2, Zenon DEF CutsOnce
<1>4. Types[r.kind[2]] = Types[q.kind[2]] /\ SubtypeAndName(r) = SubtypeAndName(q)
  <2>1. CutsOnce(":", Types[r.kind[2]], SubtypeAndName(r), Types[q.kind[2]], SubtypeAndName(q))
    BY <1>1, <1>2, CutOnce, Zenon
  <2> QED
    BY <1>2, <1>3, <2>1, Zenon DEF CutsOnce
<1>5. ASSUME NEW x \in Resource, NEW y \in Resource, SubtypeAndName(x) = SubtypeAndName(y)
      PROVE  Names[y.name] = <<>> \/ Names[x.name] # <<>>
  <2> SUFFICES ASSUME Names[y.name] # <<>>, Names[x.name] = <<>> PROVE FALSE
    OBVIOUS
  <2> DEFINE s == Subtypes[x.kind[3]]
             t == Subtypes[y.kind[3]]
  <2>1. s = Join(t, "/", Names[y.name])
    BY <1>5, Zenon DEF SubtypeAndName
  <2>2. s \in Str /\ t \in Str /\ \A i \in 1..Len(s) : s[i] # "/"
    BY <1>2, Zenon DEF Without
  <2>2a. JoinIs(t, "/", Names[y.name])
    BY <1>1, <1>2, <2>2, JoinParts, Zenon
  <2>3. Len(s) = Len(t) + 1 + Len(Names[y.name]) /\ s[Len(t) + 1] = "/"
    BY <2>1, <2>2a, Zenon DEF JoinIs
  <2>4. Len(t) \in Nat /\ Len(Names[y.name]) \in Nat
    BY <1>2, <2>2, LenNat, Zenon
  <2>5. Len(t) + 1 \in 1..Len(s)
    <3> DEFINE ls == Len(s)
               lt == Len(t)
               ln == Len(Names[y.name])
    <3> HIDE DEF ls, lt, ln
    <3>1. ls = lt + 1 + ln /\ lt \in Nat /\ ln \in Nat
      BY <2>3, <2>4, Zenon DEF ls, lt, ln
    <3>2. lt + 1 \in 1..ls
      BY <3>1
    <3> QED
      BY <3>2, Zenon DEF ls, lt
  <2> QED
    BY <2>2, <2>3, <2>5, Zenon
<1>6. Subtypes[r.kind[3]] = Subtypes[q.kind[3]] /\ Names[r.name] = Names[q.name]
  <2>1. CASE Names[r.name] = <<>>
    <3>1. Names[q.name] = <<>>
      BY <1>4, <1>5, <2>1, Zenon
    <3> QED
      BY <1>4, <2>1, <3>1, Zenon DEF SubtypeAndName
  <2>2. CASE Names[r.name] # <<>>
    <3>1. Names[q.name] # <<>>
      BY <1>4, <1>5, <2>2, Zenon
    <3>2. Join(Subtypes[r.kind[3]], "/", Names[r.name]) = Join(Subtypes[q.kind[3]], "/", Names[q.name])
      BY <1>4, <2>2, <3>1, Zenon DEF SubtypeAndName
    <3>3. CutsOnce("/", Subtypes[r.kind[3]], Names[r.name], Subtypes[q.kind[3]], Names[q.name])
      BY <1>1, <1>2, CutOnce, Zenon
    <3> QED
      BY <1>2, <3>2, <3>3, Zenon DEF CutsOnce
  <2> QED
    BY <2>1, <2>2
<1>7. \A S \in {Namespaces, Types, Subtypes, Names} : \A i, j \in DOMAIN S : S[i] = S[j] => i = j
  BY ListConstantsOK, Zenon DEF Distinct
<1>8. r.kind[1] = q.kind[1] /\ r.kind[2] = q.kind[2] /\ r.kind[3] = q.kind[3] /\ r.name = q.name
  BY <1>3, <1>4, <1>6, <1>7, KindStrings, Zenon
<1>9. r.kind = q.kind
  BY <1>8 DEF Resource, Kind
<1> QED
  BY <1>8, <1>9 DEF Resource

-----------------------------------------------------------------------------
(* The rows of the sensors card. *)

ListInv == listed \in Seq(Resource) /\ Distinct(listed)

LEMMA ListInvHolds ==
    ListSpec => []ListInv
<1>1. ListInit => ListInv
  BY DEF ListInit, ListInv, Distinct
<1>2. ListInv /\ [ListNext]_listVars => ListInv'
  <2> SUFFICES ASSUME ListInv, [ListNext]_listVars PROVE ListInv'
    OBVIOUS
  <2>1. CASE NewResources
    <3>1. listed' \in Lists(Resource) /\ Distinct(listed')
      BY <2>1, Zenon DEF NewResources
    <3>2. PICK k \in 0..MaxListed : listed' \in [1..k -> Resource]
      BY <3>1, Zenon DEF Lists
    <3>3. listed' \in Seq(Resource)
      BY <3>2, ListConstantsOK
    <3> QED
      BY <3>1, <3>3, Zenon DEF ListInv, Distinct
  <2>2. CASE UNCHANGED listed
    BY <2>2 DEF ListInv, Distinct
  <2> QED
    BY <2>1, <2>2, Zenon DEF ListNext, NewOps, listVars
<1> QED
  BY <1>1, <1>2, PTL DEF ListSpec

\* The reading filed last under the name of a row is the row's own.
LEMMA OwnReadings ==
    ListInv => ReadingsAreOwn
<1> SUFFICES ASSUME ListInv, NEW r \in Elements(listed) PROVE GetData(Filed(listed), r) = r
  BY Zenon DEF ReadingsAreOwn
<1>1. PICK i \in DOMAIN listed : r = listed[i]
  BY Zenon DEF Elements
<1>2. \A j \in DOMAIN listed : listed[j] \in Resource /\ j \in Nat
  BY DEF ListInv
<1> DEFINE key == NameString(r)
           Last(k) == /\ NameString(listed[k]) = key
                      /\ \A j \in DOMAIN listed : NameString(listed[j]) = key => j <= k
           last == CHOOSE k \in DOMAIN listed : Last(k)
<1>3. \A j \in DOMAIN listed : NameString(listed[j]) = key => listed[j] = r
  BY <1>1, <1>2, NameInjective, Zenon
<1>4. \A j \in DOMAIN listed : NameString(listed[j]) = key => j = i
  BY <1>1, <1>3, Zenon DEF ListInv, Distinct
<1>5. i <= i
  BY <1>1, <1>2
<1>6. Last(i)
  BY <1>1, <1>4, <1>5, Zenon
<1>7. last \in DOMAIN listed /\ Last(last)
  BY <1>1, <1>6, Zenon
<1>8. listed[last] = r
  BY <1>3, <1>7, Zenon
<1>9. key \in {NameString(listed[j]) : j \in DOMAIN listed}
  BY <1>1, Zenon
<1>10. DOMAIN Filed(listed) = {NameString(listed[j]) : j \in DOMAIN listed} /\ Filed(listed)[key] = listed[last]
  BY <1>9, Zenon DEF Filed
<1> QED
  BY <1>8, <1>9, <1>10, Zenon DEF GetData

\* Every row of the sensors card shows the reading of its own sensor, whatever
\* the strings are made of: getReadings files a reading under the string of
\* resourceNameToString, which no two resources have in common.
THEOREM ReadingsAreOwnHolds ==
    ListSpec => []ReadingsAreOwn
  BY ListInvHolds, OwnReadings, PTL

-----------------------------------------------------------------------------
(* Reading a kind back from a string. *)

\* The k-th cut is the one with k cuts before it.
LEMMA NthIs ==
    ASSUME NEW S \in SUBSET Nat, IsFiniteSet(S), NEW i \in S
    PROVE  Nth(S, Cardinality({j \in S : j < i})) = i
<1> DEFINE below(n) == {j \in S : j < n}
<1>1. \A n \in S : below(n) \in SUBSET S /\ IsFiniteSet(below(n))
  BY FS_Subset
<1>2. ASSUME NEW n \in S, NEW m \in S, n < m
      PROVE  Cardinality(below(n)) # Cardinality(below(m))
  <2>1. below(n) \in SUBSET below(m)
    <3>1. \A j \in S : j < n => j < m
      BY <1>2
    <3> QED
      BY <3>1, Zenon
  <2>2. n \in below(m) /\ n \notin below(n)
    BY <1>2
  <2> HIDE DEF below
  <2> QED
    BY <1>1, <2>1, <2>2, FS_Subset, Zenon
<1>3. \A n \in S : Cardinality(below(n)) = Cardinality(below(i)) => n = i
  <2> TAKE n \in S
  <2>1. n < i \/ n = i \/ i < n
    OBVIOUS
  <2> HIDE DEF below
  <2> QED
    BY <1>2, <2>1, Zenon
<1> HIDE DEF below
<1>4. Nth(S, Cardinality(below(i))) = CHOOSE n \in S : Cardinality(below(n)) = Cardinality(below(i))
  BY Zenon DEF Nth, below
<1>5. (CHOOSE n \in S : Cardinality(below(n)) = Cardinality(below(i))) = i
  BY <1>3, Zenon
<1> QED
  BY <1>4, <1>5, Zenon DEF below

\* There are finitely many cuts.
LEMMA CutsFinite ==
    ASSUME NEW s \in Str, NEW c
    PROVE  Cuts(s, c) \in SUBSET Nat /\ IsFiniteSet(Cuts(s, c))
<1>1. Cuts(s, c) \in SUBSET (0..Len(s) + 1) /\ Len(s) + 1 \in Int
  BY DEF Cuts, Str
<1>2. IsFiniteSet(0..Len(s) + 1)
  BY <1>1, FS_Interval
<1> QED
  BY <1>1, <1>2, FS_Subset

\* The first part is what is before the first separator.
LEMMA FirstPart ==
    ASSUME NEW s \in Str, NEW c, NEW k \in Str, Without(k, c), Len(k) <= Len(s),
           \A i \in 1..Len(k) : s[i] = k[i], Len(k) + 1 \in Cuts(s, c)
    PROVE  Split(s, c)[1] = k
<1> DEFINE S == Cuts(s, c)
<1>1. S \in SUBSET Nat /\ IsFiniteSet(S)
  BY CutsFinite
<1>2. 0 \in S /\ Len(k) \in Nat
  BY DEF Cuts, Str
<1>3. \A j \in S : j = 0 \/ j >= Len(k) + 1
  <2> SUFFICES ASSUME NEW j \in DOMAIN s, s[j] = c, j < Len(k) + 1 PROVE FALSE
    BY <1>2 DEF Cuts, Str
  <2>1. j \in 1..Len(k)
    BY <1>2 DEF Str
  <2> QED
    BY <2>1, Zenon DEF Without
<1>4. {j \in S : j < 0} = {} /\ {j \in S : j < Len(k) + 1} = {0}
  <2> DEFINE n == Len(k) + 1
  <2>1. n \in Nat /\ 0 < n
    BY <1>2
  <2>2. \A j \in S : j = 0 \/ j >= n
    BY <1>3, Zenon
  <2> HIDE DEF S, n
  <2>3. {j \in S : j < 0} = {}
    <3>1. \A j \in S : ~(j < 0)
      BY <1>1
    <3> QED
      BY <3>1, Zenon
  <2>4. {j \in S : j < n} = {0}
    <3>1. \A j \in S : j < n <=> j = 0
      BY <1>1, <1>2, <2>1, <2>2
    <3> QED
      BY <1>2, <3>1, Zenon
  <2> QED
    BY <2>3, <2>4, Zenon DEF n
<1>5. Nth(S, 0) = 0
  <2>1. Nth(S, Cardinality({j \in S : j < 0})) = 0
    BY <1>1, <1>2, NthIs, Zenon
  <2>2. Nth(S, Cardinality({})) = 0
    BY <1>4, <2>1, Zenon
  <2>3. Cardinality({}) = 0
    BY FS_EmptySet, Zenon
  <2> QED
    BY <2>2, <2>3, Zenon
<1>6. Nth(S, 1) = Len(k) + 1
  <2>1. Nth(S, Cardinality({j \in S : j < Len(k) + 1})) = Len(k) + 1
    BY <1>1, NthIs, Zenon
  <2>2. Nth(S, Cardinality({0})) = Len(k) + 1
    BY <1>4, <2>1, Zenon
  <2>3. Cardinality({0}) = 1
    BY FS_Singleton, Zenon
  <2> QED
    BY <2>2, <2>3, Zenon
<1>7. 1 \in 1..Cardinality(S) - 1
  <2>1. {0, Len(k) + 1} \in SUBSET S
    BY <1>2
  <2>2. Cardinality({0} \union {Len(k) + 1}) = 2
    <3>1. Len(k) + 1 \notin {0}
      BY <1>2
    <3>2. IsFiniteSet({0}) /\ Cardinality({0}) = 1
      BY FS_Singleton, Zenon
    <3>3. Cardinality({0} \union {Len(k) + 1}) = Cardinality({0}) + 1
      BY <3>1, <3>2, FS_AddElement, Zenon
    <3>4. 1 + 1 = 2
      OBVIOUS
    <3> QED
      BY <3>2, <3>3, <3>4, Zenon
  <2>3. {0, Len(k) + 1} = {0} \union {Len(k) + 1}
    OBVIOUS
  <2> HIDE DEF S
  <2>4. 2 <= Cardinality(S) /\ Cardinality(S) \in Nat
    BY <1>1, <2>1, <2>2, <2>3, FS_Subset, FS_CardinalityType
  <2> QED
    BY <2>4
<1>8. Split(s, c)[1] = SubSeq(s, Nth(S, 1 - 1) + 1, Nth(S, 1) - 1)
  BY <1>7, Zenon DEF Split
<1>9. Split(s, c)[1] = SubSeq(s, 1, Len(k))
  <2>1. 1 - 1 = 0 /\ 0 + 1 = 1 /\ (Len(k) + 1) - 1 = Len(k)
    BY <1>2
  <2> QED
    BY <1>5, <1>6, <1>8, <2>1, Zenon
<1>10. SubSeq(s, 1, Len(k)) = k
  BY <1>2 DEF Str
<1> QED
  BY <1>9, <1>10, Zenon

\* Four cuts, counted.
Counted(p, q, z) ==
    LET S == {0, p, q, z}
    IN /\ Cardinality(S) = 4
       /\ Nth(S, 0) = 0 /\ Nth(S, 1) = p /\ Nth(S, 2) = q /\ Nth(S, 3) = z

LEMMA FourCuts ==
    ASSUME NEW p \in Nat, NEW q \in Nat, NEW z \in Nat, 0 < p, p < q, q < z
    PROVE  Counted(p, q, z)
<1> DEFINE S == {0, p, q, z}
<1>0. 0 # p /\ 0 # q /\ 0 # z /\ p # q /\ p # z /\ q # z
  OBVIOUS
<1>1. IsFiniteSet({0}) /\ Cardinality({0}) = 1 /\ Cardinality({}) = 0
  BY FS_Singleton, FS_EmptySet, Zenon
<1>2. IsFiniteSet({0, p}) /\ Cardinality({0, p}) = 2
  <2>1. {0, p} = {0} \union {p} /\ p \notin {0}
    BY <1>0, Zenon
  <2>2. IsFiniteSet({0} \union {p}) /\ Cardinality({0} \union {p}) = Cardinality({0}) + 1
    BY <1>1, <2>1, FS_AddElement, Zenon
  <2>3. 1 + 1 = 2
    OBVIOUS
  <2> QED
    BY <1>1, <2>1, <2>2, <2>3, Zenon
<1>3. IsFiniteSet({0, p, q}) /\ Cardinality({0, p, q}) = 3
  <2>1. {0, p, q} = {0, p} \union {q} /\ q \notin {0, p}
    BY <1>0, Zenon
  <2>2. IsFiniteSet({0, p} \union {q}) /\ Cardinality({0, p} \union {q}) = Cardinality({0, p}) + 1
    BY <1>2, <2>1, FS_AddElement, Zenon
  <2>3. 2 + 1 = 3
    OBVIOUS
  <2> QED
    BY <1>2, <2>1, <2>2, <2>3, Zenon
<1>4. IsFiniteSet(S) /\ Cardinality(S) = 4
  <2>1. S = {0, p, q} \union {z} /\ z \notin {0, p, q}
    BY <1>0, Zenon
  <2>2. IsFiniteSet({0, p, q} \union {z}) /\ Cardinality({0, p, q} \union {z}) = Cardinality({0, p, q}) + 1
    BY <1>3, <2>1, FS_AddElement, Zenon
  <2>3. 3 + 1 = 4
    OBVIOUS
  <2> QED
    BY <1>3, <2>1, <2>2, <2>3, Zenon
<1>5. S \in SUBSET Nat /\ 0 \in S /\ p \in S /\ q \in S /\ z \in S
  OBVIOUS
<1>5a. \A j \in S : j = 0 \/ j = p \/ j = q \/ j = z
  OBVIOUS
<1> HIDE DEF S
<1>6. /\ {j \in S : j < 0} = {}
      /\ {j \in S : j < p} = {0}
      /\ {j \in S : j < q} = {0, p}
      /\ {j \in S : j < z} = {0, p, q}
  <2>1. /\ \A j \in S : ~(j < 0)
        /\ \A j \in S : j < p <=> j = 0
        /\ \A j \in S : j < q <=> j = 0 \/ j = p
        /\ \A j \in S : j < z <=> j = 0 \/ j = p \/ j = q
    BY <1>5a
  <2> QED
    BY <1>5, <2>1, Zenon
<1>7. /\ Nth(S, Cardinality({j \in S : j < 0})) = 0
      /\ Nth(S, Cardinality({j \in S : j < p})) = p
      /\ Nth(S, Cardinality({j \in S : j < q})) = q
      /\ Nth(S, Cardinality({j \in S : j < z})) = z
  BY <1>4, <1>5, NthIs, Zenon
<1>8. /\ Nth(S, Cardinality({})) = 0 /\ Nth(S, Cardinality({0})) = p
      /\ Nth(S, Cardinality({0, p})) = q /\ Nth(S, Cardinality({0, p, q})) = z
  BY <1>6, <1>7, Zenon
<1> QED
  BY <1>1, <1>2, <1>3, <1>4, <1>8, Zenon DEF Counted, S

\* A piece of a string.
LEMMA Slice ==
    ASSUME NEW w \in Str, NEW s \in Str, NEW m \in Nat, m + Len(s) <= Len(w),
           \A i \in 1..Len(s) : w[m + i] = s[i]
    PROVE  SubSeq(w, m + 1, m + Len(s)) = s
  BY SMTT(60) DEF Str

\* Two separators, three parts.
SplitsIn3(c, s1, s2, s3) ==
    Without(s1, c) /\ Without(s2, c) /\ Without(s3, c)
       => Split(Join(s1, c, Join(s2, c, s3)), c) = <<s1, s2, s3>>

LEMMA ThreeParts ==
    \A c \in Token, s1 \in Str, s2 \in Str, s3 \in Str : SplitsIn3(c, s1, s2, s3)
<1> TAKE c \in Token, s1 \in Str, s2 \in Str, s3 \in Str
<1> SUFFICES ASSUME Without(s1, c), Without(s2, c), Without(s3, c)
             PROVE  Split(Join(s1, c, Join(s2, c, s3)), c) = <<s1, s2, s3>>
  BY Zenon DEF SplitsIn3
<1> DEFINE t == Join(s2, c, s3)
           w == Join(s1, c, t)
           p == Len(s1) + 1
           q == Len(s1) + Len(s2) + 2
           z == Len(s1) + Len(s2) + Len(s3) + 3
           S == Cuts(w, c)
<1>1. JoinIs(s2, c, s3)
  BY JoinParts, Zenon
<1>2. t \in Str
  BY <1>1, Zenon DEF JoinIs
<1>3. JoinIs(s1, c, t)
  BY <1>2, JoinParts, Zenon
<1>4. Len(s1) \in Nat /\ Len(s2) \in Nat /\ Len(s3) \in Nat
  BY LenNat, Zenon
<1>5. /\ Len(t) = Len(s2) + 1 + Len(s3)
      /\ \A i \in 1..Len(s2) : t[i] = s2[i]
      /\ t[Len(s2) + 1] = c
      /\ \A i \in 1..Len(s3) : t[Len(s2) + 1 + i] = s3[i]
  BY <1>1, Zenon DEF JoinIs
<1>6. /\ w \in Str
      /\ Len(w) = Len(s1) + 1 + Len(t)
      /\ \A i \in 1..Len(s1) : w[i] = s1[i]
      /\ w[Len(s1) + 1] = c
      /\ \A i \in 1..Len(t) : w[Len(s1) + 1 + i] = t[i]
  BY <1>3, Zenon DEF JoinIs
<1> HIDE DEF t, w
<1>7. Len(w) + 1 = z /\ w[p] = c /\ w[q] = c
  <2>1. Len(s2) + 1 \in 1..Len(t) /\ q = Len(s1) + 1 + (Len(s2) + 1) /\ Len(w) + 1 = z
    BY <1>4, <1>5, <1>6
  <2> QED
    BY <1>5, <1>6, <2>1, Zenon
<1>8. /\ \A i \in 1..Len(s2) : w[p + i] = s2[i]
      /\ \A i \in 1..Len(s3) : w[q + i] = s3[i]
  <2>1. ASSUME NEW i \in 1..Len(s2) PROVE w[p + i] = s2[i]
    <3>1. i \in 1..Len(t) /\ p + i = Len(s1) + 1 + i
      BY <1>4, <1>5
    <3> QED
      BY <1>5, <1>6, <3>1, Zenon
  <2>2. ASSUME NEW i \in 1..Len(s3) PROVE w[q + i] = s3[i]
    <3>1. Len(s2) + 1 + i \in 1..Len(t) /\ q + i = Len(s1) + 1 + (Len(s2) + 1 + i)
      BY <1>4, <1>5
    <3> QED
      BY <1>5, <1>6, <3>1, Zenon
  <2> QED
    BY <2>1, <2>2, Zenon
<1>9. S = {0, p, q, z}
  <2>1. DOMAIN w = 1..(z - 1)
    <3>1. DOMAIN w = 1..Len(w)
      BY <1>6 DEF Str
    <3>2. Len(w) = z - 1
      BY <1>4, <1>5, <1>6
    <3> QED
      BY <3>1, <3>2, Zenon
  <2>2. ASSUME NEW i \in DOMAIN w, w[i] = c PROVE i = p \/ i = q
    <3>1. i \in 1..Len(s1) \/ i = p \/ (i - p) \in 1..Len(s2) \/ i = q \/ (i - q) \in 1..Len(s3)
      BY <1>4, <2>1
    <3>2. i = p + (i - p) /\ i = q + (i - q)
      BY <1>4, <2>1
    <3>3. ASSUME i \in 1..Len(s1) PROVE FALSE
      BY <1>6, <2>2, <3>3, Zenon DEF Without
    <3>4. ASSUME (i - p) \in 1..Len(s2) PROVE FALSE
      BY <1>8, <2>2, <3>2, <3>4, Zenon DEF Without
    <3>5. ASSUME (i - q) \in 1..Len(s3) PROVE FALSE
      BY <1>8, <2>2, <3>2, <3>5, Zenon DEF Without
    <3> QED
      BY <3>1, <3>3, <3>4, <3>5, Zenon
  <2>3. p \in DOMAIN w /\ q \in DOMAIN w
    BY <1>4, <2>1
  <2> HIDE DEF p, q, z
  <2> QED
    BY <1>7, <2>2, <2>3, Zenon DEF Cuts
<1>10. p \in Nat /\ q \in Nat /\ z \in Nat /\ 0 < p /\ p < q /\ q < z
  BY <1>4
<1>11. /\ Cardinality(S) = 4
       /\ Nth(S, 0) = 0 /\ Nth(S, 1) = p /\ Nth(S, 2) = q /\ Nth(S, 3) = z
  <2> HIDE DEF p, q, z, S
  <2>1. Counted(p, q, z)
    BY <1>10, FourCuts, Zenon
  <2> QED
    BY <1>9, <2>1, Zenon DEF Counted
<1>12. /\ SubSeq(w, 0 + 1, p - 1) = s1
       /\ SubSeq(w, p + 1, q - 1) = s2
       /\ SubSeq(w, q + 1, z - 1) = s3
  <2>1. SubSeq(w, 0 + 1, 0 + Len(s1)) = s1
    <3>1. 0 + Len(s1) <= Len(w) /\ \A i \in 1..Len(s1) : 0 + i = i
      BY <1>4, <1>5, <1>6
    <3> QED
      BY <1>6, <3>1, Slice
  <2>2. SubSeq(w, p + 1, p + Len(s2)) = s2
    <3>1. p \in Nat /\ p + Len(s2) <= Len(w)
      BY <1>4, <1>5, <1>6
    <3> HIDE DEF p
    <3> QED
      BY <1>6, <1>8, <3>1, Slice, Zenon
  <2>3. SubSeq(w, q + 1, q + Len(s3)) = s3
    <3>1. q \in Nat /\ q + Len(s3) <= Len(w)
      BY <1>4, <1>5, <1>6
    <3> HIDE DEF q
    <3> QED
      BY <1>6, <1>8, <3>1, Slice, Zenon
  <2>4. 0 + Len(s1) = p - 1 /\ p + Len(s2) = q - 1 /\ q + Len(s3) = z - 1
    BY <1>4
  <2> HIDE DEF p, q, z
  <2> QED
    BY <2>1, <2>2, <2>3, <2>4, Zenon
<1>13. Split(w, c) = [k \in 1..3 |-> SubSeq(w, Nth(S, k - 1) + 1, Nth(S, k) - 1)]
  <2>1. Split(w, c) = [k \in 1..Cardinality(S) - 1 |-> SubSeq(w, Nth(S, k - 1) + 1, Nth(S, k) - 1)]
    BY Zenon DEF Split
  <2>2. 4 - 1 = 3
    OBVIOUS
  <2> HIDE DEF S, p, q, z
  <2> QED
    BY <1>11, <2>1, <2>2, Zenon
<1>14. /\ Split(w, c)[1] = s1 /\ Split(w, c)[2] = s2 /\ Split(w, c)[3] = s3
  <2>1. 1 - 1 = 0 /\ 2 - 1 = 1 /\ 3 - 1 = 2 /\ 1 \in 1..3 /\ 2 \in 1..3 /\ 3 \in 1..3
    OBVIOUS
  <2> HIDE DEF S, p, q, z
  <2>2. /\ Split(w, c)[1] = SubSeq(w, Nth(S, 1 - 1) + 1, Nth(S, 1) - 1)
        /\ Split(w, c)[2] = SubSeq(w, Nth(S, 2 - 1) + 1, Nth(S, 2) - 1)
        /\ Split(w, c)[3] = SubSeq(w, Nth(S, 3 - 1) + 1, Nth(S, 3) - 1)
    BY <1>13, <2>1, Zenon
  <2> QED
    BY <1>11, <1>12, <2>1, <2>2, Zenon
<1>15. Split(w, c) = [k \in 1..3 |-> Split(w, c)[k]]
  BY <1>13, Zenon
<1> DEFINE f == Split(w, c)
<1> HIDE DEF f
<1>16. f = <<s1, s2, s3>>
  <2>1. f = [k \in 1..3 |-> f[k]] /\ f[1] = s1 /\ f[2] = s2 /\ f[3] = s3
    BY <1>14, <1>15, Zenon DEF f
  <2> QED
    BY <2>1
<1> QED
  BY <1>16, Zenon DEF f, w, t

\* The slash that ends the prefix is the first one, and the prefix has two colons.
LEMMA KindsReadBack ==
    ListInv => KindReadBack
<1> SUFFICES ASSUME ListInv, NEW r \in Elements(listed)
             PROVE  StringToResourceName(NameString(r)).kind
                       = <<Namespaces[r.kind[1]], Types[r.kind[2]], Subtypes[r.kind[3]]>>
  BY Zenon DEF KindReadBack
<1>1. r \in Resource
  BY DEF Elements, ListInv
<1> DEFINE a == Namespaces[r.kind[1]]
           b == Types[r.kind[2]]
           c == Subtypes[r.kind[3]]
           n == Names[r.name]
           k == SubtypeString(r)
           s == NameString(r)
<1>2. /\ a \in Str /\ b \in Str /\ c \in Str /\ n \in Str
      /\ Without(a, ":") /\ Without(b, ":") /\ Without(c, ":")
      /\ Without(a, "/") /\ Without(b, "/") /\ Without(c, "/")
  BY <1>1, KindStrings, Zenon DEF Without
<1>3. ":" \in Token /\ "/" \in Token
  BY ListConstantsOK
<1>4. k = Join(a, ":", Join(b, ":", c)) /\ k \in Str /\ Without(k, "/")
  BY <1>1, SubtypeForm, Zenon
<1>5. Split(k, ":") = <<a, b, c>>
  <2> HIDE DEF a, b, c, k
  <2>1. SplitsIn3(":", a, b, c)
    BY <1>2, <1>3, ThreeParts, Zenon
  <2> QED
    BY <1>2, <1>3, <1>4, <2>1, Zenon DEF SplitsIn3
<1>7. Split(s, "/")[1] = k
  <2>1. s = IF n = <<>> THEN k ELSE Join(k, "/", n)
    BY DEF NameString, Join
  <2> HIDE DEF s, k, n
  <2>2. CASE n = <<>>
    <3>1. s = k
      BY <2>1, <2>2, Zenon
    <3>2. Len(k) + 1 \in Cuts(k, "/") /\ Len(k) <= Len(k)
      BY <1>4 DEF Cuts, Str
    <3> QED
      BY <1>4, <3>1, <3>2, FirstPart, Zenon
  <2>3. CASE n # <<>>
    <3>1. s = Join(k, "/", n)
      BY <2>1, <2>3, Zenon
    <3>2. JoinIs(k, "/", n)
      BY <1>2, <1>3, <1>4, JoinParts, Zenon
    <3>3. /\ s \in Str /\ Len(s) = Len(k) + 1 + Len(n)
          /\ \A i \in 1..Len(k) : s[i] = k[i]
          /\ s[Len(k) + 1] = "/"
      BY <3>1, <3>2, Zenon DEF JoinIs
    <3>4. Len(k) <= Len(s) /\ Len(k) + 1 \in DOMAIN s
      <4>1. Len(k) \in Nat /\ Len(n) \in Nat /\ DOMAIN s = 1..Len(s)
        BY <1>2, <1>4, <3>3, LenNat, Zenon
      <4> QED
        BY <3>3, <4>1
    <3>5. Len(k) + 1 \in Cuts(s, "/")
      BY <3>3, <3>4, Zenon DEF Cuts
    <3> QED
      BY <1>4, <3>3, <3>4, <3>5, FirstPart, Zenon
  <2> QED
    BY <2>2, <2>3
<1> HIDE DEF a, b, c, k, s
<1>8. Len(<<a, b, c>>) = 3
  OBVIOUS
<1>9. StringToResourceName(s).kind = <<a, b, c>>
  BY <1>5, <1>7, <1>8 DEF StringToResourceName
<1> QED
  BY <1>9, Zenon DEF a, b, c, s

\* stringToResourceName throws for no resource and returns its kind, however many
\* colons and slashes its name has (queryMetadata relies on it).
THEOREM KindReadBackHolds ==
    ListSpec => []KindReadBack
  BY ListInvHolds, KindsReadBack, PTL
=============================================================================
