------------------------- MODULE JenkinsBatch_proofs -------------------------
(***************************************************************************)
(* Theorems about JenkinsBatch, for any jobs Jenkins may hold, any batch   *)
(* and any number of restarts.                                             *)
(***************************************************************************)
EXTENDS JenkinsBatch, FiniteSetTheorems, WellFoundedInduction,
        SequenceTheorems, TLAPS

\* The words of names: the provers do not know that a literal is a string.
Word == STRING \cup {"test", "kaniko"}

Jobs == [url : STRING, name : Seq(Word) \ {<<>>}, params : Seq(STRING)]
Asked == [service : Seq(Word) \ {<<>>}, branch : STRING]

\* A list of jobs as listJobsRecursive returns it.
JobList(jobs) == jobs \in Seq(Jobs) /\ IsInjective(jobs)

----------------------------------------------------------------------------
(***************************************************************************)
(* The least and the greatest of some places of a list.                    *)
(***************************************************************************)
LEMMA MinIsLeast ==
  ASSUME NEW S, S \subseteq Nat, S # {}
  PROVE  Min(S) \in S /\ \A y \in S : Min(S) <= y
  <1>1. PICK x \in S : \A y \in S : ~(<<y, x>> \in OpToRel(<, Nat))
    BY NatLessThanWellFounded, WFMin
  <1>2. \A y \in S : x <= y
    <2>1. ASSUME NEW y \in S, y < x PROVE FALSE
      <3>1. <<y, x>> \in OpToRel(<, Nat)
        BY <2>1 DEF OpToRel
      <3> QED BY <1>1, <3>1
    <2> QED BY <2>1
  <1> QED BY <1>1, <1>2 DEF Min

LEMMA MaxIsIn ==
  ASSUME NEW n \in Nat, NEW S, S \subseteq 1 .. n, S # {}
  PROVE  Max(S) \in S
  <1> DEFINE T == {m \in Nat : \E x \in S : m = n - x}
  <1>1. T \subseteq Nat /\ T # {}
    <2>1. PICK x \in S : TRUE
      OBVIOUS
    <2>2. n - x \in T
      BY <2>1
    <2> QED BY <2>2
  <1> HIDE DEF T
  <1>2. PICK t \in T : \A y \in T : t <= y
    BY <1>1, MinIsLeast
  <1>3. PICK x \in S : t = n - x
    BY <1>2 DEF T
  <1>4. ASSUME NEW y \in S PROVE x >= y
    <2>1. n - y \in T
      BY DEF T
    <2> QED BY <1>2, <1>3, <2>1
  <1> QED BY <1>3, <1>4 DEF Max

----------------------------------------------------------------------------
(***************************************************************************)
(* matchJenkinsJob: it finds a job of the service, and finds one if there  *)
(* is one.                                                                 *)
(***************************************************************************)
\* A service within a name, between two other parts of it.
LEMMA WithinParts ==
  ASSUME NEW a \in Seq(Word), NEW s \in Seq(Word) \ {<<>>}, NEW b \in Seq(Word)
  PROVE  Within(s, a \o s \o b)
  <1> DEFINE name == (a \o s) \o b
             rest == SubSeq(name, Len(a) + 1, Len(name))
  <1>1. /\ Len(a) \in Nat /\ Len(s) \in Nat \ {0} /\ Len(b) \in Nat
    BY EmptySeq, LenProperties
  <1>2. /\ a \o s \in Seq(Word) /\ Len(a \o s) = Len(a) + Len(s)
        /\ \A i \in 1 .. Len(a) + Len(s) :
             (a \o s)[i] = IF i <= Len(a) THEN a[i] ELSE s[i - Len(a)]
    BY ConcatProperties
  <1>3. /\ name \in Seq(Word) /\ Len(name) = Len(a) + Len(s) + Len(b)
        /\ \A i \in 1 .. Len(a) + Len(s) : name[i] = (a \o s)[i]
    BY <1>1, <1>2, ConcatProperties
  <1> HIDE DEF name
  <1>4. \A i \in Len(a) + 1 .. Len(name) : name[i] \in Word
    BY <1>1, <1>3, ElementOfSeq
  <1>5. /\ rest \in Seq(Word) /\ Len(rest) = Len(s) + Len(b)
        /\ \A i \in 1 .. Len(s) + Len(b) : rest[i] = name[Len(a) + i]
    <2> DEFINE m == Len(a) + 1
               n == Len(name)
    <2>1. m \in Int /\ n \in Int /\ m <= n /\ n - m + 1 = Len(s) + Len(b)
      BY <1>1, <1>3
    <2>2. /\ SubSeq(name, m, n) \in Seq(Word)
          /\ Len(SubSeq(name, m, n)) = IF m <= n THEN n - m + 1 ELSE 0
          /\ \A i \in 1 .. n - m + 1 : SubSeq(name, m, n)[i] = name[m + i - 1]
      BY <1>4, <2>1, SubSeqProperties
    <2>3. \A i \in 1 .. Len(s) + Len(b) : m + i - 1 = Len(a) + i
      BY <1>1
    <2> QED BY <2>1, <2>2, <2>3
  <1> HIDE DEF rest
  <1>6. ASSUME NEW i \in 1 .. Len(s) PROVE rest[i] = s[i]
    <2> DEFINE k == Len(a) + i
    <2>1. /\ i \in 1 .. Len(s) + Len(b) /\ k \in 1 .. Len(a) + Len(s)
          /\ ~(k <= Len(a)) /\ k - Len(a) = i
      BY <1>1
    <2> HIDE DEF k
    <2>2. rest[i] = name[k]
      BY <1>5, <2>1 DEF k
    <2>3. name[k] = (a \o s)[k]
      BY <1>3, <2>1
    <2>4. (a \o s)[k] = s[i]
      BY <1>2, <2>1
    <2> QED BY <2>2, <2>3, <2>4
  <1>7. SubSeq(s, 1, Len(s)) = s
    BY SubSeqFull
  <1>8. SubSeq(rest, 1, Len(s)) = s
    <2>1. \A i \in 1 .. Len(s) : rest[i] \in Word
      BY <1>6, ElementOfSeq
    <2>2. /\ SubSeq(rest, 1, Len(s)) \in Seq(Word)
          /\ Len(SubSeq(rest, 1, Len(s))) = Len(s)
          /\ \A i \in 1 .. Len(s) : SubSeq(rest, 1, Len(s))[i] = rest[i]
      <3>1. /\ SubSeq(rest, 1, Len(s)) \in Seq(Word)
            /\ Len(SubSeq(rest, 1, Len(s))) = IF 1 <= Len(s) THEN Len(s) - 1 + 1 ELSE 0
            /\ \A i \in 1 .. Len(s) - 1 + 1 : SubSeq(rest, 1, Len(s))[i] = rest[1 + i - 1]
        BY <1>1, <2>1, SubSeqProperties
      <3>2. Len(s) - 1 + 1 = Len(s) /\ \A i \in 1 .. Len(s) : 1 + i - 1 = i
        BY <1>1
      <3> QED BY <1>1, <3>1, <3>2
    <2> QED BY <1>6, <2>2, SeqEqual
  <1>9. IsPrefix(s, rest)
    BY <1>1, <1>5, <1>7, <1>8 DEF IsPrefix
  <1>10. Len(a) + 1 \in 1 .. Len(name)
    BY <1>1, <1>3
  <1> QED BY <1>9, <1>10 DEF Within, rest, name

LEMMA OneWord ==
  ASSUME NEW w \in Word
  PROVE  <<w>> \in Seq(Word) /\ Len(<<w>>) = 1 /\ <<w>>[1] = w
  <1>1. <<>> \in Seq(Word)
    BY EmptySeq
  <1>2. Append(<<>>, w) = <<w>>
    OBVIOUS
  <1> QED BY <1>1, <1>2, AppendProperties

LEMMA PreferredNames ==
  ASSUME NEW service \in Seq(Word) \ {<<>>}
  PROVE  /\ DOMAIN Preferred(service) = 1 .. 4
         /\ \A p \in 1 .. 4 : Within(service, Preferred(service)[p])
  <1> DEFINE T == <<"test">>
  <1>1. /\ Preferred(service)[1] = T \o service \o Kaniko
        /\ Preferred(service)[2] = service \o Kaniko
        /\ Preferred(service)[3] = T \o service
        /\ Preferred(service)[4] = service
        /\ DOMAIN Preferred(service) = 1 .. 4
    BY DEF Preferred
  <1>2. T \in Seq(Word) /\ Kaniko \in Seq(Word) /\ <<>> \in Seq(Word)
    <2>1. "test" \in Word /\ "kaniko" \in Word
      BY DEF Word
    <2>2. T \in Seq(Word) /\ Kaniko \in Seq(Word)
      BY <2>1, OneWord DEF Kaniko
    <2> QED BY <2>2, EmptySeq
  <1> HIDE DEF T
  <1>3. service \in Seq(Word) /\ T \o service \in Seq(Word)
    BY <1>2, ConcatProperties
  <1>4. /\ <<>> \o service = service /\ service \o <<>> = service
        /\ (T \o service) \o <<>> = T \o service
    BY <1>3, ConcatEmptySeq
  <1>5. /\ Within(service, T \o service \o Kaniko)
        /\ Within(service, <<>> \o service \o Kaniko)
        /\ Within(service, T \o service \o <<>>)
        /\ Within(service, <<>> \o service \o <<>>)
    BY <1>2, WithinParts
  <1>6. /\ Within(service, service \o Kaniko)
        /\ Within(service, T \o service)
        /\ Within(service, service)
    BY <1>4, <1>5
  <1>7. ASSUME NEW p \in 1 .. 4 PROVE Within(service, Preferred(service)[p])
    <2>1. p = 1 \/ p = 2 \/ p = 3 \/ p = 4
      OBVIOUS
    <2> QED BY <1>1, <1>5, <1>6, <2>1
  <1> QED BY <1>1, <1>7

LEMMA FunctionIsSeq ==
  ASSUME NEW S, NEW n \in Nat, NEW f \in [1 .. n -> S]
  PROVE  f \in Seq(S) /\ Len(f) = n
  OBVIOUS

\* A name ends with the word kaniko.
LEMMA KanikoSuffix ==
  ASSUME NEW name \in Seq(Word) \ {<<>>}
  PROVE  IsSuffix(Kaniko, name) <=> Last(name) = "kaniko"
  <1> DEFINE n == Len(name)
             k == Reverse(Kaniko)
             r == Reverse(name)
  <1>1. n \in Nat \ {0} /\ "kaniko" \in Word
    BY EmptySeq DEF Word
  <1>2. \A i \in 1 .. n : name[i] \in Word
    BY ElementOfSeq
  <1>3. Kaniko \in Seq(Word) /\ Len(Kaniko) = 1 /\ Kaniko[1] = "kaniko"
    BY <1>1, OneWord DEF Kaniko
  <1>4. k \in Seq(Word) /\ Len(k) = 1 /\ k[1] = "kaniko"
    <2>1. k = [i \in 1 .. 1 |-> Kaniko[(1 - i) + 1]]
      BY <1>3 DEF Reverse
    <2>2. \A i \in 1 .. 1 : Kaniko[(1 - i) + 1] = "kaniko"
      BY <1>3
    <2>3. k \in [1 .. 1 -> Word] /\ k[1] = "kaniko"
      BY <1>1, <2>1, <2>2
    <2> HIDE DEF k
    <2>4. k \in Seq(Word) /\ Len(k) = 1
      BY <2>3, FunctionIsSeq
    <2> QED BY <2>3, <2>4
  <1>5. r \in Seq(Word) /\ Len(r) = n /\ r[1] = name[n]
    <2>1. r = [i \in 1 .. n |-> name[(n - i) + 1]]
      BY DEF Reverse
    <2>2. \A i \in 1 .. n : (n - i) + 1 \in 1 .. n
      BY <1>1
    <2>3. r \in [1 .. n -> Word]
      BY <1>2, <2>1, <2>2
    <2>4. 1 \in 1 .. n /\ (n - 1) + 1 = n
      BY <1>1
    <2> QED BY <1>1, <2>1, <2>3, <2>4
  <1> HIDE DEF n, k, r
  <1>6. SubSeq(k, 1, 1) \in Seq(Word) /\ Len(SubSeq(k, 1, 1)) = 1
        /\ SubSeq(k, 1, 1)[1] = "kaniko"
    BY <1>4, SubSeqFull
  <1>7. SubSeq(r, 1, 1) \in Seq(Word) /\ Len(SubSeq(r, 1, 1)) = 1
        /\ SubSeq(r, 1, 1)[1] = name[n]
    <2>1. \A i \in 1 .. 1 : r[i] \in Word
      BY <1>1, <1>2, <1>5
    <2>2. /\ SubSeq(r, 1, 1) \in Seq(Word)
          /\ Len(SubSeq(r, 1, 1)) = IF 1 <= 1 THEN 1 - 1 + 1 ELSE 0
          /\ \A i \in 1 .. 1 - 1 + 1 : SubSeq(r, 1, 1)[i] = r[1 + i - 1]
      BY <2>1, SubSeqProperties
    <2> QED BY <1>5, <2>2
  <1>8. SubSeq(k, 1, 1) = SubSeq(r, 1, 1) <=> name[n] = "kaniko"
    <2>1. ASSUME name[n] = "kaniko" PROVE SubSeq(k, 1, 1) = SubSeq(r, 1, 1)
      <3>1. \A i \in 1 .. Len(SubSeq(k, 1, 1)) : SubSeq(k, 1, 1)[i] = SubSeq(r, 1, 1)[i]
        BY <1>6, <1>7, <2>1
      <3> QED BY <1>6, <1>7, <3>1, SeqEqual
    <2> QED BY <1>6, <1>7, <2>1
  <1>9. IsSuffix(Kaniko, name) <=> Len(k) <= Len(r) /\ SubSeq(k, 1, Len(k)) = SubSeq(r, 1, Len(k))
    BY DEF IsSuffix, IsPrefix, k, r
  <1> QED BY <1>1, <1>4, <1>5, <1>8, <1>9 DEF Last, n

\* JobOf, of a list of jobs.
JobIn(service, list, j) ==
  LET jobs == ToSet(list)
      names == Preferred(service)
      own == {k \in jobs : k.name \in ToSet(names)}
      like == {k \in jobs : Within(service, k.name)}
  IN /\ j \in like
     /\ IF own # {}
        THEN \E p \in DOMAIN names :
               /\ j.name = names[p]
               /\ \A k \in own : k.name \notin {names[q] : q \in 1 .. p - 1}
        ELSE like = {j} \/ {k \in like : Last(k.name) = "kaniko"} = {j}

\* The places of a list and the jobs at them, as Match and JobIn name them.
OwnPlaces(service, list) ==
  {p \in DOMAIN Preferred(service) : Named(Preferred(service)[p], list) # {}}
KanikoPlaces(service, list) ==
  {i \in Like(service, list) : IsSuffix(Kaniko, list[i].name)}
OwnJobs(service, list) == {k \in ToSet(list) : k.name \in ToSet(Preferred(service))}
LikeJobs(service, list) == {k \in ToSet(list) : Within(service, k.name)}
KanikoJobs(service, list) == {k \in LikeJobs(service, list) : Last(k.name) = "kaniko"}

LEMMA PlacesAndJobs ==
  ASSUME NEW service \in Seq(Word) \ {<<>>}, NEW list, JobList(list)
  PROVE  /\ OwnPlaces(service, list) = {} <=> OwnJobs(service, list) = {}
         /\ OwnPlaces(service, list) \subseteq 1 .. 4
         /\ LikeJobs(service, list) = {list[i] : i \in Like(service, list)}
         /\ KanikoJobs(service, list) = {list[i] : i \in KanikoPlaces(service, list)}
         /\ IsFiniteSet(Like(service, list))
         /\ KanikoPlaces(service, list) \subseteq Like(service, list)
         /\ Like(service, list) \subseteq DOMAIN list
         /\ DOMAIN list = 1 .. Len(list) /\ Len(list) \in Nat
  <1>1. DOMAIN list = 1 .. Len(list) /\ Len(list) \in Nat
    BY LenProperties DEF JobList
  <1>2. \A i \in DOMAIN list : list[i] \in Jobs /\ list[i].name \in Seq(Word) \ {<<>>}
    <2>1. ASSUME NEW i \in DOMAIN list PROVE list[i] \in Jobs
      BY <1>1, ElementOfSeq DEF JobList
    <2> QED BY <2>1 DEF Jobs
  <1>3. DOMAIN Preferred(service) = 1 .. 4
    BY PreferredNames
  <1>4. OwnPlaces(service, list) = {} <=> OwnJobs(service, list) = {}
    BY DEF OwnPlaces, OwnJobs, Named, ToSet
  <1>5. LikeJobs(service, list) = {list[i] : i \in Like(service, list)}
    BY DEF LikeJobs, Like, ToSet
  <1>6. \A i \in DOMAIN list : IsSuffix(Kaniko, list[i].name) <=> Last(list[i].name) = "kaniko"
    BY <1>2, KanikoSuffix
  <1>7. KanikoJobs(service, list) = {list[i] : i \in KanikoPlaces(service, list)}
    BY <1>5, <1>6 DEF KanikoJobs, KanikoPlaces, Like
  <1>8. IsFiniteSet(DOMAIN list) /\ Like(service, list) \subseteq DOMAIN list
    BY <1>1, FS_Interval DEF Like
  <1>9. IsFiniteSet(Like(service, list))
    BY <1>8, FS_Subset
  <1> QED BY <1>1, <1>3, <1>4, <1>5, <1>7, <1>8, <1>9 DEF KanikoPlaces, OwnPlaces

LEMMA MatchIs ==
  ASSUME NEW service, NEW list
  PROVE  Match(service, list) =
           IF OwnPlaces(service, list) # {}
           THEN {list[Max(Named(Preferred(service)[Min(OwnPlaces(service, list))], list))]}
           ELSE IF Cardinality(Like(service, list)) > 1
                THEN Only(KanikoPlaces(service, list), list)
                ELSE Only(Like(service, list), list)
  BY DEF Match, OwnPlaces, KanikoPlaces

LEMMA JobInIs ==
  ASSUME NEW service, NEW list, NEW j
  PROVE  JobIn(service, list, j) <=>
           /\ j \in LikeJobs(service, list)
           /\ IF OwnJobs(service, list) # {}
              THEN \E p \in DOMAIN Preferred(service) :
                     /\ j.name = Preferred(service)[p]
                     /\ \A k \in OwnJobs(service, list) :
                          k.name \notin {Preferred(service)[q] : q \in 1 .. p - 1}
              ELSE LikeJobs(service, list) = {j} \/ KanikoJobs(service, list) = {j}
  BY DEF JobIn, LikeJobs, OwnJobs, KanikoJobs

\* The job it finds is one of the service.
LEMMA MatchSound ==
  ASSUME NEW service \in Seq(Word) \ {<<>>}, NEW list, JobList(list),
         NEW j \in Match(service, list)
  PROVE  JobIn(service, list, j) /\ j \in ToSet(list)
  <1> DEFINE own == OwnPlaces(service, list)
             like == Like(service, list)
             kaniko == KanikoPlaces(service, list)
             names == Preferred(service)
  <1>1. CASE own # {}
    <2> DEFINE p == Min(own)
               S == Named(names[p], list)
    <2>1. own \subseteq Nat /\ own \subseteq 1 .. 4
      BY PlacesAndJobs
    <2>2. p \in own /\ \A q \in own : p <= q
      BY <1>1, <2>1, MinIsLeast
    <2>3. S # {} /\ S \subseteq 1 .. Len(list) /\ Len(list) \in Nat
      BY <2>2, PlacesAndJobs DEF OwnPlaces, Named
    <2>4. Max(S) \in S
      BY <2>3, MaxIsIn
    <2>5. j = list[Max(S)]
      BY <1>1, MatchIs
    <2>6. j \in ToSet(list) /\ j.name = names[p]
      BY <2>4, <2>5 DEF Named, ToSet
    <2>7. DOMAIN names = 1 .. 4 /\ p \in DOMAIN names /\ p \in 1 .. 4
      BY <2>1, <2>2, PreferredNames
    <2>8. j \in LikeJobs(service, list)
      BY <2>6, <2>7, PreferredNames DEF LikeJobs
    <2>9. ASSUME NEW k \in OwnJobs(service, list), NEW q \in 1 .. p - 1
          PROVE  k.name # names[q]
      <3>1. SUFFICES ASSUME k.name = names[q] PROVE FALSE
        OBVIOUS
      <3>2. PICK i \in DOMAIN list : k = list[i]
        BY DEF OwnJobs, ToSet
      <3>3. q \in DOMAIN names
        BY <2>7
      <3>4. q \in own
        BY <3>1, <3>2, <3>3 DEF OwnPlaces, Named
      <3>5. q < p
        BY <2>7
      <3> QED BY <2>2, <2>7, <3>4, <3>5
    <2>10. OwnJobs(service, list) # {}
      BY <1>1, PlacesAndJobs
    <2> QED BY <2>6, <2>7, <2>8, <2>9, <2>10, JobInIs
  <1>2. CASE own = {}
    <2>1. OwnJobs(service, list) = {}
      BY <1>2, PlacesAndJobs
    <2>2. IsFiniteSet(like) /\ IsFiniteSet(kaniko) /\ kaniko \subseteq like /\ like \subseteq DOMAIN list
      BY PlacesAndJobs, FS_Subset
    <2>3. ASSUME NEW only, only \subseteq like, j \in Only(only, list)
          PROVE  \E i \in like : only = {i} /\ j = list[i]
      <3>1. Cardinality(only) = 1 /\ j \in {list[i] : i \in only}
        BY <2>3 DEF Only
      <3>2. IsFiniteSet(only)
        BY <2>2, <2>3, FS_Subset
      <3>3. PICK i : only = {i}
        BY <3>1, <3>2, FS_Singleton
      <3> QED BY <2>3, <3>1, <3>3
    <2>4. PICK i \in like : (kaniko = {i} \/ like = {i}) /\ j = list[i]
      BY <1>2, <2>2, <2>3, MatchIs
    <2>5. j \in LikeJobs(service, list) /\ j \in ToSet(list)
      BY <2>2, <2>4, PlacesAndJobs DEF ToSet
    <2>6. LikeJobs(service, list) = {j} \/ KanikoJobs(service, list) = {j}
      BY <2>4, PlacesAndJobs
    <2> QED BY <2>1, <2>5, <2>6, JobInIs
  <1> QED BY <1>1, <1>2

\* It finds none only if the service has none.
LEMMA MatchComplete ==
  ASSUME NEW service \in Seq(Word) \ {<<>>}, NEW list, JobList(list),
         Match(service, list) = {}, NEW j, JobIn(service, list, j)
  PROVE  FALSE
  <1> DEFINE own == OwnPlaces(service, list)
             like == Like(service, list)
             kaniko == KanikoPlaces(service, list)
  <1>1. own = {} /\ OwnJobs(service, list) = {}
    BY MatchIs, PlacesAndJobs
  <1>2. /\ j \in LikeJobs(service, list)
        /\ LikeJobs(service, list) = {j} \/ KanikoJobs(service, list) = {j}
    BY <1>1, JobInIs
  <1>3. PICK i \in like : j = list[i]
    BY <1>2, PlacesAndJobs
  <1>4. like \subseteq DOMAIN list /\ kaniko \subseteq like /\ IsFiniteSet(like)
    BY PlacesAndJobs
  <1>5. \A k \in like : list[k] = j => k = i
    BY <1>3, <1>4 DEF JobList, IsInjective
  <1>6. like = {i} \/ kaniko = {i}
    <2>1. ASSUME LikeJobs(service, list) = {j} PROVE like = {i}
      <3>1. LikeJobs(service, list) = {list[k] : k \in like}
        BY PlacesAndJobs
      <3>2. \A k \in like : list[k] = j
        BY <2>1, <3>1
      <3> QED BY <1>3, <1>5, <3>2
    <2>2. KanikoJobs(service, list) = {j} => kaniko = {i}
      BY <1>3, <1>4, <1>5, PlacesAndJobs
    <2> QED BY <1>2, <2>1, <2>2
  <1>7. Cardinality({i}) = 1
    BY FS_Singleton
  <1>8. Only({i}, list) # {}
    BY <1>7 DEF Only
  <1>9. CASE Cardinality(like) > 1
    <2>1. ASSUME like = {i} PROVE FALSE
      <3>1. Cardinality(like) = 1
        BY <1>7, <2>1
      <3> QED BY <1>9, <3>1
    <2> QED BY <1>1, <1>6, <1>8, <1>9, <2>1, MatchIs
  <1>10. CASE ~(Cardinality(like) > 1)
    <2>1. Cardinality(like) \in Nat /\ Cardinality(like) # 0
      BY <1>3, <1>4, FS_CardinalityType, FS_EmptySet
    <2>2. Cardinality(like) = 1
      BY <1>10, <2>1
    <2>3. Only(like, list) # {}
      BY <1>3, <2>2 DEF Only
    <2> QED BY <1>1, <1>10, <2>3, MatchIs
  <1> QED BY <1>9, <1>10

\* A name that says branch is found if there is one.
LEMMA BranchIsNamed ==
  ASSUME NEW names \in Seq(STRING)
  PROVE  /\ BranchParam(names) \in BranchNames \cup {None}
         /\ ToSet(names) \cap BranchNames # {} =>
              BranchParam(names) \in ToSet(names) \cap BranchNames
  <1> DEFINE known == {p \in DOMAIN Priority : Priority[p] \in ToSet(names)}
             other == {i \in DOMAIN names : names[i] \in BranchNames}
  <1>1. DOMAIN Priority = 1 .. 4 /\ DOMAIN names = 1 .. Len(names) /\ Len(names) \in Nat
    BY LenProperties DEF Priority
  <1>2. known \subseteq Nat /\ other \subseteq Nat
    BY <1>1
  <1>3. BranchParam(names) = IF known # {} THEN Priority[Min(known)]
                             ELSE IF other # {} THEN names[Min(other)] ELSE None
    BY DEF BranchParam
  <1>4. CASE known # {}
    <2>1. Min(known) \in known
      BY <1>2, <1>4, MinIsLeast
    <2> QED BY <1>3, <1>4, <2>1 DEF BranchNames, ToSet
  <1>5. CASE known = {} /\ other # {}
    <2>1. Min(other) \in other
      BY <1>2, <1>5, MinIsLeast
    <2> QED BY <1>3, <1>5, <2>1 DEF ToSet
  <1>6. CASE known = {} /\ other = {}
    <2>1. ToSet(names) \cap BranchNames = {}
      BY <1>6 DEF ToSet
    <2> QED BY <1>3, <1>6, <2>1
  <1> QED BY <1>4, <1>5, <1>6

----------------------------------------------------------------------------
(***************************************************************************)
(* The invariant of the batch.                                             *)
(***************************************************************************)
Results == {"new", "refused", "matched", "accepted", "started", "failed"}
Posted == {"started", "failed"}
Saved == Posted \cup {"accepted"}

BuildRecord ==
  [item : Nat, job : Jobs, param : BranchNames \cup {None}, branch : STRING \cup {None}]

Types ==
  /\ tree \in Trees /\ issuer \in BOOLEAN /\ epoch \in Nat
  /\ batch \in Seq(Asked) /\ dry \in BOOLEAN
  /\ next \in 1 .. Len(batch) + 1 /\ place \in {"list", "params", "save"}
  /\ checked \in BOOLEAN /\ poisoned \in BOOLEAN
  /\ state \in [Item -> Results] /\ DOMAIN job = Item /\ DOMAIN param = Item
  /\ builds \in Seq(BuildRecord)

\* The items before the handler's are done with, the others are not begun.
Progress ==
  /\ \A i \in Item : state[i] = "new" <=> i >= next
  /\ \A i \in Item : IF dry THEN state[i] \notin Saved ELSE state[i] # "matched"
  /\ place = "save" => ~dry

\* The item has a job, and its parameters are read.
HasJob(i) == state[i] \in Saved \cup {"matched"} \/ (i = next /\ place # "list")
HasParam(i) == state[i] \in Saved \/ (i = next /\ place = "save")

Chosen(i) ==
  /\ HasJob(i) => /\ job[i] \in ToSet(ListJobs(tree))
                  /\ JobIn(batch[i].service, ListJobs(tree), job[i])
  /\ HasParam(i) => param[i] = BranchParam(job[i].params)

BuildsMatch ==
  /\ dry => builds = <<>>
  /\ \A n \in 1 .. Len(builds) :
       /\ builds[n].item \in Item
       /\ builds[n] = Build(builds[n].item)
       /\ state[builds[n].item] \in Posted
  /\ \A m, n \in 1 .. Len(builds) : builds[m].item = builds[n].item => m = n

\* The client's crumb is Jenkins's until Jenkins restarts.
CrumbInv ==
  /\ \A i \in Item : HasJob(i) /\ ~dry => checked
  /\ place # "list" => checked
  /\ issuer /\ checked /\ ~poisoned /\ epoch = 0 => crumb = epoch

Caused(i) ==
  /\ state[i] = "refused" =>
       ~\E j \in ToSet(ListJobs(tree)) : JobIn(batch[i].service, ListJobs(tree), j)
  /\ state[i] = "failed" => poisoned \/ epoch > 0

Inv ==
  /\ Types /\ Progress /\ BuildsMatch /\ CrumbInv
  /\ \A i \in Item : Chosen(i)
  /\ \A i \in Item \ hurt : Caused(i)

LEMMA TreeList ==
  ASSUME NEW t \in Trees
  PROVE  JobList(ListJobs(t))
  <1>1. Seq(STRING) \subseteq Seq(Word)
    BY SeqMonotonic DEF Word
  <1>2. [url : STRING, name : Seq(STRING) \ {<<>>}, params : Seq(STRING)] \subseteq Jobs
    BY <1>1 DEF Jobs
  <1> QED BY <1>2, BatchAssumption, SeqMonotonic DEF JobList

LEMMA BatchList ==
  ASSUME NEW b \in Batches
  PROVE  b \in Seq(Asked)
  <1>1. Seq(STRING) \subseteq Seq(Word)
    BY SeqMonotonic DEF Word
  <1>2. [service : Seq(STRING) \ {<<>>}, branch : STRING] \subseteq Asked
    BY <1>1 DEF Asked
  <1> QED BY <1>2, BatchAssumption, SeqMonotonic

LEMMA InitInv == Init => Inv
  <1> SUFFICES ASSUME Init PROVE Inv
    OBVIOUS
  <1>1. batch \in Seq(Asked) /\ Len(batch) \in Nat
    BY BatchList, LenProperties DEF Init
  <1>2. Types
    <2>1. <<>> \in Seq(BuildRecord)
      BY EmptySeq
    <2>2. state \in [Item -> Results] /\ DOMAIN job = Item /\ DOMAIN param = Item
      BY DEF Init, Results
    <2>3. 1 \in 1 .. Len(batch) + 1
      BY <1>1
    <2> QED BY <1>1, <2>1, <2>2, <2>3 DEF Types, Init
  <1>3. Progress
    BY <1>1 DEF Progress, Init, Item, Saved, Posted
  <1>4. BuildsMatch
    BY EmptySeq DEF BuildsMatch, Init
  <1>5. CrumbInv /\ \A i \in Item : Chosen(i) /\ Caused(i)
    BY DEF CrumbInv, Chosen, Caused, HasJob, HasParam, Init, Saved, Posted
  <1> QED BY <1>2, <1>3, <1>4, <1>5 DEF Inv

\* The builds are of items before the handler's.
LEMMA BuildsStay ==
  ASSUME Inv, next \in Item, UNCHANGED <<builds, request>>,
         \A i \in Item \ {next} :
           state'[i] = state[i] /\ job'[i] = job[i] /\ param'[i] = param[i]
  PROVE  BuildsMatch'
  <1>1. Item' = Item
    BY DEF Item, request
  <1>2. ASSUME NEW n \in 1 .. Len(builds)
        PROVE  /\ builds[n].item \in Item \ {next}
               /\ builds[n] = Build(builds[n].item)
               /\ state[builds[n].item] \in Posted
    <2>1. Len(batch) \in Nat
      BY LenProperties DEF Inv, Types
    <2>2. state[next] = "new"
      BY <2>1 DEF Inv, Types, Progress, Item
    <2>3. /\ builds[n].item \in Item
          /\ builds[n] = Build(builds[n].item)
          /\ state[builds[n].item] \in Posted
      BY DEF Inv, BuildsMatch
    <2> QED BY <2>2, <2>3 DEF Posted
  <1>3. \A n \in 1 .. Len(builds) : builds[n] =
          [item |-> builds[n].item, job |-> job'[builds[n].item], param |-> param'[builds[n].item],
           branch |-> IF param'[builds[n].item] = None THEN None
                      ELSE batch[builds[n].item].branch]
    BY <1>2 DEF Build
  <1>4. \A n \in 1 .. Len(builds) : state'[builds[n].item] \in Posted
    BY <1>2
  <1>5. dry => builds = <<>>
    BY DEF Inv, BuildsMatch
  <1>6. \A m, n \in 1 .. Len(builds) : builds[m].item = builds[n].item => m = n
    BY DEF Inv, BuildsMatch
  <1>7. UNCHANGED <<builds, batch, dry>>
    BY DEF request
  <1>8. \A n \in 1 .. Len(builds) : builds[n] = Build(builds[n].item)'
    BY <1>3, <1>7 DEF Build
  <1> QED BY <1>1, <1>2, <1>4, <1>5, <1>6, <1>7, <1>8 DEF BuildsMatch

LEMMA FetchCrumbInv == Inv /\ FetchCrumb => Inv'
  <1> SUFFICES ASSUME Inv, FetchCrumb PROVE Inv'
    OBVIOUS
  <1>1. /\ next \in Item /\ place = "list" /\ ~checked
        /\ UNCHANGED <<jenkins, builds, request>> /\ Len(batch) \in Nat
    BY LenProperties DEF FetchCrumb, At, Inv, Types
  <1>2. CASE /\ checked' = TRUE
             /\ crumb' = IF issuer THEN epoch ELSE None
             /\ UNCHANGED <<handler, poisoned, items>>
    <2>1. Types' /\ Progress' /\ BuildsMatch' /\ CrumbInv'
      BY <1>1, <1>2 DEF Inv, Types, Progress, BuildsMatch, Build, CrumbInv, HasJob, Item,
                        handler, items, jenkins, request
    <2>2. \A i \in Item' : Chosen(i)'
      BY <1>1, <1>2 DEF Inv, Chosen, HasJob, HasParam, Item, handler, items, jenkins, request
    <2>3. \A i \in Item' \ hurt' : Caused(i)'
      BY <1>1, <1>2 DEF Inv, Caused, Item, items, jenkins, request
    <2> QED BY <2>1, <2>2, <2>3 DEF Inv
  <1>3. CASE /\ state' = [state EXCEPT ![next] = "refused"]
             /\ hurt' = hurt \cup {next}
             /\ next' = next + 1 /\ place' = "list"
             /\ checked' = ~dry /\ poisoned' = ~dry
             /\ UNCHANGED <<crumb, job, param>>
    <2>1. Types'
      BY <1>1, <1>3 DEF Inv, Types, Item, Results, jenkins, request
    <2>2. Progress'
      BY <1>1, <1>3 DEF Inv, Types, Progress, Item, Saved, Posted, jenkins, request
    <2>3. BuildsMatch'
      BY <1>1, <1>3, BuildsStay DEF Inv, Types
    <2>4. CrumbInv'
      BY <1>1, <1>3 DEF Inv, Types, CrumbInv, HasJob, Item, Saved, Posted, jenkins, request
    <2>5. \A i \in Item' : Chosen(i)'
      BY <1>1, <1>3 DEF Inv, Types, Chosen, HasJob, HasParam, Item, Saved, Posted, jenkins, request
    <2>6. \A i \in Item' \ hurt' : Caused(i)'
      BY <1>1, <1>3 DEF Inv, Types, Progress, Caused, Item, Saved, Posted, jenkins, request
    <2> QED BY <2>1, <2>2, <2>3, <2>4, <2>5, <2>6 DEF Inv
  <1> QED BY <1>2, <1>3 DEF FetchCrumb

\* An item is refused after a failed call of its own or for want of a job.
LEMMA RefuseInv ==
  ASSUME Inv, next \in Item, Refuse, UNCHANGED <<jenkins, builds, request>>,
         \/ hurt' = hurt \cup {next}
         \/ /\ hurt' = hurt
            /\ ~\E j \in ToSet(ListJobs(tree)) :
                 JobIn(batch[next].service, ListJobs(tree), j)
  PROVE  Inv'
  <1>1. /\ Len(batch) \in Nat
        /\ state' = [state EXCEPT ![next] = "refused"]
        /\ next' = next + 1 /\ place' = "list" /\ UNCHANGED <<job, param>>
        /\ IF dry THEN checked' = FALSE /\ poisoned' = FALSE
                  ELSE UNCHANGED <<checked, crumb, poisoned>>
    BY LenProperties DEF Refuse, NextItem, Inv, Types, client
  <1>2. Types'
    <2>1. Item' = Item
      BY DEF Item, request
    <2>2. state' \in [Item -> Results] /\ DOMAIN job' = Item /\ DOMAIN param' = Item
      BY <1>1 DEF Inv, Types, Results
    <2>3. next' \in 1 .. Len(batch) + 1 /\ place' \in {"list", "params", "save"}
      BY <1>1 DEF Item
    <2>4. checked' \in BOOLEAN /\ poisoned' \in BOOLEAN
      BY <1>1 DEF Inv, Types
    <2> QED BY <2>1, <2>2, <2>3, <2>4 DEF Inv, Types, jenkins, request
  <1>3. Progress'
    BY <1>1 DEF Inv, Types, Progress, Item, Saved, Posted, jenkins, request
  <1>4. BuildsMatch'
    BY <1>1, BuildsStay DEF Inv, Types
  <1>5. CrumbInv'
    BY <1>1 DEF Inv, Types, CrumbInv, HasJob, Item, Saved, Posted, jenkins, request
  <1>6. \A i \in Item' : Chosen(i)'
    BY <1>1 DEF Inv, Types, Chosen, HasJob, HasParam, Item, Saved, Posted, jenkins, request
  <1>7. \A i \in Item' \ hurt' : Caused(i)'
    BY <1>1 DEF Inv, Types, Progress, Caused, Item, Saved, Posted, jenkins, request
  <1> QED BY <1>2, <1>3, <1>4, <1>5, <1>6, <1>7 DEF Inv

LEMMA FindJobInv == Inv /\ FindJob => Inv'
  <1> SUFFICES ASSUME Inv, FindJob PROVE Inv'
    OBVIOUS
  <1> DEFINE service == batch[next].service
             list == ListJobs(tree)
  <1>1. /\ next \in Item /\ place = "list" /\ checked
        /\ UNCHANGED <<jenkins, builds, request>> /\ Len(batch) \in Nat
    BY LenProperties DEF FindJob, At, Inv, Types
  <1>2. JobList(list) /\ service \in Seq(Word) \ {<<>>}
    <2>1. batch[next] \in Asked
      BY <1>1, ElementOfSeq DEF Inv, Types, Item
    <2> QED BY <2>1, TreeList DEF Inv, Types, Asked
  <1>3. CASE RefuseHurt
    BY <1>1, <1>3, RefuseInv DEF RefuseHurt
  <1>4. CASE Match(service, list) = {} /\ Refuse /\ UNCHANGED hurt
    <2>1. ~\E j \in ToSet(list) : JobIn(service, list, j)
      BY <1>2, <1>4, MatchComplete
    <2> QED BY <1>1, <1>4, <2>1, RefuseInv
  <1>5. CASE /\ \E j \in Match(service, list) : job' = [job EXCEPT ![next] = j]
             /\ place' = "params"
             /\ UNCHANGED <<next, client, state, param, hurt>>
    <2>1. PICK j \in Match(service, list) : job' = [job EXCEPT ![next] = j]
      BY <1>5
    <2>2. JobIn(service, list, j) /\ j \in ToSet(list)
      BY <1>2, MatchSound
    <2>3. Types'
      BY <1>1, <1>5, <2>1 DEF Inv, Types, Item, client, jenkins, request
    <2>4. Progress'
      BY <1>1, <1>5 DEF Inv, Progress, Item, jenkins, request
    <2>5. BuildsMatch'
      BY <1>1, <1>5, <2>1, BuildsStay DEF Inv, Types
    <2>6. CrumbInv'
      BY <1>1, <1>5 DEF Inv, CrumbInv, HasJob, Item, client, jenkins, request
    <2>7. \A i \in Item' : Chosen(i)'
      BY <1>1, <1>5, <2>1, <2>2 DEF Inv, Types, Progress, Chosen, HasJob, HasParam, Item,
                                    Saved, Posted, jenkins, request
    <2>8. \A i \in Item' \ hurt' : Caused(i)'
      BY <1>1, <1>5 DEF Inv, Caused, Item, client, jenkins, request
    <2> QED BY <2>3, <2>4, <2>5, <2>6, <2>7, <2>8 DEF Inv
  <1> QED BY <1>3, <1>4, <1>5 DEF FindJob

LEMMA ReadParamsInv == Inv /\ ReadParams => Inv'
  <1> SUFFICES ASSUME Inv, ReadParams PROVE Inv'
    OBVIOUS
  <1>1. /\ next \in Item /\ place = "params"
        /\ UNCHANGED <<jenkins, builds, request>> /\ Len(batch) \in Nat
    BY LenProperties DEF ReadParams, At, Inv, Types
  <1>2. CASE RefuseHurt
    BY <1>1, <1>2, RefuseInv DEF RefuseHurt
  <1>3. CASE /\ param' = [param EXCEPT ![next] = BranchParam(job[next].params)]
             /\ IF dry
                THEN NextItem /\ state' = [state EXCEPT ![next] = "matched"]
                ELSE place' = "save" /\ UNCHANGED <<next, client, state>>
             /\ UNCHANGED <<job, hurt>>
    <2>1. CASE dry
      <3>1. /\ state' = [state EXCEPT ![next] = "matched"]
            /\ next' = next + 1 /\ place' = "list" /\ ~checked' /\ checked' = FALSE
            /\ poisoned' = FALSE
        BY <1>3, <2>1 DEF NextItem
      <3>2. Types'
        <4>1. Item' = Item
          BY <1>1 DEF Item, request
        <4>2. state' \in [Item -> Results] /\ DOMAIN job' = Item /\ DOMAIN param' = Item
          BY <1>1, <1>3, <3>1 DEF Inv, Types, Results
        <4>3. next' \in 1 .. Len(batch) + 1
          BY <1>1, <3>1 DEF Item
        <4> QED BY <1>1, <3>1, <4>1, <4>2, <4>3 DEF Inv, Types, jenkins, request
      <3>3. Progress'
        BY <1>1, <2>1, <3>1 DEF Inv, Types, Progress, Item, Saved, Posted, jenkins, request
      <3>4. BuildsMatch'
        BY <1>1, <1>3, <3>1, BuildsStay DEF Inv, Types
      <3>5. CrumbInv'
        BY <1>1, <2>1, <3>1 DEF Inv, Types, CrumbInv, HasJob, Item, Saved, Posted, jenkins, request
      <3>6. \A i \in Item' : Chosen(i)'
        BY <1>1, <1>3, <3>1 DEF Inv, Types, Chosen, HasJob, HasParam, Item, Saved, Posted, jenkins, request
      <3>7. \A i \in Item' \ hurt' : Caused(i)'
        BY <1>1, <1>3, <2>1, <3>1 DEF Inv, Types, Progress, Caused, Item, Saved, Posted, jenkins, request
      <3> QED BY <3>2, <3>3, <3>4, <3>5, <3>6, <3>7 DEF Inv
    <2>2. CASE ~dry
      <3>1. place' = "save" /\ UNCHANGED <<next, client, state>>
        BY <1>3, <2>2
      <3>2. Types'
        BY <1>1, <1>3, <3>1 DEF Inv, Types, Item, client, jenkins, request
      <3>3. Progress'
        BY <1>1, <2>2, <3>1 DEF Inv, Progress, Item, jenkins, request
      <3>4. BuildsMatch'
        BY <1>1, <1>3, <3>1, BuildsStay DEF Inv, Types
      <3>5. CrumbInv'
        BY <1>1, <3>1 DEF Inv, CrumbInv, HasJob, Item, client, jenkins, request
      <3>6. \A i \in Item' : Chosen(i)'
        BY <1>1, <1>3, <3>1 DEF Inv, Types, Progress, Chosen, HasJob, HasParam, Item,
                                Saved, Posted, jenkins, request
      <3>7. \A i \in Item' \ hurt' : Caused(i)'
        BY <1>1, <1>3, <3>1 DEF Inv, Caused, Item, client, jenkins, request
      <3> QED BY <3>2, <3>3, <3>4, <3>5, <3>6, <3>7 DEF Inv
    <2> QED BY <2>1, <2>2
  <1> QED BY <1>2, <1>3 DEF ReadParams

LEMMA SaveRecordInv == Inv /\ SaveRecord => Inv'
  <1> SUFFICES ASSUME Inv, SaveRecord PROVE Inv'
    OBVIOUS
  <1>1. /\ next \in Item /\ place = "save" /\ ~dry
        /\ UNCHANGED <<jenkins, builds, request>> /\ Len(batch) \in Nat
    BY LenProperties DEF SaveRecord, At, Inv, Types, Progress
  <1>2. CASE RefuseHurt
    BY <1>1, <1>2, RefuseInv DEF RefuseHurt
  <1>3. CASE /\ state' = [state EXCEPT ![next] = "accepted"]
             /\ NextItem
             /\ UNCHANGED <<job, param, hurt>>
    <2>1. next' = next + 1 /\ place' = "list" /\ UNCHANGED client
      BY <1>1, <1>3 DEF NextItem
    <2>2. Types'
      BY <1>1, <1>3, <2>1 DEF Inv, Types, Item, Results, client, jenkins, request
    <2>3. Progress'
      BY <1>1, <1>3, <2>1 DEF Inv, Types, Progress, Item, Saved, Posted, jenkins, request
    <2>4. BuildsMatch'
      BY <1>1, <1>3 DEF Inv, Types, Progress, BuildsMatch, Build, Item, Posted, jenkins, request
    <2>5. CrumbInv'
      BY <1>1, <1>3, <2>1 DEF Inv, Types, CrumbInv, HasJob, Item, client, jenkins, request
    <2>6. \A i \in Item' : Chosen(i)'
      BY <1>1, <1>3, <2>1 DEF Inv, Types, Chosen, HasJob, HasParam, Item, Saved, Posted, jenkins, request
    <2>7. \A i \in Item' \ hurt' : Caused(i)'
      BY <1>1, <1>3, <2>1 DEF Inv, Types, Caused, Item, client, jenkins, request
    <2> QED BY <2>2, <2>3, <2>4, <2>5, <2>6, <2>7 DEF Inv
  <1> QED BY <1>2, <1>3 DEF SaveRecord

\* The end of a goroutine, which leaves everything but its item's result.
LEMMA EndInv ==
  ASSUME NEW i \in Item, NEW result \in Posted, Inv, state[i] = "accepted",
         UNCHANGED jenkins, End(i, result),
         \/ UNCHANGED builds
         \/ Start(i),
         \/ hurt' = hurt \cup {i}
         \/ /\ hurt' = hurt
            /\ result = "failed" => poisoned \/ epoch > 0
  PROVE  Inv'
  <1>1. /\ Len(batch) \in Nat
        /\ state' = [state EXCEPT ![i] = result]
        /\ UNCHANGED <<job, param, request, handler, client>>
    BY LenProperties DEF End, Inv, Types
  <1>2. /\ ~dry /\ i < next /\ job[i] \in ToSet(ListJobs(tree))
        /\ param[i] = BranchParam(job[i].params)
    BY DEF Inv, Types, Progress, Chosen, HasJob, HasParam, Item, Saved, Posted
  <1>3. Build(i) \in BuildRecord
    <2>1. JobList(ListJobs(tree)) /\ ListJobs(tree) \in Seq(Jobs)
      BY TreeList DEF Inv, Types, JobList
    <2>2. job[i] \in Jobs
      <3>1. PICK k \in DOMAIN ListJobs(tree) : job[i] = ListJobs(tree)[k]
        BY <1>2 DEF ToSet
      <3>2. k \in 1 .. Len(ListJobs(tree))
        BY <2>1, LenProperties
      <3> QED BY <2>1, <3>1, <3>2, ElementOfSeq
    <2>3. job[i].params \in Seq(STRING)
      BY <2>2 DEF Jobs
    <2>4. param[i] \in BranchNames \cup {None}
      BY <1>2, <2>3, BranchIsNamed
    <2>5. batch[i] \in Asked
      BY ElementOfSeq DEF Inv, Types, Item
    <2> QED BY <2>2, <2>4, <2>5 DEF Build, BuildRecord, Asked, Item
  <1>4. builds \in Seq(BuildRecord) /\ Len(builds) \in Nat
    BY LenProperties DEF Inv, Types
  <1>5. \/ builds' = builds
        \/ /\ builds' \in Seq(BuildRecord) /\ Len(builds') = Len(builds) + 1
           /\ \A n \in 1 .. Len(builds) : builds'[n] = builds[n]
           /\ builds'[Len(builds) + 1] = Build(i)
    BY <1>3, <1>4, AppendProperties DEF Start
  <1>6. Types'
    BY <1>1, <1>4, <1>5 DEF Inv, Types, Item, Results, Posted, handler, client, jenkins, request
  <1>7. Progress'
    BY <1>1, <1>2 DEF Inv, Types, Progress, Item, Saved, Posted, handler, jenkins, request
  <1>8. BuildsMatch'
    <2>1. Item' = Item /\ Build(i).item = i /\ \A k \in Item : Build(k)' = Build(k)
      BY <1>1 DEF Item, Build, request
    <2>2. \A k \in Item : (state[k] \in Posted => state'[k] \in Posted) /\ state'[i] \in Posted
      BY <1>1 DEF Inv, Types
    <2>3. \A n \in 1 .. Len(builds) : builds[n].item # i
      BY DEF Inv, BuildsMatch, Posted
    <2>4. \A n \in 1 .. Len(builds) : /\ builds[n].item \in Item
                                      /\ builds[n] = Build(builds[n].item)
                                      /\ state[builds[n].item] \in Posted
      BY DEF Inv, BuildsMatch
    <2>5. \A m, n \in 1 .. Len(builds) : builds[m].item = builds[n].item => m = n
      BY DEF Inv, BuildsMatch
    <2>6. CASE builds' = builds
      BY <1>1, <1>2, <2>1, <2>2, <2>4, <2>5, <2>6 DEF BuildsMatch, request
    <2>7. CASE /\ Len(builds') = Len(builds) + 1
               /\ \A n \in 1 .. Len(builds) : builds'[n] = builds[n]
               /\ builds'[Len(builds) + 1] = Build(i)
      <3>1. \A n \in 1 .. Len(builds') : n \in 1 .. Len(builds) \/ n = Len(builds) + 1
        BY <1>4, <2>7
      <3>2. ASSUME NEW n \in 1 .. Len(builds')
            PROVE  /\ builds'[n].item \in Item
                   /\ builds'[n] = Build(builds'[n].item)
                   /\ state'[builds'[n].item] \in Posted
        <4>1. CASE n \in 1 .. Len(builds)
          BY <2>2, <2>4, <2>7, <4>1
        <4>2. CASE n = Len(builds) + 1
          BY <2>1, <2>2, <2>7, <4>2
        <4> QED BY <3>1, <4>1, <4>2
      <3>3. \A m, n \in 1 .. Len(builds') : builds'[m].item = builds'[n].item => m = n
        BY <2>1, <2>3, <2>5, <2>7, <3>1
      <3>4. ~dry'
        BY <1>1, <1>2 DEF request
      <3>5. \A n \in 1 .. Len(builds') : builds'[n] =
              [item |-> builds'[n].item, job |-> job'[builds'[n].item],
               param |-> param'[builds'[n].item],
               branch |-> IF param'[builds'[n].item] = None THEN None
                          ELSE batch'[builds'[n].item].branch]
        BY <1>1, <3>2 DEF Build, request
      <3> QED BY <2>1, <3>2, <3>3, <3>4, <3>5 DEF BuildsMatch, Build
    <2> QED BY <1>5, <2>6, <2>7
  <1>9. CrumbInv'
    BY <1>1, <1>2 DEF Inv, Types, CrumbInv, HasJob, Item, Saved, Posted, handler, client, jenkins, request
  <1>10. \A k \in Item' : Chosen(k)'
    BY <1>1, <1>2 DEF Inv, Types, Chosen, HasJob, HasParam, Item, Saved, Posted, handler, jenkins, request
  <1>11. \A k \in Item' \ hurt' : Caused(k)'
    BY <1>1, <1>2 DEF Inv, Types, Caused, Item, Posted, client, jenkins, request
  <1> QED BY <1>6, <1>7, <1>8, <1>9, <1>10, <1>11 DEF Inv

LEMMA TriggerInv ==
  ASSUME NEW i \in Item, Inv, Trigger(i) \/ TriggerLost(i), UNCHANGED jenkins
  PROVE  Inv'
  <1>1. CASE Trigger(i)
    <2>1. CASE Authorized
      BY <1>1, <2>1, EndInv DEF Trigger, Posted
    <2>2. CASE ~Authorized
      <3>1. checked /\ issuer /\ crumb # epoch
        BY <1>1, <2>2 DEF Authorized, Trigger, Inv, Progress, CrumbInv, HasJob, Saved
      <3>2. poisoned \/ epoch > 0
        BY <3>1 DEF Inv, Types, CrumbInv
      <3> QED BY <1>1, <2>2, <3>2, EndInv DEF Trigger, Posted
    <2> QED BY <2>1, <2>2
  <1>2. CASE TriggerLost(i)
    BY <1>2, EndInv DEF TriggerLost, Posted
  <1> QED BY <1>1, <1>2

LEMMA NextInv == Inv /\ [Next]_vars => Inv'
  <1> SUFFICES ASSUME Inv, [Next]_vars PROVE Inv'
    OBVIOUS
  <1>1. CASE FetchCrumb
    BY <1>1, FetchCrumbInv
  <1>2. CASE FindJob
    BY <1>2, FindJobInv
  <1>3. CASE ReadParams
    BY <1>3, ReadParamsInv
  <1>4. CASE SaveRecord
    BY <1>4, SaveRecordInv
  <1>5. ASSUME NEW i \in Item, Trigger(i) \/ TriggerLost(i) PROVE Inv'
    BY <1>5, TriggerInv DEF Trigger, TriggerLost, End
  <1>6. CASE Restart
    <2>1. /\ epoch' = epoch + 1
          /\ UNCHANGED <<tree, issuer, builds, request, handler, client, items>>
      BY <1>6 DEF Restart
    <2>2. Types' /\ Progress'
      BY <2>1 DEF Inv, Types, Progress, Item, request, handler, client, items
    <2>3. BuildsMatch'
      BY <2>1 DEF Inv, BuildsMatch, Build, Item, request, items
    <2>4. CrumbInv'
      BY <2>1 DEF Inv, Types, CrumbInv, HasJob, Item, request, handler, client, items
    <2>5. \A i \in Item' : Chosen(i)'
      BY <2>1 DEF Inv, Chosen, HasJob, HasParam, Item, request, handler, items
    <2>6. \A i \in Item' \ hurt' : Caused(i)'
      BY <2>1 DEF Inv, Types, Caused, Item, request, client, items
    <2> QED BY <2>2, <2>3, <2>4, <2>5, <2>6 DEF Inv
  <1>7. CASE UNCHANGED vars
    <2>1. UNCHANGED <<jenkins, builds, request, handler, client, items>>
      BY <1>7 DEF vars
    <2>2. Types' /\ Progress' /\ BuildsMatch' /\ CrumbInv'
      BY <2>1 DEF Inv, Types, Progress, BuildsMatch, Build, CrumbInv, HasJob, Item,
                  jenkins, request, handler, client, items
    <2>3. \A i \in Item' : Chosen(i)'
      BY <2>1 DEF Inv, Chosen, HasJob, HasParam, Item, jenkins, request, handler, items
    <2>4. \A i \in Item' \ hurt' : Caused(i)'
      BY <2>1 DEF Inv, Caused, Item, jenkins, request, client, items
    <2> QED BY <2>2, <2>3, <2>4 DEF Inv
  <1> QED BY <1>1, <1>2, <1>3, <1>4, <1>5, <1>6, <1>7 DEF Next

LEMMA BatchInv == Spec => []Inv
  BY InitInv, NextInv, PTL DEF Spec

----------------------------------------------------------------------------
(***************************************************************************)
(* The theorems.                                                           *)
(***************************************************************************)
\* The answer of triggerBuildsHandler accounts for every item, whichever of
\* them failed.
THEOREM EveryItemIsAnswered == Spec => []ItemsAccounted
  <1>1. Inv => ItemsAccounted
    <2> SUFFICES ASSUME Inv, next > Len(batch), NEW i \in Item
                 PROVE  state[i] = "refused" \/ (IF dry THEN state[i] = "matched"
                                                         ELSE state[i] # "new")
      BY DEF ItemsAccounted
    <2>1. Len(batch) \in Nat
      BY LenProperties DEF Inv, Types
    <2>2. state[i] \in Results /\ state[i] # "new" /\ (dry => state[i] \notin Saved)
      BY <2>1 DEF Inv, Types, Progress, Item
    <2> QED BY <2>2 DEF Results, Saved, Posted
  <1> QED BY <1>1, BatchInv, PTL

\* An item has at most one build, of the one job of its service and with its
\* branch (matchJenkinsJob, resolveBranchParam, TriggerBuild).
THEOREM OneBuildEach == Spec => []BuildsAsAsked
  <1>1. Inv => BuildsAsAsked
    <2> SUFFICES ASSUME Inv PROVE BuildsAsAsked
      OBVIOUS
    <2>1. DOMAIN builds = 1 .. Len(builds)
      BY LenProperties DEF Inv, Types
    <2>2. ASSUME NEW n \in DOMAIN builds, NEW b, b = builds[n]
          PROVE  /\ state[b.item] \in {"started", "failed"}
                 /\ JobOf(batch[b.item].service, b.job)
                 /\ ToSet(b.job.params) \cap BranchNames # {} =>
                      b.param \in ToSet(b.job.params) \cap BranchNames
                      /\ b.branch = batch[b.item].branch
      <3>1. PICK i \in Item : i = b.item /\ b = Build(i) /\ state[i] \in Posted
        BY <2>1, <2>2 DEF Inv, BuildsMatch
      <3>2. /\ b.job = job[i] /\ b.param = param[i]
            /\ b.branch = IF param[i] = None THEN None ELSE batch[i].branch
        BY <3>1 DEF Build
      <3>3. /\ job[i] \in ToSet(ListJobs(tree)) /\ param[i] = BranchParam(job[i].params)
            /\ JobIn(batch[i].service, ListJobs(tree), job[i])
        BY <3>1 DEF Inv, Chosen, HasJob, HasParam, Saved
      <3>4. job[i].params \in Seq(STRING)
        <4>1. JobList(ListJobs(tree)) /\ ListJobs(tree) \in Seq(Jobs)
          BY TreeList DEF Inv, Types, JobList
        <4>2. PICK k \in DOMAIN ListJobs(tree) : job[i] = ListJobs(tree)[k]
          BY <3>3 DEF ToSet
        <4>3. job[i] \in Jobs
          BY <4>1, <4>2, LenProperties, ElementOfSeq
        <4> QED BY <4>3 DEF Jobs
      <3>5. JobOf(batch[i].service, job[i])
        BY <3>3 DEF JobOf, JobIn
      <3>6. None \notin BranchNames
        BY BatchAssumption DEF BranchNames, Priority, ToSet
      <3> QED BY <3>1, <3>2, <3>3, <3>4, <3>5, <3>6, BranchIsNamed DEF Posted
    <2>3. dry => builds = <<>>
      BY DEF Inv, BuildsMatch
    <2>4. \A m, n \in DOMAIN builds : builds[m].item = builds[n].item => m = n
      BY <2>1 DEF Inv, BuildsMatch
    <2> QED BY <2>2, <2>3, <2>4 DEF BuildsAsAsked
  <1> QED BY <1>1, BatchInv, PTL

\* The items fail on their own: what matchJenkinsJob refuses has no job, and a
\* trigger fails for its own POST, for the shared crumb or for a restart.
THEOREM FailuresAreTheirOwn == Spec => []FailuresHaveCauses
  <1>1. Inv => FailuresHaveCauses
    BY DEF Inv, Caused, FailuresHaveCauses, JobOf, JobIn
  <1> QED BY <1>1, BatchInv, PTL

----------------------------------------------------------------------------
(***************************************************************************)
(* How many steps of the service a batch still takes: at most five for an  *)
(* item, and one more for the goroutine of an accepted item.               *)
(***************************************************************************)
Accepted == {i \in Item : state[i] = "accepted"}

Phase ==
  CASE place = "list" /\ ~checked -> 5
    [] place = "list" /\ checked  -> 4
    [] place = "params"           -> 3
    [] place = "save"             -> 2

ItemSteps == IF next \in Item THEN 5 * (Len(batch) - next) + Phase ELSE 0

StepsLeft == ItemSteps + Cardinality(Accepted)

StepsBounded == StepsLeft \in 0 .. 5 * Len(batch)

\* Every step of the handler or of a goroutine brings the end closer, also one
\* that fails; a restart of Jenkins does not put it off.
StepsRunOut ==
  [][StepsLeft' < StepsLeft \/ (epoch' > epoch /\ StepsLeft' = StepsLeft)]_vars

\* The steps of the items that are left, and the accepted items among the
\* others.
LEMMA StepsType ==
  ASSUME Inv
  PROVE  /\ Len(batch) \in Nat /\ next \in 1 .. Len(batch) + 1
         /\ next \in Item => Phase \in 2 .. 5
         /\ ItemSteps \in Nat /\ ItemSteps <= 5 * (Len(batch) + 1 - next)
         /\ IsFiniteSet(Accepted) /\ Cardinality(Accepted) \in Nat
         /\ Cardinality(Accepted) <= next - 1
  <1>1. Len(batch) \in Nat /\ next \in 1 .. Len(batch) + 1
    BY LenProperties DEF Inv, Types
  <1>2. place \in {"list", "params", "save"} /\ checked \in BOOLEAN
    BY DEF Inv, Types
  <1>3. Phase \in 2 .. 5
    BY <1>2 DEF Phase
  <1>4. ItemSteps \in Nat /\ ItemSteps <= 5 * (Len(batch) + 1 - next)
    BY <1>1, <1>3 DEF ItemSteps, Item
  <1>5. Accepted \subseteq 1 .. next - 1
    BY <1>1 DEF Inv, Progress, Accepted, Item
  <1>6. IsFiniteSet(1 .. next - 1) /\ Cardinality(1 .. next - 1) = next - 1
    <2>1. next - 1 \in Int /\ 1 \in Int
      BY <1>1
    <2>2. Cardinality(1 .. next - 1) = IF 1 > next - 1 THEN 0 ELSE next - 1 - 1 + 1
      BY <2>1, FS_Interval
    <2> QED BY <1>1, <2>1, <2>2, FS_Interval
  <1>7. IsFiniteSet(Accepted) /\ Cardinality(Accepted) <= next - 1
    BY <1>5, <1>6, FS_Subset
  <1> QED BY <1>1, <1>3, <1>4, <1>7, FS_CardinalityType

\* The handler goes on with its item.
LEMMA StepsWithin ==
  ASSUME Inv, Inv', next \in Item, Phase' < Phase, UNCHANGED <<request, next, state>>
  PROVE  StepsLeft' < StepsLeft
  <1>1. Accepted' = Accepted /\ Item' = Item /\ batch' = batch
    BY DEF Accepted, Item, request
  <1>2. /\ Phase \in 2 .. 5 /\ Phase' \in 2 .. 5 /\ Len(batch) \in Nat /\ next \in Nat
        /\ Cardinality(Accepted) \in Nat
    <2>1. /\ Phase \in 2 .. 5 /\ Len(batch) \in Nat /\ next \in Nat
          /\ Cardinality(Accepted) \in Nat
      BY StepsType
    <2>2. place' \in {"list", "params", "save"} /\ checked' \in BOOLEAN
      BY DEF Inv, Types
    <2>3. Phase' \in 2 .. 5
      BY <2>2 DEF Phase
    <2> QED BY <2>1, <2>3
  <1>3. /\ ItemSteps = 5 * (Len(batch) - next) + Phase
        /\ ItemSteps' = 5 * (Len(batch) - next) + Phase'
    BY <1>1 DEF ItemSteps
  <1>4. ItemSteps' < ItemSteps /\ ItemSteps \in Int /\ ItemSteps' \in Int
    BY <1>2, <1>3
  <1> QED BY <1>1, <1>2, <1>4 DEF StepsLeft

\* The handler is done with its item, and may have started one goroutine.
LEMMA StepsOver ==
  ASSUME Inv, Inv', next \in Item, next' = next + 1, UNCHANGED request,
         Accepted' \in {Accepted, Accepted \cup {next}}
  PROVE  StepsLeft' < StepsLeft
  <1>1. /\ Len(batch) \in Nat /\ next \in Nat /\ Phase \in 2 .. 5
        /\ IsFiniteSet(Accepted) /\ Cardinality(Accepted) \in Nat
    BY StepsType
  <1>2. /\ ItemSteps' \in Nat /\ ItemSteps' <= 5 * (Len(batch) - next)
    <2>1. Len(batch)' = Len(batch) /\ Item' = Item
      BY DEF request, Item
    <2>2. place' \in {"list", "params", "save"} /\ checked' \in BOOLEAN
      BY DEF Inv, Types
    <2>3. Phase' \in 2 .. 5
      BY <2>2 DEF Phase
    <2> QED BY <1>1, <2>1, <2>3 DEF ItemSteps, Item
  <1>3. ItemSteps = 5 * (Len(batch) - next) + Phase
    BY DEF ItemSteps
  <1>4. Cardinality(Accepted') \in Nat /\ Cardinality(Accepted') <= Cardinality(Accepted) + 1
    <2>1. Cardinality(Accepted \cup {next}) \in {Cardinality(Accepted), Cardinality(Accepted) + 1}
      BY <1>1, FS_AddElement
    <2>2. CASE Accepted' = Accepted
      BY <1>1, <2>2
    <2>3. CASE Accepted' = Accepted \cup {next}
      BY <1>1, <2>1, <2>3
    <2> QED BY <2>2, <2>3
  <1>5. ItemSteps' + 2 <= ItemSteps /\ ItemSteps \in Int
    BY <1>1, <1>2, <1>3
  <1>6. PICK a \in Nat, b \in Nat : /\ a = Cardinality(Accepted)
                                   /\ b = Cardinality(Accepted') /\ b <= a + 1
    BY <1>1, <1>4
  <1>7. ItemSteps \in Nat
    BY StepsType
  <1>8. \A m, n, x, y \in Nat : m + 2 <= n /\ x <= y + 1 => m + x < n + y
    OBVIOUS
  <1>9. ItemSteps' + b < ItemSteps + a
    BY <1>2, <1>5, <1>6, <1>7, <1>8
  <1> QED BY <1>6, <1>9 DEF StepsLeft

\* The handler's steps.
LEMMA HandlerSteps ==
  ASSUME Inv, Inv', FetchCrumb \/ FindJob \/ ReadParams \/ SaveRecord
  PROVE  StepsLeft' < StepsLeft
  <1>1. next \in Item /\ UNCHANGED <<epoch, request>> /\ Item' = Item
    BY DEF FetchCrumb, FindJob, ReadParams, SaveRecord, At, jenkins, Item, request
  <1>2. DOMAIN state = Item /\ state[next] = "new"
    BY <1>1, StepsType DEF Inv, Types, Progress
  <1>3. ASSUME state' = [state EXCEPT ![next] = "refused"], next' = next + 1
        PROVE  StepsLeft' < StepsLeft
    <2>1. Accepted' = Accepted
      BY <1>1, <1>2, <1>3 DEF Accepted
    <2> QED BY <1>1, <1>3, <2>1, StepsOver
  <1>4. CASE FetchCrumb
    <2>1. CASE checked' = TRUE /\ UNCHANGED <<handler, poisoned, items>>
      <3>1. Phase' = 4 /\ Phase = 5
        BY <1>4, <2>1 DEF FetchCrumb, At, handler, Phase
      <3> QED BY <1>1, <2>1, <3>1, StepsWithin DEF handler, items
    <2>2. CASE state' = [state EXCEPT ![next] = "refused"] /\ next' = next + 1
      BY <1>3, <2>2
    <2> QED BY <1>4, <2>1, <2>2 DEF FetchCrumb
  <1>5. CASE FindJob
    <2>1. CASE place' = "params" /\ UNCHANGED <<next, client, state>>
      <3>1. Phase' = 3 /\ Phase = 4
        BY <1>5, <2>1 DEF FindJob, At, Phase, client
      <3> QED BY <1>1, <2>1, <3>1, StepsWithin
    <2> QED BY <1>3, <1>5, <2>1 DEF FindJob, RefuseHurt, Refuse, NextItem
  <1>6. CASE ReadParams
    <2>1. CASE place' = "save" /\ UNCHANGED <<next, client, state>>
      <3>1. Phase' = 2 /\ Phase = 3
        BY <1>6, <2>1 DEF ReadParams, At, Phase, client
      <3> QED BY <1>1, <2>1, <3>1, StepsWithin
    <2>2. CASE NextItem /\ state' = [state EXCEPT ![next] = "matched"]
      <3>1. Accepted' = Accepted
        BY <1>1, <1>2, <2>2 DEF Accepted
      <3> QED BY <1>1, <2>2, <3>1, StepsOver DEF NextItem
    <2> QED BY <1>3, <1>6, <2>1, <2>2 DEF ReadParams, RefuseHurt, Refuse, NextItem
  <1>7. CASE SaveRecord
    <2>1. CASE NextItem /\ state' = [state EXCEPT ![next] = "accepted"]
      <3>1. Accepted' = Accepted \cup {next}
        BY <1>1, <1>2, <2>1 DEF Accepted
      <3> QED BY <1>1, <2>1, <3>1, StepsOver DEF NextItem
    <2> QED BY <1>3, <1>7, <2>1 DEF SaveRecord, RefuseHurt, Refuse, NextItem
  <1> QED BY <1>4, <1>5, <1>6, <1>7

\* A goroutine has one step.
LEMMA TriggerSteps ==
  ASSUME Inv, NEW i \in Item, Trigger(i) \/ TriggerLost(i)
  PROVE  StepsLeft' < StepsLeft
  <1>1. /\ state[i] = "accepted"
        /\ \E result \in Posted : state' = [state EXCEPT ![i] = result]
        /\ UNCHANGED <<request, handler, client>>
    BY DEF Trigger, TriggerLost, End, Posted
  <1>2. Accepted' = Accepted \ {i} /\ i \in Accepted
    BY <1>1 DEF Inv, Types, Accepted, Item, Posted, request
  <1>3. ItemSteps' = ItemSteps /\ ItemSteps \in Nat
    <2>1. ItemSteps' = ItemSteps
      BY <1>1 DEF ItemSteps, Phase, Item, request, handler, client
    <2> QED BY <2>1, StepsType
  <1>4. IsFiniteSet(Accepted) /\ Cardinality(Accepted) \in Nat
    BY StepsType
  <1>5. Cardinality(Accepted') = Cardinality(Accepted) - 1
    BY <1>2, <1>4, FS_RemoveElement
  <1> QED BY <1>3, <1>4, <1>5 DEF StepsLeft

\* A batch ends, answered and with every goroutine over, after at most five
\* steps for each of its items, whatever fails and however often Jenkins
\* restarts: triggerBuildsHandler and TriggerBuild try nothing again.
THEOREM BatchRunsOut == Spec => []StepsBounded /\ StepsRunOut
  <1>1. Inv => StepsBounded
    <2> SUFFICES ASSUME Inv PROVE StepsBounded
      OBVIOUS
    <2> QED BY StepsType DEF StepsBounded, StepsLeft
  <1>2. Inv /\ Inv' /\ [Next]_vars =>
          [StepsLeft' < StepsLeft \/ (epoch' > epoch /\ StepsLeft' = StepsLeft)]_vars
    <2> SUFFICES ASSUME Inv, Inv', Next
                 PROVE  StepsLeft' < StepsLeft \/ (epoch' > epoch /\ StepsLeft' = StepsLeft)
      OBVIOUS
    <2>1. CASE Restart
      <3>1. epoch' > epoch
        BY <2>1 DEF Restart, Inv, Types
      <3>2. StepsLeft' = StepsLeft
        BY <2>1 DEF Restart, StepsLeft, ItemSteps, Phase, Accepted, Item, request,
                    handler, client, items
      <3> QED BY <3>1, <3>2
    <2> QED BY <2>1, HandlerSteps, TriggerSteps DEF Next
  <1> QED BY <1>1, <1>2, BatchInv, NextInv, PTL DEF Spec, StepsRunOut

----------------------------------------------------------------------------
(***************************************************************************)
(* A crumb that Jenkins has forgotten.                                     *)
(***************************************************************************)
\* The client has asked for its crumb, and it is not Jenkins's.
Stale == ~dry /\ checked /\ issuer /\ crumb # epoch

\* From then on no build of the batch is started: ensureCrumb never asks again.
StaleForGood == [][Stale => builds' = builds /\ Stale']_vars

CrumbKnown == crumb \in 0 .. epoch \cup {None}

LEMMA CrumbNext == Inv /\ CrumbKnown /\ [Next]_vars => CrumbKnown'
  <1> SUFFICES ASSUME Inv, CrumbKnown, [Next]_vars PROVE CrumbKnown'
    OBVIOUS
  <1>1. epoch \in Nat /\ epoch' \in {epoch, epoch + 1}
    BY DEF Inv, Types, Next, FetchCrumb, FindJob, ReadParams, SaveRecord, Trigger,
           TriggerLost, End, Restart, vars, jenkins
  <1>2. crumb' \in {crumb, epoch, None}
    BY DEF Next, FetchCrumb, FindJob, ReadParams, SaveRecord, Refuse, RefuseHurt, NextItem,
           Trigger, TriggerLost, End, Restart, vars, client
  <1> QED BY <1>1, <1>2 DEF CrumbKnown

\* A crumb that was lost with a restart of Jenkins, or never fetched, fails the
\* whole rest of the batch: every later trigger, of every item.
THEOREM StaleCrumbIsForGood == Spec => StaleForGood
  <1>1. Init => CrumbKnown
    BY DEF Init, CrumbKnown
  <1>2. Inv /\ CrumbKnown /\ [Next]_vars => [Stale => builds' = builds /\ Stale']_vars
    <2> SUFFICES ASSUME Inv, CrumbKnown, Next, Stale PROVE builds' = builds /\ Stale'
      OBVIOUS
    <2>1. ASSUME FetchCrumb \/ FindJob \/ ReadParams \/ SaveRecord
          PROVE  builds' = builds /\ Stale'
      <3>1. checked /\ ~dry
        BY DEF Stale
      <3>2. UNCHANGED <<jenkins, builds, request, checked, crumb>>
        BY <2>1, <3>1 DEF FetchCrumb, FindJob, ReadParams, SaveRecord, Refuse, RefuseHurt,
                          NextItem, client
      <3> QED BY <3>2 DEF Stale, jenkins, request
    <2>2. ASSUME NEW i \in Item, Trigger(i) \/ TriggerLost(i)
          PROVE  builds' = builds /\ Stale'
      <3>1. ~Authorized
        BY DEF Stale, Authorized
      <3>2. /\ builds' = builds
            /\ UNCHANGED <<jenkins, request, client>>
        BY <2>2, <3>1 DEF Trigger, TriggerLost, End
      <3> QED BY <3>2 DEF Stale, jenkins, request, client
    <2>3. CASE Restart
      <3>1. epoch' = epoch + 1 /\ UNCHANGED <<issuer, builds, request, client>>
        BY <2>3 DEF Restart
      <3>2. crumb # epoch + 1
        BY BatchAssumption DEF CrumbKnown, Inv, Types
      <3> QED BY <3>1, <3>2 DEF Stale, request, client
    <2> QED BY <2>1, <2>2, <2>3 DEF Next
  <1> QED BY <1>1, <1>2, BatchInv, CrumbNext, PTL DEF Spec, StaleForGood

----------------------------------------------------------------------------
(***************************************************************************)
(* The two searches, for every list of jobs and every list of names.       *)
(***************************************************************************)
\* matchJenkinsJob finds a job exactly if the service has one, and that one;
\* of several that have its best name in different folders, one.
THEOREM MatchFindsTheJob ==
  ASSUME NEW service \in Seq(Word) \ {<<>>}, NEW list, JobList(list)
  PROVE  /\ \A j \in Match(service, list) : j \in ToSet(list) /\ JobIn(service, list, j)
         /\ \A i, j \in Match(service, list) : i = j
         /\ Match(service, list) = {} <=> ~\E j \in ToSet(list) : JobIn(service, list, j)
  <1>1. \A j \in Match(service, list) : j \in ToSet(list) /\ JobIn(service, list, j)
    BY MatchSound
  <1>2. ASSUME NEW only, only \subseteq Like(service, list)
        PROVE  \A i, j \in Only(only, list) : i = j
    <2>1. IsFiniteSet(only)
      BY <1>2, PlacesAndJobs, FS_Subset
    <2>2. ASSUME Cardinality(only) = 1 PROVE \E k : only = {k}
      BY <2>1, <2>2, FS_Singleton
    <2> QED BY <2>2 DEF Only
  <1>3. \A i, j \in Match(service, list) : i = j
    BY <1>2, MatchIs, PlacesAndJobs
  <1> QED BY <1>1, <1>3, MatchComplete

\* No two jobs have one name.
NamesDiffer(list) == \A i, j \in ToSet(list) : i.name = j.name => i = j

\* Then a service has at most one job.
LEMMA JobIsOne ==
  ASSUME NEW service \in Seq(Word) \ {<<>>}, NEW list, JobList(list), NamesDiffer(list),
         NEW i, JobIn(service, list, i), NEW j, JobIn(service, list, j)
  PROVE  i = j
  <1> DEFINE names == Preferred(service)
             own == OwnJobs(service, list)
  <1>1. i \in LikeJobs(service, list) /\ j \in LikeJobs(service, list)
    BY JobInIs
  <1>2. i \in ToSet(list) /\ j \in ToSet(list)
    BY <1>1 DEF LikeJobs
  <1>3. CASE own # {}
    <2>1. DOMAIN names = 1 .. 4
      BY PreferredNames
    <2>2. ASSUME NEW k, JobIn(service, list, k), k \in ToSet(list)
          PROVE  /\ k \in own
                 /\ \E p \in 1 .. 4 : /\ k.name = names[p]
                                      /\ \A l \in own, q \in 1 .. p - 1 : l.name # names[q]
      <3>1. PICK p \in DOMAIN names :
              /\ k.name = names[p]
              /\ \A l \in own : l.name \notin {names[q] : q \in 1 .. p - 1}
        BY <1>3, <2>2, JobInIs
      <3>2. k.name \in ToSet(names)
        BY <3>1 DEF ToSet
      <3> QED BY <2>1, <2>2, <3>1, <3>2 DEF OwnJobs
    <2>3. PICK p \in 1 .. 4 : /\ i \in own /\ i.name = names[p]
                              /\ \A l \in own, q \in 1 .. p - 1 : l.name # names[q]
      BY <1>2, <2>2
    <2>4. PICK q \in 1 .. 4 : /\ j \in own /\ j.name = names[q]
                              /\ \A l \in own, r \in 1 .. q - 1 : l.name # names[r]
      BY <1>2, <2>2
    <2>5. p = q
      <3>1. ~(p \in 1 .. q - 1) /\ ~(q \in 1 .. p - 1)
        BY <2>3, <2>4
      <3> QED BY <3>1
    <2>6. i.name = j.name
      BY <2>3, <2>4, <2>5
    <2> QED BY <1>2, <2>6 DEF NamesDiffer
  <1>4. CASE own = {}
    <2>1. LikeJobs(service, list) = {i} \/ KanikoJobs(service, list) = {i}
      BY <1>4, JobInIs
    <2>2. LikeJobs(service, list) = {j} \/ KanikoJobs(service, list) = {j}
      BY <1>4, JobInIs
    <2> QED BY <1>1, <2>1, <2>2 DEF KanikoJobs
  <1> QED BY <1>3, <1>4

\* While names are not repeated, the job found does not depend on the order in
\* which Jenkins lists folders and jobs.
THEOREM OrderIsNoMatter ==
  ASSUME NEW service \in Seq(Word) \ {<<>>}, NEW list, JobList(list), NEW other,
         JobList(other), ToSet(other) = ToSet(list), NamesDiffer(list)
  PROVE  Match(service, other) = Match(service, list)
  <1>1. \A j : JobIn(service, other, j) <=> JobIn(service, list, j)
    BY DEF JobIn
  <1>2. NamesDiffer(other)
    BY DEF NamesDiffer
  <1>3. ASSUME NEW x, JobList(x), NamesDiffer(x)
        PROVE  \A j : j \in Match(service, x) <=> JobIn(service, x, j)
    <2>1. ASSUME NEW j, JobIn(service, x, j) PROVE j \in Match(service, x)
      <3>1. j \in ToSet(x)
        BY <2>1, JobInIs DEF LikeJobs
      <3>2. PICK k \in Match(service, x) : TRUE
        BY <1>3, <2>1, <3>1, MatchFindsTheJob
      <3>3. JobIn(service, x, k)
        BY <1>3, <3>2, MatchFindsTheJob
      <3> QED BY <1>3, <2>1, <3>2, <3>3, JobIsOne
    <2> QED BY <1>3, <2>1, MatchFindsTheJob
  <1> QED BY <1>1, <1>2, <1>3

\* resolveBranchParam finds a parameter exactly if one of the names says
\* branch, and no name it prefers is there.
THEOREM BranchIsFound ==
  ASSUME NEW names \in Seq(STRING)
  PROVE  LET found == BranchParam(names) IN
         /\ found = None <=> ToSet(names) \cap BranchNames = {}
         /\ found # None =>
              /\ found \in ToSet(names) \cap BranchNames
              /\ \A q \in DOMAIN Priority : Priority[q] \in ToSet(names) =>
                   \E p \in DOMAIN Priority : p <= q /\ found = Priority[p]
  <1> DEFINE found == BranchParam(names)
             known == {p \in DOMAIN Priority : Priority[p] \in ToSet(names)}
  <1>1. None \notin BranchNames
    BY BatchAssumption DEF BranchNames, Priority, ToSet
  <1>2. /\ found \in BranchNames \cup {None}
        /\ ToSet(names) \cap BranchNames # {} => found \in ToSet(names) \cap BranchNames
    BY BranchIsNamed
  <1>3. ASSUME NEW q \in DOMAIN Priority, Priority[q] \in ToSet(names)
        PROVE  \E p \in DOMAIN Priority : p <= q /\ found = Priority[p]
    <2>1. known \subseteq Nat /\ q \in known
      BY <1>3 DEF Priority
    <2>2. Min(known) \in known /\ Min(known) <= q
      BY <2>1, MinIsLeast
    <2>3. found = Priority[Min(known)]
      BY <2>1 DEF BranchParam
    <2> QED BY <2>2, <2>3
  <1>4. found # None => ToSet(names) \cap BranchNames # {}
    <2> DEFINE other == {i \in DOMAIN names : names[i] \in BranchNames}
    <2>1. CASE known # {}
      BY <2>1 DEF BranchNames, ToSet
    <2>2. CASE known = {} /\ other # {}
      BY <2>2 DEF ToSet
    <2>3. CASE known = {} /\ other = {}
      BY <2>3 DEF BranchParam
    <2> QED BY <2>1, <2>2, <2>3
  <1> QED BY <1>1, <1>2, <1>3, <1>4
=============================================================================
