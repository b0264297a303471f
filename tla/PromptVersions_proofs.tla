----------------------- MODULE PromptVersions_proofs -----------------------
(***************************************************************************)
(* What the stores of versions promise, for any clients, prompts, contents *)
(* and bounds.                                                             *)
(***************************************************************************)
EXTENDS PromptVersions, TLAPS, FiniteSetTheorems, NaturalsInduction,
        WellFoundedInduction

\* A set of numbers with a bound has a greatest one.
LEMMA GreatestExists ==
  ASSUME NEW n \in Nat, NEW S, S \subseteq 0 .. n, S # {}
  PROVE  \E m \in S : \A x \in S : x <= m
<1> DEFINE T == {k \in Nat : \E x \in S : k = n - x}
<1>1. T \subseteq Nat /\ T # {}
  <2>1. PICK x \in S : TRUE
    OBVIOUS
  <2>2. n - x \in T
    BY <2>1
  <2>3. QED
    BY <2>2
<1> HIDE DEF T
<1>2. \E k \in T : \A l \in T : ~ (<<l, k>> \in OpToRel(<, Nat))
  BY <1>1, NatLessThanWellFounded, WFMin
<1>3. PICK k \in T : \A l \in T : ~ (<<l, k>> \in OpToRel(<, Nat))
  BY <1>2
<1>4. \A l \in T : k <= l
  <2>1. ASSUME NEW l \in T, ~ (k <= l)
        PROVE  FALSE
    <3>1. l \in Nat /\ k \in Nat /\ l < k
      BY <1>1, <2>1
    <3>2. <<l, k>> \in OpToRel(<, Nat)
      BY <3>1 DEF OpToRel
    <3>3. QED
      BY <1>3, <3>2
  <2>2. QED
    BY <2>1
<1>5. PICK m \in S : k = n - m
  BY DEF T
<1>6. ASSUME NEW x \in S
      PROVE  x <= m
  <2>1. n - x \in T
    BY DEF T
  <2>2. k <= n - x
    BY <1>4, <2>1
  <2>3. QED
    BY <1>5, <2>2
<1>7. QED
  BY <1>5, <1>6

LEMMA OfIsFinite ==
  ASSUME NEW e \in Seq(Version), NEW q
  PROVE  /\ Of(e, q) \subseteq 1 .. Len(e) /\ IsFiniteSet(Of(e, q))
         /\ Cardinality(Of(e, q)) \in Nat
<1>1. Of(e, q) \subseteq 1 .. Len(e) /\ Len(e) \in Nat
  BY DEF Of
<1>2. IsFiniteSet(1 .. Len(e))
  BY <1>1, FS_Interval
<1>3. IsFiniteSet(Of(e, q))
  BY <1>1, <1>2, FS_Subset
<1>4. QED
  BY <1>1, <1>3, FS_CardinalityType

\* In a file whose versions count, the current version of a prompt is how many
\* versions it has: the greatest number is that of the last one.
LEMMA CurrentIsCount ==
  ASSUME NEW e \in Seq(Version), Counted(e), NEW p, world.store = "keyed"
  PROVE  CurrentVersion(e, p) = Cardinality(Of(e, p))
<1> DEFINE n == Cardinality(Of(e, p))
           S == {0} \cup {e[i].version : i \in Of(e, p)}
<1>1. Of(e, p) \subseteq 1 .. Len(e) /\ IsFiniteSet(Of(e, p)) /\ n \in Nat
  BY OfIsFinite
<1>2. ASSUME NEW i \in Of(e, p)
      PROVE  e[i].version \in Nat /\ e[i].version <= n
  <2>1. {j \in Of(e, p) : j <= i} \in SUBSET Of(e, p)
    OBVIOUS
  <2>2. e[i].version = Cardinality({j \in Of(e, p) : j <= i})
    BY <1>2 DEF Counted, Ordinal, Of
  <2>3. IsFiniteSet({j \in Of(e, p) : j <= i})
    BY <1>1, <2>1, FS_Subset
  <2>4. e[i].version \in Nat
    BY <2>2, <2>3, FS_CardinalityType
  <2>5. QED
    BY <1>1, <2>1, <2>2, <2>4, FS_Subset
<1>3. n \in S
  <2>1. CASE Of(e, p) = {}
    BY <2>1, FS_EmptySet
  <2>2. CASE Of(e, p) # {}
    <3>1. Len(e) \in Nat /\ Of(e, p) \subseteq 0 .. Len(e)
      BY <1>1
    <3>2. PICK m \in Of(e, p) : \A x \in Of(e, p) : x <= m
      BY <2>2, <3>1, GreatestExists
    <3>3. {j \in Of(e, p) : j <= m} = Of(e, p)
      BY <3>2
    <3>4. e[m].version = n
      BY <3>2, <3>3 DEF Counted, Ordinal, Of
    <3>5. QED
      BY <3>2, <3>4
  <2>3. QED
    BY <2>1, <2>2
<1>4. \A y \in S : y \in Nat /\ n >= y
  BY <1>1, <1>2
<1>5. CurrentVersion(e, p) = Max(S)
  BY DEF CurrentVersion
<1> HIDE DEF S, n
<1>6. Max(S) = n
  <2>1. Max(S) \in S /\ \A y \in S : Max(S) >= y
    BY <1>3, <1>4 DEF Max
  <2>2. QED
    BY <1>3, <1>4, <2>1
<1>7. QED
  BY <1>5, <1>6 DEF n

\* In the other stores it is the length of the file.
LEMMA CurrentIsLength ==
  ASSUME NEW e \in Seq(Version), Counted(e), NEW p, world.store # "keyed"
  PROVE  CurrentVersion(e, p) = Len(e)
<1>1. CASE e = <<>>
  BY <1>1 DEF CurrentVersion
<1>2. CASE e # <<>>
  <2>1. Len(e) \in DOMAIN e
    BY <1>2
  <2>2. QED
    BY <1>2, <2>1 DEF CurrentVersion, Counted
<1>3. QED
  BY <1>1, <1>2

LEMMA CurrentIsNumber ==
  ASSUME NEW e \in Seq(Version), Counted(e), NEW p
  PROVE  CurrentVersion(e, p) \in Nat
BY CurrentIsCount, CurrentIsLength, OfIsFinite

\* A version that is appended under the next number counts as well.
LEMMA AppendCounts ==
  ASSUME NEW e \in Seq(Version), Counted(e), NEW p \in Prompt,
         NEW content \in Content \cup {BuiltIn}
  PROVE  /\ WithVersion(e, p, content) \in Seq(Version)
         /\ Counted(WithVersion(e, p, content))
<1> DEFINE n == Cardinality(Of(e, p))
           v == [prompt |-> p, version |-> NextVersion(e, p), content |-> content]
           w == WithVersion(e, p, content)
<1>0. n \in Nat
  BY OfIsFinite
<1>1. /\ world.store = "keyed" => NextVersion(e, p) = n + 1
      /\ world.store # "keyed" => NextVersion(e, p) = Len(e) + 1
      /\ NextVersion(e, p) \in Nat
  BY CurrentIsCount, CurrentIsLength, CurrentIsNumber DEF NextVersion
<1>2. v \in Version
  BY <1>1 DEF Version
<1>3. w = Append(e, v)
  BY DEF WithVersion
<1> HIDE DEF v, w
<1>4. /\ w \in Seq(Version) /\ Len(w) = Len(e) + 1 /\ w[Len(e) + 1] = v
      /\ \A i \in 1 .. Len(e) : w[i] = e[i]
  BY <1>2, <1>3
<1>5. ASSUME NEW i \in 1 .. Len(e)
      PROVE  w[i].version =
               IF world.store = "keyed"
               THEN Ordinal(w, i) ELSE i
  <2>1. {j \in Of(w, w[i].prompt) : j <= i} = {j \in Of(e, e[i].prompt) : j <= i}
    BY <1>4 DEF Of
  <2>2. Ordinal(w, i) = Ordinal(e, i)
    BY <2>1 DEF Ordinal
  <2>3. i \in DOMAIN e /\ w[i] = e[i]
    BY <1>4
  <2>4. QED
    BY <2>2, <2>3 DEF Counted
<1>6. w[Len(e) + 1].version =
        IF world.store = "keyed"
        THEN Ordinal(w, Len(e) + 1) ELSE Len(e) + 1
  <2>0. w[Len(e) + 1].prompt = p /\ w[Len(e) + 1].version = NextVersion(e, p)
    BY <1>4 DEF v
  <2>1. /\ w[Len(e) + 1].prompt = p
        /\ world.store = "keyed" => w[Len(e) + 1].version = n + 1
        /\ world.store # "keyed" => w[Len(e) + 1].version = Len(e) + 1
    BY <1>1, <2>0
  <2>2. {j \in Of(w, p) : j <= Len(e) + 1} = Of(e, p) \cup {Len(e) + 1}
    BY <1>4, <2>1 DEF Of
  <2>3. Len(e) + 1 \notin Of(e, p)
    BY DEF Of
  <2>4. Cardinality(Of(e, p) \cup {Len(e) + 1}) = n + 1
    BY <1>0, <2>3, OfIsFinite, FS_AddElement
  <2>5. QED
    BY <2>1, <2>2, <2>4 DEF Ordinal
<1>7. Counted(w)
  <2>1. DOMAIN w = (1 .. Len(e)) \cup {Len(e) + 1}
    BY <1>4
  <2>2. QED
    BY <1>5, <1>6, <2>1 DEF Counted
<1>8. QED
  BY <1>4, <1>7 DEF w
-----------------------------------------------------------------------------
(* The invariant *)

Stage == {"idle", "write", "cut", "score", "drop", "back"}

\* Every version is in the file of its prompt.
InFile(entries, f) == \A i \in DOMAIN entries : FileOf(entries[i].prompt) = f

RequestShape(r) ==
  /\ r = [at |-> r.at, prompt |-> r.prompt, payload |-> r.payload,
          before |-> r.before, to |-> r.to]
  /\ r.at \in Stage /\ r.to \in Nat
  /\ r.at # "idle" => r.prompt \in Prompt
  /\ r.at \in {"score", "drop", "back"} => world.store = "named"
  /\ r.at \in {"write", "cut"} =>
       /\ r.payload \in Seq(Version) /\ r.payload # <<>>
       /\ Counted(r.payload) /\ InFile(r.payload, FileOf(r.prompt))

VersionShape ==
  /\ world \in WorldType
  /\ files \in [File -> Seq(Version)]
  /\ \A f \in File : Counted(files[f]) /\ InFile(files[f], f)
  /\ request = [c \in Client |-> request[c]]
  /\ \A c \in Client : RequestShape(request[c])
  /\ answered \subseteq Version

\* Requests that do not overlap: one at most is under way.
AtMostOne ==
  world.serial => \A c, d \in Client :
    request[c].at # "idle" /\ request[d].at # "idle" => c = d

Has(entries, v) == \E i \in DOMAIN entries : entries[i] = v

\* What was answered is in its file, or the file is cut; and what is to be
\* written has all that was answered for its file.
Keeps ==
  world.serial /\ ~ world.faults =>
    \A v \in answered :
      /\ \/ Has(files[FileOf(v.prompt)], v)
         \/ \E c \in Client : request[c].at = "cut"
                               /\ FileOf(request[c].prompt) = FileOf(v.prompt)
      /\ \A c \in Client :
           request[c].at \in {"write", "cut"}
             /\ FileOf(request[c].prompt) = FileOf(v.prompt)
           => Has(request[c].payload, v)

\* A check puts back the last version but one, and its content is then the
\* last and the last but two of what is written.
Undone(r) ==
  LET n == Len(r.payload)
  IN /\ r.at = "back" => r.to + 1 = Len(files[FileOf(r.prompt)]) /\ r.to # 0
     /\ r.at \in {"idle", "score", "drop"} => r.to = 0
     /\ r.to # 0 /\ r.at = "write" =>
          n > 2 /\ r.payload[n].content = r.payload[n - 2].content

Undoes == world.serial => \A c \in Client : Undone(request[c])

VersionInv == VersionShape /\ AtMostOne /\ Keeps /\ Undoes
-----------------------------------------------------------------------------
(* Steps *)

\* No request but c's is under way, if requests do not overlap.
Alone(c) == world.serial => \A d \in Client \ {c} : request[d].at = "idle"

\* A step of c leaves the other requests as they are.
StepOf(c) ==
  /\ UNCHANGED world
  /\ request' = [d \in Client |-> IF d = c THEN request'[c] ELSE request[d]]

LEMMA FileFacts ==
  ASSUME VersionShape, NEW p \in Prompt
  PROVE  FileOf(p) \in File
BY DEF VersionShape, WorldType, FileOf, File

LEMMA InitInv == VersionConstants => (Init => VersionInv)
<1> SUFFICES ASSUME VersionConstants, Init
             PROVE  VersionInv
  OBVIOUS
<1>1. world \in WorldType
  BY DEF VersionConstants, Init
<1>2. \A c \in Client : request[c] = Idle
  BY DEF Init
<1>3. RequestShape(Idle)
  BY DEF RequestShape, Idle, Stage
<1>4. \A f \in File : Counted(files[f]) /\ InFile(files[f], f)
  BY DEF Init, Counted, InFile
<1>5. VersionShape
  <2>1. files \in [File -> Seq(Version)]
    BY DEF Init
  <2>2. request = [c \in Client |-> request[c]] /\ answered \subseteq Version
    BY DEF Init
  <2>3. QED
    BY <1>1, <1>2, <1>3, <1>4, <2>1, <2>2 DEF VersionShape
<1>a. Idle.at = "idle" /\ Idle.to = 0
  BY DEF Idle
<1>6. AtMostOne
  BY <1>2, <1>a DEF AtMostOne
<1>7. Keeps
  BY DEF Keeps, Init
<1>8. Undoes
  BY <1>2, <1>a DEF Undoes, Undone
<1>9. QED
  BY <1>5, <1>6, <1>7, <1>8 DEF VersionInv

\* A request that stays as it is keeps its shape.
LEMMA SameShape ==
  ASSUME NEW d \in Client, RequestShape(request[d]), request'[d] = request[d],
         UNCHANGED world
  PROVE  RequestShape(request[d])'
<1>1. /\ request[d].at \in {"write", "cut"} =>
           Counted(request[d].payload)'
             /\ InFile(request[d].payload, FileOf(request[d].prompt))'
  <2> SUFFICES ASSUME request[d].at \in {"write", "cut"}
      PROVE  Counted(request[d].payload)'
               /\ InFile(request[d].payload, FileOf(request[d].prompt))'
    OBVIOUS
  <2>1. Counted(request[d].payload)
          /\ InFile(request[d].payload, FileOf(request[d].prompt))
    BY DEF RequestShape
  <2>2. QED
    BY <2>1 DEF Counted, InFile, FileOf
<1>2. QED
  BY <1>1 DEF RequestShape

\* What the other requests are about is as before.
LEMMA OthersStay ==
  ASSUME VersionInv, NEW c \in Client, StepOf(c), Alone(c),
         RequestShape(request[c])'
  PROVE  /\ request' = [d \in Client |-> request'[d]]
         /\ \A d \in Client : RequestShape(request[d])'
         /\ AtMostOne'
<1>1. \A d \in Client \ {c} : request'[d] = request[d]
  BY DEF StepOf
<1>2. request' = [d \in Client |-> request'[d]]
  BY DEF StepOf
<1>3. ASSUME NEW d \in Client
      PROVE  RequestShape(request[d])'
  <2>1. CASE d = c
    BY <2>1
  <2>2. CASE d # c
    <3>1. RequestShape(request[d])
      BY DEF VersionInv, VersionShape
    <3>2. request'[d] = request[d] /\ world' = world
      BY <1>1, <2>2 DEF StepOf
    <3>3. QED
      BY <3>1, <3>2, SameShape
  <2>3. QED
    BY <2>1, <2>2
<1>4. AtMostOne'
  <2>1. SUFFICES ASSUME world.serial, NEW d \in Client, NEW e \in Client,
                        request'[d].at # "idle", request'[e].at # "idle"
                 PROVE  d = e
    BY DEF AtMostOne, StepOf
  <2>2. \A x \in Client \ {c} : request'[x].at = "idle"
    BY <1>1, <2>1 DEF Alone
  <2>3. QED
    BY <2>1, <2>2
<1>5. QED
  BY <1>2, <1>3, <1>4

\* A request that begins or goes on with a check, and one that ends without
\* having written.
LEMMA TurnKeeps ==
  ASSUME VersionInv, NEW c \in Client, StepOf(c), Alone(c),
         UNCHANGED <<files, answered>>,
         RequestShape(request[c])', (world.serial => Undone(request[c])'),
         request'[c].at \notin {"write", "cut"},
         request[c].at # "cut" \/ world.faults
  PROVE  VersionInv'
<1>1. \A d \in Client \ {c} : request'[d] = request[d]
  BY DEF StepOf
<1>2. VersionShape' /\ AtMostOne'
  <2>1. /\ request' = [d \in Client |-> request'[d]]
        /\ \A d \in Client : RequestShape(request[d])'
        /\ AtMostOne'
    BY OthersStay
  <2>2. \A f \in File : Counted(files[f]) /\ InFile(files[f], f)
    BY DEF VersionInv, VersionShape
  <2>3. \A f \in File : Counted(files[f])' /\ InFile(files[f], f)'
    <3>1. SUFFICES ASSUME NEW f \in File
                   PROVE  Counted(files[f])' /\ InFile(files[f], f)'
      OBVIOUS
    <3>2. Counted(files[f])'
      BY <2>2 DEF Counted, StepOf
    <3>3. InFile(files[f], f)'
      BY <2>2 DEF InFile, FileOf, StepOf
    <3>4. QED
      BY <3>2, <3>3
  <2>4. QED
    BY <2>1, <2>3 DEF VersionInv, VersionShape, StepOf
<1>3. Keeps'
  <2>1. SUFFICES ASSUME world.serial, ~ world.faults, NEW v \in answered
                 PROVE  /\ \/ Has(files[FileOf(v.prompt)], v)
                           \/ \E d \in Client :
                                /\ request'[d].at = "cut"
                                /\ FileOf(request'[d].prompt) = FileOf(v.prompt)
                        /\ \A d \in Client :
                             request'[d].at \in {"write", "cut"}
                               /\ FileOf(request'[d].prompt) = FileOf(v.prompt)
                             => Has(request'[d].payload, v)
    BY DEF Keeps, Has, FileOf, StepOf
  <2>2. request[c].at # "cut"
    BY <2>1
  <2>3. QED
    BY <1>1, <2>1, <2>2 DEF VersionInv, Keeps
<1>4. Undoes'
  <2>1. SUFFICES ASSUME world.serial, NEW d \in Client
                 PROVE  Undone(request[d])'
    BY DEF Undoes, StepOf
  <2>2. CASE d = c
    BY <2>1, <2>2
  <2>3. CASE d # c
    <3>1. Undone(request[d]) /\ request'[d] = request[d]
      BY <1>1, <2>1, <2>3 DEF VersionInv, Undoes
    <3>2. QED
      BY <3>1 DEF Undone, FileOf, StepOf
  <2>4. QED
    BY <2>2, <2>3
<1>5. QED
  BY <1>2, <1>3, <1>4 DEF VersionInv

\* What a request reads counts, and has the versions of its file, in their
\* order, if reads do not fail.
LEMMA EntriesRead ==
  ASSUME VersionInv, NEW p \in Prompt, NEW e \in Entries(p)
  PROVE  /\ e \in Seq(Version) /\ Counted(e) /\ InFile(e, FileOf(p))
         /\ ~ world.faults => \A v : Has(files[FileOf(p)], v) => Has(e, v)
         /\ world.store # "config" => e \in {files[FileOf(p)], <<>>}
<1>1. FileOf(p) \in File
  BY FileFacts DEF VersionInv
<1>2. /\ files[FileOf(p)] \in Seq(Version) /\ Counted(files[FileOf(p)])
      /\ InFile(files[FileOf(p)], FileOf(p))
  BY <1>1 DEF VersionInv, VersionShape
<1>3. CASE e = files[FileOf(p)]
  BY <1>2, <1>3
<1>4. CASE e = <<>> /\ world.faults
  BY <1>4 DEF Counted, InFile
<1>5. CASE /\ e = <<Default(p)>> /\ world.store = "config"
           /\ files[FileOf(p)] = <<>> \/ world.faults
  <2>1. Default(p) \in Version /\ Default(p).prompt = p /\ Default(p).version = 1
    BY DEF Default, Version
  <2>2. DOMAIN e = {1} /\ e[1] = Default(p) /\ e \in Seq(Version)
    BY <1>5, <2>1
  <2>3. Counted(e)
    BY <1>5, <2>1, <2>2 DEF Counted
  <2>4. InFile(e, FileOf(p))
    BY <2>1, <2>2 DEF InFile
  <2>5. ~ world.faults => \A v : ~ Has(files[FileOf(p)], v)
    BY <1>5 DEF Has
  <2>6. QED
    BY <1>5, <2>2, <2>3, <2>4, <2>5
<1>6. QED
  BY <1>3, <1>4, <1>5 DEF Entries

\* The request c of p reads its file and will write content after it.
LEMMA StartWriteKeeps ==
  ASSUME VersionInv, NEW c \in Client, NEW p \in Prompt,
         NEW content \in Content \cup {BuiltIn}, NEW e \in Entries(p),
         StartWrite(c, p, e, content), Alone(c), request[c].at # "cut",
         world.serial /\ request[c].to # 0 =>
           Len(e) > 1 /\ content = e[Len(e) - 1].content
  PROVE  VersionInv'
<1> DEFINE w == WithVersion(e, p, content)
           r == request'[c]
<1>1. /\ e \in Seq(Version) /\ Counted(e) /\ InFile(e, FileOf(p))
      /\ ~ world.faults => \A v : Has(files[FileOf(p)], v) => Has(e, v)
  BY EntriesRead
<1>2. w \in Seq(Version) /\ Counted(w)
  BY <1>1, AppendCounts
<1>3. /\ w = Append(e, w[Len(e) + 1]) /\ w[Len(e) + 1].prompt = p
      /\ w[Len(e) + 1].content = content
  BY <1>1 DEF WithVersion
<1>4. RequestShape(request[c]) /\ request = [d \in Client |-> request[d]]
  BY DEF VersionInv, VersionShape
<1>5. /\ r = [request[c] EXCEPT !.at = "write", !.prompt = p, !.payload = w]
      /\ StepOf(c) /\ UNCHANGED <<files, answered>>
  BY <1>4 DEF StartWrite, StepOf
<1>6. /\ r.at = "write" /\ r.prompt = p /\ r.payload = w /\ r.to = request[c].to
      /\ r = [at |-> r.at, prompt |-> r.prompt, payload |-> r.payload,
              before |-> r.before, to |-> r.to]
  BY <1>4, <1>5 DEF RequestShape
<1> HIDE DEF w, r
<1>7. /\ Len(w) = Len(e) + 1 /\ \A i \in 1 .. Len(e) : w[i] = e[i]
      /\ DOMAIN w = (1 .. Len(e)) \cup {Len(e) + 1} /\ w # <<>>
  BY <1>1, <1>2, <1>3
<1>8. InFile(w, FileOf(p))
  BY <1>1, <1>3, <1>7 DEF InFile
<1>9. \A v : Has(e, v) => Has(w, v)
  BY <1>1, <1>7 DEF Has
<1>10. RequestShape(request[c])'
  <2>1. r.to \in Nat
    BY <1>4, <1>6 DEF RequestShape
  <2>2. Counted(request[c].payload)'
    BY <1>2, <1>5, <1>6 DEF Counted, r, StepOf
  <2>3. InFile(request[c].payload, FileOf(request[c].prompt))'
    BY <1>5, <1>6, <1>8 DEF InFile, FileOf, StepOf, r
  <2>4. request'[c] = r
    BY DEF r
  <2>5. r.payload \in Seq(Version) /\ r.payload # <<>> /\ r.prompt \in Prompt
    BY <1>2, <1>6, <1>7
  <2>6. QED
    BY <1>6, <2>1, <2>2, <2>3, <2>4, <2>5 DEF RequestShape, Stage
<1>11. /\ request' = [d \in Client |-> request'[d]]
       /\ \A d \in Client : RequestShape(request[d])'
       /\ AtMostOne'
  BY <1>5, <1>10, OthersStay
<1>12. VersionShape'
  <2>1. \A f \in File : Counted(files[f]) /\ InFile(files[f], f)
    BY DEF VersionInv, VersionShape
  <2>2. \A f \in File : Counted(files[f])'
    BY <1>5, <2>1 DEF Counted, StepOf
  <2>3. \A f \in File : InFile(files[f], f)'
    BY <1>5, <2>1 DEF InFile, FileOf, StepOf
  <2>4. QED
    BY <1>5, <1>11, <2>2, <2>3 DEF VersionInv, VersionShape, StepOf
<1>13. \A d \in Client \ {c} : request'[d] = request[d]
  BY <1>5 DEF StepOf
<1>14. Keeps'
  <2>1. SUFFICES ASSUME world.serial, ~ world.faults, NEW v \in answered
                 PROVE  /\ \/ Has(files[FileOf(v.prompt)], v)
                           \/ \E d \in Client :
                                /\ request'[d].at = "cut"
                                /\ FileOf(request'[d].prompt) = FileOf(v.prompt)
                        /\ \A d \in Client :
                             request'[d].at \in {"write", "cut"}
                               /\ FileOf(request'[d].prompt) = FileOf(v.prompt)
                             => Has(request'[d].payload, v)
    BY <1>5 DEF Keeps, Has, FileOf, StepOf
  <2>2. \A d \in Client : request[d].at # "cut"
    BY <2>1 DEF Alone
  <2>3. Has(files[FileOf(v.prompt)], v)
    BY <2>1, <2>2 DEF VersionInv, Keeps
  <2>4. FileOf(p) = FileOf(v.prompt) => Has(w, v)
    BY <1>1, <1>9, <2>1, <2>3
  <2>5. request'[c].at = "write" /\ request'[c].prompt = p /\ request'[c].payload = w
    BY <1>6 DEF r
  <2>6. QED
    BY <1>13, <2>1, <2>2, <2>3, <2>4, <2>5 DEF VersionInv, Keeps
<1>15. Undoes'
  <2>1. SUFFICES ASSUME world.serial, NEW d \in Client
                 PROVE  Undone(request[d])'
    BY <1>5 DEF Undoes, StepOf
  <2>2. CASE d = c
    <3>1. SUFFICES ASSUME request[c].to # 0
                   PROVE  /\ Len(w) > 2
                          /\ w[Len(w)].content = w[Len(w) - 2].content
      BY <1>6, <2>2 DEF Undone, r
    <3>2. Len(e) > 1 /\ content = e[Len(e) - 1].content
      BY <2>1, <3>1
    <3>3. Len(e) - 1 \in 1 .. Len(e) /\ Len(w) - 2 = Len(e) - 1
      BY <1>1, <1>7, <3>2
    <3>4. QED
      BY <1>3, <1>7, <3>2, <3>3
  <2>3. CASE d # c
    <3>1. Undone(request[d]) /\ request'[d] = request[d]
      BY <1>13, <2>1, <2>3 DEF VersionInv, Undoes
    <3>2. QED
      BY <1>5, <3>1 DEF Undone, FileOf, StepOf
  <2>4. QED
    BY <2>2, <2>3
<1>16. QED
  BY <1>11, <1>12, <1>14, <1>15 DEF VersionInv

LEMMA BeginIsAlone ==
  ASSUME VersionInv, NEW c \in Client, MayBegin(c)
  PROVE  Alone(c) /\ request[c].at = "idle" /\ (world.serial => request[c].to = 0)
BY DEF MayBegin, Alone, VersionInv, Undoes, Undone

LEMMA BusyIsAlone ==
  ASSUME VersionInv, NEW c \in Client, request[c].at # "idle"
  PROVE  Alone(c)
BY DEF Alone, VersionInv, AtMostOne

LEMMA PromptsOfWorld == VersionInv => world.prompts \subseteq Prompt
BY DEF VersionInv, VersionShape, WorldType

LEMMA SaveKeeps ==
  ASSUME VersionInv, NEW c \in Client, Save(c) \/ Update(c)
  PROVE  VersionInv'
<1>1. MayBegin(c)
  BY DEF Save, Update
<1>2. PICK p \in Prompt, content \in Content \cup {BuiltIn} :
        \E e \in Entries(p) : StartWrite(c, p, e, content)
  BY PromptsOfWorld DEF Save, Update
<1>3. Alone(c) /\ request[c].at # "cut" /\ ~ (world.serial /\ request[c].to # 0)
  BY <1>1, BeginIsAlone
<1>4. QED
  BY <1>2, <1>3, StartWriteKeeps

\* What can be read in a file has a content.
LEMMA ContentRead ==
  ASSUME VersionInv, NEW p \in Prompt, NEW e \in Entries(p), NEW i \in DOMAIN e
  PROVE  e[i].content \in Content \cup {BuiltIn}
<1>1. e \in Seq(Version)
  BY EntriesRead
<1>2. e[i] \in Version
  BY <1>1
<1>3. QED
  BY <1>2 DEF Version

LEMMA RollbackKeeps ==
  ASSUME VersionInv, NEW c \in Client, Rollback(c)
  PROVE  VersionInv'
<1>1. PICK p \in Prompt, n \in 1 .. MaxVersions : RollbackTo(c, p, n)
  BY PromptsOfWorld DEF Rollback
<1>2. PICK e \in Entries(p) :
        \E i \in DOMAIN e : StartWrite(c, p, e, e[i].content)
  BY <1>1 DEF RollbackTo
<1>d. PICK i \in DOMAIN e : StartWrite(c, p, e, e[i].content)
  BY <1>2
<1>3. Alone(c) /\ request[c].at # "cut" /\ ~ (world.serial /\ request[c].to # 0)
  BY BeginIsAlone DEF Rollback
<1>4. e[i].content \in Content \cup {BuiltIn}
  BY ContentRead
<1>5. QED
  BY <1>3, <1>4, <1>d, StartWriteKeeps

\* The number of a version is its place in the file.
LEMMA PutBackKeeps ==
  ASSUME VersionInv, NEW c \in Client, PutBack(c)
  PROVE  VersionInv'
<1> DEFINE p == request[c].prompt
<1>1. /\ request[c].at = "back" /\ p \in Prompt /\ world.store = "named"
      /\ RollbackTo(c, p, request[c].to)
  BY DEF PutBack, VersionInv, VersionShape, RequestShape
<1>2. PICK e \in Entries(p) : \E i \in DOMAIN e :
        e[i].version = request[c].to /\ StartWrite(c, p, e, e[i].content)
  BY <1>1 DEF RollbackTo
<1>3. PICK i \in DOMAIN e :
        e[i].version = request[c].to /\ StartWrite(c, p, e, e[i].content)
  BY <1>2
<1>4. e \in Seq(Version) /\ Counted(e) /\ e \in {files[FileOf(p)], <<>>}
  BY <1>1, EntriesRead
<1>5. e[i].content \in Content \cup {BuiltIn}
  BY <1>1, ContentRead
<1>6. e[i].version = i /\ i \in 1 .. Len(e) /\ e = files[FileOf(p)]
  BY <1>1, <1>3, <1>4 DEF Counted
<1>7. Alone(c)
  BY <1>1, BusyIsAlone
<1>8. world.serial => request[c].to + 1 = Len(e) /\ request[c].to # 0
  BY <1>1, <1>6 DEF VersionInv, Undoes, Undone
<1>9. world.serial => Len(e) > 1 /\ i = Len(e) - 1
  BY <1>3, <1>4, <1>6, <1>8
<1>10. QED
  BY <1>1, <1>3, <1>5, <1>7, <1>9, StartWriteKeeps

LEMMA CheckKeeps ==
  ASSUME VersionInv, NEW c \in Client, Check(c)
  PROVE  VersionInv'
<1>1. /\ RequestShape(request[c]) /\ request = [d \in Client |-> request[d]]
      /\ MayBegin(c) /\ world.store = "named"
  BY DEF VersionInv, VersionShape, Check
<1>2. PICK p \in Prompt :
        request' = [request EXCEPT ![c].at = "score", ![c].prompt = p,
                                   ![c].before = latest]
  BY PromptsOfWorld DEF Check
<1>3. StepOf(c) /\ UNCHANGED <<files, answered>>
  BY <1>1, <1>2 DEF Check, StepOf
<1>4. /\ request'[c].at = "score" /\ request'[c].prompt = p
      /\ request'[c].to = request[c].to
      /\ request'[c] = [at |-> "score", prompt |-> p,
                        payload |-> request'[c].payload,
                        before |-> request'[c].before, to |-> request'[c].to]
  BY <1>1, <1>2 DEF RequestShape
<1>5. Alone(c) /\ request[c].at = "idle" /\ (world.serial => request[c].to = 0)
  BY <1>1, BeginIsAlone
<1>6. RequestShape(request[c])'
  BY <1>1, <1>3, <1>4 DEF RequestShape, Stage, StepOf
<1>7. world.serial => Undone(request[c])'
  BY <1>4, <1>5 DEF Undone
<1>8. QED
  BY <1>3, <1>4, <1>5, <1>6, <1>7, TurnKeeps

\* A request that ends is as one that never began.
LEMMA EndsShape ==
  ASSUME VersionInv, NEW c \in Client, request'[c] = Idle, UNCHANGED world
  PROVE  /\ RequestShape(request[c])' /\ Undone(request[c])'
         /\ request'[c].at = "idle"
<1>1. /\ Idle.at = "idle" /\ Idle.to = 0
      /\ Idle = [at |-> Idle.at, prompt |-> Idle.prompt, payload |-> Idle.payload,
                 before |-> Idle.before, to |-> Idle.to]
  BY DEF Idle
<1>2. RequestShape(request[c])'
  BY <1>1 DEF RequestShape, Stage
<1>3. Undone(request[c])'
  BY <1>1 DEF Undone
<1>4. QED
  BY <1>1, <1>2, <1>3

LEMMA ScoreKeeps ==
  ASSUME VersionInv, NEW c \in Client, Score(c)
  PROVE  VersionInv'
<1>1. /\ RequestShape(request[c]) /\ request = [d \in Client |-> request[d]]
      /\ request[c].at = "score" /\ UNCHANGED <<world, files, answered>>
  BY DEF VersionInv, VersionShape, Score
<1>2. \/ request' = [request EXCEPT ![c] = Idle]
      \/ request' = [request EXCEPT ![c] = [request[c] EXCEPT !.at = "drop"]]
  BY DEF Score
<1>3. StepOf(c) /\ Alone(c)
  BY <1>1, <1>2, BusyIsAlone DEF StepOf
<1>4. CASE request' = [request EXCEPT ![c] = Idle]
  <2>1. request'[c] = Idle
    BY <1>1, <1>4
  <2>2. QED
    BY <1>1, <1>3, <2>1, EndsShape, TurnKeeps
<1>5. CASE request' = [request EXCEPT ![c] = [request[c] EXCEPT !.at = "drop"]]
  <2>1. /\ request'[c].at = "drop" /\ request'[c].prompt = request[c].prompt
        /\ request'[c].to = request[c].to
        /\ request'[c] = [at |-> "drop", prompt |-> request'[c].prompt,
                          payload |-> request'[c].payload,
                          before |-> request'[c].before, to |-> request'[c].to]
    BY <1>1, <1>5 DEF RequestShape
  <2>2. RequestShape(request[c])'
    BY <1>1, <2>1 DEF RequestShape, Stage
  <2>3. world.serial => Undone(request[c])'
    BY <1>1, <2>1 DEF Undone, VersionInv, Undoes
  <2>4. QED
    BY <1>1, <1>3, <2>1, <2>2, <2>3, TurnKeeps
<1>6. QED
  BY <1>2, <1>4, <1>5

LEMMA ReadHistoryKeeps ==
  ASSUME VersionInv, NEW c \in Client, ReadHistory(c)
  PROVE  VersionInv'
<1> DEFINE n == Len(files[FileOf(request[c].prompt)])
<1>1. /\ RequestShape(request[c]) /\ request = [d \in Client |-> request[d]]
      /\ request[c].at = "drop" /\ UNCHANGED <<world, files, answered>>
      /\ request[c].prompt \in Prompt /\ world.store = "named"
  BY DEF VersionInv, VersionShape, ReadHistory, RequestShape
<1>e. PICK e \in Entries(request[c].prompt) :
        request' = [request EXCEPT ![c] =
          IF CurrentVersion(e, request[c].prompt) > 1
          THEN [request[c] EXCEPT !.at = "back",
                  !.to = CurrentVersion(e, request[c].prompt) - 1]
          ELSE Idle]
  BY DEF ReadHistory
<1>f. /\ CurrentVersion(e, request[c].prompt) = Len(e)
      /\ e \in {files[FileOf(request[c].prompt)], <<>>}
  BY <1>1, EntriesRead, CurrentIsLength
<1>2. \/ request' = [request EXCEPT ![c] = Idle]
      \/ n > 1 /\ request' = [request EXCEPT ![c] =
                   [request[c] EXCEPT !.at = "back", !.to = n - 1]]
  <2>1. CASE e = <<>>
    <3>1. ~ (Len(e) > 1)
      BY <2>1
    <3>2. QED
      BY <1>e, <1>f, <3>1
  <2>2. CASE e = files[FileOf(request[c].prompt)]
    BY <1>e, <1>f, <2>2
  <2>3. QED
    BY <1>f, <2>1, <2>2
<1>3. StepOf(c) /\ Alone(c)
  BY <1>1, <1>2, BusyIsAlone DEF StepOf
<1>4. CASE request' = [request EXCEPT ![c] = Idle]
  <2>1. request'[c] = Idle
    BY <1>1, <1>4
  <2>2. QED
    BY <1>1, <1>3, <2>1, EndsShape, TurnKeeps
<1>5. CASE n > 1 /\ request' = [request EXCEPT ![c] =
                    [request[c] EXCEPT !.at = "back", !.to = n - 1]]
  <2>1. n \in Nat
    <3>1. FileOf(request[c].prompt) \in File
      BY <1>1, FileFacts DEF VersionInv
    <3>2. QED
      BY <3>1 DEF VersionInv, VersionShape
  <2> HIDE DEF n
  <2>2. /\ request'[c].at = "back" /\ request'[c].prompt = request[c].prompt
        /\ request'[c].to = n - 1
        /\ request'[c] = [at |-> "back", prompt |-> request'[c].prompt,
                          payload |-> request'[c].payload,
                          before |-> request'[c].before, to |-> request'[c].to]
    BY <1>1, <1>5 DEF RequestShape
  <2>3. RequestShape(request[c])'
    BY <1>1, <1>5, <2>1, <2>2 DEF RequestShape, Stage
  <2>4. n = Len(files[FileOf(request[c].prompt)])
    BY DEF n
  <2>5. Undone(request[c])'
    <3>1. FileOf(request[c].prompt)' = FileOf(request[c].prompt)
      BY <1>1, <2>2 DEF FileOf
    <3>2. Len(files[FileOf(request[c].prompt)])' = n
      BY <1>1, <2>4, <3>1
    <3>3. (n - 1) + 1 = n /\ n - 1 # 0
      BY <1>5, <2>1
    <3>4. QED
      BY <2>2, <3>2, <3>3 DEF Undone
  <2>6. QED
    BY <1>1, <1>3, <2>2, <2>3, <2>5, TurnKeeps
<1>6. QED
  BY <1>2, <1>4, <1>5

LEMMA EndKeeps ==
  ASSUME VersionInv, NEW c \in Client, NothingToPutBack(c) \/ Break(c)
  PROVE  VersionInv'
<1>1. /\ request = [d \in Client |-> request[d]] /\ request[c].at # "idle"
      /\ UNCHANGED <<world, files, answered>>
      /\ request' = [request EXCEPT ![c] = Idle]
      /\ request[c].at # "cut" \/ world.faults
  BY DEF VersionInv, VersionShape, NothingToPutBack, Break
<1>2. request'[c] = Idle /\ StepOf(c) /\ Alone(c)
  BY <1>1, BusyIsAlone DEF StepOf
<1>3. QED
  BY <1>1, <1>2, EndsShape, TurnKeeps

\* The file that a request writes to loses what it has, and gets it back with
\* the payload.
LEMMA CutKeeps ==
  ASSUME VersionInv, NEW c \in Client, Cut(c)
  PROVE  VersionInv'
<1> DEFINE f == FileOf(request[c].prompt)
<1>1. /\ RequestShape(request[c]) /\ request = [d \in Client |-> request[d]]
      /\ request[c].at = "write" /\ UNCHANGED <<world, answered>>
      /\ files' = [files EXCEPT ![f] = <<>>]
      /\ request' = [request EXCEPT ![c] = [request[c] EXCEPT !.at = "cut"]]
      /\ files \in [File -> Seq(Version)] /\ answered \subseteq Version
  BY DEF VersionInv, VersionShape, Cut
<1>2. StepOf(c) /\ Alone(c)
  BY <1>1, BusyIsAlone DEF StepOf
<1>3. /\ request'[c].at = "cut" /\ request'[c].prompt = request[c].prompt
      /\ request'[c].to = request[c].to
      /\ request'[c].payload = request[c].payload
      /\ request'[c] = [at |-> "cut", prompt |-> request'[c].prompt,
                        payload |-> request'[c].payload,
                        before |-> request'[c].before, to |-> request'[c].to]
  BY <1>1 DEF RequestShape
<1>4. RequestShape(request[c])'
  <2>1. Counted(request[c].payload)'
    <3>1. Counted(request[c].payload) /\ request'[c].payload = request[c].payload
      BY <1>1, <1>3 DEF RequestShape
    <3>2. QED
      BY <1>1, <3>1 DEF Counted
  <2>2. InFile(request[c].payload, FileOf(request[c].prompt))'
    BY <1>1, <1>3 DEF RequestShape, InFile, FileOf
  <2>3. QED
    BY <1>1, <1>3, <2>1, <2>2 DEF RequestShape, Stage
<1>5. /\ request' = [d \in Client |-> request'[d]]
      /\ \A d \in Client : RequestShape(request[d])'
      /\ AtMostOne'
  BY <1>2, <1>4, OthersStay
<1>6. f \in File
  BY <1>1, FileFacts DEF RequestShape, VersionInv
<1>7. \A d \in Client \ {c} : request'[d] = request[d]
  BY <1>2 DEF StepOf
<1> HIDE DEF f
<1>8. \A g \in File : files'[g] = IF g = f THEN <<>> ELSE files[g]
  BY <1>1, <1>6
<1>9. VersionShape'
  <2>1. files' \in [File -> Seq(Version)]
    BY <1>1, <1>6
  <2>2. ASSUME NEW g \in File
        PROVE  Counted(files[g])' /\ InFile(files[g], g)'
    <3>1. CASE g = f
      BY <1>8, <3>1 DEF Counted, InFile
    <3>2. CASE g # f
      <4>1. Counted(files[g]) /\ InFile(files[g], g) /\ files'[g] = files[g]
        BY <1>8, <3>2 DEF VersionInv, VersionShape
      <4>2. QED
        BY <1>1, <4>1 DEF Counted, InFile, FileOf
    <3>3. QED
      BY <3>1, <3>2
  <2>3. QED
    BY <1>1, <1>5, <2>1, <2>2 DEF VersionInv, VersionShape
<1>10. Keeps'
  <2>1. SUFFICES ASSUME world.serial, ~ world.faults, NEW v \in answered
                 PROVE  /\ \/ Has(files'[FileOf(v.prompt)], v)
                           \/ \E d \in Client :
                                /\ request'[d].at = "cut"
                                /\ FileOf(request'[d].prompt) = FileOf(v.prompt)
                        /\ \A d \in Client :
                             request'[d].at \in {"write", "cut"}
                               /\ FileOf(request'[d].prompt) = FileOf(v.prompt)
                             => Has(request'[d].payload, v)
    <3>1. world' = world /\ answered' = answered
      BY <1>1
    <3>2. QED
      BY <3>1 DEF Keeps, Has, FileOf
  <2>2. FileOf(v.prompt) \in File
    BY <1>1, <2>1, FileFacts DEF Version, VersionInv
  <2>3. CASE FileOf(v.prompt) = f
    BY <1>1, <1>3, <1>7, <2>1, <2>3 DEF VersionInv, Keeps, f
  <2>4. CASE FileOf(v.prompt) # f
    BY <1>1, <1>3, <1>7, <1>8, <2>1, <2>2, <2>4 DEF VersionInv, Keeps, f
  <2>5. QED
    BY <2>3, <2>4
<1>11. Undoes'
  <2>1. SUFFICES ASSUME world.serial, NEW d \in Client
                 PROVE  Undone(request[d])'
    BY <1>1 DEF Undoes
  <2>2. CASE d = c
    BY <1>3, <2>2 DEF Undone
  <2>3. CASE d # c
    <3>1. Undone(request[d]) /\ request'[d] = request[d] /\ request[d].at = "idle"
      BY <1>2, <1>7, <2>1, <2>3 DEF VersionInv, Undoes, Alone
    <3>2. QED
      BY <3>1 DEF Undone
  <2>4. QED
    BY <2>2, <2>3
<1>12. QED
  BY <1>5, <1>9, <1>10, <1>11 DEF VersionInv

LEMMA FillKeeps ==
  ASSUME VersionInv, NEW c \in Client, Fill(c)
  PROVE  VersionInv'
<1> DEFINE f == FileOf(request[c].prompt)
           w == request[c].payload
<1>1. /\ RequestShape(request[c]) /\ request = [d \in Client |-> request[d]]
      /\ request[c].at = "cut" /\ UNCHANGED world
      /\ files' = [files EXCEPT ![f] = w]
      /\ request' = [request EXCEPT ![c] = Idle]
      /\ answered' = IF world.serial THEN answered \cup {w[Len(w)]} ELSE answered
      /\ files \in [File -> Seq(Version)] /\ answered \subseteq Version
  BY DEF VersionInv, VersionShape, Fill
<1>2. request'[c] = Idle /\ StepOf(c) /\ Alone(c)
  BY <1>1, BusyIsAlone DEF StepOf
<1>3. RequestShape(request[c])' /\ Undone(request[c])' /\ request'[c].at = "idle"
  BY <1>1, <1>2, EndsShape
<1>4. /\ request' = [d \in Client |-> request'[d]]
      /\ \A d \in Client : RequestShape(request[d])'
      /\ AtMostOne'
  BY <1>2, <1>3, OthersStay
<1>5. /\ f \in File /\ w \in Seq(Version) /\ w # <<>>
      /\ Counted(w) /\ InFile(w, f)
  BY <1>1, FileFacts DEF RequestShape, VersionInv
<1>6. \A d \in Client \ {c} : request'[d] = request[d]
  BY <1>2 DEF StepOf
<1> HIDE DEF f, w
<1>7. \A g \in File : files'[g] = IF g = f THEN w ELSE files[g]
  BY <1>1, <1>5
<1>8. Len(w) \in DOMAIN w /\ w[Len(w)] \in Version
  BY <1>5
<1>9. VersionShape'
  <2>1. files' \in [File -> Seq(Version)]
    BY <1>1, <1>5
  <2>2. ASSUME NEW g \in File
        PROVE  Counted(files[g])' /\ InFile(files[g], g)'
    <3>1. CASE g = f
      BY <1>1, <1>5, <1>7, <3>1 DEF Counted, InFile, FileOf
    <3>2. CASE g # f
      <4>1. Counted(files[g]) /\ InFile(files[g], g) /\ files'[g] = files[g]
        BY <1>7, <3>2 DEF VersionInv, VersionShape
      <4>2. QED
        BY <1>1, <4>1 DEF Counted, InFile, FileOf
    <3>3. QED
      BY <3>1, <3>2
  <2>3. answered' \subseteq Version
    BY <1>1, <1>8
  <2>4. QED
    BY <1>1, <1>4, <2>1, <2>2, <2>3 DEF VersionInv, VersionShape
<1>10. Keeps'
  <2>1. SUFFICES ASSUME world.serial, ~ world.faults, NEW v \in answered'
                 PROVE  /\ Has(files'[FileOf(v.prompt)], v)
                        /\ \A d \in Client :
                             request'[d].at \notin {"write", "cut"}
    <3>1. world' = world
      BY <1>1
    <3>2. QED
      BY <3>1 DEF Keeps, Has, FileOf
  <2>2. \A d \in Client : request'[d].at = "idle"
    BY <1>2, <1>3, <1>6, <2>1 DEF Alone
  <2>3. FileOf(v.prompt) \in File
    BY <1>1, <1>9, FileFacts DEF VersionShape, Version, VersionInv
  <2>4. CASE v = w[Len(w)]
    <3>1. FileOf(v.prompt) = f
      BY <1>5, <1>8, <2>4 DEF InFile
    <3>2. QED
      BY <1>7, <1>8, <2>2, <2>3, <2>4, <3>1 DEF Has
  <2>5. CASE v \in answered
    <3>1. FileOf(v.prompt) = f => Has(w, v)
      BY <1>1, <2>1, <2>5 DEF VersionInv, Keeps, f, w
    <3>2. FileOf(v.prompt) # f => Has(files[FileOf(v.prompt)], v)
      BY <1>1, <1>2, <2>1, <2>5 DEF VersionInv, Keeps, f, Alone
    <3>3. QED
      BY <1>7, <2>2, <2>3, <3>1, <3>2
  <2>6. QED
    BY <1>1, <2>1, <2>4, <2>5
<1>11. Undoes'
  <2>1. SUFFICES ASSUME world.serial, NEW d \in Client
                 PROVE  Undone(request[d])'
    BY <1>1 DEF Undoes
  <2>2. CASE d = c
    BY <1>3, <2>2
  <2>3. CASE d # c
    <3>1. Undone(request[d]) /\ request'[d] = request[d] /\ request[d].at = "idle"
      BY <1>2, <1>6, <2>1, <2>3 DEF VersionInv, Undoes, Alone
    <3>2. QED
      BY <3>1 DEF Undone
  <2>4. QED
    BY <2>2, <2>3
<1>12. QED
  BY <1>4, <1>9, <1>10, <1>11 DEF VersionInv
-----------------------------------------------------------------------------
(* The theorems *)

LEMMA VersionInvHolds == VersionConstants => (Spec => []VersionInv)
<1> SUFFICES ASSUME VersionConstants
             PROVE  Spec => []VersionInv
  OBVIOUS
<1>1. Init => VersionInv
  BY InitInv
<1>2. VersionInv /\ [Next]_vars => VersionInv'
  <2> SUFFICES ASSUME VersionInv, [Next]_vars
               PROVE  VersionInv'
    OBVIOUS
  <2>1. CASE UNCHANGED vars
    <3>1. UNCHANGED <<world, files, request, answered>>
      BY <2>1 DEF vars
    <3>2. VersionShape'
      <4>1. ASSUME NEW f \in File
            PROVE  Counted(files[f])' /\ InFile(files[f], f)'
        <5>1. Counted(files[f]) /\ InFile(files[f], f) /\ files'[f] = files[f]
          BY <3>1 DEF VersionInv, VersionShape
        <5>2. QED
          BY <3>1, <5>1 DEF Counted, InFile, FileOf
      <4>2. ASSUME NEW c \in Client
            PROVE  RequestShape(request[c])'
        <5>1. RequestShape(request[c]) /\ request'[c] = request[c]
          BY <3>1 DEF VersionInv, VersionShape
        <5>2. QED
          BY <3>1, <5>1, SameShape
      <4>3. QED
        BY <3>1, <4>1, <4>2 DEF VersionInv, VersionShape
    <3>3. AtMostOne'
      BY <3>1 DEF VersionInv, AtMostOne
    <3>4. Keeps'
      BY <3>1 DEF VersionInv, Keeps, Has, FileOf
    <3>5. Undoes'
      BY <3>1 DEF VersionInv, Undoes, Undone, FileOf
    <3>6. QED
      BY <3>2, <3>3, <3>4, <3>5 DEF VersionInv
  <2>2. ASSUME NEW c \in Client, Save(c) \/ Update(c)
        PROVE  VersionInv'
    BY <2>2, SaveKeeps
  <2>3. ASSUME NEW c \in Client, Cut(c)
        PROVE  VersionInv'
    BY <2>3, CutKeeps
  <2>4. ASSUME NEW c \in Client, Fill(c)
        PROVE  VersionInv'
    BY <2>4, FillKeeps
  <2>5. ASSUME NEW c \in Client, Break(c) \/ NothingToPutBack(c)
        PROVE  VersionInv'
    BY <2>5, EndKeeps
  <2>6. ASSUME NEW c \in Client, Rollback(c)
        PROVE  VersionInv'
    BY <2>6, RollbackKeeps
  <2>7. ASSUME NEW c \in Client, Check(c)
        PROVE  VersionInv'
    BY <2>7, CheckKeeps
  <2>8. ASSUME NEW c \in Client, Score(c)
        PROVE  VersionInv'
    BY <2>8, ScoreKeeps
  <2>9. ASSUME NEW c \in Client, ReadHistory(c)
        PROVE  VersionInv'
    BY <2>9, ReadHistoryKeeps
  <2>10. ASSUME NEW c \in Client, PutBack(c)
         PROVE  VersionInv'
    BY <2>10, PutBackKeeps
  <2>11. QED
    BY <2>1, <2>2, <2>3, <2>4, <2>5, <2>6, <2>7, <2>8, <2>9, <2>10 DEF Next
<1>3. QED
  BY <1>1, <1>2, PTL DEF Spec

\* The versions of every prompt of the keyed store count from one, and so do
\* those of every file of the others, however requests overlap and whatever
\* reads and writes fail (NextVersion, in all three stores).
THEOREM VersionsAlwaysCount ==
  ASSUME VersionConstants
  PROVE  Spec => []VersionsCount
<1>1. VersionInv => VersionsCount
  BY DEF VersionInv, VersionShape, VersionsCount
<1>2. QED
  BY <1>1, VersionInvHolds, PTL

\* A version that was answered is in its file or in the write under way, where
\* requests do not overlap and nothing fails (saveVersion, savePromptVersion,
\* rollbackPrompt, updateModelConfig).
THEOREM AnswerAlwaysKept ==
  ASSUME VersionConstants
  PROVE  Spec => []AnswerIsKept
<1>1. VersionInv => AnswerIsKept
  BY DEF VersionInv, Keeps, Has, AnswerIsKept
<1>2. QED
  BY <1>1, VersionInvHolds, PTL

\* What a rollback check writes has the content of the version before the one
\* it found in the file, where requests do not overlap (checkAndRollback, rollbackPrompt).
THEOREM CheckAlwaysUndoes ==
  ASSUME VersionConstants
  PROVE  Spec => []CheckUndoes
<1>1. VersionInv => CheckUndoes
  BY DEF VersionInv, Undoes, Undone, CheckUndoes
<1>2. QED
  BY <1>1, VersionInvHolds, PTL

\* The first in the order of candidates is one with the best score.
LEMMA FirstIsBest ==
  ASSUME NEW n \in Nat, NEW max \in Nat, NEW scores \in [1 .. n -> 0 .. max],
         NEW S, S \subseteq 1 .. n, S # {}
  PROVE  First(S, scores) \in S
         /\ \A w \in S : scores[w] <= scores[First(S, scores)]
<1> DEFINE T == {scores[v] : v \in S}
           Q(v) == \A w \in S \ {v} : Before(scores, v, w)
<1>1. T \subseteq 0 .. max /\ T # {}
  OBVIOUS
<1>2. PICK t \in T : \A x \in T : x <= t
  <2> HIDE DEF T
  <2>1. QED
    BY <1>1, GreatestExists
<1> DEFINE B == {v \in S : scores[v] = t}
<1>3. B \subseteq 0 .. n /\ B # {}
  <2>1. \E v \in S : scores[v] = t
    BY <1>2
  <2>2. 1 .. n \subseteq 0 .. n
    OBVIOUS
  <2>3. QED
    BY <2>1, <2>2
<1>4. PICK b \in B : \A x \in B : x <= b
  <2> HIDE DEF B
  <2>1. QED
    BY <1>3, GreatestExists
<1>5. \A w \in S : scores[w] \in Nat /\ scores[w] <= t /\ w \in Nat
  BY <1>2
<1>6. b \in S /\ scores[b] = t /\ \A x \in S : scores[x] = t => x <= b
  BY <1>4
<1>7. Q(b)
  BY <1>5, <1>6 DEF Before
<1>8. First(S, scores) \in S /\ Q(First(S, scores))
  BY <1>6, <1>7 DEF First
<1> HIDE DEF B, T
<1>9. \A w \in S : scores[w] <= scores[First(S, scores)]
  <2>1. SUFFICES ASSUME NEW w \in S
                 PROVE  scores[w] <= scores[First(S, scores)]
    OBVIOUS
  <2>2. CASE w = First(S, scores)
    BY <1>5, <2>2
  <2>3. CASE w # First(S, scores)
    <3>1. Before(scores, First(S, scores), w)
      BY <1>8, <2>3
    <3>2. scores[w] \in Nat /\ scores[First(S, scores)] \in Nat
      BY <1>5, <1>8
    <3>3. \/ scores[First(S, scores)] > scores[w]
          \/ scores[First(S, scores)] = scores[w]
      BY <3>1 DEF Before
    <3>4. QED
      BY <3>2, <3>3
  <2>4. QED
    BY <2>2, <2>3
<1>10. QED
  BY <1>8, <1>9

LEMMA PlanProposes ==
  ASSUME NEW n \in Nat, NEW max \in Nat, NEW scores \in [1 .. n -> 0 .. max],
         NEW min \in 0 .. max, NEW prefer \in BOOLEAN
  PROVE  LET v == Selected(n, scores, min, prefer)
             good == {w \in 1 .. n : scores[w] >= min}
             fair == IF prefer /\ good # {n} THEN good \ {n} ELSE good
         IN IF n < 2 \/ good = {} THEN v = 0
            ELSE v \in fair /\ \A w \in fair : scores[w] <= scores[v]
<1> DEFINE good == {w \in 1 .. n : scores[w] >= min}
           older == {w \in good : w < n}
           fair == IF prefer /\ good # {n} THEN good \ {n} ELSE good
           S == IF prefer /\ older # {} THEN older ELSE good
           v == Selected(n, scores, min, prefer)
<1>1. v = IF n < 2 \/ good = {} THEN 0 ELSE First(S, scores)
  BY DEF Selected, Eligible
<1>2. ASSUME ~ (n < 2), good # {}
      PROVE  v \in fair /\ \A w \in fair : scores[w] <= scores[v]
  <2>1. good \subseteq 1 .. n /\ older = good \ {n}
    OBVIOUS
  <2>2. S = fair
    <3> HIDE DEF good, older
    <3>1. QED
      BY <1>2, <2>1
  <2>3. S \subseteq 1 .. n /\ S # {}
    BY <1>2
  <2>4. v = First(S, scores)
    BY <1>1, <1>2
  <2> HIDE DEF S, v, fair, good, older
  <2>5. QED
    BY <2>2, <2>3, <2>4, FirstIsBest
<1>3. QED
  BY <1>1, <1>2

\* The plan proposes a version that is good enough, older than the current one
\* where that is asked for and possible, and none that it could have proposed
\* has a better score (buildRollbackPlan, buildPlan).
THEOREM PlanAlwaysBest ==
  ASSUME VersionConstants
  PROVE  Spec => []PlanIsBest
<1>1. VersionInv => PlanIsBest
  <2> SUFFICES ASSUME VersionInv, world.store = "keyed", NEW p \in Prompt
               PROVE  LET current == CurrentVersion(files["all"], p) IN
                      \A scores \in [1 .. current -> 0 .. MaxScore],
                         min \in 0 .. MaxScore, prefer \in BOOLEAN :
                        LET v == Selected(current, scores, min, prefer)
                            good == {w \in 1 .. current : scores[w] >= min}
                            fair == IF prefer /\ good # {current}
                                    THEN good \ {current} ELSE good
                        IN IF current < 2 \/ good = {} THEN v = 0
                           ELSE v \in fair /\ \A w \in fair : scores[w] <= scores[v]
    BY DEF PlanIsBest
  <2>1. "all" \in File
    BY DEF File
  <2>2. files["all"] \in Seq(Version) /\ Counted(files["all"])
    BY <2>1 DEF VersionInv, VersionShape
  <2>3. CurrentVersion(files["all"], p) \in Nat
    BY <2>2, CurrentIsNumber
  <2>4. MaxScore \in Nat
    BY DEF VersionConstants
  <2>5. QED
    BY <2>3, <2>4, PlanProposes
<1>2. QED
  BY <1>1, VersionInvHolds, PTL
=============================================================================
