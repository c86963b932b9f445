--------------------------- MODULE HtmlPatcherProofs ---------------------------
(***************************************************************************)
(* Theorems about HtmlPatcher for pages with any tree of elements, at any  *)
(* places and with any number of clones.                                   *)
(***************************************************************************)
EXTENDS HtmlPatcher, SequenceTheorems, FiniteSetTheorems, WellFoundedInduction, TLAPS

-----------------------------------------------------------------------------
(* The invariants.                                                         *)

Injectable == {"script", "base tag"}
Texts == {"none", "base url", "title"} \cup Injectable
PatchType == [at : Int, size : Nat, text : Texts]
PieceType == Int \X (Texts \cup {"page"})

Ascending(list) == \A i, j \in DOMAIN list : i < j => list[i].at <= list[j].at

\* No text is injected twice.
Once(list) == \A i, j \in DOMAIN list :
                list[i].text \in Injectable /\ list[i].text = list[j].text => i = j

\* The types of what the steps compute with.
Typed ==
  /\ WellFormed(page)
  /\ base_url \in Seq(Nat)
  /\ patches \in Seq(PatchType)
  /\ data \in Seq(PieceType)
  /\ stack = {0} \/ stack \subseteq DOMAIN page
  /\ phase \in {"parsing", "patching", "done"}

\* A region that a patch replaces belongs to one element, and all of it is
\* unwanted.
Region(p) ==
  /\ p.at + p.size <= End + 1
  /\ \A x \in p.at..p.at + p.size - 1 : x \in Unwanted
  /\ \E n \in 0..Len(page) :
       \/ p.at = Tag(n) /\ p.size = 3 /\ n \in Places({"policy"})
       \/ p.at \in {Attribute(n), Rest(n)} /\ p.size = 1
       \/ p.at = Rest(n) + 1 /\ p.size = 0

\* The head begins behind a tag.
HeadPlace(at) == at <= End + 1 /\ \E n \in 0..Len(page) : at = Rest(n) + 1

\* What is known of an element that was visited.
Seen(i) ==
  /\ ToSet(PatchesOf(page[i])) \subseteq ToSet(patches)
  /\ page[i].tag = "head" /\ page[i].place > 0 => start_of_head # 0
  /\ page[i].tag = "base" => base_url # <<>>

\* An element is visited, on the stack, or below one that is not visited yet.
Pending(visited) ==
  /\ \A i \in visited : Seen(i)
  /\ \A i \in DOMAIN page \ visited :
       \/ stack = {0}
       \/ i \in stack
       \/ page[i].parent # 0 /\ page[i].parent \notin visited

Parsing ==
  phase = "parsing" =>
    /\ pos = 1 /\ data = <<>>
    /\ \A p \in ToSet(patches) : Region(p) /\ p.text \notin Injectable
    /\ start_of_head # 0 => HeadPlace(start_of_head)
    /\ base_url # <<>> => Places({"base"}) # {}
    /\ \E visited \in SUBSET DOMAIN page : Pending(visited)

\* The patched page has what is wanted of the page up to a position.
Kept(d, to) ==
  /\ \A i \in DOMAIN d : d[i][1] # 0 => d[i][1] \in (1..to - 1) \ Unwanted
  /\ \A x \in (1..to - 1) \ Unwanted : \E i \in DOMAIN d : d[i][1] = x
  /\ \A i, j \in DOMAIN d : i < j /\ d[i][1] # 0 /\ d[j][1] # 0 => d[i][1] < d[j][1]

\* The patches that are left cover what is unwanted from pos on, and those
\* that begin before pos end there.
Patching ==
  phase = "patching" =>
    /\ pos \in 1..End + 1
    /\ Ascending(patches)
    /\ \A p \in ToSet(patches) : Region(p) /\ (p.at < pos => p.at + p.size <= pos)
    /\ \A x \in Unwanted : x >= pos =>
         \E p \in ToSet(patches) : p.at <= x /\ x < p.at + p.size
    /\ Kept(data, pos)

Patched == phase = "done" => Kept(data, End + 1)

\* The page is one whose script can be found.
HeadFound ==
  /\ Places({"head"}) # {0} \/ Places({"stray"}) # {}
  /\ start_of_head \notin {Tag(p) : p \in Places({"policy"})}

\* What is to be inserted, what of it is still among the patches, and what is
\* already in the patched page.
WantedTexts == (options \cap {"script"}) \cup
               (IF "base" \in options /\ Places({"base"}) = {} THEN {"base tag"} ELSE {})
Left == {p \in ToSet(patches) : p.text \in Injectable}
InsertedIn(d) == {i \in DOMAIN d : d[i][2] \in Injectable}
InsertedTexts(d) == {d[i][2] : i \in InsertedIn(d)}

\* Each comes once, and parts the pieces before the head from those behind it.
Ordered(d, head) ==
  \A i \in InsertedIn(d) :
    /\ d[i][1] = 0
    /\ \A j \in InsertedIn(d) : d[i][2] = d[j][2] => i = j
    /\ \A j \in DOMAIN d : d[j][1] # 0 => (i < j <=> d[j][1] >= head)

\* The wanted texts are either inserted at the head or left, and are left as
\* long as pos has not passed the head.
Inserting ==
  phase \in {"patching", "done"} /\ HeadFound =>
    /\ HeadPlace(start_of_head)
    /\ phase = "done" => Left = {}
    /\ \A p \in Left : p.at = start_of_head /\ p.size = 0 /\ p.text \notin InsertedTexts(data)
    /\ Once(patches)
    /\ WantedTexts = InsertedTexts(data) \cup {p.text : p \in Left}
    /\ Ordered(data, start_of_head)
    /\ Left # {} => pos <= start_of_head
    /\ InsertedIn(data) # {} => pos >= start_of_head

\* What holds of the parsing and of the patching, whether a head is found or not.
Invariant == Typed /\ Parsing /\ Patching /\ Patched

-----------------------------------------------------------------------------
(* Facts about numbers and sequences.                                      *)

\* A set of numbers that is not empty has a least element, which Min finds.
LEMMA MinIsLeast ==
  ASSUME NEW S \in SUBSET Nat, S # {}
  PROVE  Min(S) \in S /\ \A n \in S : Min(S) <= n
<1> DEFINE Less == {p \in Nat \X Nat : p[1] < p[2]}
<1>1. IsWellFoundedOn(Less, Nat)
  BY NatLessThanWellFounded, Zenon DEF OpToRel
<1>2. \A m, n \in Nat : <<n, m>> \notin Less => m <= n
  OBVIOUS
<1> HIDE DEF Less
<1>3. PICK m \in S : \A n \in S : ~(<<n, m>> \in Less)
  BY <1>1, WFMin
<1>4. \A n \in S : m <= n
  BY <1>2, <1>3
<1> QED BY <1>4 DEF Min

\* What two sequences have together.
LEMMA ConcatSet ==
  ASSUME NEW S, NEW s \in Seq(S), NEW t \in Seq(S)
  PROVE  ToSet(s \o t) = ToSet(s) \cup ToSet(t)
<1>1. /\ s \o t \in Seq(S) /\ Len(s \o t) = Len(s) + Len(t)
      /\ \A i \in 1..Len(s) + Len(t) :
           (s \o t)[i] = IF i <= Len(s) THEN s[i] ELSE t[i - Len(s)]
  BY ConcatProperties
<1>2. /\ Len(s) \in Nat /\ Len(t) \in Nat
      /\ DOMAIN s = 1..Len(s) /\ DOMAIN t = 1..Len(t)
      /\ DOMAIN (s \o t) = 1..Len(s) + Len(t)
  BY <1>1, LenProperties
<1> DEFINE c == s \o t
<1> HIDE DEF c
<1>3. ASSUME NEW x \in ToSet(c) PROVE x \in ToSet(s) \cup ToSet(t)
  <2>1. PICK i \in 1..Len(s) + Len(t) : x = c[i]
    BY <1>2, <1>3 DEF ToSet, c
  <2>2. CASE i <= Len(s)
    BY <1>1, <1>2, <2>1, <2>2 DEF ToSet, c
  <2>3. CASE i > Len(s)
    <3>1. i - Len(s) \in 1..Len(t) /\ x = t[i - Len(s)]
      BY <1>1, <1>2, <2>1, <2>3 DEF c
    <3> QED BY <1>2, <3>1 DEF ToSet
  <2> QED BY <1>2, <2>1, <2>2, <2>3
<1>4. ASSUME NEW x \in ToSet(s) PROVE x \in ToSet(c)
  <2>1. PICK i \in 1..Len(s) : x = s[i]
    BY <1>2, <1>4 DEF ToSet
  <2>2. i \in 1..Len(s) + Len(t) /\ c[i] = x
    BY <1>1, <1>2, <2>1 DEF c
  <2> QED BY <1>2, <2>2 DEF ToSet, c
<1>5. ASSUME NEW x \in ToSet(t) PROVE x \in ToSet(c)
  <2>1. PICK i \in 1..Len(t) : x = t[i]
    BY <1>2, <1>5 DEF ToSet
  <2>2. Len(s) + i \in 1..Len(s) + Len(t) /\ c[Len(s) + i] = x
    BY <1>1, <1>2, <2>1 DEF c
  <2> QED BY <1>2, <2>2 DEF ToSet, c
<1> QED BY <1>3, <1>4, <1>5 DEF c

\* Two sequences of one element.
LEMMA PairOfTwo ==
  ASSUME NEW S, NEW a \in S, NEW b \in S
  PROVE  <<a>> \o <<b>> = <<a, b>>
<1> DEFINE c == <<a>> \o <<b>>
           d == <<a, b>>
<1>1. /\ <<a>> \in Seq(S) /\ <<b>> \in Seq(S) /\ Len(<<a>>) = 1 /\ Len(<<b>>) = 1
      /\ d \in Seq(S) /\ Len(d) = 2 /\ d[1] = a /\ d[2] = b
  OBVIOUS
<1>2. /\ c \in Seq(S) /\ Len(c) = 1 + 1
      /\ \A i \in 1..1 + 1 : c[i] = IF i <= 1 THEN <<a>>[i] ELSE <<b>>[i - 1]
  BY <1>1, ConcatProperties
<1>3. c[1] = <<a>>[1] /\ c[2] = <<b>>[1]
  BY <1>2
<1> HIDE DEF c, d
<1>4. Len(c) = Len(d) /\ \A i \in 1..Len(c) : c[i] = d[i]
  BY <1>1, <1>2, <1>3
<1>5. c = d
  BY <1>1, <1>2, <1>4, SeqEqual
<1> QED BY <1>5 DEF c, d

\* The first patch of a list that ascends begins before those that follow.
LEMMA Taken ==
  ASSUME NEW list \in Seq(PatchType), list # <<>>, Ascending(list)
  PROVE  /\ Head(list) \in PatchType /\ Tail(list) \in Seq(PatchType)
         /\ ToSet(list) = {Head(list)} \cup ToSet(Tail(list))
         /\ Ascending(Tail(list))
         /\ \A p \in ToSet(Tail(list)) : Head(list).at <= p.at
<1>1. Len(list) \in Nat \ {0} /\ DOMAIN list = 1..Len(list) /\ Head(list) = list[1]
  BY EmptySeq, LenProperties
<1> DEFINE n == Len(list)
           tail == Tail(list)
<1>2. /\ Head(list) \in PatchType /\ tail \in Seq(PatchType)
      /\ Len(tail) = n - 1
      /\ \A i \in 1..n - 1 : tail[i] = list[i + 1]
  BY HeadTailProperties
<1>3. DOMAIN tail = 1..n - 1
  BY <1>2, LenProperties
<1> HIDE DEF tail
<1>4. ToSet(list) = {list[1]} \cup ToSet(tail)
  <2>1. ASSUME NEW i \in 1..n PROVE list[i] \in {list[1]} \cup ToSet(tail)
    <3>1. CASE i = 1
      BY <3>1
    <3>2. CASE i # 1
      <4>1. i - 1 \in 1..n - 1 /\ (i - 1) + 1 = i
        BY <1>1, <3>2
      <4>2. tail[i - 1] = list[i]
        BY <1>2, <4>1
      <4> QED BY <1>3, <4>1, <4>2 DEF ToSet
    <3> QED BY <3>1, <3>2
  <2>2. ASSUME NEW i \in 1..n - 1 PROVE tail[i] \in ToSet(list)
    <3>1. i + 1 \in 1..n
      BY <1>1
    <3> QED BY <1>1, <1>2, <3>1 DEF ToSet
  <2> QED BY <1>1, <1>3, <2>1, <2>2 DEF ToSet
<1>5. Ascending(tail)
  <2> SUFFICES ASSUME NEW i \in 1..n - 1, NEW j \in 1..n - 1, i < j
               PROVE  tail[i].at <= tail[j].at
    BY <1>3 DEF Ascending
  <2>1. i + 1 \in 1..n /\ j + 1 \in 1..n /\ i + 1 < j + 1
    BY <1>1
  <2>2. list[i + 1].at <= list[j + 1].at
    BY <1>1, <2>1 DEF Ascending
  <2> QED BY <1>2, <2>2
<1>6. \A p \in ToSet(tail) : list[1].at <= p.at
  <2> SUFFICES ASSUME NEW i \in 1..n - 1 PROVE list[1].at <= tail[i].at
    BY <1>3 DEF ToSet
  <2>1. 1 \in 1..n /\ i + 1 \in 1..n /\ 1 < i + 1
    BY <1>1
  <2>2. list[1].at <= list[i + 1].at
    BY <1>1, <2>1 DEF Ascending
  <2> QED BY <1>2, <2>2
<1> QED BY <1>1, <1>2, <1>4, <1>5, <1>6 DEF tail

\* The first patch is the only one with its text if that is injected.
LEMMA TakenOnce ==
  ASSUME NEW list \in Seq(PatchType), list # <<>>, Once(list)
  PROVE  /\ Once(Tail(list))
         /\ Head(list).text \in Injectable =>
              \A p \in ToSet(Tail(list)) : p.text # Head(list).text
<1>1. Len(list) \in Nat \ {0} /\ DOMAIN list = 1..Len(list) /\ Head(list) = list[1]
  BY EmptySeq, LenProperties
<1> DEFINE n == Len(list)
           tail == Tail(list)
<1>2. tail \in Seq(PatchType) /\ Len(tail) = n - 1 /\ \A i \in 1..n - 1 : tail[i] = list[i + 1]
  BY HeadTailProperties
<1>3. DOMAIN tail = 1..n - 1
  BY <1>2, LenProperties
<1> HIDE DEF tail
<1>4. Once(tail)
  <2> SUFFICES ASSUME NEW i \in 1..n - 1, NEW j \in 1..n - 1,
                      tail[i].text \in Injectable, tail[i].text = tail[j].text
               PROVE  i = j
    BY <1>3 DEF Once
  <2>1. i + 1 \in 1..n /\ j + 1 \in 1..n
    BY <1>1
  <2>2. i + 1 = j + 1
    BY <1>1, <1>2, <2>1 DEF Once
  <2> QED BY <1>1, <2>2
<1>5. ASSUME list[1].text \in Injectable, NEW i \in 1..n - 1
      PROVE  tail[i].text # list[1].text
  <2>1. 1 \in 1..n /\ i + 1 \in 1..n /\ 1 # i + 1
    BY <1>1
  <2> QED BY <1>1, <1>2, <1>5, <2>1 DEF Once
<1> QED BY <1>1, <1>3, <1>4, <1>5 DEF tail, ToSet

\* Sorting keeps all patches and each once (std::sort).
LEMMA SortedProperties ==
  ASSUME NEW list \in Seq(PatchType), NEW result \in Sorted(list)
  PROVE  /\ result \in Seq(PatchType)
         /\ ToSet(result) = ToSet(list)
         /\ Ascending(result)
         /\ Once(list) => Once(result)
<1> DEFINE D == DOMAIN list
<1>1. D = 1..Len(list) /\ Len(list) \in Nat
  BY LenProperties
<1>2. IsFiniteSet(D) /\ Cardinality(D) = Len(list)
  BY <1>1, FS_Interval
<1>3. PICK o \in SetToSeqs(D) :
        /\ \A i, j \in D : i < j => list[o[i]].at <= list[o[j]].at
        /\ result = [i \in D |-> list[o[i]]]
  BY DEF Sorted
<1>4. o \in [D -> D] /\ \A i, j \in D : o[i] = o[j] => i = j
  BY <1>1, <1>2, <1>3 DEF SetToSeqs
<1>5. \A k \in D : \E i \in D : o[i] = k
  <2>1. o \in Injection(D, D)
    BY <1>4 DEF Injection, IsInjective
  <2>2. o \in Surjection(D, D)
    BY <1>2, <2>1, FS_Injection
  <2> QED BY <2>2 DEF Surjection
<1> HIDE DEF D
<1>6. \A i \in D : list[i] \in PatchType
  BY <1>1, ElementOfSeq
<1>7. DOMAIN result = D /\ \A i \in D : result[i] = list[o[i]] /\ o[i] \in D
  BY <1>3, <1>4
<1>8. result \in Seq(PatchType)
  <2>1. result \in [1..Len(list) -> PatchType]
    BY <1>1, <1>3, <1>6, <1>7
  <2> QED BY <1>1, <2>1, SeqDef
<1>9. ToSet(result) = ToSet(list)
  <2>1. DOMAIN list = D
    BY DEF D
  <2>2. ASSUME NEW i \in D PROVE result[i] \in ToSet(list)
    BY <1>7, <2>1 DEF ToSet
  <2>3. ASSUME NEW k \in D PROVE list[k] \in ToSet(result)
    <3>1. PICK i \in D : o[i] = k
      BY <1>5
    <3>2. result[i] = list[k]
      BY <1>7, <3>1
    <3> QED BY <1>7, <3>2 DEF ToSet
  <2> QED BY <1>7, <2>1, <2>2, <2>3 DEF ToSet
<1>10. Ascending(result)
  BY <1>3, <1>7 DEF Ascending
<1>11. Once(list) => Once(result)
  BY <1>4, <1>7 DEF Once, D
<1> QED BY <1>8, <1>9, <1>10, <1>11

-----------------------------------------------------------------------------
(* Facts about the page.                                                   *)

\* The elements of a page have places within it.
LEMMA ElementType ==
  ASSUME WellFormed(page), NEW i \in DOMAIN page
  PROVE  /\ i \in Nat \ {0} /\ DOMAIN page = 1..Len(page) /\ Len(page) \in Nat
         /\ page[i].tag \in Tags
         /\ page[i].parent \in 0..i - 1
         /\ page[i].place \in 0..Len(page)
<1>1. page \in Seq([tag : Tags, parent : Nat, place : Nat])
  BY DEF WellFormed
<1>2. Len(page) \in Nat /\ DOMAIN page = 1..Len(page)
  BY <1>1, LenProperties
<1>3. page[i] \in [tag : Tags, parent : Nat, place : Nat]
  BY <1>1, <1>2, ElementOfSeq
<1> QED BY <1>2, <1>3 DEF WellFormed

\* The page ends with the last piece of the last element.
LEMMA EndProperties ==
  ASSUME WellFormed(page)
  PROVE  \E m \in 0..Len(page) : End = 3 * m /\ \A i \in DOMAIN page : page[i].place <= m
<1>1. Len(page) \in Nat
  BY ElementType DEF WellFormed
<1> DEFINE S == {n \in 0..Len(page) : \A i \in DOMAIN page : page[i].place <= n}
           m == Min(S)
           IsLast(n) == /\ \A i \in DOMAIN page : page[i].place <= n
                        /\ n = 0 \/ \E i \in DOMAIN page : page[i].place = n
<1>2. Len(page) \in S
  BY <1>1, ElementType
<1>3. S \in SUBSET Nat /\ S # {}
  BY <1>1, <1>2
<1> HIDE DEF S
<1>4. m \in S /\ \A n \in S : m <= n
  BY <1>3, MinIsLeast
<1> HIDE DEF m
<1>5. m \in 0..Len(page) /\ \A i \in DOMAIN page : page[i].place <= m
  BY <1>4 DEF S
<1>6. ASSUME m # 0 PROVE \E i \in DOMAIN page : page[i].place = m
  <2> SUFFICES ASSUME \A i \in DOMAIN page : page[i].place # m PROVE FALSE
    OBVIOUS
  <2>1. \A i \in DOMAIN page : page[i].place <= m - 1
    BY <1>1, <1>5, ElementType
  <2>2. m - 1 \in S
    BY <1>1, <1>5, <1>6, <2>1 DEF S
  <2> QED BY <1>1, <1>4, <1>5, <2>2
<1>7. IsLast(m)
  BY <1>5, <1>6
<1> DEFINE e == CHOOSE n \in 0..Len(page) : IsLast(n)
<1>8. End = 3 * e
  BY DEF End
<1> HIDE DEF IsLast
<1>9. e \in 0..Len(page) /\ IsLast(e)
  BY <1>5, <1>7
<1> HIDE DEF e
<1>10. \A i \in DOMAIN page : page[i].place <= e
  BY <1>9 DEF IsLast
<1> QED BY <1>8, <1>9, <1>10

\* No step changes the page or what is wanted of it.
LEMMA FixedPage ==
  ASSUME UNCHANGED <<page, options>>
  PROVE  /\ End' = End /\ Unwanted' = Unwanted
         /\ WantedTexts' = WantedTexts
         /\ \A tags : Places(tags)' = Places(tags)
         /\ \A p : Region(p)' <=> Region(p)
         /\ \A at : HeadPlace(at)' <=> HeadPlace(at)
<1>1. End' = End
  BY DEF End
<1>2. \A tags : Places(tags)' = Places(tags)
  BY DEF Places
<1>3. Unwanted' = Unwanted
  BY <1>2 DEF Unwanted
<1>4. WantedTexts' = WantedTexts
  BY <1>2 DEF WantedTexts
<1>5. \A p : Region(p)' <=> Region(p)
  BY <1>1, <1>2, <1>3 DEF Region
<1>6. \A at : HeadPlace(at)' <=> HeadPlace(at)
  BY <1>1 DEF HeadPlace
<1> QED BY <1>1, <1>2, <1>3, <1>4, <1>5, <1>6

\* What is unwanted belongs to an element that says so.
LEMMA UnwantedPieces ==
  \A x : x \in Unwanted <=>
    \/ \E n \in Places({"policy"}) : x \in {Tag(n), Attribute(n), Rest(n)}
    \/ \E n \in Places({"script"}) : x = Attribute(n)
    \/ "base" \in options /\ \E n \in Places({"base"}) : x = Attribute(n)
    \/ "title" \in options /\ \E n \in Places({"title"}) : x = Rest(n)
<1> DEFINE policies == UNION {{Tag(p), Attribute(p), Rest(p)} : p \in Places({"policy"})}
           scripts == {Attribute(p) : p \in Places({"script"})}
           bases == IF "base" \in options THEN {Attribute(p) : p \in Places({"base"})} ELSE {}
           titles == IF "title" \in options THEN {Rest(p) : p \in Places({"title"})} ELSE {}
<1>1. \A x : x \in policies <=> \E n \in Places({"policy"}) : x \in {Tag(n), Attribute(n), Rest(n)}
  OBVIOUS
<1>2. \A x : x \in scripts <=> \E n \in Places({"script"}) : x = Attribute(n)
  OBVIOUS
<1>3. \A x : x \in bases <=> "base" \in options /\ \E n \in Places({"base"}) : x = Attribute(n)
  OBVIOUS
<1>4. \A x : x \in titles <=> "title" \in options /\ \E n \in Places({"title"}) : x = Rest(n)
  OBVIOUS
<1>5. Unwanted = policies \cup scripts \cup bases \cup titles
  BY DEF Unwanted
<1> HIDE DEF policies, scripts, bases, titles
<1> QED BY <1>1, <1>2, <1>3, <1>4, <1>5

\* The unwanted pieces are numbers.
LEMMA UnwantedType ==
  ASSUME WellFormed(page)
  PROVE  Unwanted \subseteq Int
<1>1. \A tags : Places(tags) \subseteq Nat
  BY ElementType DEF Places
<1>2. \A n \in Nat : {Tag(n), Attribute(n), Rest(n)} \subseteq Int
  BY DEF Tag, Attribute, Rest
<1> QED BY <1>1, <1>2, UnwantedPieces

\* What replaces a part of an element replaces what is unwanted of it.
LEMMA PatchesOfElement ==
  ASSUME WellFormed(page), NEW i \in DOMAIN page
  PROVE  /\ PatchesOf(page[i]) \in Seq(PatchType)
         /\ \A p \in ToSet(PatchesOf(page[i])) : Region(p) /\ p.text \notin Injectable
<1> DEFINE n == page[i].place
           Good(p) == p \in PatchType /\ Region(p) /\ p.text \notin Injectable
<1>1. PICK m \in 0..Len(page) : End = 3 * m /\ \A j \in DOMAIN page : page[j].place <= m
  BY EndProperties
<1>2. n \in 0..Len(page) /\ 3 * n <= End /\ End \in Nat /\ Len(page) \in Nat
  BY <1>1, ElementType
<1> HIDE DEF n
<1>3. \A tags : page[i].tag \in tags => n \in Places(tags)
  BY DEF Places, n
<1>4. /\ {Tag(n), Attribute(n), Rest(n)} \subseteq Int
      /\ Attribute(n) = Tag(n) + 1 /\ Rest(n) = Tag(n) + 2
      /\ Rest(n) <= End
  BY <1>2 DEF Tag, Attribute, Rest
<1>5. ASSUME NEW at \in {Attribute(n), Rest(n)}, at \in Unwanted, NEW text \in Texts \ Injectable
      PROVE  Good(Patch(at, 1, text))
  BY <1>2, <1>4, <1>5 DEF Patch, PatchType, Region
<1>6. ASSUME NEW q, Good(q), PatchesOf(page[i]) = <<q>>
      PROVE  /\ PatchesOf(page[i]) \in Seq(PatchType)
             /\ \A p \in ToSet(PatchesOf(page[i])) : Region(p) /\ p.text \notin Injectable
  <2>1. ToSet(<<q>>) = {q} /\ (q \in PatchType => <<q>> \in Seq(PatchType))
    BY DEF ToSet
  <2> QED BY <1>6, <2>1
<1>7. CASE page[i].tag = "base" /\ "base" \in options
  <2>1. n \in Places({"base"})
    BY <1>3, <1>7
  <2>2. Attribute(n) \in Unwanted
    BY <1>7, <2>1, UnwantedPieces
  <2>3. Good(Patch(Attribute(n), 1, "base url"))
    BY <1>5, <2>2 DEF Texts, Injectable
  <2>4. PatchesOf(page[i]) = <<Patch(Attribute(n), 1, "base url")>>
    BY <1>7 DEF PatchesOf, n
  <2> HIDE DEF Good
  <2> QED BY <1>6, <2>3, <2>4
<1>8. CASE page[i].tag = "title" /\ "title" \in options
  <2>1. n \in Places({"title"})
    BY <1>3, <1>8
  <2>2. Rest(n) \in Unwanted
    BY <1>8, <2>1, UnwantedPieces
  <2>3. Good(Patch(Rest(n), 1, "title"))
    BY <1>5, <2>2 DEF Texts, Injectable
  <2>4. PatchesOf(page[i]) = <<Patch(Rest(n), 1, "title")>>
    BY <1>8 DEF PatchesOf, n
  <2> HIDE DEF Good
  <2> QED BY <1>6, <2>3, <2>4
<1>9. CASE page[i].tag = "policy"
  <2>1. n \in Places({"policy"})
    BY <1>3, <1>9
  <2>2. {Tag(n), Attribute(n), Rest(n)} \subseteq Unwanted
    BY <2>1, UnwantedPieces
  <2>3. \A x \in Tag(n)..Tag(n) + 2 : x \in Unwanted
    BY <1>4, <2>2
  <2>4. Region(Patch(Tag(n), 3, "none"))
    BY <1>2, <1>4, <2>1, <2>3 DEF Patch, Region
  <2>5. Good(Patch(Tag(n), 3, "none"))
    BY <1>4, <2>4 DEF Patch, PatchType, Texts, Injectable
  <2>6. PatchesOf(page[i]) = <<Patch(Tag(n), 3, "none")>>
    BY <1>9 DEF PatchesOf, n
  <2> HIDE DEF Good
  <2> QED BY <1>6, <2>5, <2>6
<1>10. CASE page[i].tag = "script"
  <2>1. n \in Places({"script"})
    BY <1>3, <1>10
  <2>2. Attribute(n) \in Unwanted
    BY <1>10, <2>1, UnwantedPieces
  <2>3. Good(Patch(Attribute(n), 1, "none"))
    BY <1>5, <2>2 DEF Texts, Injectable
  <2>4. PatchesOf(page[i]) = <<Patch(Attribute(n), 1, "none")>>
    BY <1>10 DEF PatchesOf, n
  <2> HIDE DEF Good
  <2> QED BY <1>6, <2>3, <2>4
<1>11. CASE /\ page[i].tag \notin {"policy", "script"}
            /\ ~(page[i].tag = "base" /\ "base" \in options)
            /\ ~(page[i].tag = "title" /\ "title" \in options)
  <2>1. PatchesOf(page[i]) = <<>>
    BY <1>11 DEF PatchesOf
  <2> QED BY <2>1 DEF ToSet
<1> QED BY <1>7, <1>8, <1>9, <1>10, <1>11

-----------------------------------------------------------------------------
(* parse_html                                                              *)

\* When the stack is empty all elements were visited.
LEMMA AllSeen ==
  ASSUME Typed, NEW visited \in SUBSET DOMAIN page, Pending(visited), stack = {}
  PROVE  \A i \in DOMAIN page : Seen(i)
<1> DEFINE U == DOMAIN page \ visited
<1>1. U = {}
  <2> SUFFICES ASSUME U # {} PROVE FALSE
    OBVIOUS
  <2>1. U \in SUBSET Nat
    BY ElementType DEF Typed
  <2>2. PICK i \in U : \A j \in U : i <= j
    BY <2>1, MinIsLeast
  <2>3. page[i].parent # 0 /\ page[i].parent \notin visited
    BY <2>2 DEF Pending
  <2>4. page[i].parent \in 1..i - 1 /\ DOMAIN page = 1..Len(page)
        /\ i \in 1..Len(page) /\ Len(page) \in Nat
    BY <2>2, <2>3, ElementType DEF Typed
  <2>5. page[i].parent \in U /\ ~(i <= page[i].parent)
    BY <2>3, <2>4
  <2> QED BY <2>2, <2>5
<1> QED BY <1>1 DEF Pending

\* An element that is visited adds its patches; its children come after it.
LEMMA VisitStep ==
  ASSUME Typed, Parsing, VisitRoot \/ Visit
  PROVE  Invariant'
<1>1. /\ UNCHANGED <<page, options, phase, pos, data>> /\ phase = "parsing"
  BY DEF VisitRoot, Visit
<1>2. \A p : Region(p)' <=> Region(p)
  BY <1>1, FixedPage
<1>3. End' = End
  BY <1>1, FixedPage
<1>4. Places({"base"})' = Places({"base"}) /\ (\A i : PatchesOf(page[i])' = PatchesOf(page[i]))
  BY <1>1 DEF Places, PatchesOf
<1>5. CASE VisitRoot
  <2>1. UNCHANGED <<start_of_head, base_url, patches>> /\ stack' = Children(0) /\ stack = {0}
    BY <1>5 DEF VisitRoot
  <2>2. Typed'
    BY <1>1, <2>1 DEF Typed, Children
  <2>3. Pending({})'
    <3> SUFFICES ASSUME NEW i \in DOMAIN page, i \notin stack'
                 PROVE  page[i].parent # 0
      BY <1>1 DEF Pending
    <3> QED BY <2>1 DEF Children
  <2>4. Parsing'
    BY <1>1, <1>2, <1>3, <1>4, <2>1, <2>3 DEF Parsing, HeadPlace
  <2> QED BY <1>1, <2>2, <2>4 DEF Invariant, Patching, Patched
<1>6. CASE Visit
  <2>1. PICK node \in stack :
          LET element == page[node]
          IN /\ start_of_head' = IF element.tag = "head" /\ element.place > 0
                                 THEN Rest(element.place) + 1 ELSE start_of_head
             /\ base_url' = IF element.tag = "base" THEN Append(base_url, element.place)
                            ELSE base_url
             /\ patches' = patches \o PatchesOf(element)
             /\ stack' = (stack \ {node}) \cup
                         (IF element.tag = "policy" THEN {} ELSE Children(node))
    BY <1>6 DEF Visit
  <2>2. stack # {0} /\ stack \subseteq DOMAIN page /\ node \in DOMAIN page
    BY <1>6, <2>1 DEF Visit, Typed
  <2> DEFINE element == page[node]
  <2>3. element.place \in Nat /\ element.place <= Len(page) /\ Len(page) \in Nat
    BY <2>2, ElementType DEF Typed
  <2>4. /\ PatchesOf(element) \in Seq(PatchType)
        /\ \A p \in ToSet(PatchesOf(element)) : Region(p) /\ p.text \notin Injectable
    BY <2>2, PatchesOfElement DEF Typed
  <2>5. /\ patches' \in Seq(PatchType)
        /\ ToSet(patches') = ToSet(patches) \cup ToSet(PatchesOf(element))
    BY <2>1, <2>4, ConcatSet, ConcatProperties DEF Typed
  <2>6. stack' \subseteq DOMAIN page
    BY <2>1, <2>2 DEF Children
  <2>7. base_url' \in Seq(Nat)
    BY <2>1, <2>3 DEF Typed
  <2>8. Typed'
    BY <1>1, <2>5, <2>6, <2>7 DEF Typed
  <2>9. \A p \in ToSet(patches') : Region(p)' /\ p.text \notin Injectable
    BY <1>1, <1>2, <2>4, <2>5 DEF Parsing
  <2>10. (start_of_head # 0 => HeadPlace(start_of_head))'
    <3>1. CASE start_of_head' = start_of_head
      BY <1>1, <1>3, <3>1 DEF Parsing, HeadPlace
    <3>2. CASE start_of_head' # start_of_head
      <4>1. start_of_head' = Rest(element.place) + 1
        BY <2>1, <3>2
      <4>2. Rest(element.place) <= End /\ End \in Nat /\ element.place \in 0..Len(page)
        <5>1. PICK m \in 0..Len(page) : End = 3 * m /\ \A j \in DOMAIN page : page[j].place <= m
          BY EndProperties DEF Typed
        <5>2. element.place <= m
          BY <2>2, <5>1
        <5> QED BY <2>3, <5>1, <5>2 DEF Rest
      <4>3. HeadPlace(Rest(element.place) + 1)
        BY <2>3, <4>2 DEF HeadPlace, Rest
      <4> QED BY <1>1, <1>3, <4>1, <4>3 DEF HeadPlace
    <3> QED BY <3>1, <3>2
  <2>11. base_url' # <<>> => Places({"base"})' # {}
    <3>1. CASE element.tag = "base"
      BY <1>4, <2>2, <3>1 DEF Places
    <3>2. CASE element.tag # "base"
      BY <1>1, <1>4, <2>1, <3>2 DEF Parsing
    <3> QED BY <3>1, <3>2
  <2>12. \E visited \in SUBSET DOMAIN page' : Pending(visited)'
    <3>1. PICK visited \in SUBSET DOMAIN page : Pending(visited)
      BY <1>1 DEF Parsing
    <3>2. ASSUME NEW i \in visited \cup {node} PROVE Seen(i)'
      <4>1. ToSet(PatchesOf(page[i])) \subseteq ToSet(patches')
        BY <2>5, <3>1, <3>2 DEF Pending, Seen
      <4>2. page[i].tag = "head" /\ page[i].place > 0 => start_of_head' # 0
        <5>1. Rest(element.place) + 1 # 0
          BY <2>3 DEF Rest
        <5> QED BY <2>1, <3>1, <3>2, <5>1 DEF Pending, Seen
      <4>3. page[i].tag = "base" => base_url' # <<>>
        <5>1. Append(base_url, element.place) # <<>>
          BY <2>3, AppendProperties DEF Typed
        <5> QED BY <2>1, <3>1, <3>2, <5>1 DEF Pending, Seen
      <4> QED BY <1>1, <1>4, <4>1, <4>2, <4>3 DEF Seen
    <3>3. ASSUME NEW i \in DOMAIN page \ (visited \cup {node})
          PROVE  \/ i \in stack'
                 \/ page[i].parent # 0 /\ page[i].parent \notin visited \cup {node}
      <4>1. CASE i \in stack
        BY <2>1, <3>3, <4>1
      <4>2. CASE page[i].parent # 0 /\ page[i].parent \notin visited
        <5>1. CASE page[i].parent = node
          <6>1. element.tag # "policy"
            BY <4>2, <5>1 DEF Typed, WellFormed
          <6> QED BY <2>1, <5>1, <6>1 DEF Children
        <5> QED BY <4>2, <5>1
      <4> QED BY <2>2, <3>1, <3>3, <4>1, <4>2 DEF Pending
    <3>4. Pending(visited \cup {node})'
      BY <1>1, <3>2, <3>3 DEF Pending
    <3>5. visited \cup {node} \in SUBSET DOMAIN page'
      BY <1>1, <2>2
    <3> QED BY <3>4, <3>5
  <2>13. Parsing'
    BY <1>1, <2>9, <2>10, <2>11, <2>12 DEF Parsing
  <2> QED BY <1>1, <2>8, <2>13 DEF Invariant, Patching, Patched
<1> QED BY <1>5, <1>6

\* The head begins behind a tag if it is found at all; when the page has a
\* head or a text that looks like one, it is.
LEMMA HeadIsFound ==
  ASSUME Typed, Parsing, phase = "parsing", stack = {}
  PROVE  /\ FindHead # 0 => HeadPlace(FindHead)
         /\ Places({"head"}) # {0} \/ Places({"stray"}) # {} => FindHead # 0
<1> DEFINE stray == {Rest(page[i].place) + 1 : i \in {j \in DOMAIN page : page[j].tag = "stray"}}
<1>1. PICK m \in 0..Len(page) : End = 3 * m /\ \A j \in DOMAIN page : page[j].place <= m
  BY EndProperties DEF Typed
<1>2. \A at \in stray : at \in Nat \ {0} /\ HeadPlace(at)
  <2> SUFFICES ASSUME NEW i \in DOMAIN page
               PROVE  /\ Rest(page[i].place) + 1 \in Nat \ {0}
                      /\ HeadPlace(Rest(page[i].place) + 1)
    OBVIOUS
  <2>1. page[i].place \in 0..Len(page) /\ page[i].place <= m /\ Len(page) \in Nat
    BY <1>1, ElementType DEF Typed
  <2>2. Rest(page[i].place) + 1 \in Nat \ {0} /\ Rest(page[i].place) + 1 <= End + 1
    BY <1>1, <2>1 DEF Rest
  <2> QED BY <2>1, <2>2 DEF HeadPlace
<1>3. stray # {} => Min(stray) \in stray
  BY <1>2, MinIsLeast
<1>4. FindHead = IF start_of_head # 0 \/ stray = {} THEN start_of_head ELSE Min(stray)
  BY DEF FindHead
<1> HIDE DEF stray
<1>5. FindHead # 0 => HeadPlace(FindHead)
  BY <1>2, <1>3, <1>4 DEF Parsing
<1>6. ASSUME Places({"stray"}) # {} PROVE FindHead # 0
  <2>1. stray # {}
    BY <1>6 DEF Places, stray
  <2> QED BY <1>2, <1>3, <1>4, <2>1
<1>7. ASSUME Places({"head"}) # {0} PROVE FindHead # 0
  <2>1. PICK i \in DOMAIN page : page[i].tag = "head"
    BY DEF Typed, WellFormed
  <2>2. page[i].place \in Places({"head"})
    BY <2>1 DEF Places
  <2>3. PICK j \in DOMAIN page : page[j].tag = "head" /\ page[j].place # 0
    BY <1>7, <2>2 DEF Places
  <2>4. page[j].place > 0
    BY <2>3, ElementType DEF Typed
  <2>5. PICK visited \in SUBSET DOMAIN page : Pending(visited)
    BY DEF Parsing
  <2>6. start_of_head # 0
    BY <2>3, <2>4, <2>5, AllSeen DEF Seen
  <2> QED BY <1>4, <2>6
<1> QED BY <1>5, <1>6, <1>7

\* What is injected are different texts that replace nothing.
LEMMA InjectedProperties ==
  ASSUME Typed, NEW at, at # 0 => HeadPlace(at)
  PROVE  /\ Injected(at) \in Seq(PatchType)
         /\ Once(Injected(at))
         /\ \A p \in ToSet(Injected(at)) :
              p.at = at /\ p.size = 0 /\ p.text \in Injectable /\ Region(p)
         /\ at # 0 => {p.text : p \in ToSet(Injected(at))} =
                        (options \cap {"script"}) \cup
                        (IF "base" \in options /\ base_url = <<>> THEN {"base tag"} ELSE {})
<1> DEFINE script == Patch(at, 0, "script")
           tag == Patch(at, 0, "base tag")
           Good(p) == /\ p.at = at /\ p.size = 0 /\ p.text \in Injectable /\ Region(p)
                      /\ p \in PatchType
<1>1. CASE at = 0
  <2>1. Injected(at) = <<>>
    BY <1>1 DEF Injected
  <2>2. <<>> \in Seq(PatchType) /\ DOMAIN <<>> = {} /\ ToSet(<<>>) = {}
    BY DEF ToSet
  <2> QED BY <1>1, <2>1, <2>2 DEF Once
<1>2. CASE at # 0
  <2>1. at \in Nat /\ End \in Nat /\ Len(page) \in Nat
    BY <1>2, EndProperties, ElementType DEF HeadPlace, Typed, Rest, WellFormed
  <2>2. ASSUME NEW text \in Injectable PROVE Good(Patch(at, 0, text))
    <3> DEFINE q == Patch(at, 0, text)
    <3>1. q.at = at /\ q.size = 0 /\ q.text = text
      BY DEF Patch
    <3>2. q \in PatchType
      <4>1. at \in Int /\ 0 \in Nat
        BY <2>1
      <4>2. text \in Texts
        BY Zenon DEF Texts
      <4> QED BY <4>1, <4>2 DEF Patch, PatchType
    <3>3. PICK n \in 0..Len(page) : at = Rest(n) + 1
      BY <1>2 DEF HeadPlace
    <3> HIDE DEF q
    <3>4. q.at + q.size <= End + 1 /\ q.at = Rest(n) + 1
      BY <1>2, <2>1, <3>1, <3>3 DEF HeadPlace
    <3>5. \A x \in q.at..q.at + q.size - 1 : x \in Unwanted
      BY <2>1, <3>1
    <3>6. Region(q)
      BY <3>1, <3>4, <3>5 DEF Region
    <3> QED BY <3>1, <3>2, <3>6 DEF q
  <2>3. Good(script) /\ Good(tag) /\ script.text = "script" /\ tag.text = "base tag"
    BY <2>2 DEF Injectable, Patch
  <2> HIDE DEF script, tag, Good
  <2>4. /\ <<script>> \in Seq(PatchType) /\ <<tag>> \in Seq(PatchType)
        /\ <<script>> \o <<tag>> = <<script, tag>>
        /\ <<script>> \o <<>> = <<script>> /\ <<>> \o <<tag>> = <<tag>>
        /\ <<>> \o <<>> = <<>>
    <3> SUFFICES ASSUME script \in PatchType, tag \in PatchType
                 PROVE  /\ <<script>> \in Seq(PatchType) /\ <<tag>> \in Seq(PatchType)
                        /\ <<script>> \o <<tag>> = <<script, tag>>
                        /\ <<script>> \o <<>> = <<script>> /\ <<>> \o <<tag>> = <<tag>>
                        /\ <<>> \o <<>> = <<>>
      BY <2>3 DEF Good
    <3>1. <<script>> \in Seq(PatchType) /\ <<tag>> \in Seq(PatchType)
      OBVIOUS
    <3>2. <<script>> \o <<tag>> = <<script, tag>>
      BY PairOfTwo
    <3>4. /\ <<script>> \o <<>> = <<script>> /\ <<>> \o <<tag>> = <<tag>>
          /\ <<>> \o <<>> = <<>>
      BY <3>1, ConcatEmptySeq
    <3> QED BY <3>1, <3>2, <3>4
  <2> DEFINE s == "script" \in options
             b == "base" \in options /\ base_url = <<>>
  <2>5. Injected(at) = (IF s THEN <<script>> ELSE <<>>) \o (IF b THEN <<tag>> ELSE <<>>)
    BY <1>2 DEF Injected, script, tag
  <2>6. Injected(at) = IF s THEN IF b THEN <<script, tag>> ELSE <<script>>
                       ELSE IF b THEN <<tag>> ELSE <<>>
    BY <2>4, <2>5
  <2> HIDE DEF s, b
  <2>7. Injected(at) \in Seq(PatchType)
    <3>1. script \in PatchType /\ tag \in PatchType
      BY <2>3 DEF Good
    <3>2. <<script, tag>> \in Seq(PatchType) /\ <<>> \in Seq(PatchType)
      BY <3>1
    <3> QED BY <2>4, <2>6, <3>2
  <2>8. Once(Injected(at))
    <3>1. /\ DOMAIN <<script, tag>> = {1, 2} /\ DOMAIN <<script>> = {1} /\ DOMAIN <<tag>> = {1}
          /\ <<script, tag>>[1] = script /\ <<script, tag>>[2] = tag
      OBVIOUS
    <3>2. Once(<<script, tag>>)
      BY <2>3, <3>1 DEF Once
    <3>3. Once(<<script>>) /\ Once(<<tag>>) /\ Once(<<>>)
      BY <3>1 DEF Once
    <3> QED BY <2>6, <3>2, <3>3
  <2>9. ToSet(Injected(at)) = (IF s THEN {script} ELSE {}) \cup (IF b THEN {tag} ELSE {})
    <3>1. /\ ToSet(<<script, tag>>) = {script, tag} /\ ToSet(<<script>>) = {script}
          /\ ToSet(<<tag>>) = {tag} /\ ToSet(<<>>) = {}
      <4>1. ToSet(<<script, tag>>) = {script, tag}
        BY SMT DEF ToSet
      <4>2. ToSet(<<script>>) = {script}
        BY SMT DEF ToSet
      <4>4. ToSet(<<tag>>) = {tag}
        BY SMT DEF ToSet
      <4>3. ToSet(<<>>) = {}
        BY DEF ToSet
      <4> QED BY <4>1, <4>2, <4>3, <4>4
    <3> QED BY <2>6, <3>1
  <2>10. {p.text : p \in ToSet(Injected(at))} =
           (IF s THEN {"script"} ELSE {}) \cup (IF b THEN {"base tag"} ELSE {})
    <3> DEFINE P == ToSet(Injected(at))
    <3>1. \A p \in P : (p = script /\ s) \/ (p = tag /\ b)
      BY <2>9
    <3>2. (s => script \in P) /\ (b => tag \in P)
      BY <2>9
    <3> HIDE DEF P
    <3> DEFINE T == {p.text : p \in P}
               W == (IF s THEN {"script"} ELSE {}) \cup (IF b THEN {"base tag"} ELSE {})
    <3>3. \A t \in T : t \in W
      BY <2>3, <3>1
    <3>4. \A t \in W : t \in T
      BY <2>3, <3>2
    <3> QED BY <3>3, <3>4 DEF P
  <2>11. options \cap {"script"} = IF s THEN {"script"} ELSE {}
    BY DEF s
  <2>12. \A p \in ToSet(Injected(at)) :
           p.at = at /\ p.size = 0 /\ p.text \in Injectable /\ Region(p)
    BY <2>3, <2>9 DEF Good
  <2> QED BY <2>7, <2>8, <2>10, <2>11, <2>12 DEF s, b
<1> QED BY <1>1, <1>2

-----------------------------------------------------------------------------
(* get_patched                                                             *)

\* Regions that overlap are nested, since they belong to one element.
LEMMA Nested ==
  ASSUME NEW p \in PatchType, NEW q \in PatchType, Region(p), Region(q),
         p.at <= q.at, q.at < p.at + p.size
  PROVE  q.at + q.size <= p.at + p.size
<1>1. p.at \in Int /\ q.at \in Int /\ p.size \in Nat /\ q.size \in Nat
  BY DEF PatchType
<1> DEFINE Form(r, n) == \/ r.at = 3 * n - 2 /\ r.size = 3
                         \/ r.at \in {3 * n - 1, 3 * n} /\ r.size = 1
                         \/ r.at = 3 * n + 1 /\ r.size = 0
<1>2. PICK n \in Int : Form(p, n)
  BY DEF Region, Tag, Attribute, Rest
<1>3. PICK m \in Int : Form(q, m)
  BY DEF Region, Tag, Attribute, Rest
<1> QED BY <1>1, <1>2, <1>3

\* A region begins behind 0 or ends before 1.
LEMMA Outside ==
  ASSUME NEW p \in PatchType, Region(p), p.at < 1
  PROVE  p.at + p.size <= 1
<1>1. p.at \in Int /\ p.size \in Nat
  BY DEF PatchType
<1>2. PICK n \in Nat : \/ p.at = 3 * n - 2 /\ p.size = 3
                       \/ p.at \in {3 * n - 1, 3 * n} /\ p.size = 1
                       \/ p.at = 3 * n + 1 /\ p.size = 0
  BY DEF Region, Tag, Attribute, Rest
<1> QED BY <1>1, <1>2

\* What copying appends.
LEMMA CopiedPieces ==
  ASSUME NEW d \in Seq(PieceType), NEW from \in Nat \ {0}, NEW to \in Nat, from <= to
  PROVE  LET n == Len(d)
             k == to - from
             e == d \o Pieces(from, to)
         IN /\ n \in Nat /\ DOMAIN d = 1..n /\ k \in Nat
            /\ e \in Seq(PieceType)
            /\ DOMAIN e = 1..n + k
            /\ \A i \in 1..n : e[i] = d[i]
            /\ \A i \in 1..k : e[n + i] = <<from + i - 1, "page">>
            /\ \A i \in 1..n + k :
                 \/ i \in 1..n /\ e[i] = d[i]
                 \/ i - n \in 1..k /\ e[i][1] = from + (i - n) - 1 /\ e[i][2] = "page"
<1> DEFINE n == Len(d)
           e == d \o Pieces(from, to)
           k == to - from
<1>1. n \in Nat /\ DOMAIN d = 1..n /\ k \in Nat
  BY LenProperties
<1>2. /\ Pieces(from, to) \in Seq(PieceType)
      /\ Len(Pieces(from, to)) = k
      /\ \A i \in 1..k : Pieces(from, to)[i] = <<from + i - 1, "page">>
  <2>1. \A i \in 1..k : <<from + i - 1, "page">> \in PieceType
    BY DEF PieceType
  <2>2. Pieces(from, to) = [i \in 1..k |-> <<from + i - 1, "page">>]
    BY DEF Pieces
  <2> HIDE DEF k
  <2>3. Pieces(from, to) \in [1..k -> PieceType]
    BY <2>1, <2>2
  <2>4. Pieces(from, to) \in Seq(PieceType)
    BY <1>1, <2>3, SeqDef
  <2>5. Len(Pieces(from, to)) = k
    BY <1>1, <2>2, <2>4, LenProperties
  <2> QED BY <2>2, <2>4, <2>5
<1>3. /\ e \in Seq(PieceType)
      /\ DOMAIN e = 1..n + k
      /\ \A i \in 1..n : e[i] = d[i]
      /\ \A i \in 1..k : e[n + i] = <<from + i - 1, "page">>
  <2>1. /\ e \in Seq(PieceType) /\ Len(e) = n + Len(Pieces(from, to))
        /\ \A i \in 1..n + Len(Pieces(from, to)) :
             e[i] = IF i <= n THEN d[i] ELSE Pieces(from, to)[i - n]
    BY <1>2, ConcatProperties
  <2>2. DOMAIN e = 1..n + k
    BY <1>2, <2>1, LenProperties
  <2> HIDE DEF e, n, k
  <2>3. ASSUME NEW i \in 1..k PROVE e[n + i] = <<from + i - 1, "page">>
    <3>1. n + i \in 1..n + k /\ ~(n + i <= n) /\ (n + i) - n = i
      BY <1>1
    <3> QED BY <1>2, <2>1, <3>1
  <2>4. ASSUME NEW i \in 1..n PROVE e[i] = d[i]
    BY <1>1, <1>2, <2>1
  <2> QED BY <2>1, <2>2, <2>3, <2>4
<1> HIDE DEF e, n
<1>4. ASSUME NEW i \in 1..n + k
      PROVE  \/ i \in 1..n /\ e[i] = d[i]
             \/ i - n \in 1..k /\ e[i][1] = from + (i - n) - 1 /\ e[i][2] = "page"
  <2>1. CASE i <= n
    BY <1>1, <1>3, <2>1
  <2>2. CASE i > n
    <3>1. i - n \in 1..k /\ n + (i - n) = i
      BY <1>1, <2>2
    <3>2. e[i] = <<from + (i - n) - 1, "page">>
      BY <1>3, <3>1
    <3> QED BY <3>1, <3>2
  <2> QED BY <1>1, <2>1, <2>2
<1> QED BY <1>1, <1>3, <1>4 DEF e, n

\* Copying what is wanted keeps it, in order.
LEMMA KeepPieces ==
  ASSUME NEW d \in Seq(PieceType), NEW from \in Nat \ {0}, NEW to \in Nat, from <= to,
         Kept(d, from), \A x \in from..to - 1 : x \notin Unwanted
  PROVE  /\ d \o Pieces(from, to) \in Seq(PieceType)
         /\ Kept(d \o Pieces(from, to), to)
<1> DEFINE n == Len(d)
           e == d \o Pieces(from, to)
           k == to - from
<1>1. n \in Nat /\ DOMAIN d = 1..n /\ k \in Nat
  BY CopiedPieces
<1>3. /\ e \in Seq(PieceType)
      /\ DOMAIN e = 1..n + k
      /\ \A i \in 1..n : e[i] = d[i]
      /\ \A i \in 1..k : e[n + i] = <<from + i - 1, "page">>
  BY CopiedPieces
<1>4. \A i \in 1..n + k :
        \/ i \in 1..n /\ e[i] = d[i]
        \/ i - n \in 1..k /\ e[i][1] = from + (i - n) - 1
  <2>1. \A i \in 1..n + k :
          \/ i \in 1..n /\ e[i] = d[i]
          \/ i - n \in 1..k /\ e[i][1] = from + (i - n) - 1 /\ e[i][2] = "page"
    BY CopiedPieces
  <2> HIDE DEF e, n, k
  <2> QED BY <2>1
<1> HIDE DEF e, n
<1>5. \A i \in 1..n : d[i][1] # 0 => d[i][1] \in (1..from - 1) \ Unwanted
  BY <1>1 DEF Kept
<1>6. ASSUME NEW i \in 1..n + k, e[i][1] # 0 PROVE e[i][1] \in (1..to - 1) \ Unwanted
  <2>1. CASE i \in 1..n /\ e[i] = d[i]
    BY <1>5, <1>6, <2>1
  <2>2. CASE i - n \in 1..k /\ e[i][1] = from + (i - n) - 1
    <3>1. from + (i - n) - 1 \in from..to - 1
      BY <1>1, <2>2
    <3> QED BY <2>2, <3>1
  <2> QED BY <1>4, <2>1, <2>2
<1>7. ASSUME NEW x \in (1..to - 1) \ Unwanted PROVE \E i \in 1..n + k : e[i][1] = x
  <2>1. CASE x < from
    <3>1. PICK i \in 1..n : d[i][1] = x
      BY <1>1, <2>1 DEF Kept
    <3>2. i \in 1..n + k
      BY <1>1, <3>1
    <3> QED BY <1>3, <3>1, <3>2
  <2>2. CASE x >= from
    <3>1. x - from + 1 \in 1..k /\ from + (x - from + 1) - 1 = x
          /\ n + (x - from + 1) \in 1..n + k
      BY <1>1, <2>2
    <3>2. e[n + (x - from + 1)] = <<from + (x - from + 1) - 1, "page">>
      BY <1>3, <3>1
    <3> QED BY <3>1, <3>2
  <2> QED BY <2>1, <2>2
<1>8. ASSUME NEW i \in 1..n + k, NEW j \in 1..n + k, i < j, e[i][1] # 0, e[j][1] # 0
      PROVE  e[i][1] < e[j][1]
  <2>1. CASE i \in 1..n /\ j \in 1..n
    BY <1>1, <1>3, <1>8, <2>1 DEF Kept
  <2>2. CASE i \in 1..n /\ j \notin 1..n
    <3>1. e[i][1] \in 1..from - 1
      BY <1>3, <1>5, <1>8, <2>2
    <3>2. j - n \in 1..k /\ e[j][1] = from + (j - n) - 1
      BY <1>4, <2>2
    <3> QED BY <1>1, <3>1, <3>2
  <2>3. CASE i \notin 1..n
    <3>1. i - n \in 1..k /\ e[i][1] = from + (i - n) - 1
      BY <1>4, <2>3
    <3>2. j \notin 1..n
      BY <1>1, <1>8, <2>3
    <3>3. j - n \in 1..k /\ e[j][1] = from + (j - n) - 1
      BY <1>4, <3>2
    <3> QED BY <1>1, <1>8, <3>1, <3>3
  <2> QED BY <2>1, <2>2, <2>3
<1>9. Kept(e, to)
  BY <1>3, <1>6, <1>7, <1>8 DEF Kept
<1> QED BY <1>3, <1>9 DEF e

\* What inserting a text appends.
LEMMA AddedText ==
  ASSUME NEW d \in Seq(PieceType), NEW p \in PatchType, p.text # "none"
  PROVE  LET n == Len(d)
             e == d \o Text(p)
         IN /\ n \in Nat /\ DOMAIN d = 1..n
            /\ e \in Seq(PieceType)
            /\ DOMAIN e = 1..n + 1
            /\ \A i \in 1..n : e[i] = d[i]
            /\ e[n + 1] = <<0, p.text>>
<1>1. Len(d) \in Nat /\ DOMAIN d = 1..Len(d)
  BY LenProperties
<1>2. Text(p) = <<<<0, p.text>>>> /\ <<0, p.text>> \in PieceType
  BY DEF Text, PatchType, PieceType
<1> QED BY <1>1, <1>2, AppendProperties, AppendIsConcat, LenProperties

\* What is copied up to a position lies before it.
LEMMA CopiedBefore ==
  ASSUME NEW d \in Seq(PieceType), NEW from \in Nat \ {0}, NEW to \in Nat, from <= to,
         Kept(d, from), NEW i \in DOMAIN (d \o Pieces(from, to)),
         (d \o Pieces(from, to))[i][1] # 0
  PROVE  (d \o Pieces(from, to))[i][1] < to
<1> DEFINE n == Len(d)
           e == d \o Pieces(from, to)
           k == to - from
<1>1. n \in Nat /\ DOMAIN d = 1..n /\ k \in Nat /\ DOMAIN e = 1..n + k
  BY CopiedPieces
<1>2. \A j \in 1..n + k :
        \/ j \in 1..n /\ e[j] = d[j]
        \/ j - n \in 1..k /\ e[j][1] = from + (j - n) - 1 /\ e[j][2] = "page"
  BY CopiedPieces
<1>3. i \in 1..n + k /\ e[i][1] # 0
  BY <1>1
<1> HIDE DEF e, n
<1>4. CASE i \in 1..n /\ e[i] = d[i]
  <2>1. d[i][1] \in 1..from - 1
    BY <1>1, <1>3, <1>4 DEF Kept
  <2> QED BY <1>4, <2>1 DEF e
<1>5. CASE i - n \in 1..k /\ e[i][1] = from + (i - n) - 1
  BY <1>1, <1>5 DEF e
<1> QED BY <1>2, <1>3, <1>4, <1>5

\* Inserting a text keeps what is kept.
LEMMA KeepText ==
  ASSUME NEW d \in Seq(PieceType), NEW to \in Nat, Kept(d, to),
         NEW p \in PatchType
  PROVE  /\ d \o Text(p) \in Seq(PieceType)
         /\ Kept(d \o Text(p), to)
<1> DEFINE n == Len(d)
           e == d \o Text(p)
<1>1. n \in Nat /\ DOMAIN d = 1..n
  BY LenProperties
<1>2. CASE p.text = "none"
  <2>1. e = d
    BY <1>2, ConcatEmptySeq DEF Text
  <2> QED BY <2>1
<1>3. CASE p.text # "none"
  <2>2. /\ e \in Seq(PieceType)
        /\ DOMAIN e = 1..n + 1
        /\ \A i \in 1..n : e[i] = d[i]
        /\ e[n + 1] = <<0, p.text>>
    BY <1>3, AddedText
  <2> HIDE DEF e, n
  <2>3. \A i \in 1..n + 1 : e[i][1] # 0 => i \in 1..n
    BY <1>1, <2>2
  <2>4. \A i \in 1..n + 1 : e[i][1] # 0 => e[i][1] \in (1..to - 1) \ Unwanted
    BY <1>1, <2>2, <2>3 DEF Kept
  <2>5. ASSUME NEW x \in (1..to - 1) \ Unwanted PROVE \E i \in 1..n + 1 : e[i][1] = x
    <3>1. PICK i \in 1..n : d[i][1] = x
      BY <1>1 DEF Kept
    <3> QED BY <1>1, <2>2, <3>1
  <2>6. \A i, j \in 1..n + 1 : i < j /\ e[i][1] # 0 /\ e[j][1] # 0 => e[i][1] < e[j][1]
    BY <1>1, <2>2, <2>3 DEF Kept
  <2>7. Kept(e, to)
    BY <2>2, <2>4, <2>5, <2>6 DEF Kept
  <2> QED BY <2>2, <2>7 DEF e
<1> QED BY <1>2, <1>3

\* Skipping what is unwanted keeps all that is wanted.
LEMMA KeepSkipped ==
  ASSUME NEW d, NEW from \in Nat, NEW to \in Nat, from <= to,
         Kept(d, from), \A x \in from..to - 1 : x \in Unwanted
  PROVE  Kept(d, to)
<1>1. (1..to - 1) \ Unwanted = (1..from - 1) \ Unwanted
  OBVIOUS
<1> QED BY <1>1 DEF Kept
-----------------------------------------------------------------------------
(* The steps of get_patched.                                               *)

\* What is unwanted of the elements that were seen is replaced by a patch.
LEMMA Covered ==
  ASSUME Typed, \A i \in DOMAIN page : Seen(i), NEW x \in Unwanted
  PROVE  \E p \in ToSet(patches) : p.at <= x /\ x < p.at + p.size
<1>1. ASSUME NEW i \in DOMAIN page, NEW q, PatchesOf(page[i]) = <<q>>
      PROVE  q \in ToSet(patches)
  <2>1. q \in ToSet(<<q>>)
    BY DEF ToSet
  <2> QED BY <1>1, <2>1 DEF Seen
<1>2. \A tags : \A n \in Places(tags) :
        n \in Nat /\ \E i \in DOMAIN page : page[i].tag \in tags /\ page[i].place = n
  BY ElementType DEF Places, Typed
<1>3. ASSUME NEW n \in Places({"policy"}), x \in {Tag(n), Attribute(n), Rest(n)}
      PROVE  \E p \in ToSet(patches) : p.at <= x /\ x < p.at + p.size
  <2>1. PICK i \in DOMAIN page : page[i].tag = "policy" /\ page[i].place = n
    BY <1>2
  <2>2. PatchesOf(page[i]) = <<Patch(Tag(n), 3, "none")>>
    BY <2>1 DEF PatchesOf
  <2>3. Patch(Tag(n), 3, "none") \in ToSet(patches)
    BY <1>1, <2>2
  <2>4. Tag(n) <= x /\ x < Tag(n) + 3
    BY <1>2, <1>3 DEF Tag, Attribute, Rest
  <2> QED BY <2>3, <2>4 DEF Patch
<1>4. ASSUME NEW i \in DOMAIN page, NEW text, PatchesOf(page[i]) = <<Patch(x, 1, text)>>, x \in Int
      PROVE  \E p \in ToSet(patches) : p.at <= x /\ x < p.at + p.size
  <2>1. Patch(x, 1, text) \in ToSet(patches)
    BY <1>1, <1>4
  <2>2. x <= x /\ x < x + 1
    BY <1>4
  <2> QED BY <2>1, <2>2 DEF Patch
<1>5. ASSUME NEW n \in Places({"script"}), x = Attribute(n)
      PROVE  \E p \in ToSet(patches) : p.at <= x /\ x < p.at + p.size
  <2>1. PICK i \in DOMAIN page : page[i].tag = "script" /\ page[i].place = n
    BY <1>2
  <2>2. PatchesOf(page[i]) = <<Patch(x, 1, "none")>> /\ x \in Int
    BY <1>2, <1>5, <2>1 DEF PatchesOf, Attribute
  <2> QED BY <1>4, <2>2
<1>6. ASSUME "base" \in options, NEW n \in Places({"base"}), x = Attribute(n)
      PROVE  \E p \in ToSet(patches) : p.at <= x /\ x < p.at + p.size
  <2>1. PICK i \in DOMAIN page : page[i].tag = "base" /\ page[i].place = n
    BY <1>2
  <2>2. PatchesOf(page[i]) = <<Patch(Attribute(page[i].place), 1, "base url")>>
    BY <1>6, <2>1 DEF PatchesOf
  <2>3. x = Attribute(page[i].place) /\ x \in Int
    BY <1>2, <1>6, <2>1 DEF Attribute
  <2> QED BY <1>4, <2>2, <2>3
<1>7. ASSUME "title" \in options, NEW n \in Places({"title"}), x = Rest(n)
      PROVE  \E p \in ToSet(patches) : p.at <= x /\ x < p.at + p.size
  <2>1. PICK i \in DOMAIN page : page[i].tag = "title" /\ page[i].place = n
    BY <1>2
  <2>2. PatchesOf(page[i]) = <<Patch(x, 1, "title")>> /\ x \in Int
    BY <1>2, <1>7, <2>1 DEF PatchesOf, Rest
  <2> QED BY <1>4, <2>2
<1> QED BY <1>3, <1>5, <1>6, <1>7, UnwantedPieces

\* All patches, those of the elements and what is injected.
LEMMA InjectStep ==
  ASSUME Typed, Parsing, Inject
  PROVE  Invariant'
<1>1. /\ UNCHANGED <<page, options, stack, base_url, pos, data>>
      /\ phase = "parsing" /\ stack = {} /\ phase' = "patching"
      /\ patches' \in Sorted(patches \o Injected(FindHead))
  BY DEF Inject
<1>2. /\ \A p : Region(p)' <=> Region(p)
      /\ End' = End /\ Unwanted' = Unwanted
  BY <1>1, FixedPage
<1>3. /\ Injected(FindHead) \in Seq(PatchType)
      /\ \A p \in ToSet(Injected(FindHead)) : Region(p)
  BY <1>1, HeadIsFound, InjectedProperties
<1>4. /\ patches' \in Seq(PatchType)
      /\ ToSet(patches') = ToSet(patches) \cup ToSet(Injected(FindHead))
      /\ Ascending(patches')
  <2>1. patches \o Injected(FindHead) \in Seq(PatchType)
    BY <1>3, ConcatProperties DEF Typed
  <2>2. ToSet(patches \o Injected(FindHead)) = ToSet(patches) \cup ToSet(Injected(FindHead))
    BY <1>3, ConcatSet DEF Typed
  <2> QED BY <1>1, <2>1, <2>2, SortedProperties
<1>5. Typed'
  BY <1>1, <1>4 DEF Typed
<1>6. \A p \in ToSet(patches') : p \in PatchType /\ Region(p)
  <2>1. \A p \in ToSet(patches') : p \in PatchType
    BY <1>4, LenProperties, ElementOfSeq DEF ToSet
  <2> QED BY <1>1, <1>3, <1>4, <2>1 DEF Parsing
<1>7. \A p \in ToSet(patches') : p.at < 1 => p.at + p.size <= 1
  BY <1>6, Outside
<1>8. \A x \in Unwanted : \E p \in ToSet(patches') : p.at <= x /\ x < p.at + p.size
  <2>1. PICK visited \in SUBSET DOMAIN page : Pending(visited)
    BY <1>1 DEF Parsing
  <2>2. \A i \in DOMAIN page : Seen(i)
    BY <1>1, <2>1, AllSeen
  <2> QED BY <1>4, <2>2, Covered
<1>9. Kept(<<>>, 1)
  BY DEF Kept
<1>10. pos = 1 /\ data = <<>> /\ 1 \in 1..End + 1
  <2>1. End \in Nat
    BY EndProperties, ElementType DEF Typed, WellFormed
  <2> QED BY <1>1, <2>1 DEF Parsing
<1>11. Kept(data, pos)'
  BY <1>1, <1>2, <1>9, <1>10 DEF Kept
<1>12. Patching'
  BY <1>1, <1>2, <1>4, <1>6, <1>7, <1>8, <1>10, <1>11 DEF Patching
<1> QED BY <1>1, <1>5, <1>12 DEF Invariant, Parsing, Patched

\* A patch is applied or skipped; what it replaces is unwanted, and what
\* remains before it is not.
LEMMA PatchStep ==
  ASSUME Typed, Patching, ApplyPatch \/ SkipPatch
  PROVE  Invariant'
<1>1. /\ UNCHANGED <<page, options, stack, start_of_head, base_url, phase>>
      /\ phase = "patching" /\ patches # <<>> /\ patches' = Tail(patches)
  BY DEF ApplyPatch, SkipPatch
<1>2. /\ \A p : Region(p)' <=> Region(p)
      /\ End' = End /\ Unwanted' = Unwanted
  BY <1>1, FixedPage
<1> DEFINE patch == Head(patches)
<1>3. /\ pos \in 1..End + 1
      /\ Ascending(patches)
      /\ \A p \in ToSet(patches) : Region(p) /\ (p.at < pos => p.at + p.size <= pos)
      /\ \A x \in Unwanted : x >= pos => \E p \in ToSet(patches) : p.at <= x /\ x < p.at + p.size
      /\ Kept(data, pos)
  BY <1>1 DEF Patching
<1>4. /\ patch \in PatchType /\ patches' \in Seq(PatchType)
      /\ ToSet(patches) = {patch} \cup ToSet(patches')
      /\ Ascending(patches')
      /\ \A p \in ToSet(patches') : patch.at <= p.at
  BY <1>1, <1>3, Taken DEF Typed
<1> HIDE DEF patch
<1>5. \A p \in ToSet(patches) : p \in PatchType /\ p.at \in Int /\ p.size \in Nat
  <2>1. \A p \in ToSet(patches) : p \in PatchType
    BY LenProperties, ElementOfSeq DEF ToSet, Typed
  <2> QED BY <2>1 DEF PatchType
<1>6. patch \in ToSet(patches) /\ patch.at \in Int /\ patch.size \in Nat /\ Region(patch)
  BY <1>3, <1>4, <1>5
<1>7. End \in Nat
  BY EndProperties, ElementType DEF Typed, WellFormed
<1>8. ASSUME pos' \in 1..End + 1, patch.at + patch.size <= pos', pos <= pos',
             \A p \in ToSet(patches') : p.at < pos' => p.at + p.size <= pos',
             data' \in Seq(PieceType), Kept(data', pos')
      PROVE  Invariant'
  <2>1. Typed'
    BY <1>1, <1>4, <1>8 DEF Typed
  <2>2. ASSUME NEW x \in Unwanted, x >= pos'
        PROVE  \E p \in ToSet(patches') : p.at <= x /\ x < p.at + p.size
    <3>1. x \in Int
      BY UnwantedType DEF Typed
    <3>2. PICK p \in ToSet(patches) : p.at <= x /\ x < p.at + p.size
      BY <1>3, <1>7, <1>8, <2>2, <3>1
    <3>3. p # patch
      BY <1>6, <1>7, <1>8, <2>2, <3>1, <3>2
    <3> QED BY <1>4, <3>2, <3>3
  <2>3. Kept(data, pos)'
    BY <1>2, <1>8 DEF Kept
  <2>4. Patching'
    BY <1>1, <1>2, <1>3, <1>4, <1>8, <2>2, <2>3 DEF Patching
  <2> QED BY <1>1, <2>1, <2>4 DEF Invariant, Parsing, Patched
<1>9. CASE SkipPatch
  <2>1. UNCHANGED <<pos, data>> /\ pos > patch.at
    BY <1>9 DEF SkipPatch, patch
  <2>2. patch.at + patch.size <= pos
    BY <1>3, <1>6, <2>1
  <2> QED BY <1>3, <1>4, <1>6, <1>7, <1>8, <2>1, <2>2 DEF Typed
<1>10. CASE ApplyPatch
  <2>1. /\ pos <= patch.at /\ pos' = patch.at + patch.size
        /\ data' = data \o Pieces(pos, patch.at) \o Text(patch)
    BY <1>10 DEF ApplyPatch, patch
  <2>2. patch.at + patch.size <= End + 1 /\ \A x \in patch.at..patch.at + patch.size - 1 : x \in Unwanted
    BY <1>6 DEF Region
  <2>3. pos' \in 1..End + 1 /\ pos <= pos' /\ patch.at \in Nat /\ pos \in Nat \ {0}
    BY <1>3, <1>6, <1>7, <2>1, <2>2
  <2>4. \A x \in pos..patch.at - 1 : x \notin Unwanted
    <3> SUFFICES ASSUME NEW x \in pos..patch.at - 1, x \in Unwanted PROVE FALSE
      OBVIOUS
    <3>1. x \in Int /\ x >= pos /\ x < patch.at
      BY <1>6, <2>3
    <3>2. PICK p \in ToSet(patches) : p.at <= x /\ x < p.at + p.size
      BY <1>3, <3>1
    <3>3. p = patch \/ patch.at <= p.at
      BY <1>4
    <3> QED BY <1>5, <1>6, <3>1, <3>2, <3>3
  <2> DEFINE copied == data \o Pieces(pos, patch.at)
  <2>5. copied \in Seq(PieceType) /\ Kept(copied, patch.at)
    BY <1>3, <2>1, <2>3, <2>4, KeepPieces DEF Typed
  <2>6. copied \o Text(patch) \in Seq(PieceType) /\ Kept(copied \o Text(patch), patch.at)
    <3> HIDE DEF copied
    <3> QED BY <1>4, <2>3, <2>5, KeepText
  <2>7. data' \in Seq(PieceType) /\ Kept(data', patch.at)
    BY <2>1, <2>6
  <2>8. Kept(data', pos')
    <3>1. \A x \in patch.at..pos' - 1 : x \in Unwanted
      <4>1. patch.at..pos' - 1 = patch.at..patch.at + patch.size - 1
        BY <1>6, <2>1
      <4> QED BY <2>2, <4>1, Zenon
    <3>2. patch.at <= pos' /\ pos' \in Nat
      BY <1>6, <2>1, <2>3
    <3> QED BY <2>3, <2>7, <3>1, <3>2, KeepSkipped
  <2>9. ASSUME NEW p \in ToSet(patches'), p.at < pos' PROVE p.at + p.size <= pos'
    <3>1. p \in PatchType /\ Region(p) /\ patch.at <= p.at
      BY <1>3, <1>4, <1>5
    <3>2. p.at < patch.at + patch.size
      BY <2>1, <2>9
    <3> QED BY <1>4, <1>6, <2>1, <3>1, <3>2, Nested
  <2>10. patch.at + patch.size <= pos'
    BY <1>6, <2>1
  <2> QED BY <1>8, <2>3, <2>7, <2>8, <2>9, <2>10
<1> QED BY <1>9, <1>10

\* The rest of the page, of which nothing is unwanted, is copied.
LEMMA FinishStep ==
  ASSUME Typed, Patching, Finish
  PROVE  Invariant'
<1>1. /\ UNCHANGED <<page, options, stack, start_of_head, base_url, patches, pos>>
      /\ phase = "patching" /\ patches = <<>> /\ phase' = "done"
      /\ data' = data \o Pieces(pos, End + 1)
  BY DEF Finish
<1>2. End' = End /\ Unwanted' = Unwanted
  BY <1>1, FixedPage
<1>3. End \in Nat
  BY EndProperties, ElementType DEF Typed, WellFormed
<1>4. /\ pos \in 1..End + 1 /\ Kept(data, pos)
      /\ \A x \in Unwanted : x >= pos => \E p \in ToSet(patches) : p.at <= x /\ x < p.at + p.size
  BY <1>1 DEF Patching
<1>5. \A x \in pos..End : x \notin Unwanted
  <2>1. ToSet(patches) = {}
    BY <1>1 DEF ToSet
  <2> QED BY <1>3, <1>4, <2>1
<1>6. data' \in Seq(PieceType) /\ Kept(data', End + 1)
  <2>1. pos \in Nat \ {0} /\ End + 1 \in Nat /\ pos <= End + 1 /\ (End + 1) - 1 = End
    BY <1>3, <1>4
  <2> QED BY <1>1, <1>4, <1>5, <2>1, KeepPieces DEF Typed
<1>7. Typed'
  BY <1>1, <1>6 DEF Typed
<1>8. Patched'
  BY <1>2, <1>6 DEF Patched, Kept
<1> QED BY <1>1, <1>7, <1>8 DEF Invariant, Parsing, Patching

-----------------------------------------------------------------------------
(* What is inserted.                                                       *)

\* No text of a list that has none to inject comes twice when different ones
\* follow.
LEMMA ConcatOnce ==
  ASSUME NEW s \in Seq(PatchType), NEW t \in Seq(PatchType),
         \A p \in ToSet(s) : p.text \notin Injectable, Once(t)
  PROVE  Once(s \o t)
<1> DEFINE c == s \o t
<1>1. /\ c \in Seq(PatchType) /\ Len(c) = Len(s) + Len(t)
      /\ \A i \in 1..Len(s) + Len(t) : c[i] = IF i <= Len(s) THEN s[i] ELSE t[i - Len(s)]
  BY ConcatProperties
<1>2. /\ Len(s) \in Nat /\ Len(t) \in Nat
      /\ DOMAIN s = 1..Len(s) /\ DOMAIN t = 1..Len(t) /\ DOMAIN c = 1..Len(s) + Len(t)
  BY <1>1, LenProperties
<1> HIDE DEF c
<1>3. ASSUME NEW i \in 1..Len(s) + Len(t), c[i].text \in Injectable
      PROVE  i - Len(s) \in 1..Len(t) /\ c[i] = t[i - Len(s)]
  <2>1. ~(i <= Len(s))
    <3> SUFFICES ASSUME i <= Len(s) PROVE FALSE
      OBVIOUS
    <3>1. c[i] = s[i] /\ s[i] \in ToSet(s)
      BY <1>1, <1>2 DEF ToSet
    <3> QED BY <1>3, <3>1
  <2> QED BY <1>1, <1>2, <2>1
<1>4. ASSUME NEW i \in 1..Len(s) + Len(t), NEW j \in 1..Len(s) + Len(t),
             c[i].text \in Injectable, c[i].text = c[j].text
      PROVE  i = j
  <2>1. i - Len(s) \in 1..Len(t) /\ c[i] = t[i - Len(s)]
    BY <1>3, <1>4
  <2>2. j - Len(s) \in 1..Len(t) /\ c[j] = t[j - Len(s)]
    BY <1>3, <1>4
  <2>3. i - Len(s) = j - Len(s)
    BY <1>2, <1>4, <2>1, <2>2 DEF Once
  <2> QED BY <1>2, <2>3
<1> QED BY <1>2, <1>4 DEF Once, c

\* Copying pieces behind what is inserted keeps that in order.
LEMMA OrderPieces ==
  ASSUME NEW d \in Seq(PieceType), NEW from \in Nat \ {0}, NEW to \in Nat, from <= to,
         NEW head \in Nat, Ordered(d, head), InsertedIn(d) # {} => from >= head
  PROVE  /\ InsertedIn(d \o Pieces(from, to)) = InsertedIn(d)
         /\ InsertedTexts(d \o Pieces(from, to)) = InsertedTexts(d)
         /\ Ordered(d \o Pieces(from, to), head)
<1> DEFINE n == Len(d)
           e == d \o Pieces(from, to)
           k == to - from
<1>1. n \in Nat /\ DOMAIN d = 1..n /\ k \in Nat
  BY CopiedPieces
<1>2. DOMAIN e = 1..n + k /\ \A i \in 1..n : e[i] = d[i]
  BY CopiedPieces
<1>3. \A i \in 1..n + k :
        \/ i \in 1..n /\ e[i] = d[i]
        \/ i - n \in 1..k /\ e[i][1] = from + (i - n) - 1 /\ e[i][2] = "page"
  BY CopiedPieces
<1> HIDE DEF e, n, k
<1>4. InsertedIn(e) = InsertedIn(d)
  <2>1. \A i \in InsertedIn(d) : i \in InsertedIn(e)
    BY <1>1, <1>2 DEF InsertedIn
  <2>2. \A i \in InsertedIn(e) : i \in InsertedIn(d)
    BY <1>1, <1>2, <1>3 DEF InsertedIn, Injectable
  <2> QED BY <2>1, <2>2
<1>5. \A i \in InsertedIn(d) : i \in 1..n /\ e[i] = d[i]
  BY <1>1, <1>2 DEF InsertedIn
<1>6. InsertedTexts(e) = InsertedTexts(d)
  BY <1>4, <1>5 DEF InsertedTexts
<1>7. ASSUME NEW i \in InsertedIn(e)
      PROVE  /\ e[i][1] = 0
             /\ \A j \in InsertedIn(e) : e[i][2] = e[j][2] => i = j
             /\ \A j \in DOMAIN e : e[j][1] # 0 => (i < j <=> e[j][1] >= head)
  <2>1. e[i][1] = 0 /\ \A j \in InsertedIn(e) : e[i][2] = e[j][2] => i = j
    BY <1>4, <1>5, <1>7 DEF Ordered
  <2>2. ASSUME NEW j \in 1..n + k, e[j][1] # 0 PROVE i < j <=> e[j][1] >= head
    <3>1. CASE j \in 1..n /\ e[j] = d[j]
      BY <1>1, <1>4, <1>7, <2>2, <3>1 DEF Ordered
    <3>2. CASE j - n \in 1..k /\ e[j][1] = from + (j - n) - 1
      <4>1. from >= head /\ i \in 1..n
        BY <1>4, <1>5, <1>7
      <4> QED BY <1>1, <3>2, <4>1
    <3> QED BY <1>3, <3>1, <3>2
  <2> QED BY <1>2, <2>1, <2>2
<1>8. Ordered(e, head)
  BY <1>7 DEF Ordered
<1> QED BY <1>4, <1>6, <1>8 DEF e

\* Inserting another text between what is before the head and what is behind it.
LEMMA OrderText ==
  ASSUME NEW d \in Seq(PieceType), NEW p \in PatchType, NEW head \in Nat, Ordered(d, head)
  PROVE  /\ p.text \notin Injectable =>
              /\ InsertedIn(d \o Text(p)) = InsertedIn(d)
              /\ InsertedTexts(d \o Text(p)) = InsertedTexts(d)
              /\ Ordered(d \o Text(p), head)
         /\ /\ p.text \in Injectable \ InsertedTexts(d)
            /\ \A i \in DOMAIN d : d[i][1] # 0 => d[i][1] < head
            => /\ InsertedTexts(d \o Text(p)) = InsertedTexts(d) \cup {p.text}
               /\ Ordered(d \o Text(p), head)
<1> DEFINE n == Len(d)
           e == d \o Text(p)
<1>1. CASE p.text = "none"
  <2>1. e = d
    BY <1>1, ConcatEmptySeq DEF Text
  <2>2. p.text \notin Injectable
    BY <1>1 DEF Injectable
  <2> QED BY <2>1, <2>2
<1>2. CASE p.text # "none"
  <2>1. /\ n \in Nat /\ DOMAIN d = 1..n
        /\ DOMAIN e = 1..n + 1
        /\ \A i \in 1..n : e[i] = d[i]
        /\ e[n + 1] = <<0, p.text>>
    BY <1>2, AddedText
  <2> HIDE DEF e, n
  <2>2. \A i \in 1..n + 1 : i \in 1..n \/ i = n + 1
    BY <2>1
  <2>3. \A i \in InsertedIn(d) : i \in 1..n /\ e[i] = d[i]
    BY <2>1 DEF InsertedIn
  <2>4. /\ e[n + 1][1] = 0 /\ e[n + 1][2] = p.text
        /\ n + 1 \in 1..n + 1 /\ n + 1 \notin 1..n
        /\ \A i \in 1..n : i \in 1..n + 1 /\ i < n + 1 /\ ~(n + 1 < i)
    BY <2>1
  <2>5. ASSUME p.text \notin Injectable
        PROVE  /\ InsertedIn(e) = InsertedIn(d)
               /\ InsertedTexts(e) = InsertedTexts(d)
               /\ Ordered(e, head)
    <3>1. InsertedIn(e) = InsertedIn(d)
      BY <2>1, <2>2, <2>4, <2>5, Zenon DEF InsertedIn
    <3>2. InsertedTexts(e) = InsertedTexts(d)
      BY <2>3, <3>1 DEF InsertedTexts
    <3>3. Ordered(e, head)
      BY <2>1, <2>2, <2>3, <2>4, <3>1 DEF Ordered
    <3> QED BY <3>1, <3>2, <3>3
  <2>6. ASSUME p.text \in Injectable \ InsertedTexts(d),
               \A i \in DOMAIN d : d[i][1] # 0 => d[i][1] < head
        PROVE  /\ InsertedTexts(e) = InsertedTexts(d) \cup {p.text}
               /\ Ordered(e, head)
    <3>1. InsertedIn(e) = InsertedIn(d) \cup {n + 1}
      BY <2>1, <2>2, <2>4, <2>6, Zenon DEF InsertedIn
    <3>2. InsertedTexts(e) = InsertedTexts(d) \cup {p.text}
      <4>1. \A t \in InsertedTexts(e) : t \in InsertedTexts(d) \cup {p.text}
        BY <2>3, <2>4, <3>1 DEF InsertedTexts
      <4>2. \A t \in InsertedTexts(d) \cup {p.text} : t \in InsertedTexts(e)
        BY <2>3, <2>4, <3>1 DEF InsertedTexts
      <4> QED BY <4>1, <4>2
    <3>3. ASSUME NEW i \in InsertedIn(e)
          PROVE  e[i][1] = 0 /\ \A j \in InsertedIn(e) : e[i][2] = e[j][2] => i = j
      <4>1. \A j \in InsertedIn(d) : e[j][2] # p.text
        BY <2>3, <2>6 DEF InsertedTexts
      <4> QED BY <2>3, <2>4, <3>1, <3>3, <4>1 DEF Ordered
    <3>4. ASSUME NEW i \in InsertedIn(e), NEW j \in 1..n + 1, e[j][1] # 0
          PROVE  i < j <=> e[j][1] >= head
      <4>1. j \in 1..n /\ e[j] = d[j]
        BY <2>1, <2>2, <2>4, <3>4
      <4>2. CASE i \in InsertedIn(d)
        BY <2>1, <3>4, <4>1, <4>2 DEF Ordered
      <4>3. CASE i = n + 1
        <5>1. d[j][1] < head /\ d[j][1] \in Int
          <6>1. d[j] \in PieceType
            BY <2>1, <4>1, ElementOfSeq DEF n
          <6> QED BY <2>1, <2>6, <3>4, <4>1, <6>1 DEF PieceType
        <5> QED BY <2>4, <4>1, <4>3, <5>1
      <4> QED BY <3>1, <3>4, <4>2, <4>3
    <3> QED BY <2>1, <3>2, <3>3, <3>4 DEF Ordered
  <2> QED BY <2>5, <2>6 DEF e
<1> QED BY <1>1, <1>2

\* Whether the head is found, and where, stays as it is.
LEMMA FixedHead ==
  ASSUME UNCHANGED <<page, options, start_of_head>>
  PROVE  /\ HeadFound' <=> HeadFound
         /\ HeadPlace(start_of_head)' <=> HeadPlace(start_of_head)
         /\ WantedTexts' = WantedTexts
<1>1. Places({"head"})' = Places({"head"}) /\ Places({"stray"})' = Places({"stray"})
      /\ {Tag(p) : p \in Places({"policy"})}' = {Tag(p) : p \in Places({"policy"})}
  BY DEF Places
<1>2. End' = End /\ WantedTexts' = WantedTexts
  BY FixedPage
<1> QED BY <1>1, <1>2 DEF HeadFound, HeadPlace

\* All that is wanted is left to be inserted.
LEMMA InjectInserts ==
  ASSUME Typed, Parsing, Inject
  PROVE  Inserting'
<1>1. /\ UNCHANGED <<page, options, stack, base_url, pos, data>>
      /\ phase = "parsing" /\ stack = {} /\ phase' = "patching"
      /\ start_of_head' = FindHead
      /\ patches' \in Sorted(patches \o Injected(FindHead))
      /\ pos = 1 /\ data = <<>>
  BY DEF Inject, Parsing
<1> SUFFICES ASSUME HeadFound' PROVE Inserting'
  BY DEF Inserting
<1>2. FindHead # 0 /\ HeadPlace(FindHead)
  <2>1. Places({"head"})' = Places({"head"}) /\ Places({"stray"})' = Places({"stray"})
    BY <1>1, FixedPage
  <2> QED BY <1>1, <2>1, HeadIsFound DEF HeadFound
<1>3. HeadPlace(start_of_head)'
  <2>1. End' = End
    BY <1>1, FixedPage
  <2> QED BY <1>1, <1>2, <2>1 DEF HeadPlace
<1> DEFINE injected == Injected(FindHead)
<1>4. /\ injected \in Seq(PatchType)
      /\ Once(injected)
      /\ \A p \in ToSet(injected) : p.at = FindHead /\ p.size = 0 /\ p.text \in Injectable
      /\ {p.text : p \in ToSet(injected)} =
           (options \cap {"script"}) \cup
           (IF "base" \in options /\ base_url = <<>> THEN {"base tag"} ELSE {})
  BY <1>2, InjectedProperties
<1> HIDE DEF injected
<1>5. \A p \in ToSet(patches) : p.text \notin Injectable
  BY <1>1 DEF Parsing
<1>6. ToSet(patches') = ToSet(patches) \cup ToSet(injected) /\ Once(patches')
  <2>1. patches \o injected \in Seq(PatchType) /\ Once(patches \o injected)
    BY <1>4, <1>5, ConcatOnce, ConcatProperties DEF Typed
  <2>2. ToSet(patches \o injected) = ToSet(patches) \cup ToSet(injected)
    BY <1>4, ConcatSet DEF Typed
  <2> QED BY <1>1, <2>1, <2>2, SortedProperties DEF injected
<1>7. Left' = ToSet(injected)
  BY <1>4, <1>5, <1>6 DEF Left
<1>8. InsertedIn(data') = {} /\ InsertedTexts(data') = {} /\ Ordered(data', start_of_head')
  BY <1>1 DEF InsertedIn, InsertedTexts, Ordered
<1>9. {p.text : p \in Left'} = WantedTexts'
  <2>1. base_url = <<>> <=> Places({"base"}) = {}
    <3>1. PICK visited \in SUBSET DOMAIN page : Pending(visited)
      BY <1>1 DEF Parsing
    <3>2. \A i \in DOMAIN page : page[i].tag = "base" => base_url # <<>>
      BY <1>1, <3>1, AllSeen DEF Seen
    <3>3. Places({"base"}) # {} => base_url # <<>>
      BY <3>2 DEF Places
    <3> QED BY <1>1, <3>3 DEF Parsing
  <2>2. WantedTexts' = WantedTexts
    BY <1>1, FixedPage
  <2> QED BY <1>4, <1>7, <2>1, <2>2 DEF WantedTexts
<1>10. pos' <= start_of_head'
  <2>1. \A n \in Nat : 1 <= Rest(n) + 1
    BY DEF Rest
  <2> QED BY <1>1, <1>2, <2>1 DEF HeadPlace
<1> QED BY <1>1, <1>3, <1>4, <1>6, <1>7, <1>8, <1>9, <1>10 DEF Inserting

\* What is left to be inserted is inserted when pos is at the head, and no
\* other patch takes pos past the head before.
LEMMA PatchInserts ==
  ASSUME Typed, Patching, Inserting, ApplyPatch \/ SkipPatch
  PROVE  Inserting'
<1>1. /\ UNCHANGED <<page, options, stack, start_of_head, base_url, phase>>
      /\ phase = "patching" /\ patches # <<>> /\ patches' = Tail(patches)
  BY DEF ApplyPatch, SkipPatch
<1> SUFFICES ASSUME HeadFound' PROVE Inserting'
  BY DEF Inserting
<1> DEFINE patch == Head(patches)
           head == start_of_head
<1>2. /\ HeadFound /\ HeadPlace(head) /\ HeadPlace(start_of_head)'
      /\ WantedTexts' = WantedTexts
  BY <1>1, FixedHead DEF Inserting
<1>3. /\ \A p \in Left : p.at = head /\ p.size = 0 /\ p.text \notin InsertedTexts(data)
      /\ Once(patches)
      /\ WantedTexts = InsertedTexts(data) \cup {p.text : p \in Left}
      /\ Ordered(data, head)
      /\ Left # {} => pos <= head
      /\ InsertedIn(data) # {} => pos >= head
  BY <1>1, <1>2 DEF Inserting
<1>4. /\ patch \in PatchType /\ patches' \in Seq(PatchType)
      /\ ToSet(patches) = {patch} \cup ToSet(patches')
      /\ \A p \in ToSet(patches') : patch.at <= p.at
      /\ pos \in 1..End + 1 /\ Region(patch) /\ Kept(data, pos)
  BY <1>1, Taken DEF Typed, Patching
<1>5. /\ Once(patches')
      /\ patch.text \in Injectable => \A p \in ToSet(patches') : p.text # patch.text
  BY <1>1, <1>3, TakenOnce DEF Typed
<1>6. End \in Nat /\ patch.at \in Int /\ patch.size \in Nat /\ pos \in Nat \ {0}
  <2> HIDE DEF patch
  <2>1. End \in Nat
    BY EndProperties, ElementType DEF Typed, WellFormed
  <2>2. patch.at \in Int /\ patch.size \in Nat
    BY <1>4 DEF PatchType
  <2> QED BY <1>4, <2>1, <2>2
<1>7. PICK n \in 0..Len(page) : head = Rest(n) + 1
  BY <1>2 DEF HeadPlace
<1>8. n \in Nat /\ head = 3 * n + 1 /\ head \in Nat
  BY <1>7, ElementType DEF Typed, WellFormed, Rest
<1> HIDE DEF patch, head
<1>9. Left' \subseteq Left /\ (patch.text \notin Injectable => Left' = Left)
      /\ (patch.text \in Injectable => patch \in Left /\ Left = Left' \cup {patch})
  BY <1>4 DEF Left
<1>10. CASE SkipPatch
  <2>1. UNCHANGED <<pos, data>> /\ pos > patch.at
    BY <1>10 DEF SkipPatch, patch
  <2>2. patch.text \notin Injectable
    BY <1>3, <1>6, <1>8, <1>9, <2>1
  <2> QED BY <1>1, <1>2, <1>3, <1>5, <1>9, <2>1, <2>2 DEF Inserting, head
<1>11. CASE ApplyPatch
  <2> DEFINE copied == data \o Pieces(pos, patch.at)
  <2>1. pos <= patch.at /\ pos' = patch.at + patch.size /\ data' = copied \o Text(patch)
    BY <1>11 DEF ApplyPatch, patch
  <2>2. patch.at \in Nat
    BY <1>6, <2>1
  <2>3. /\ InsertedIn(copied) = InsertedIn(data)
        /\ InsertedTexts(copied) = InsertedTexts(data)
        /\ Ordered(copied, head)
        /\ copied \in Seq(PieceType)
    <3>1. data \in Seq(PieceType)
      BY DEF Typed
    <3>2. copied \in Seq(PieceType)
      BY <1>6, <2>1, <2>2, <3>1, CopiedPieces
    <3> QED BY <1>3, <1>6, <1>8, <2>1, <2>2, <3>1, <3>2, OrderPieces
  <2> HIDE DEF copied
  <2>4. CASE patch.text \in Injectable
    <3>1. patch.at = head /\ patch.size = 0 /\ patch.text \notin InsertedTexts(data) /\ pos' = head
      BY <1>3, <1>8, <1>9, <2>1, <2>4
    <3>2. \A i \in DOMAIN copied : copied[i][1] # 0 => copied[i][1] < head
      <4>1. data \in Seq(PieceType)
        BY DEF Typed
      <4>2. \A i \in DOMAIN copied : copied[i][1] # 0 => copied[i][1] < patch.at
        BY <1>4, <1>6, <2>1, <2>2, <4>1, CopiedBefore DEF copied
      <4> QED BY <3>1, <4>2
    <3>3. InsertedTexts(data') = InsertedTexts(data) \cup {patch.text} /\ Ordered(data', head)
      BY <1>4, <1>8, <2>1, <2>3, <2>4, <3>1, <3>2, OrderText
    <3>4. WantedTexts = InsertedTexts(data') \cup {p.text : p \in Left'}
      BY <1>3, <1>9, <2>4, <3>3
    <3>5. \A p \in Left' : p.at = head /\ p.size = 0 /\ p.text \notin InsertedTexts(data')
      BY <1>3, <1>5, <1>9, <2>4, <3>3 DEF Left
    <3> QED BY <1>1, <1>2, <1>5, <1>8, <3>1, <3>3, <3>4, <3>5 DEF Inserting, head
  <2>5. CASE patch.text \notin Injectable
    <3>1. /\ InsertedIn(data') = InsertedIn(data)
          /\ InsertedTexts(data') = InsertedTexts(data)
          /\ Ordered(data', head)
      BY <1>4, <1>8, <2>1, <2>3, <2>5, OrderText
    <3>2. Left' = Left
      BY <1>9, <2>5
    <3>3. ASSUME Left # {} PROVE pos' <= head
      <4>1. patch.at <= head
        <5>1. PICK p \in Left' : p \in ToSet(patches') /\ p.at = head
          BY <1>3, <3>2, <3>3 DEF Left
        <5> QED BY <1>4, <5>1
      <4>2. PICK m \in 0..Len(page) :
              \/ patch.at = Tag(m) /\ patch.size = 3 /\ m \in Places({"policy"})
              \/ patch.at \in {Attribute(m), Rest(m)} /\ patch.size = 1
              \/ patch.at = Rest(m) + 1 /\ patch.size = 0
        BY <1>4 DEF Region
      <4>3. patch.at = Tag(m) /\ m \in Places({"policy"}) => patch.at # head
        BY <1>2 DEF HeadFound, head
      <4>4. m \in Int
        BY <4>2
      <4>5. \/ patch.at = 3 * m - 2 /\ patch.size = 3 /\ patch.at # head
            \/ patch.at = 3 * m - 1 /\ patch.size = 1
            \/ patch.at = 3 * m /\ patch.size = 1
            \/ patch.at = 3 * m + 1 /\ patch.size = 0
        BY <4>2, <4>3 DEF Tag, Attribute, Rest
      <4>6. patch.at + patch.size <= 3 * n + 1
        BY <1>6, <1>8, <4>1, <4>4, <4>5
      <4> QED BY <1>8, <2>1, <4>6
    <3>4. pos' >= pos
      BY <1>6, <2>1
    <3>5. InsertedIn(data) # {} => pos' >= head
      BY <1>3, <1>6, <1>8, <2>1, <3>4
    <3> QED BY <1>1, <1>2, <1>3, <1>5, <3>1, <3>2, <3>3, <3>5 DEF Inserting, head
  <2> QED BY <2>4, <2>5
<1> QED BY <1>10, <1>11

\* At the end nothing is left.
LEMMA FinishInserts ==
  ASSUME Typed, Patching, Inserting, Finish
  PROVE  Inserting'
<1>1. /\ UNCHANGED <<page, options, stack, start_of_head, base_url, patches, pos>>
      /\ phase = "patching" /\ patches = <<>> /\ phase' = "done"
      /\ data' = data \o Pieces(pos, End + 1)
  BY DEF Finish
<1> SUFFICES ASSUME HeadFound' PROVE Inserting'
  BY DEF Inserting
<1>2. /\ HeadFound /\ HeadPlace(start_of_head) /\ HeadPlace(start_of_head)'
      /\ WantedTexts' = WantedTexts
  BY <1>1, FixedHead DEF Inserting
<1>3. Left = {} /\ Left' = {}
  BY <1>1 DEF Left, ToSet
<1>4. pos \in Nat \ {0} /\ End + 1 \in Nat /\ pos <= End + 1 /\ start_of_head \in Nat
  <2>1. End \in Nat
    BY EndProperties, ElementType DEF Typed, WellFormed
  <2>2. start_of_head \in Nat
    BY <1>2, ElementType DEF HeadPlace, Typed, WellFormed, Rest
  <2> QED BY <1>1, <2>1, <2>2 DEF Patching
<1>5. /\ InsertedIn(data') = InsertedIn(data)
      /\ InsertedTexts(data') = InsertedTexts(data)
      /\ Ordered(data', start_of_head)
  BY <1>1, <1>2, <1>4, OrderPieces DEF Typed, Inserting
<1> QED BY <1>1, <1>2, <1>3, <1>5 DEF Inserting

-----------------------------------------------------------------------------
(* The theorems.                                                           *)

\* While the page is parsed its patches replace what is unwanted only, and once
\* they are sorted they cover all of it that get_patched has not passed.
THEOREM Invariance ==
  Spec => []Invariant
<1>1. Init => Invariant
  <2> SUFFICES ASSUME Init PROVE Invariant
    OBVIOUS
  <2>1. Typed
    BY PagesAssumption DEF Init, Typed
  <2>2. Pending({})
    BY DEF Init, Pending
  <2>3. Parsing
    <3>1. ToSet(patches) = {}
      BY DEF Init, ToSet
    <3> QED BY <2>2, <3>1 DEF Init, Parsing
  <2> QED BY <2>1, <2>3 DEF Init, Invariant, Patching, Patched
<1>2. Invariant /\ [Next]_vars => Invariant'
  <2> SUFFICES ASSUME Invariant, [Next]_vars PROVE Invariant'
    OBVIOUS
  <2>1. Typed /\ Parsing /\ Patching /\ Patched
    BY DEF Invariant
  <2>2. CASE VisitRoot \/ Visit
    BY <2>1, <2>2, VisitStep
  <2>3. CASE Inject
    BY <2>1, <2>3, InjectStep
  <2>4. CASE ApplyPatch \/ SkipPatch
    BY <2>1, <2>4, PatchStep
  <2>5. CASE Finish
    BY <2>1, <2>5, FinishStep
  <2>6. CASE UNCHANGED vars
    <3>1. /\ UNCHANGED <<page, options, stack, start_of_head, base_url, patches, phase, pos, data>>
          /\ \A tags : Places(tags)' = Places(tags)
          /\ \A p : Region(p)' <=> Region(p)
          /\ \A at : HeadPlace(at)' <=> HeadPlace(at)
          /\ End' = End /\ Unwanted' = Unwanted
      BY <2>6, FixedPage DEF vars
    <3>2. \A i : Seen(i)' <=> Seen(i)
      BY <3>1 DEF Seen, PatchesOf
    <3>3. \A visited : Pending(visited)' <=> Pending(visited)
      BY <3>1, <3>2 DEF Pending
    <3>4. \A d, to : Kept(d, to)' <=> Kept(d, to)
      BY <3>1 DEF Kept
    <3>5. Typed'
      BY <2>1, <3>1 DEF Typed
    <3>6. Parsing'
      BY <2>1, <3>1, <3>3 DEF Parsing, HeadPlace
    <3>7. Patching'
      BY <2>1, <3>1 DEF Patching, Kept
    <3>8. Patched'
      BY <2>1, <3>1 DEF Patched, Kept
    <3> QED BY <3>5, <3>6, <3>7, <3>8 DEF Invariant
  <2> QED BY <2>2, <2>3, <2>4, <2>5, <2>6 DEF Next
<1> QED BY <1>1, <1>2, PTL DEF Spec

\* The patched page has all the rest of the page in order and nothing that is
\* unwanted, whatever patches coincide, overlap or repeat.
THEOREM AlwaysKept ==
  Spec => []PageIsKept
<1>1. Invariant => PageIsKept
  <2> SUFFICES ASSUME Typed, phase = "done", Kept(data, End + 1)
               PROVE  LET kept == {i \in DOMAIN data : data[i][1] # 0}
                      IN /\ {data[i][1] : i \in kept} = (1..End) \ Unwanted
                         /\ \A i, j \in kept : i < j => data[i][1] < data[j][1]
    BY DEF Invariant, Patched, PageIsKept
  <2> DEFINE kept == {i \in DOMAIN data : data[i][1] # 0}
             to == End + 1
  <2>1. 1..to - 1 = 1..End
    BY EndProperties, ElementType DEF Typed, WellFormed
  <2>2. Kept(data, to)
    OBVIOUS
  <2> HIDE DEF to
  <2>3. /\ \A i \in kept : data[i][1] \in (1..End) \ Unwanted
        /\ \A x \in 1..End : x \notin Unwanted => \E i \in DOMAIN data : data[i][1] = x
    BY <2>1, <2>2, Zenon DEF Kept
  <2>4. \A i, j \in kept : i < j => data[i][1] < data[j][1]
    BY <2>2 DEF Kept
  <2>5. {data[i][1] : i \in kept} = (1..End) \ Unwanted
    <3>1. \A x \in 1..End : x # 0
      BY EndProperties, ElementType DEF Typed, WellFormed
    <3>2. \A x \in (1..End) \ Unwanted : \E i \in kept : data[i][1] = x
      BY <2>3, <3>1
    <3> HIDE DEF kept
    <3> QED BY <2>3, <3>2
  <2> QED BY <2>4, <2>5
<1> QED BY <1>1, Invariance, PTL

\* What is to be injected is either in the patched page at the head or among
\* the patches that are left, and get_patched does not pass the head before.
THEOREM InsertingInvariance ==
  Spec => []Inserting
<1>1. Init => Inserting
  BY DEF Init, Inserting
<1>2. Invariant /\ Inserting /\ [Next]_vars => Inserting'
  <2> SUFFICES ASSUME Invariant, Inserting, [Next]_vars PROVE Inserting'
    OBVIOUS
  <2>1. Typed /\ Parsing /\ Patching
    BY DEF Invariant
  <2>2. CASE VisitRoot \/ Visit
    BY <2>2 DEF VisitRoot, Visit, Inserting
  <2>3. CASE Inject
    BY <2>1, <2>3, InjectInserts
  <2>4. CASE ApplyPatch \/ SkipPatch
    BY <2>1, <2>4, PatchInserts
  <2>5. CASE Finish
    BY <2>1, <2>5, FinishInserts
  <2>6. CASE UNCHANGED vars
    <3>1. UNCHANGED <<page, options, start_of_head, patches, phase, pos, data>>
      BY <2>6 DEF vars
    <3>2. /\ HeadFound' <=> HeadFound
          /\ HeadPlace(start_of_head)' <=> HeadPlace(start_of_head)
          /\ WantedTexts' = WantedTexts
      BY <3>1, FixedHead
    <3>3. Left' = Left
      BY <3>1 DEF Left
    <3> QED BY <3>1, <3>2, <3>3 DEF Inserting
  <2> QED BY <2>2, <2>3, <2>4, <2>5, <2>6 DEF Next
<1> QED BY <1>1, <1>2, Invariance, PTL DEF Spec

\* The script, and the base tag when it is wanted, are inserted once, where the
\* head begins, in whatever order std::sort puts patches of one position.
THEOREM ScriptAlwaysFirst ==
  Spec => []ScriptComesFirst
<1>1. Inserting => ScriptComesFirst
  <2> SUFFICES ASSUME Inserting, phase = "done", HeadFound PROVE ScriptComesFirst
    BY DEF ScriptComesFirst, HeadFound
  <2> DEFINE inserted == {i \in DOMAIN data : data[i][2] \in {"script", "base tag"}}
  <2>1. inserted = InsertedIn(data)
    BY DEF InsertedIn, Injectable
  <2>2. /\ {data[i][2] : i \in inserted} = WantedTexts
        /\ \A i, j \in inserted : data[i][2] = data[j][2] => i = j
        /\ \A i \in inserted, j \in DOMAIN data :
             data[j][1] # 0 => (i < j <=> data[j][1] >= start_of_head)
    <3> HIDE DEF inserted
    <3>1. Left = {} /\ WantedTexts = InsertedTexts(data) \cup {p.text : p \in Left}
          /\ Ordered(data, start_of_head)
      BY DEF Inserting
    <3> QED BY <2>1, <3>1 DEF InsertedTexts, Ordered
  <2> QED BY <2>2 DEF ScriptComesFirst, WantedTexts
<1> QED BY <1>1, InsertingInvariance, PTL
=============================================================================
