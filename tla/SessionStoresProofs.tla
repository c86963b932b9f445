-------------------------- MODULE SessionStoresProofs --------------------------
(***************************************************************************)
(* Theorems about SessionStores for any hosts, URLs, cookies and headers:  *)
(* no cached list is stale, and whatever the stores hold comes back from   *)
(* the texts in the archive.  First each single line comes back, then the  *)
(* lines of one host or page, one after the other, then those of all.      *)
(***************************************************************************)
EXTENDS SessionStores, SequenceTheorems, FiniteSetTheorems, WellFoundedInduction, TLAPS

-----------------------------------------------------------------------------
(* The cache of cookie lists.                                              *)

\* Setting a cookie changes the list of its host only.
LEMMA OtherListsRemain ==
  ASSUME NEW h, NEW c, Set(h, c), NEW g, g # h
  PROVE  BuildCookiesList(g)' = BuildCookiesList(g)
<1>1. Lookup(cookies', g) = Lookup(cookies, g)
  BY DEF Set, Assign, Lookup
<1> QED BY <1>1 DEF BuildCookiesList

\* No list that a request is forwarded with has a cookie that was replaced
\* since, whatever cookies hosts set and in whatever order lists are asked for.
THEOREM CacheAlwaysFresh == Spec => []CacheIsFresh
<1>1. Init => CacheIsFresh
  BY DEF Init, CacheIsFresh, Empty
<1>2. CacheIsFresh /\ [Next]_vars => CacheIsFresh'
  <2> SUFFICES ASSUME CacheIsFresh, [Next]_vars,
                      NEW g \in DOMAIN cache'
               PROVE  cache'[g] = BuildCookiesList(g)'
    BY DEF CacheIsFresh
  <2>1. ASSUME UNCHANGED <<cookies, cache>>
        PROVE  cache'[g] = BuildCookiesList(g)'
    BY <2>1 DEF CacheIsFresh, BuildCookiesList
  <2>2. ASSUME NEW h \in Host, NEW c \in Cookie, Set(h, c)
        PROVE  cache'[g] = BuildCookiesList(g)'
    <3>1. g # h /\ g \in DOMAIN cache /\ cache'[g] = cache[g]
      BY <2>2 DEF Set
    <3>2. BuildCookiesList(g)' = BuildCookiesList(g)
      BY <2>2, <3>1, OtherListsRemain
    <3> QED BY <3>1, <3>2 DEF CacheIsFresh
  <2>3. ASSUME NEW h \in Host, GetCookiesList(h)
        PROVE  cache'[g] = BuildCookiesList(g)'
    <3>1. BuildCookiesList(g)' = BuildCookiesList(g)
      BY <2>3 DEF GetCookiesList, BuildCookiesList
    <3>2. cache' = Emplace(cache, h, BuildCookiesList(h))
      BY <2>3 DEF GetCookiesList
    <3>3. CASE h \in DOMAIN cache
      BY <3>1, <3>2, <3>3 DEF Emplace, CacheIsFresh
    <3>4. CASE h \notin DOMAIN cache
      BY <3>1, <3>2, <3>4 DEF Emplace, Assign, CacheIsFresh
    <3> QED BY <3>3, <3>4
  <2>4. CASE Initialize
    BY <2>4 DEF Initialize, Empty
  <2>5. ASSUME NEW u, NEW e, Write(u, e)
        PROVE  cache'[g] = BuildCookiesList(g)'
    BY <2>1, <2>5 DEF Write
  <2>6. CASE Finish \/ UNCHANGED vars
    BY <2>1, <2>6 DEF Finish, vars
  <2> QED BY <2>2, <2>3, <2>4, <2>5, <2>6 DEF Next
<1> QED BY <1>1, <1>2, PTL DEF Spec

-----------------------------------------------------------------------------
(* Where a separator is found.                                             *)

\* A set of numbers that is not empty has a least element, which Min finds.
LEMMA MinIsLeast ==
  ASSUME NEW S \in SUBSET Nat, S # {}
  PROVE  Min(S) \in S /\ \A n \in S : Min(S) <= n
<1> DEFINE Less == {p \in Nat \X Nat : p[1] < p[2]}
<1>1. IsWellFoundedOn(Less, Nat)
  BY NatLessThanWellFounded, Zenon DEF OpToRel
<1>2. \A m, n \in Nat : <<n, m>> \notin Less => m <= n
  OBVIOUS
<1> HIDE DEF Less
<1>3. PICK m \in S : \A n \in S : ~(<<n, m>> \in Less)
  BY <1>1, WFMin
<1>4. \A n \in S : m <= n
  BY <1>2, <1>3
<1> QED BY <1>4 DEF Min

\* The tokens; the provers do not know what strings there are.
Token == STRING \cup {"tab", "space", "eq", "colon"}

\* A sequence of strings is one of tokens.
LEMMA TokenSeq == \A s \in Seq(STRING) : s \in Seq(Token)
<1> SUFFICES ASSUME NEW s \in Seq(STRING) PROVE s \in Seq(Token)
  OBVIOUS
<1>1. STRING \subseteq Token
  BY DEF Token
<1> QED BY <1>1, SeqMonotonic

\* Position is the first place of a token.
LEMMA FirstPosition ==
  ASSUME NEW s, Len(s) \in Nat, NEW token, NEW i \in 1..Len(s),
         s[i] = token, \A j \in 1..i - 1 : s[j] # token
  PROVE  Position(s, token) = i
<1> DEFINE I == {j \in 1..Len(s) : s[j] = token}
<1>1. I \in SUBSET Nat /\ I # {} /\ i \in I
  OBVIOUS
<1>2. Min(I) \in I /\ Min(I) <= i
  BY <1>1, MinIsLeast
<1>3. Min(I) = i
  BY <1>2
<1> QED BY <1>1, <1>3 DEF Position, SelectInSeq

\* What stands before the first separator of a string has no separator.
LEMMA UntilHasNone ==
  ASSUME NEW s \in Seq(Token), NEW token
  PROVE  Until(s, token) \in Seq(Token) /\ token \notin Range(Until(s, token))
<1>1. CASE ~Contains(s, token)
  BY <1>1 DEF Until, Contains, Range
<1>2. CASE Contains(s, token)
  <2> DEFINE I == {j \in 1..Len(s) : s[j] = token}
             p == Position(s, token)
  <2>1. I \in SUBSET Nat /\ I # {}
    BY <1>2 DEF Contains
  <2>2. p = Min(I)
    BY <2>1 DEF Position, SelectInSeq
  <2> HIDE DEF p
  <2>3. p \in 1..Len(s) /\ \A j \in 1..p - 1 : s[j] # token
    <3>1. p \in I /\ \A j \in I : p <= j
      BY <2>1, <2>2, MinIsLeast
    <3> QED BY <3>1
  <2>4. Until(s, token) = SubSeq(s, 1, p - 1)
    BY <1>2 DEF Until, Before, p
  <2>5. \A j \in 1..p - 1 : s[j] \in Token
    BY <2>3, ElementOfSeq
  <2>6. /\ SubSeq(s, 1, p - 1) \in Seq(Token)
        /\ Len(SubSeq(s, 1, p - 1)) = p - 1
        /\ \A j \in 1..p - 1 : SubSeq(s, 1, p - 1)[j] = s[j]
    BY <2>3, <2>5, SubSeqProperties
  <2>7. DOMAIN SubSeq(s, 1, p - 1) = 1..p - 1
    BY <2>6, LenProperties
  <2> QED BY <2>3, <2>4, <2>6, <2>7 DEF Range
<1> QED BY <1>1, <1>2

\* An indented line is divided where it was put together, when its key does
\* not contain the separator; its value may.
LEMMA IndentedIsDivided ==
  ASSUME NEW key \in Seq(Token), NEW separator \in Token, separator # "tab",
         NEW value \in Seq(Token), separator \notin Range(key),
         NEW line, line = Indented(key, separator, value)
  PROVE  /\ line \in Seq(Token)
         /\ ~HeadLine(line)
         /\ Contains(line, separator)
         /\ SubSeq(line, 2, Position(line, separator) - 1) = key
         /\ After(line, Position(line, separator)) = value
<1> DEFINE n == Len(key)
<1> DEFINE head == <<"tab">> \o key
             label == head \o <<separator>>
<1>1. /\ n \in Nat /\ Len(value) \in Nat
      /\ line = label \o value
  BY LenProperties DEF Indented
<1>2. <<"tab">> \in Seq(Token) /\ <<separator>> \in Seq(Token)
  <2>1. "tab" \in Token
    BY DEF Token
  <2> QED BY <2>1
<1>3. /\ head \in Seq(Token) /\ Len(head) = n + 1
      /\ head[1] = "tab"
      /\ \A j \in 1..n : head[j + 1] = key[j]
  <2>1. /\ head \in Seq(Token) /\ Len(head) = Len(<<"tab">>) + n
        /\ \A j \in 1..Len(<<"tab">>) + n :
             head[j] = IF j <= Len(<<"tab">>) THEN <<"tab">>[j] ELSE key[j - Len(<<"tab">>)]
    BY <1>2, ConcatProperties
  <2>2. Len(<<"tab">>) = 1 /\ <<"tab">>[1] = "tab"
    OBVIOUS
  <2> QED BY <1>1, <2>1, <2>2
<1> HIDE DEF n, head
<1>4. /\ label \in Seq(Token) /\ Len(label) = n + 2
      /\ \A j \in 1..n + 1 : label[j] = head[j]
      /\ label[n + 2] = separator
  <2>1. /\ label \in Seq(Token) /\ Len(label) = Len(head) + Len(<<separator>>)
        /\ \A j \in 1..Len(head) + Len(<<separator>>) :
             label[j] = IF j <= Len(head) THEN head[j] ELSE <<separator>>[j - Len(head)]
    BY <1>2, <1>3, ConcatProperties
  <2>2. Len(<<separator>>) = 1 /\ <<separator>>[1] = separator
    OBVIOUS
  <2> QED BY <1>1, <1>3, <2>1, <2>2
<1> HIDE DEF label
<1>5. /\ line \in Seq(Token) /\ Len(line) = n + 2 + Len(value)
      /\ \A j \in 1..n + 2 : line[j] = label[j]
      /\ \A j \in 1..Len(value) : line[j + n + 2] = value[j]
  <2> DEFINE l == label \o value
  <2>1. /\ l \in Seq(Token) /\ Len(l) = Len(label) + Len(value)
        /\ \A j \in 1..Len(label) + Len(value) :
             l[j] = IF j <= Len(label) THEN label[j] ELSE value[j - Len(label)]
    BY <1>4, ConcatProperties
  <2> QED BY <1>1, <1>4, <2>1
<1>6. /\ line[1] = "tab" /\ line[n + 2] = separator
      /\ \A j \in 1..n : line[j + 1] = key[j]
  BY <1>1, <1>3, <1>4, <1>5
<1>7. Position(line, separator) = n + 2
  <2>1. \A j \in 1..n : key[j] # separator
    BY DEF Range, n
  <2>2. ASSUME NEW j \in 1..n + 1 PROVE line[j] # separator
    <3>1. CASE j = 1
      BY <1>6, <3>1
    <3>2. CASE j # 1
      <4>1. j - 1 \in 1..n /\ (j - 1) + 1 = j
        BY <1>1, <3>2
      <4> QED BY <1>6, <2>1, <4>1
    <3> QED BY <3>1, <3>2
  <2>3. n + 2 \in 1..Len(line) /\ (n + 2) - 1 = n + 1 /\ Len(line) \in Nat
    BY <1>1, <1>5
  <2> QED BY <1>6, <2>2, <2>3, FirstPosition
<1>8. SubSeq(line, 2, n + 1) = key
  <2> DEFINE middle == SubSeq(line, 2, n + 1)
  <2>1. \A j \in 2..n + 1 : line[j] \in Token
    BY <1>1, <1>5, ElementOfSeq
  <2>2. 2 \in Int /\ n + 1 \in Int /\ (n + 1) - 2 + 1 = n
    BY <1>1
  <2>3. /\ middle \in Seq(Token)
        /\ Len(middle) = IF 2 <= n + 1 THEN (n + 1) - 2 + 1 ELSE 0
        /\ \A j \in 1..(n + 1) - 2 + 1 : middle[j] = line[2 + j - 1]
    BY <2>1, <2>2, SubSeqProperties
  <2> HIDE DEF middle
  <2>4. Len(middle) = n
    BY <1>1, <2>2, <2>3
  <2>5. ASSUME NEW j \in 1..n PROVE middle[j] = key[j]
    <3>1. 2 + j - 1 = j + 1
      BY <1>1
    <3> QED BY <1>6, <2>2, <2>3, <3>1
  <2>6. middle = key
    BY <2>3, <2>4, <2>5, SeqEqual DEF n
  <2> QED BY <2>6 DEF middle
<1>9. SubSeq(line, n + 3, Len(line)) = value
  <2> DEFINE rest == SubSeq(line, n + 3, Len(line))
  <2>1. \A j \in n + 3..Len(line) : line[j] \in Token
    BY <1>1, <1>5, ElementOfSeq
  <2>2. n + 3 \in Int /\ Len(line) \in Int
    BY <1>1, <1>5
  <2>3. /\ rest \in Seq(Token)
        /\ Len(rest) = IF n + 3 <= Len(line) THEN Len(line) - (n + 3) + 1 ELSE 0
        /\ \A j \in 1..Len(line) - (n + 3) + 1 : rest[j] = line[n + 3 + j - 1]
    BY <2>1, <2>2, SubSeqProperties
  <2> HIDE DEF rest
  <2>4. Len(rest) = Len(value) /\ Len(line) - (n + 3) + 1 = Len(value)
    BY <1>1, <1>5, <2>3
  <2>5. ASSUME NEW j \in 1..Len(value) PROVE rest[j] = value[j]
    <3>1. n + 3 + j - 1 = j + n + 2
      BY <1>1
    <3> QED BY <1>5, <2>3, <2>4, <3>1
  <2>6. rest = value
    BY <2>3, <2>4, <2>5, SeqEqual
  <2> QED BY <2>6 DEF rest
<1>10. (n + 2) - 1 = n + 1 /\ (n + 2) + 1 = n + 3
  BY <1>1, <1>7
<1>11. ~HeadLine(line) /\ Contains(line, separator)
  BY <1>1, <1>5, <1>6 DEF HeadLine, Contains
<1> QED BY <1>5, <1>7, <1>8, <1>9, <1>10, <1>11 DEF After

-----------------------------------------------------------------------------
(* The lines of the archived texts.                                        *)

\* Keys and values of cookies are sequences of tokens, and no key has a "=".
LEMMA CookieParts ==
  ASSUME NEW c \in Cookie, NEW d \in Cookie
  PROVE  /\ CookieKey(c) \in Seq(Token) /\ "eq" \notin Range(CookieKey(c))
         /\ CookieValue(d) \in Seq(Token)
<1>1. c \in Seq(Token) /\ d \in Seq(Token)
  BY StoresAssumption, TokenSeq
<1>2. CookieKey(c) \in Seq(Token) /\ "eq" \notin Range(CookieKey(c))
  BY <1>1, UntilHasNone DEF CookieKey
<1>3. CookieValue(d) \in Seq(Token)
  <2> DEFINE p == Position(d, "eq")
  <2>1. p \in Nat
    <3> DEFINE I == {j \in 1..Len(d) : d[j] = "eq"}
    <3>1. I \in SUBSET Nat
      OBVIOUS
    <3>2. p = IF I # {} THEN Min(I) ELSE 0
      BY DEF Position, SelectInSeq
    <3> HIDE DEF I, p
    <3> QED BY <3>1, <3>2, MinIsLeast
  <2> HIDE DEF p
  <2>2. \A j \in p + 1..Len(d) : d[j] \in Token
    BY <1>1, <2>1, ElementOfSeq, LenProperties
  <2>3. SubSeq(d, p + 1, Len(d)) \in Seq(Token)
    BY <1>1, <2>1, <2>2, SubSeqProperties, LenProperties
  <2> QED BY <2>3 DEF CookieValue, After, p
<1> QED BY <1>2, <1>3

\* CookieStore: the line of a cookie is read back as the same cookie with all
\* its attributes, also when its value contains "=" or the cookie has none.
THEOREM CookieLinesReturn ==
  \A c, d \in Cookie :
    LET line == Indented(CookieKey(c), "eq", CookieValue(d))
    IN /\ ~HeadLine(line) /\ Contains(line, "eq")
       /\ CookieLine(line) = <<CookieKey(c), CookieValue(d)>>
<1> SUFFICES ASSUME NEW c \in Cookie, NEW d \in Cookie,
                    NEW line, line = Indented(CookieKey(c), "eq", CookieValue(d))
             PROVE  /\ ~HeadLine(line) /\ Contains(line, "eq")
                    /\ CookieLine(line) = <<CookieKey(c), CookieValue(d)>>
  OBVIOUS
<1>1. /\ CookieKey(c) \in Seq(Token) /\ "eq" \notin Range(CookieKey(c))
      /\ CookieValue(d) \in Seq(Token)
  BY CookieParts
<1>2. /\ ~HeadLine(line) /\ Contains(line, "eq")
      /\ SubSeq(line, 2, Position(line, "eq") - 1) = CookieKey(c)
      /\ After(line, Position(line, "eq")) = CookieValue(d)
  <2>1. "eq" \in Token /\ "eq" # "tab"
    BY DEF Token
  <2> QED BY <1>1, <2>1, IndentedIsDivided
<1> QED BY <1>2 DEF CookieLine

\* So are the names and values of header fields, and no name has a colon.
LEMMA FieldParts ==
  ASSUME NEW e \in HeaderEntry, NEW field \in e.header
  PROVE  /\ field[1] \in Seq(Token) /\ field[2] \in Seq(Token) /\ "colon" \notin Range(field[1])
         /\ field = <<field[1], field[2]>>
<1> DEFINE Status == STRING \ {"tab", "space"}
           Fields == SUBSET (Seq(STRING) \X Seq(STRING))
<1>1. e \in [status : Status, header : Fields]
  BY StoresAssumption
<1> HIDE DEF Status
<1>2. field \in Seq(STRING) \X Seq(STRING)
  BY <1>1
<1>3. "colon" \notin Range(field[1])
  BY StoresAssumption
<1>4. field \in Seq(Token) \X Seq(Token)
  BY <1>2, TokenSeq
<1> QED BY <1>3, <1>4

\* HeaderStore: the line of a header is read back with the same name and
\* value, also when the value contains colons, as that of Location does.
THEOREM HeaderLinesReturn ==
  \A e \in HeaderEntry : \A field \in e.header :
    LET line == Indented(field[1], "colon", field[2])
    IN /\ ~HeadLine(line) /\ Contains(line, "colon")
       /\ HeaderLine(line) = field
<1> SUFFICES ASSUME NEW e \in HeaderEntry, NEW field \in e.header,
                    NEW line, line = Indented(field[1], "colon", field[2])
             PROVE  /\ ~HeadLine(line) /\ Contains(line, "colon")
                    /\ HeaderLine(line) = field
  OBVIOUS
<1>1. /\ field[1] \in Seq(Token) /\ field[2] \in Seq(Token) /\ "colon" \notin Range(field[1])
      /\ field = <<field[1], field[2]>>
  BY FieldParts
<1>2. /\ ~HeadLine(line) /\ Contains(line, "colon")
      /\ SubSeq(line, 2, Position(line, "colon") - 1) = field[1]
      /\ After(line, Position(line, "colon")) = field[2]
  <2>1. "colon" \in Token /\ "colon" # "tab"
    BY DEF Token
  <2> QED BY <1>1, <2>1, IndentedIsDivided
<1> QED BY <1>1, <1>2 DEF HeaderLine

\* HeaderStore: the line of a URL is read back as that URL with its status;
\* the line of a host is told from those of its cookies.
THEOREM HeadLinesReturn ==
  /\ \A h \in Host : HeadLine(h)
  /\ \A u \in Url, e \in HeaderEntry :
       LET line == <<e.status, "space">> \o u
       IN /\ HeadLine(line)
          /\ line[1] = e.status
          /\ After(line, Position(line, "space")) = u
<1>1. \A h \in Host : HeadLine(h)
  BY StoresAssumption DEF HeadLine
<1>2. ASSUME NEW u \in Url, NEW e \in HeaderEntry,
             NEW line, line = <<e.status, "space">> \o u
      PROVE  /\ HeadLine(line)
             /\ line[1] = e.status
             /\ After(line, Position(line, "space")) = u
  <2>1. u \in Seq(Token) /\ e.status \in Token \ {"tab", "space"}
    BY StoresAssumption, TokenSeq DEF Token
  <2>2. <<e.status, "space">> \in Seq(Token)
    <3>1. e.status \in Token /\ "space" \in Token
      BY <2>1 DEF Token
    <3> QED BY <3>1
  <2>3. /\ line \in Seq(Token) /\ Len(u) \in Nat
        /\ Len(line) = 2 + Len(u)
        /\ line[1] = e.status /\ line[2] = "space"
        /\ \A j \in 1..Len(u) : line[j + 2] = u[j]
    BY <1>2, <2>1, <2>2, ConcatProperties, LenProperties
  <2>4. Position(line, "space") = 2
    BY <2>1, <2>3, FirstPosition
  <2>5. \A j \in 3..Len(line) : line[j] \in Token
    BY <2>3, ElementOfSeq
  <2>6. /\ SubSeq(line, 3, Len(line)) \in Seq(Token)
        /\ Len(SubSeq(line, 3, Len(line))) = Len(u)
        /\ \A j \in 1..Len(u) : SubSeq(line, 3, Len(line))[j] = line[j + 2]
    BY <2>3, <2>5, SubSeqProperties
  <2>7. SubSeq(line, 3, Len(line)) = u
    BY <2>1, <2>3, <2>6, SeqEqual
  <2> QED BY <2>1, <2>3, <2>4, <2>7 DEF HeadLine, After
<1> QED BY <1>1, <1>2

-----------------------------------------------------------------------------
(* The order in which a store is written.                                  *)

\* Each element of a finite set is listed, and listed once.
LEMMA ListedOnce ==
  ASSUME NEW S, IsFiniteSet(S)
  PROVE  /\ Cardinality(S) \in Nat
         /\ SetToSeq(S) \in [1..Cardinality(S) -> S]
         /\ SetToSeq(S) \in Seq(S) /\ Len(SetToSeq(S)) = Cardinality(S)
         /\ \A i, j \in 1..Cardinality(S) : SetToSeq(S)[i] = SetToSeq(S)[j] => i = j
         /\ \A x \in S : \E i \in 1..Cardinality(S) : SetToSeq(S)[i] = x
<1> DEFINE n == Cardinality(S)
           s == SetToSeq(S)
<1>1. n \in Nat /\ ExistsBijection(1..n, S)
  BY FS_CardinalityType
<1>2. \E f \in [1..n -> S] : IsInjective(f)
  BY <1>1 DEF ExistsBijection, Bijection, Injection
<1>3. s \in [1..n -> S] /\ IsInjective(s)
  BY <1>2, Zenon DEF SetToSeq
<1> HIDE DEF s
<1>4. s \in Injection(1..n, S)
  BY <1>3 DEF Injection
<1>5. IsFiniteSet(1..n) /\ Cardinality(1..n) = n
  BY <1>1, FS_Interval
<1>6. s \in Surjection(1..n, S)
  BY <1>4, <1>5, FS_Injection
<1>7. \A x \in S : \E i \in 1..n : s[i] = x
  BY <1>6 DEF Surjection
<1>8. \A i, j \in 1..n : s[i] = s[j] => i = j
  BY <1>3 DEF IsInjective
<1>9. s \in Seq(S) /\ Len(s) = n
  BY <1>1, <1>3
<1> QED BY <1>1, <1>3, <1>7, <1>8, <1>9 DEF s

-----------------------------------------------------------------------------
(* Going through the lines of a text, or the parts of one.                 *)

\* One step: a line of cookies (1) or of headers (2) is read, or a part is
\* appended to a text (3).
Reading(kind, s, item) ==
  IF kind = 1 THEN ReadCookieLine(s, item)
  ELSE IF kind = 2 THEN ReadHeaderLine(s, item)
  ELSE s \o item

\* f says what x has become after each number of the first n items.
Follows(f, n, kind, x, items) ==
  f = [i \in 0..n |-> IF i = 0 THEN x ELSE Reading(kind, f[i - 1], items[i])]

\* What a function that goes through the items has made of each number of them.
LEMMA FollowsValues ==
  ASSUME NEW n \in Nat, NEW kind, NEW x, NEW items, NEW f, Follows(f, n, kind, x, items)
  PROVE  f[0] = x /\ \A i \in 1..n : f[i] = Reading(kind, f[i - 1], items[i])
<1>1. \A i \in 0..n : f[i] = IF i = 0 THEN x ELSE Reading(kind, f[i - 1], items[i])
  BY Zenon DEF Follows
<1>2. 0 \in 0..n /\ \A i \in 1..n : i \in 0..n /\ i # 0
  OBVIOUS
<1> QED BY <1>1, <1>2

\* There is such a function ...
LEMMA SomeFollows ==
  ASSUME NEW n \in Nat, NEW kind, NEW x, NEW items
  PROVE  \E f : Follows(f, n, kind, x, items)
<1> DEFINE Some(m) == \E f : Follows(f, m, kind, x, items)
           without == {m \in 0..n : ~Some(m)}
<1>1. Some(0)
  <2> DEFINE g == [i \in 0..0 |-> x]
  <2>1. \A i \in 0..0 : i = 0
    OBVIOUS
  <2>2. g = [i \in 0..0 |-> IF i = 0 THEN x ELSE Reading(kind, g[i - 1], items[i])]
    BY <2>1, Zenon
  <2> QED BY <2>2, Zenon DEF Follows
<1>2. ASSUME NEW m \in 1..n, Some(m - 1)
      PROVE  Some(m)
  <2>1. PICK f : Follows(f, m - 1, kind, x, items)
    BY <1>2
  <2> DEFINE g == [i \in 0..m |-> IF i = m THEN Reading(kind, f[m - 1], items[m]) ELSE f[i]]
  <2>2. m - 1 \in Nat /\ m # 0
    OBVIOUS
  <2>3. f[0] = x /\ \A i \in 1..m - 1 : f[i] = Reading(kind, f[i - 1], items[i])
    BY <2>1, <2>2, FollowsValues
  <2>4. ASSUME NEW i \in 0..m
        PROVE  g[i] = IF i = 0 THEN x ELSE Reading(kind, g[i - 1], items[i])
    <3>1. CASE i = 0
      BY <2>2, <2>3, <3>1
    <3>2. CASE i # 0
      <4>1. i - 1 \in 0..m /\ i - 1 # m
        BY <3>2
      <4>2. g[i - 1] = f[i - 1]
        BY <4>1
      <4>3. i # m => i \in 1..m - 1 /\ g[i] = f[i]
        BY <3>2
      <4>4. i = m => g[i] = Reading(kind, f[m - 1], items[m])
        OBVIOUS
      <4> HIDE DEF g
      <4> QED BY <2>3, <3>2, <4>2, <4>3, <4>4
    <3> QED BY <3>1, <3>2
  <2>5. g = [i \in 0..m |-> g[i]]
    OBVIOUS
  <2> HIDE DEF g
  <2>6. Follows(g, m, kind, x, items)
    BY <2>4, <2>5, Zenon DEF Follows
  <2> QED BY <2>6
<1> HIDE DEF Some
<1>3. without = {}
  <2> SUFFICES ASSUME without # {} PROVE FALSE
    OBVIOUS
  <2>1. without \in SUBSET Nat
    OBVIOUS
  <2>2. PICK m \in without : \A k \in without : m <= k
    BY <2>1, MinIsLeast
  <2>3. m \in 0..n /\ ~Some(m)
    OBVIOUS
  <2>4. m \in 1..n /\ m - 1 \in 0..n /\ m - 1 < m
    BY <1>1, <2>3
  <2>5. Some(m - 1)
    BY <2>2, <2>4
  <2> QED BY <1>2, <2>3, <2>4, <2>5
<1>4. n \in 0..n
  OBVIOUS
<1> QED BY <1>3, <1>4 DEF Some

\* ... and what it makes of items depends on no others.
LEMMA FollowsAlike ==
  ASSUME NEW m \in Nat, NEW n \in Nat, m <= n, NEW kind, NEW x, NEW items, NEW others,
         NEW f, NEW g, Follows(f, m, kind, x, items), Follows(g, n, kind, x, others),
         \A i \in 1..m : items[i] = others[i]
  PROVE  f[m] = g[m]
<1> DEFINE different == {i \in 0..m : f[i] # g[i]}
<1>1. f[0] = x /\ \A i \in 1..m : f[i] = Reading(kind, f[i - 1], items[i])
  BY FollowsValues
<1>2. g[0] = x /\ \A i \in 1..n : g[i] = Reading(kind, g[i - 1], others[i])
  BY FollowsValues
<1>3. different = {}
  <2> SUFFICES ASSUME different # {} PROVE FALSE
    OBVIOUS
  <2>1. different \in SUBSET Nat
    OBVIOUS
  <2>2. PICK i \in different : \A k \in different : i <= k
    BY <2>1, MinIsLeast
  <2>3. i \in 1..m /\ i \in 1..n /\ i - 1 \in 0..m /\ i - 1 < i /\ f[i] # g[i]
    BY <1>1, <1>2
  <2>4. f[i - 1] = g[i - 1]
    BY <2>2, <2>3
  <2> QED BY <1>1, <1>2, <2>3, <2>4
<1>4. m \in 0..m
  OBVIOUS
<1> QED BY <1>3, <1>4

\* What reading the lines of a text has made of x.
ReadText(kind, x, text) == (CHOOSE f : Follows(f, Len(text), kind, x, text))[Len(text)]

\* That is what any such function makes of all the lines.
LEMMA ReadIsFollowed ==
  ASSUME NEW kind, NEW x, NEW text, Len(text) \in Nat,
         NEW f, Follows(f, Len(text), kind, x, text)
  PROVE  ReadText(kind, x, text) = f[Len(text)]
<1> DEFINE g == CHOOSE h : Follows(h, Len(text), kind, x, text)
<1>1. Follows(g, Len(text), kind, x, text)
  BY Zenon
<1> HIDE DEF g
<1>2. g[Len(text)] = f[Len(text)]
  BY <1>1, FollowsAlike
<1> QED BY <1>2 DEF ReadText, g

\* A text that goes on is read on.
LEMMA ReadOn ==
  ASSUME NEW kind, NEW x, NEW Line, NEW text \in Seq(Line), NEW block \in Seq(Line)
  PROVE  \E g : /\ Follows(g, Len(block), kind, ReadText(kind, x, text), block)
                /\ ReadText(kind, x, text \o block) = g[Len(block)]
<1> DEFINE m == Len(text)
           b == Len(block)
           both == text \o block
<1>1. /\ m \in Nat /\ b \in Nat /\ m + b \in Nat /\ m <= m + b
      /\ both \in Seq(Line) /\ Len(both) = m + b
      /\ \A i \in 1..m : text[i] = both[i]
      /\ \A i \in 1..b : block[i] = both[m + i]
  <2>1. /\ both \in Seq(Line) /\ Len(both) = Len(text) + Len(block)
        /\ \A i \in 1..Len(text) + Len(block) :
             both[i] = IF i <= Len(text) THEN text[i] ELSE block[i - Len(text)]
    BY ConcatProperties
  <2>2. m \in Nat /\ b \in Nat
    BY LenProperties
  <2> HIDE DEF both
  <2>3. \A i \in 1..m : text[i] = both[i]
    BY <2>1, <2>2
  <2>4. ASSUME NEW i \in 1..b PROVE block[i] = both[m + i]
    <3>1. m + i \in 1..m + b /\ ~(m + i <= m) /\ (m + i) - m = i
      BY <2>2
    <3> QED BY <2>1, <3>1
  <2> QED BY <2>1, <2>2, <2>3, <2>4
<1> HIDE DEF m, b, both
<1>2. PICK f : Follows(f, m, kind, x, text)
  BY <1>1, SomeFollows
<1>3. PICK h : Follows(h, m + b, kind, x, both)
  BY <1>1, SomeFollows
<1>4. PICK g : Follows(g, b, kind, ReadText(kind, x, text), block)
  BY <1>1, SomeFollows
<1>5. ReadText(kind, x, text) = f[m] /\ ReadText(kind, x, both) = h[m + b]
  BY <1>1, <1>2, <1>3, ReadIsFollowed DEF m
<1>6. f[m] = h[m]
  BY <1>1, <1>2, <1>3, FollowsAlike
<1>7. g[0] = h[m] /\ \A i \in 1..b : g[i] = Reading(kind, g[i - 1], block[i])
  BY <1>1, <1>4, <1>5, <1>6, FollowsValues
<1>8. \A i \in 1..m + b : h[i] = Reading(kind, h[i - 1], both[i])
  BY <1>1, <1>3, FollowsValues
<1> DEFINE different == {i \in 0..b : g[i] # h[m + i]}
<1>9. different = {}
  <2> SUFFICES ASSUME different # {} PROVE FALSE
    OBVIOUS
  <2>1. different \in SUBSET Nat
    BY <1>1
  <2>2. PICK i \in different : \A k \in different : i <= k
    BY <2>1, MinIsLeast
  <2>3. m + 0 = m
    BY <1>1
  <2>4. i # 0
    BY <1>7, <2>3
  <2>5. /\ i \in 1..b /\ i - 1 \in 0..b /\ i - 1 < i /\ g[i] # h[m + i]
        /\ m + i \in 1..m + b /\ (m + i) - 1 = m + (i - 1)
    BY <1>1, <2>4
  <2>6. g[i - 1] = h[m + (i - 1)]
    BY <2>2, <2>5
  <2>7. h[m + i] = Reading(kind, h[m + (i - 1)], both[m + i])
    BY <1>8, <2>5
  <2> QED BY <1>1, <1>7, <2>5, <2>6, <2>7
<1>10. b \in 0..b
  BY <1>1
<1> QED BY <1>4, <1>5, <1>9, <1>10 DEF b, both

\* Before the first line nothing is known.
NoCookies == [host |-> None, store |-> Empty]
NoHeaders == [url |-> None, store |-> Empty]

\* The three kinds of steps.
LEMMA ReadingKinds ==
  ASSUME NEW s, NEW item
  PROVE  /\ Reading(1, s, item) = ReadCookieLine(s, item)
         /\ Reading(2, s, item) = ReadHeaderLine(s, item)
         /\ Reading(3, s, item) = s \o item
BY SMT DEF Reading

\* CookieStore::deserialize goes through the lines of the text ...
LEMMA CookiesAreRead ==
  ASSUME NEW text, Len(text) \in Nat
  PROVE  DeserializeCookies(text) = ReadText(1, NoCookies, text).store
<1> DEFINE Good(f) == f = [n \in 0..Len(text) |->
                             IF n = 0 THEN NoCookies ELSE ReadCookieLine(f[n - 1], text[n])]
           after == CHOOSE f : Good(f)
<1>1. DeserializeCookies(text) = after[Len(text)].store
  BY Zenon DEF DeserializeCookies, NoCookies
<1>2. ASSUME NEW f PROVE Good(f) <=> Follows(f, Len(text), 1, NoCookies, text)
  BY ReadingKinds, Zenon DEF Follows
<1>3. \E f : Good(f)
  BY <1>2, SomeFollows
<1>4. Good(after)
  BY <1>3, Zenon
<1> HIDE DEF after
<1> QED BY <1>1, <1>2, <1>4, ReadIsFollowed

\* ... and so does HeaderStore::deserialize.
LEMMA HeadersAreRead ==
  ASSUME NEW text, Len(text) \in Nat
  PROVE  DeserializeHeaders(text) = ReadText(2, NoHeaders, text).store
<1> DEFINE Good(f) == f = [n \in 0..Len(text) |->
                             IF n = 0 THEN NoHeaders ELSE ReadHeaderLine(f[n - 1], text[n])]
           after == CHOOSE f : Good(f)
<1>1. DeserializeHeaders(text) = after[Len(text)].store
  BY Zenon DEF DeserializeHeaders, NoHeaders
<1>2. ASSUME NEW f PROVE Good(f) <=> Follows(f, Len(text), 2, NoHeaders, text)
  BY ReadingKinds, Zenon DEF Follows
<1>3. \E f : Good(f)
  BY <1>2, SomeFollows
<1>4. Good(after)
  BY <1>3, Zenon
<1> HIDE DEF after
<1> QED BY <1>1, <1>2, <1>4, ReadIsFollowed

\* A text without lines changes nothing.
LEMMA NothingRead ==
  ASSUME NEW kind, NEW x
  PROVE  ReadText(kind, x, <<>>) = x
<1>1. Len(<<>>) = 0
  OBVIOUS
<1>2. PICK f : Follows(f, 0, kind, x, <<>>)
  BY SomeFollows
<1>3. f[0] = x
  BY <1>2, FollowsValues
<1>4. ReadText(kind, x, <<>>) = f[Len(<<>>)]
  BY <1>1, <1>2, ReadIsFollowed
<1> QED BY <1>1, <1>3, <1>4

\* Parts that are joined are appended one after the other.
LEMMA JoinedInOrder ==
  ASSUME NEW Line, NEW n \in Nat, NEW parts \in [1..n -> Seq(Line)]
  PROVE  \E f \in [0..n -> Seq(Line)] :
           /\ f[0] = <<>> /\ \A i \in 1..n : f[i] = f[i - 1] \o parts[i]
           /\ FlattenSeq(parts) = f[n]
<1>1. parts \in Seq(Seq(Line)) /\ Len(parts) = n
  OBVIOUS
<1> DEFINE empty == <<>>
<1> HIDE DEF empty
<1>2. PICK f : Follows(f, n, 3, empty, parts)
  BY SomeFollows
<1>3. f[0] = <<>> /\ \A i \in 1..n : f[i] = f[i - 1] \o parts[i]
  <2>1. f[0] = empty /\ \A i \in 1..n : f[i] = Reading(3, f[i - 1], parts[i])
    BY <1>2, FollowsValues
  <2>2. \A i \in 1..n : Reading(3, f[i - 1], parts[i]) = f[i - 1] \o parts[i]
    BY ReadingKinds
  <2> QED BY <2>1, <2>2 DEF empty
<1>4. \A i \in 0..n : f[i] \in Seq(Line)
  <2> DEFINE outside == {i \in 0..n : f[i] \notin Seq(Line)}
  <2> SUFFICES ASSUME outside # {} PROVE FALSE
    OBVIOUS
  <2>1. outside \in SUBSET Nat
    OBVIOUS
  <2>2. PICK i \in outside : \A k \in outside : i <= k
    BY <2>1, MinIsLeast
  <2>3. i \in 1..n /\ i - 1 \in 0..n /\ i - 1 < i
    <3>1. f[0] \in Seq(Line) /\ f[i] \notin Seq(Line)
      <4>1. <<>> \in Seq(Line)
        OBVIOUS
      <4> QED BY <1>3, <4>1
    <3>2. i # 0
      BY <3>1
    <3> QED BY <3>2
  <2>4. f[i - 1] \in Seq(Line) /\ parts[i] \in Seq(Line)
    BY <2>2, <2>3
  <2>5. f[i] = f[i - 1] \o parts[i]
    BY <1>3, <2>3
  <2> QED BY <2>4, <2>5, ConcatProperties
<1>5. f = [i \in 0..n |-> f[i]]
  BY <1>2, Zenon DEF Follows
<1>6. f \in [0..n -> Seq(Line)]
  BY <1>4, <1>5
<1>7. FlattenSeq(parts) = f[n]
  <2>1. CASE n = 0
    <3>1. parts = <<>>
      BY <1>1, <2>1, EmptySeq
    <3>2. FlattenSeq(parts) = parts
      BY <1>1, <2>1, Zenon DEF FlattenSeq
    <3> QED BY <1>3, <2>1, <3>1, <3>2
  <2>2. CASE n # 0
    <3> DEFINE Good(h) == h = [i \in 1..Len(parts) |-> IF i = 1 THEN parts[i] ELSE h[i - 1] \o parts[i]]
               g == [i \in 1..n |-> f[i]]
               h0 == CHOOSE h : Good(h)
    <3>1. FlattenSeq(parts) = h0[Len(parts)]
      BY <1>1, <2>2, Zenon DEF FlattenSeq
    <3>2. ASSUME NEW i \in 1..n
          PROVE  g[i] = IF i = 1 THEN parts[i] ELSE g[i - 1] \o parts[i]
      <4>1. g[i] = f[i] /\ f[i] = f[i - 1] \o parts[i]
        BY <1>3
      <4>2. CASE i = 1
        <5>1. f[i - 1] = <<>> /\ parts[i] \in Seq(Line)
          BY <1>3, <4>2
        <5>2. <<>> \o parts[i] = parts[i]
          BY <5>1
        <5> QED BY <4>1, <4>2, <5>1, <5>2
      <4>3. CASE i # 1
        <5>1. i - 1 \in 1..n
          BY <4>3
        <5>2. g[i - 1] = f[i - 1]
          BY <5>1
        <5> HIDE DEF g
        <5> QED BY <4>1, <4>3, <5>2
      <4> QED BY <4>2, <4>3
    <3>3. g = [i \in 1..n |-> g[i]]
      OBVIOUS
    <3> HIDE DEF g
    <3>4. Good(g)
      BY <1>1, <3>2, <3>3, Zenon
    <3>5. Good(h0)
      BY <3>4, Zenon
    <3> HIDE DEF h0
    <3>6. \A i \in 1..n : h0[i] = IF i = 1 THEN parts[i] ELSE h0[i - 1] \o parts[i]
      BY <1>1, <3>5, Zenon
    <3> HIDE DEF Good
    <3> DEFINE different == {i \in 1..n : h0[i] # g[i]}
    <3>7. different = {}
      <4> SUFFICES ASSUME different # {} PROVE FALSE
        OBVIOUS
      <4>1. different \in SUBSET Nat
        OBVIOUS
      <4>2. PICK i \in different : \A k \in different : i <= k
        BY <4>1, MinIsLeast
      <4>3. i \in 1..n /\ h0[i] # g[i] /\ i - 1 < i
        OBVIOUS
      <4>4. i # 1
        BY <3>2, <3>6, <4>3
      <4>5. i - 1 \in 1..n
        BY <4>3, <4>4
      <4>6. h0[i - 1] = g[i - 1]
        BY <4>2, <4>3, <4>5
      <4> QED BY <3>2, <3>6, <4>3, <4>4, <4>6
    <3>8. n \in 1..n
      BY <2>2
    <3>9. h0[n] = g[n] /\ g[n] = f[n]
      BY <3>7, <3>8 DEF g
    <3> QED BY <1>1, <3>1, <3>9
  <2> QED BY <2>1, <2>2
<1> QED BY <1>3, <1>6, <1>7

-----------------------------------------------------------------------------
(* Maps that grow by one key after the other.                              *)

\* The maps from finitely many of D to V.
FiniteMaps(D, V) == UNION {[K -> V] : K \in {K \in SUBSET D : IsFiniteSet(K)}}

\* What the first k of the listed keys have in a map.
Part(map, keys, k) == [key \in {keys[j] : j \in 1..k} |-> map[key]]

\* What a finite map from some of D to V is.
LEMMA FiniteMap ==
  ASSUME NEW D, NEW V, NEW f \in FiniteMaps(D, V)
  PROVE  /\ DOMAIN f \subseteq D /\ IsFiniteSet(DOMAIN f)
         /\ f = [x \in DOMAIN f |-> f[x]]
         /\ \A x \in DOMAIN f : f[x] \in V
BY DEF FiniteMaps

\* The empty map is one ...
LEMMA EmptyIsFinite ==
  ASSUME NEW D, NEW V
  PROVE  Empty \in FiniteMaps(D, V)
<1>1. IsFiniteSet({})
  BY FS_EmptySet
<1>2. Empty \in [{} -> V]
  BY DEF Empty
<1> QED BY <1>1, <1>2 DEF FiniteMaps

\* ... and it remains one when a key is assigned a value.
LEMMA AssignedIsFinite ==
  ASSUME NEW D, NEW V, NEW f \in FiniteMaps(D, V), NEW x \in D, NEW y \in V
  PROVE  Assign(f, x, y) \in FiniteMaps(D, V)
<1> DEFINE K == DOMAIN f \cup {x}
<1>1. /\ DOMAIN f \subseteq D /\ IsFiniteSet(DOMAIN f)
      /\ \A z \in DOMAIN f : f[z] \in V
  BY FiniteMap
<1>2. IsFiniteSet(K) /\ K \in SUBSET D
  BY <1>1, FS_AddElement
<1>3. Assign(f, x, y) \in [K -> V]
  BY <1>1 DEF Assign
<1> HIDE DEF K
<1> QED BY <1>2, <1>3 DEF FiniteMaps

\* Each listed key is a new one, and what it has is added.
LEMMA PartGrows ==
  ASSUME NEW map, NEW keys, NEW n \in Nat, \A i, j \in 1..n : keys[i] = keys[j] => i = j,
         NEW k \in 1..n
  PROVE  /\ keys[k] \notin DOMAIN Part(map, keys, k - 1)
         /\ Part(map, keys, k) = Assign(Part(map, keys, k - 1), keys[k], map[keys[k]])
<1>1. \A j \in 1..k - 1 : j \in 1..n /\ j # k
  OBVIOUS
<1>2. keys[k] \notin {keys[j] : j \in 1..k - 1}
  BY <1>1
<1>3. {keys[j] : j \in 1..k} = {keys[j] : j \in 1..k - 1} \cup {keys[k]}
  <2>1. \A j \in 1..k : j \in 1..k - 1 \/ j = k
    OBVIOUS
  <2>2. (\A j \in 1..k - 1 : j \in 1..k) /\ k \in 1..k
    OBVIOUS
  <2> QED BY <2>1, <2>2
<1> DEFINE before == {keys[j] : j \in 1..k - 1}
           upto == {keys[j] : j \in 1..k}
<1>4. Part(map, keys, k - 1) = [key \in before |-> map[key]] /\ Part(map, keys, k) = [key \in upto |-> map[key]]
  BY DEF Part
<1> HIDE DEF before, upto
<1>5. upto = before \cup {keys[k]} /\ keys[k] \notin before
  BY <1>2, <1>3 DEF before, upto
<1> QED BY <1>4, <1>5 DEF Assign

\* Before the first key there is nothing, after the last there is the whole map.
LEMMA PartEnds ==
  ASSUME NEW map, NEW keys, NEW n \in Nat, map = [x \in DOMAIN map |-> map[x]],
         keys \in [1..n -> DOMAIN map], \A x \in DOMAIN map : \E i \in 1..n : keys[i] = x
  PROVE  Part(map, keys, 0) = Empty /\ Part(map, keys, n) = map
<1>1. {keys[j] : j \in 1..0} = {} /\ {keys[j] : j \in 1..n} = DOMAIN map
  <2>1. 1..0 = {}
    OBVIOUS
  <2>2. {keys[j] : j \in {}} = {}
    OBVIOUS
  <2>3. \A j \in 1..n : keys[j] \in DOMAIN map
    OBVIOUS
  <2>4. {keys[j] : j \in 1..n} = DOMAIN map
    BY <2>3
  <2> QED BY <2>1, <2>2, <2>4
<1>2. Part(map, keys, 0) = [key \in {} |-> map[key]] /\ Part(map, keys, n) = [key \in DOMAIN map |-> map[key]]
  BY <1>1 DEF Part
<1>3. [key \in {} |-> map[key]] = [key \in {} |-> None]
  BY Zenon
<1> QED BY <1>2, <1>3 DEF Empty

-----------------------------------------------------------------------------
(* The cookies of a host.                                                  *)

CookieKeys == {CookieKey(c) : c \in Cookie}
CookieValues == {CookieValue(c) : c \in Cookie}
KnownCookies == FiniteMaps(Host, FiniteMaps(CookieKeys, CookieValues))

\* The line of a host begins an entry without cookies ...
LEMMA HostIsRead ==
  ASSUME NEW s, NEW h \in Host, h \notin DOMAIN s.store
  PROVE  ReadCookieLine(s, h) = [host |-> h, store |-> Assign(s.store, h, Empty)]
<1>1. HeadLine(h)
  BY HeadLinesReturn
<1> QED BY <1>1 DEF ReadCookieLine, Emplace

\* ... and the line of a cookie adds it.
LEMMA CookieIsRead ==
  ASSUME NEW h, h # None, NEW store, NEW map,
         NEW key \in CookieKeys, NEW value \in CookieValues, key \notin DOMAIN map,
         NEW s, s = [host |-> h, store |-> Assign(store, h, map)],
         NEW line, line = Indented(key, "eq", value)
  PROVE  ReadCookieLine(s, line) = [host |-> h, store |-> Assign(store, h, Assign(map, key, value))]
<1>1. /\ ~HeadLine(line) /\ Contains(line, "eq")
      /\ CookieLine(line) = <<key, value>>
  <2>1. PICK c \in Cookie : key = CookieKey(c)
    BY DEF CookieKeys
  <2>2. PICK d \in Cookie : value = CookieValue(d)
    BY DEF CookieValues
  <2> QED BY <2>1, <2>2, CookieLinesReturn, Zenon
<1>2. s.host = h /\ s.store = Assign(store, h, map)
  OBVIOUS
<1> DEFINE c == CookieLine(line)
<1>3. ReadCookieLine(s, line) = [s EXCEPT !.store[s.host] = Emplace(@, c[1], c[2])]
  BY <1>1, <1>2, Zenon DEF ReadCookieLine
<1>4. c[1] = key /\ c[2] = value
  BY <1>1
<1> HIDE DEF c
<1>5. h \in DOMAIN s.store /\ s.store[h] = map
  BY <1>2 DEF Assign
<1>6. Emplace(map, key, value) = Assign(map, key, value)
  BY DEF Emplace
<1> DEFINE more == Assign(map, key, value)
<1> HIDE DEF more
<1>7. ReadCookieLine(s, line) = [s EXCEPT !.store = [s.store EXCEPT ![h] = more]]
  BY <1>2, <1>3, <1>4, <1>5, <1>6 DEF more
<1>8. [s.store EXCEPT ![h] = more] = Assign(store, h, more)
  BY <1>2 DEF Assign
<1>9. [s EXCEPT !.store = Assign(store, h, more)] = [host |-> h, store |-> Assign(store, h, more)]
  OBVIOUS
<1> QED BY <1>7, <1>8, <1>9 DEF more

\* A block is its first line and the lines that follow.
LEMMA HeadFirst ==
  ASSUME NEW Line, NEW first \in Line, NEW n \in Nat, NEW lines \in Seq(Line), Len(lines) = n
  PROVE  /\ <<first>> \o lines \in Seq(Line) /\ Len(<<first>> \o lines) = n + 1
         /\ (<<first>> \o lines)[1] = first
         /\ \A k \in 1..n : (<<first>> \o lines)[k + 1] = lines[k]
<1> DEFINE head == <<first>>
           both == head \o lines
<1>1. head \in Seq(Line) /\ Len(head) = 1 /\ head[1] = first
  OBVIOUS
<1> HIDE DEF head
<1>2. /\ both \in Seq(Line) /\ Len(both) = Len(head) + Len(lines)
      /\ \A i \in 1..Len(head) + Len(lines) :
           both[i] = IF i <= Len(head) THEN head[i] ELSE lines[i - Len(head)]
  BY <1>1, ConcatProperties
<1> HIDE DEF both
<1>3. /\ 1 \in 1..1 + n /\ 1 + n = n + 1 /\ 1 <= 1
      /\ \A k \in 1..n : k + 1 \in 1..1 + n /\ ~(k + 1 <= 1) /\ (k + 1) - 1 = k
  OBVIOUS
<1>4. \A k \in 1..n : both[k + 1] = lines[k]
  BY <1>1, <1>2, <1>3
<1> QED BY <1>1, <1>2, <1>3, <1>4 DEF both, head

\* The lines that are written of a host.
LEMMA CookieLinesAre ==
  ASSUME cookies \in KnownCookies, NEW h \in DOMAIN cookies,
         NEW keys, keys = SetToSeq(DOMAIN cookies[h]), NEW n, n = Cardinality(DOMAIN cookies[h])
  PROVE  /\ n \in Nat /\ cookies[h] \in FiniteMaps(CookieKeys, CookieValues)
         /\ keys \in [1..n -> DOMAIN cookies[h]]
         /\ \A i, j \in 1..n : keys[i] = keys[j] => i = j
         /\ \A x \in DOMAIN cookies[h] : \E i \in 1..n : keys[i] = x
         /\ CookieLines(h) \in Seq(Seq(Token)) /\ Len(CookieLines(h)) = n + 1
         /\ CookieLines(h)[1] = h
         /\ \A k \in 1..n : CookieLines(h)[k + 1] = Indented(keys[k], "eq", cookies[h][keys[k]])
<1> DEFINE map == cookies[h]
           lines == [k \in 1..n |-> Indented(keys[k], "eq", map[keys[k]])]
<1>1. map \in FiniteMaps(CookieKeys, CookieValues) /\ h \in Host
  BY FiniteMap DEF KnownCookies
<1>2. /\ DOMAIN map \subseteq CookieKeys /\ IsFiniteSet(DOMAIN map)
      /\ \A x \in DOMAIN map : map[x] \in CookieValues
  BY <1>1, FiniteMap
<1>3. /\ n \in Nat /\ keys \in [1..n -> DOMAIN map] /\ Len(keys) = n
      /\ \A i, j \in 1..n : keys[i] = keys[j] => i = j
      /\ \A x \in DOMAIN map : \E i \in 1..n : keys[i] = x
  BY <1>2, ListedOnce
<1>4. h \in Seq(Token)
  BY <1>1, StoresAssumption, TokenSeq
<1>5. ASSUME NEW k \in 1..n PROVE lines[k] \in Seq(Token)
  <2>1. keys[k] \in CookieKeys /\ map[keys[k]] \in CookieValues
    BY <1>2, <1>3
  <2>2. PICK c \in Cookie : keys[k] = CookieKey(c)
    BY <2>1 DEF CookieKeys
  <2>3. PICK d \in Cookie : map[keys[k]] = CookieValue(d)
    BY <2>1 DEF CookieValues
  <2>4. "eq" \in Token /\ "eq" # "tab"
    BY DEF Token
  <2>5. /\ CookieKey(c) \in Seq(Token) /\ "eq" \notin Range(CookieKey(c))
        /\ CookieValue(d) \in Seq(Token)
    BY CookieParts
  <2>6. lines[k] = Indented(CookieKey(c), "eq", CookieValue(d))
    BY <2>2, <2>3
  <2> HIDE DEF lines
  <2> QED BY <2>4, <2>5, <2>6, IndentedIsDivided
<1>6. lines = [k \in 1..n |-> lines[k]]
  OBVIOUS
<1>7. CookieLines(h) = <<h>> \o lines
  BY <1>3, Zenon DEF CookieLines
<1>8. \A k \in 1..n : lines[k] = Indented(keys[k], "eq", cookies[h][keys[k]])
  OBVIOUS
<1> HIDE DEF lines
<1>9. lines \in Seq(Seq(Token)) /\ Len(lines) = n
  <2> DEFINE L == Seq(Token)
  <2>1. \A k \in 1..n : lines[k] \in L
    BY <1>5
  <2> HIDE DEF L
  <2>2. n \in Nat
    BY <1>3
  <2>3. lines \in [1..n -> L]
    BY <1>6, <2>1
  <2>4. lines \in Seq(L) /\ Len(lines) = n
    BY <2>2, <2>3
  <2> QED BY <2>4 DEF L
<1>10. /\ <<h>> \o lines \in Seq(Seq(Token)) /\ Len(<<h>> \o lines) = n + 1
       /\ (<<h>> \o lines)[1] = h
       /\ \A k \in 1..n : (<<h>> \o lines)[k + 1] = lines[k]
  BY <1>3, <1>4, <1>9, HeadFirst
<1> HIDE DEF map
<1> QED BY <1>1, <1>3, <1>7, <1>8, <1>10 DEF map

\* Reading the lines of a host gives back all of its cookies.
LEMMA CookiesOfHostReturn ==
  ASSUME cookies \in KnownCookies, NEW h \in DOMAIN cookies,
         NEW s, h \notin DOMAIN s.store,
         NEW g, Follows(g, Len(CookieLines(h)), 1, s, CookieLines(h))
  PROVE  g[Len(CookieLines(h))] = [host |-> h, store |-> Assign(s.store, h, cookies[h])]
<1> DEFINE map == cookies[h]
           keys == SetToSeq(DOMAIN map)
           n == Cardinality(DOMAIN map)
           block == CookieLines(h)
           Read(k) == [host |-> h, store |-> Assign(s.store, h, Part(map, keys, k))]
<1>1. /\ n \in Nat /\ map \in FiniteMaps(CookieKeys, CookieValues)
      /\ keys \in [1..n -> DOMAIN map]
      /\ \A i, j \in 1..n : keys[i] = keys[j] => i = j
      /\ \A x \in DOMAIN map : \E i \in 1..n : keys[i] = x
      /\ block \in Seq(Seq(Token)) /\ Len(block) = n + 1
      /\ block[1] = h
      /\ \A k \in 1..n : block[k + 1] = Indented(keys[k], "eq", map[keys[k]])
  BY CookieLinesAre
<1>2. h \in Host /\ h # None
  BY FiniteMap, StoresAssumption DEF KnownCookies
<1>3. /\ map = [x \in DOMAIN map |-> map[x]] /\ DOMAIN map \subseteq CookieKeys
      /\ \A x \in DOMAIN map : map[x] \in CookieValues
  BY <1>1, FiniteMap
<1> HIDE DEF map, keys, n, block
<1>4. Part(map, keys, 0) = Empty /\ Part(map, keys, n) = map
  BY <1>1, <1>3, PartEnds
<1>5. g[0] = s /\ \A i \in 1..n + 1 : g[i] = Reading(1, g[i - 1], block[i])
  <2>1. n + 1 \in Nat /\ Len(CookieLines(h)) = n + 1
    BY <1>1 DEF block
  <2>2. Follows(g, n + 1, 1, s, block)
    BY <2>1 DEF block
  <2> QED BY <2>1, <2>2, FollowsValues
<1>6. g[0 + 1] = Read(0)
  <2>1. 1 \in 1..n + 1 /\ 1 - 1 = 0 /\ 0 + 1 = 1
    BY <1>1
  <2>2. g[1] = Reading(1, s, h)
    BY <1>1, <1>5, <2>1
  <2>3. g[1] = ReadCookieLine(s, h)
    BY <2>2, ReadingKinds
  <2> QED BY <1>2, <1>4, <2>1, <2>3, HostIsRead
<1>7. ASSUME NEW k \in 1..n, g[(k - 1) + 1] = Read(k - 1)
      PROVE  g[k + 1] = Read(k)
  <2>1. k + 1 \in 1..n + 1 /\ (k + 1) - 1 = k /\ (k - 1) + 1 = k
    BY <1>1
  <2>2. g[k + 1] = Reading(1, g[k], block[k + 1])
    BY <1>5, <2>1
  <2>3. g[k + 1] = ReadCookieLine(g[k], Indented(keys[k], "eq", map[keys[k]]))
    BY <1>1, <2>2, ReadingKinds
  <2>4. keys[k] \in CookieKeys /\ map[keys[k]] \in CookieValues
    BY <1>1, <1>3
  <2>5. /\ keys[k] \notin DOMAIN Part(map, keys, k - 1)
        /\ Part(map, keys, k) = Assign(Part(map, keys, k - 1), keys[k], map[keys[k]])
    <3>1. n \in Nat /\ \A i, j \in 1..n : keys[i] = keys[j] => i = j
      BY <1>1
    <3> QED BY <3>1, PartGrows
  <2>6. g[k] = [host |-> h, store |-> Assign(s.store, h, Part(map, keys, k - 1))]
    BY <1>7, <2>1
  <2> DEFINE before == Part(map, keys, k - 1)
             store == s.store
             line == Indented(keys[k], "eq", map[keys[k]])
  <2> HIDE DEF before, store, line
  <2>7. g[k] = [host |-> h, store |-> Assign(store, h, before)] /\ keys[k] \notin DOMAIN before
    BY <2>5, <2>6 DEF before, store
  <2>8. ReadCookieLine(g[k], line) = [host |-> h, store |-> Assign(store, h, Assign(before, keys[k], map[keys[k]]))]
    BY <1>2, <2>4, <2>7, CookieIsRead DEF line
  <2> QED BY <2>3, <2>5, <2>8 DEF before, store, line
<1> DEFINE wrong == {k \in 0..n : g[k + 1] # Read(k)}
<1> HIDE DEF Read
<1>8. wrong = {}
  <2> SUFFICES ASSUME wrong # {} PROVE FALSE
    OBVIOUS
  <2>1. wrong \in SUBSET Nat
    BY <1>1
  <2>2. PICK k \in wrong : \A i \in wrong : k <= i
    BY <2>1, MinIsLeast
  <2>3. k \in 0..n /\ g[k + 1] # Read(k)
    OBVIOUS
  <2>4. k # 0
    BY <1>6, <2>3
  <2>5. k \in 1..n /\ k - 1 \in 0..n /\ k - 1 < k
    BY <1>1, <2>3, <2>4
  <2>6. g[(k - 1) + 1] = Read(k - 1)
    BY <2>2, <2>5
  <2> QED BY <1>7, <2>3, <2>5, <2>6
<1>9. g[n + 1] = Read(n)
  <2>1. n \in 0..n
    BY <1>1
  <2> QED BY <1>8, <2>1
<1> QED BY <1>1, <1>4, <1>9 DEF Read, block, map

\* The text of all hosts gives back all of their cookies.
LEMMA CookiesComeBack ==
  ASSUME cookies \in KnownCookies
  PROVE  DeserializeCookies(SerializeCookies) = cookies
<1> DEFINE hosts == SetToSeq(DOMAIN cookies)
           n == Cardinality(DOMAIN cookies)
           parts == [i \in 1..n |-> CookieLines(hosts[i])]
           Read(i) == [host |-> IF i = 0 THEN None ELSE hosts[i], store |-> Part(cookies, hosts, i)]
<1>1. /\ DOMAIN cookies \subseteq Host /\ IsFiniteSet(DOMAIN cookies)
      /\ cookies = [x \in DOMAIN cookies |-> cookies[x]]
  BY FiniteMap DEF KnownCookies
<1>2. /\ n \in Nat /\ hosts \in [1..n -> DOMAIN cookies] /\ Len(hosts) = n
      /\ \A i, j \in 1..n : hosts[i] = hosts[j] => i = j
      /\ \A x \in DOMAIN cookies : \E i \in 1..n : hosts[i] = x
  BY <1>1, ListedOnce
<1>3. SerializeCookies = FlattenSeq(parts)
  BY <1>2, Zenon DEF SerializeCookies
<1> HIDE DEF hosts, n
<1>4. /\ Part(cookies, hosts, 0) = Empty /\ Part(cookies, hosts, n) = cookies
  BY <1>1, <1>2, PartEnds
<1> DEFINE Line == Seq(Token)
<1>5. \A i \in 1..n : CookieLines(hosts[i]) \in Seq(Line)
  <2> SUFFICES ASSUME NEW i \in 1..n PROVE CookieLines(hosts[i]) \in Seq(Line)
    OBVIOUS
  <2>1. hosts[i] \in DOMAIN cookies
    BY <1>2
  <2> QED BY <2>1, CookieLinesAre
<1> HIDE DEF Line
<1>6. parts \in [1..n -> Seq(Line)] /\ \A i \in 1..n : parts[i] = CookieLines(hosts[i])
  BY <1>5
<1> HIDE DEF parts
<1>7. PICK f \in [0..n -> Seq(Line)] :
        /\ f[0] = <<>> /\ \A i \in 1..n : f[i] = f[i - 1] \o parts[i]
        /\ FlattenSeq(parts) = f[n]
  <2>1. n \in Nat
    BY <1>2
  <2>2. parts \in [1..n -> Seq(Line)]
    BY <1>6
  <2> QED BY <2>1, <2>2, JoinedInOrder
<1>8. ReadText(1, NoCookies, f[0]) = Read(0)
  <2>1. ReadText(1, NoCookies, f[0]) = NoCookies
    BY <1>7, NothingRead
  <2>2. Read(0) = [host |-> None, store |-> Empty]
    BY <1>4
  <2> QED BY <2>1, <2>2 DEF NoCookies
<1>9. ASSUME NEW i \in 1..n, ReadText(1, NoCookies, f[i - 1]) = Read(i - 1)
      PROVE  ReadText(1, NoCookies, f[i]) = Read(i)
  <2> DEFINE h == hosts[i]
             block == CookieLines(h)
             s == Read(i - 1)
             text == f[i - 1]
  <2>1. /\ h \in DOMAIN cookies /\ parts[i] = block /\ block \in Seq(Line)
        /\ text \in Seq(Line) /\ f[i] = text \o block /\ i # 0
    <3>1. i - 1 \in 0..n /\ i # 0
      BY <1>2
    <3> QED BY <1>2, <1>5, <1>6, <1>7, <3>1
  <2>2. s.store = Part(cookies, hosts, i - 1)
    OBVIOUS
  <2>3. /\ h \notin DOMAIN s.store
        /\ Part(cookies, hosts, i) = Assign(s.store, h, cookies[h])
    <3>1. n \in Nat /\ \A k, j \in 1..n : hosts[k] = hosts[j] => k = j
      BY <1>2
    <3>2. /\ hosts[i] \notin DOMAIN Part(cookies, hosts, i - 1)
          /\ Part(cookies, hosts, i) = Assign(Part(cookies, hosts, i - 1), hosts[i], cookies[hosts[i]])
      BY <3>1, PartGrows
    <3> HIDE DEF s
    <3> QED BY <2>2, <3>2
  <2>4. Read(i) = [host |-> h, store |-> Assign(s.store, h, cookies[h])]
    BY <2>1, <2>3
  <2> HIDE DEF text, block, s, h
  <2>5. PICK g : /\ Follows(g, Len(block), 1, ReadText(1, NoCookies, text), block)
                 /\ ReadText(1, NoCookies, text \o block) = g[Len(block)]
    <3>1. text \in Seq(Line) /\ block \in Seq(Line)
      BY <2>1
    <3> QED BY <3>1, ReadOn
  <2>6. Follows(g, Len(block), 1, s, block)
    BY <1>9, <2>5 DEF s, text
  <2>7. g[Len(block)] = [host |-> h, store |-> Assign(s.store, h, cookies[h])]
    <3>1. Follows(g, Len(CookieLines(h)), 1, s, CookieLines(h))
      BY <2>6 DEF block
    <3> QED BY <2>1, <2>3, <3>1, CookiesOfHostReturn DEF block
  <2> QED BY <2>1, <2>4, <2>5, <2>7
<1> DEFINE wrong == {i \in 0..n : ReadText(1, NoCookies, f[i]) # Read(i)}
<1> HIDE DEF Read
<1>10. wrong = {}
  <2> SUFFICES ASSUME wrong # {} PROVE FALSE
    OBVIOUS
  <2>1. wrong \in SUBSET Nat
    BY <1>2
  <2>2. PICK k \in wrong : \A i \in wrong : k <= i
    BY <2>1, MinIsLeast
  <2>3. k \in 0..n /\ ReadText(1, NoCookies, f[k]) # Read(k)
    OBVIOUS
  <2>4. k # 0
    BY <1>8, <2>3
  <2>5. k \in 1..n /\ k - 1 \in 0..n /\ k - 1 < k
    BY <1>2, <2>3, <2>4
  <2>6. ReadText(1, NoCookies, f[k - 1]) = Read(k - 1)
    BY <2>2, <2>5
  <2> QED BY <1>9, <2>3, <2>5, <2>6
<1>11. n \in 0..n
  BY <1>2
<1>12. ReadText(1, NoCookies, f[n]) = Read(n) /\ f[n] \in Seq(Line)
  BY <1>10, <1>11
<1>13. DeserializeCookies(f[n]) = ReadText(1, NoCookies, f[n]).store
  <2>1. Len(f[n]) \in Nat
    BY <1>12, LenProperties
  <2> QED BY <2>1, CookiesAreRead
<1>14. Read(n).store = cookies
  BY <1>4 DEF Read
<1> QED BY <1>3, <1>7, <1>12, <1>13, <1>14

-----------------------------------------------------------------------------
(* The headers of a page.                                                  *)

KnownHeaders == FiniteMaps(Url, HeaderEntry)

\* The line of a URL begins an entry with its status and no header ...
LEMMA UrlIsRead ==
  ASSUME NEW s, NEW u \in Url, u \notin DOMAIN s.store, NEW e \in HeaderEntry,
         NEW line, line = <<e.status, "space">> \o u
  PROVE  ReadHeaderLine(s, line) =
           [url |-> u, store |-> Assign(s.store, u, [status |-> e.status, header |-> {}])]
<1>1. HeadLine(line) /\ line[1] = e.status /\ After(line, Position(line, "space")) = u
  BY HeadLinesReturn, Zenon
<1> QED BY <1>1, Zenon DEF ReadHeaderLine

\* ... and the line of a field adds it.
LEMMA FieldIsRead ==
  ASSUME NEW u, u # None, NEW store, NEW status, NEW header,
         NEW e \in HeaderEntry, NEW field \in e.header,
         NEW s, s = [url |-> u, store |-> Assign(store, u, [status |-> status, header |-> header])],
         NEW line, line = Indented(field[1], "colon", field[2])
  PROVE  ReadHeaderLine(s, line) =
           [url |-> u, store |-> Assign(store, u, [status |-> status, header |-> header \cup {field}])]
<1>1. ~HeadLine(line) /\ Contains(line, "colon") /\ HeaderLine(line) = field
  BY HeaderLinesReturn, Zenon
<1>2. s.url = u /\ s.store = Assign(store, u, [status |-> status, header |-> header])
  OBVIOUS
<1>3. ReadHeaderLine(s, line) = [s EXCEPT !.store[s.url].header = @ \cup {HeaderLine(line)}]
  BY <1>1, <1>2, Zenon DEF ReadHeaderLine
<1> DEFINE entry == [status |-> status, header |-> header]
           more == [status |-> status, header |-> header \cup {field}]
<1>4. u \in DOMAIN s.store /\ s.store[u] = entry
  BY <1>2 DEF Assign
<1>5. [entry EXCEPT !.header = header \cup {field}] = more /\ entry.header = header
  OBVIOUS
<1> HIDE DEF entry, more
<1>6. ReadHeaderLine(s, line) =
        [s EXCEPT !.store = [s.store EXCEPT ![u] = [entry EXCEPT !.header = entry.header \cup {field}]]]
  BY <1>1, <1>2, <1>3, <1>4
<1>7. ReadHeaderLine(s, line) = [s EXCEPT !.store = [s.store EXCEPT ![u] = more]]
  BY <1>5, <1>6
<1>8. [s.store EXCEPT ![u] = more] = Assign(store, u, more)
  BY <1>2 DEF Assign
<1>9. [s EXCEPT !.store = Assign(store, u, more)] = [url |-> u, store |-> Assign(store, u, more)]
  OBVIOUS
<1> QED BY <1>7, <1>8, <1>9 DEF more

\* The lines that are written of a URL.
LEMMA HeaderLinesAre ==
  ASSUME writer \in KnownHeaders, NEW u \in DOMAIN writer,
         NEW fields, fields = SetToSeq(writer[u].header), NEW n, n = Cardinality(writer[u].header)
  PROVE  /\ n \in Nat /\ writer[u] \in HeaderEntry
         /\ fields \in [1..n -> writer[u].header]
         /\ \A x \in writer[u].header : \E i \in 1..n : fields[i] = x
         /\ HeaderLines(u) \in Seq(Seq(Token)) /\ Len(HeaderLines(u)) = n + 1
         /\ HeaderLines(u)[1] = <<writer[u].status, "space">> \o u
         /\ \A k \in 1..n : HeaderLines(u)[k + 1] = Indented(fields[k][1], "colon", fields[k][2])
<1> DEFINE e == writer[u]
           lines == [k \in 1..n |-> Indented(fields[k][1], "colon", fields[k][2])]
           first == <<e.status, "space">> \o u
<1>1. e \in HeaderEntry /\ u \in Url
  BY FiniteMap DEF KnownHeaders
<1>2. IsFiniteSet(e.header)
  BY <1>1, StoresAssumption
<1>3. /\ n \in Nat /\ fields \in [1..n -> e.header] /\ Len(fields) = n
      /\ \A x \in e.header : \E i \in 1..n : fields[i] = x
  BY <1>2, ListedOnce
<1>4. first \in Seq(Token)
  <2>1. u \in Seq(Token) /\ e.status \in Token
    BY <1>1, StoresAssumption, TokenSeq DEF Token
  <2>2. <<e.status, "space">> \in Seq(Token)
    <3>1. "space" \in Token
      BY DEF Token
    <3> QED BY <2>1, <3>1
  <2> QED BY <2>1, <2>2, ConcatProperties
<1>5. ASSUME NEW k \in 1..n PROVE lines[k] \in Seq(Token)
  <2> DEFINE field == fields[k]
  <2>1. field \in e.header
    BY <1>3
  <2>2. /\ field[1] \in Seq(Token) /\ field[2] \in Seq(Token) /\ "colon" \notin Range(field[1])
    BY <1>1, <2>1, FieldParts
  <2>3. "colon" \in Token /\ "colon" # "tab"
    BY DEF Token
  <2>4. lines[k] = Indented(field[1], "colon", field[2])
    OBVIOUS
  <2> HIDE DEF lines, field
  <2> QED BY <2>2, <2>3, <2>4, IndentedIsDivided
<1>6. lines = [k \in 1..n |-> lines[k]]
  OBVIOUS
<1>7. HeaderLines(u) = <<first>> \o lines
  BY <1>3, Zenon DEF HeaderLines
<1>8. \A k \in 1..n : lines[k] = Indented(fields[k][1], "colon", fields[k][2])
  OBVIOUS
<1> HIDE DEF lines, first
<1>9. lines \in Seq(Seq(Token)) /\ Len(lines) = n
  <2> DEFINE L == Seq(Token)
  <2>1. \A k \in 1..n : lines[k] \in L
    BY <1>5
  <2> HIDE DEF L
  <2>2. n \in Nat
    BY <1>3
  <2>3. lines \in [1..n -> L]
    BY <1>6, <2>1
  <2>4. lines \in Seq(L) /\ Len(lines) = n
    BY <2>2, <2>3
  <2> QED BY <2>4 DEF L
<1>10. /\ <<first>> \o lines \in Seq(Seq(Token)) /\ Len(<<first>> \o lines) = n + 1
       /\ (<<first>> \o lines)[1] = first
       /\ \A k \in 1..n : (<<first>> \o lines)[k + 1] = lines[k]
  BY <1>3, <1>4, <1>9, HeadFirst
<1> QED BY <1>1, <1>3, <1>7, <1>8, <1>10 DEF first

\* Reading the lines of a URL gives back all of its headers.
LEMMA HeadersOfUrlReturn ==
  ASSUME writer \in KnownHeaders, NEW u \in DOMAIN writer,
         NEW s, u \notin DOMAIN s.store,
         NEW g, Follows(g, Len(HeaderLines(u)), 2, s, HeaderLines(u))
  PROVE  g[Len(HeaderLines(u))] = [url |-> u, store |-> Assign(s.store, u, writer[u])]
<1> DEFINE e == writer[u]
           fields == SetToSeq(e.header)
           n == Cardinality(e.header)
           block == HeaderLines(u)
           some(k) == {fields[j] : j \in 1..k}
           Read(k) == [url |-> u, store |-> Assign(s.store, u, [status |-> e.status, header |-> some(k)])]
<1>1. /\ n \in Nat /\ e \in HeaderEntry
      /\ fields \in [1..n -> e.header]
      /\ \A x \in e.header : \E i \in 1..n : fields[i] = x
      /\ block \in Seq(Seq(Token)) /\ Len(block) = n + 1
      /\ block[1] = <<e.status, "space">> \o u
      /\ \A k \in 1..n : block[k + 1] = Indented(fields[k][1], "colon", fields[k][2])
  BY HeaderLinesAre
<1>2. u \in Url /\ u # None
  BY FiniteMap, StoresAssumption DEF KnownHeaders
<1>3. e = [status |-> e.status, header |-> e.header]
  <2> DEFINE Status == STRING \ {"tab", "space"}
             Fields == SUBSET (Seq(STRING) \X Seq(STRING))
  <2>1. e \in [status : Status, header : Fields]
    BY <1>1, StoresAssumption
  <2> HIDE DEF Status, Fields
  <2> QED BY <2>1
<1> HIDE DEF e, fields, n, block
<1>4. some(0) = {} /\ some(n) = e.header
  <2>1. 1..0 = {} /\ {fields[j] : j \in {}} = {}
    OBVIOUS
  <2>2. \A j \in 1..n : fields[j] \in e.header
    BY <1>1
  <2>3. some(n) = e.header
    BY <1>1, <2>2
  <2> QED BY <2>1, <2>3
<1>5. g[0] = s /\ \A i \in 1..n + 1 : g[i] = Reading(2, g[i - 1], block[i])
  <2>1. n + 1 \in Nat /\ Len(HeaderLines(u)) = n + 1
    BY <1>1 DEF block
  <2>2. Follows(g, n + 1, 2, s, block)
    BY <2>1 DEF block
  <2> QED BY <2>1, <2>2, FollowsValues
<1>6. g[0 + 1] = Read(0)
  <2>1. 1 \in 1..n + 1 /\ 1 - 1 = 0 /\ 0 + 1 = 1
    BY <1>1
  <2>2. g[1] = Reading(2, s, block[1])
    BY <1>5, <2>1
  <2> DEFINE line == block[1]
  <2>3. line = <<e.status, "space">> \o u
    BY <1>1
  <2> HIDE DEF line
  <2>4. g[1] = ReadHeaderLine(s, line)
    BY <2>2, ReadingKinds DEF line
  <2>5. ReadHeaderLine(s, line) = [url |-> u, store |-> Assign(s.store, u, [status |-> e.status, header |-> {}])]
    <3>1. e \in HeaderEntry /\ u \in Url /\ u \notin DOMAIN s.store
      BY <1>1, <1>2
    <3> QED BY <2>3, <3>1, UrlIsRead, Zenon
  <2> QED BY <1>4, <2>1, <2>4, <2>5
<1>7. ASSUME NEW k \in 1..n, g[(k - 1) + 1] = Read(k - 1)
      PROVE  g[k + 1] = Read(k)
  <2>1. k + 1 \in 1..n + 1 /\ (k + 1) - 1 = k /\ (k - 1) + 1 = k
    BY <1>1
  <2>2. g[k + 1] = Reading(2, g[k], block[k + 1])
    BY <1>5, <2>1
  <2> DEFINE field == fields[k]
             line == block[k + 1]
             before == some(k - 1)
             store == s.store
  <2>3. line = Indented(field[1], "colon", field[2]) /\ field \in e.header
    BY <1>1
  <2>4. some(k) = before \cup {field}
    <3>1. \A j \in 1..k : j \in 1..k - 1 \/ j = k
      OBVIOUS
    <3>2. (\A j \in 1..k - 1 : j \in 1..k) /\ k \in 1..k
      OBVIOUS
    <3> QED BY <3>1, <3>2
  <2>5. g[k] = [url |-> u, store |-> Assign(store, u, [status |-> e.status, header |-> before])]
    BY <1>7, <2>1
  <2> HIDE DEF field, line, before, store
  <2>6. g[k + 1] = ReadHeaderLine(g[k], line)
    BY <2>2, ReadingKinds DEF line
  <2>7. ReadHeaderLine(g[k], line) =
          [url |-> u, store |-> Assign(store, u, [status |-> e.status, header |-> before \cup {field}])]
    <3>1. e \in HeaderEntry /\ u # None
      BY <1>1, <1>2
    <3> DEFINE status == e.status
    <3>2. g[k] = [url |-> u, store |-> Assign(store, u, [status |-> status, header |-> before])]
      BY <2>5
    <3> HIDE DEF status
    <3>3. ReadHeaderLine(g[k], line) =
            [url |-> u, store |-> Assign(store, u, [status |-> status, header |-> before \cup {field}])]
      BY <2>3, <3>1, <3>2, FieldIsRead
    <3> QED BY <3>3 DEF status
  <2> QED BY <2>4, <2>6, <2>7 DEF store
<1> DEFINE wrong == {k \in 0..n : g[k + 1] # Read(k)}
<1> HIDE DEF Read
<1>8. wrong = {}
  <2> SUFFICES ASSUME wrong # {} PROVE FALSE
    OBVIOUS
  <2>1. wrong \in SUBSET Nat
    BY <1>1
  <2>2. PICK k \in wrong : \A i \in wrong : k <= i
    BY <2>1, MinIsLeast
  <2>3. k \in 0..n /\ g[k + 1] # Read(k)
    OBVIOUS
  <2>4. k # 0
    BY <1>6, <2>3
  <2>5. k \in 1..n /\ k - 1 \in 0..n /\ k - 1 < k
    BY <1>1, <2>3, <2>4
  <2>6. g[(k - 1) + 1] = Read(k - 1)
    BY <2>2, <2>5
  <2> QED BY <1>7, <2>3, <2>5, <2>6
<1>9. g[n + 1] = Read(n)
  <2>1. n \in 0..n
    BY <1>1
  <2> QED BY <1>8, <2>1
<1>10. Read(n) = [url |-> u, store |-> Assign(s.store, u, e)]
  BY <1>3, <1>4 DEF Read
<1> QED BY <1>1, <1>9, <1>10 DEF block, e

\* The text of all pages gives back all of their headers.
LEMMA HeadersComeBack ==
  ASSUME writer \in KnownHeaders
  PROVE  DeserializeHeaders(SerializeHeaders) = writer
<1> DEFINE urls == SetToSeq(DOMAIN writer)
           n == Cardinality(DOMAIN writer)
           parts == [i \in 1..n |-> HeaderLines(urls[i])]
           Read(i) == [url |-> IF i = 0 THEN None ELSE urls[i], store |-> Part(writer, urls, i)]
<1>1. /\ DOMAIN writer \subseteq Url /\ IsFiniteSet(DOMAIN writer)
      /\ writer = [x \in DOMAIN writer |-> writer[x]]
  BY FiniteMap DEF KnownHeaders
<1>2. /\ n \in Nat /\ urls \in [1..n -> DOMAIN writer] /\ Len(urls) = n
      /\ \A i, j \in 1..n : urls[i] = urls[j] => i = j
      /\ \A x \in DOMAIN writer : \E i \in 1..n : urls[i] = x
  BY <1>1, ListedOnce
<1>3. SerializeHeaders = FlattenSeq(parts)
  BY <1>2, Zenon DEF SerializeHeaders
<1> HIDE DEF urls, n
<1>4. /\ Part(writer, urls, 0) = Empty /\ Part(writer, urls, n) = writer
  BY <1>1, <1>2, PartEnds
<1> DEFINE Line == Seq(Token)
<1>5. \A i \in 1..n : HeaderLines(urls[i]) \in Seq(Line)
  <2> SUFFICES ASSUME NEW i \in 1..n PROVE HeaderLines(urls[i]) \in Seq(Line)
    OBVIOUS
  <2>1. urls[i] \in DOMAIN writer
    BY <1>2
  <2> QED BY <2>1, HeaderLinesAre
<1> HIDE DEF Line
<1>6. parts \in [1..n -> Seq(Line)] /\ \A i \in 1..n : parts[i] = HeaderLines(urls[i])
  BY <1>5
<1> HIDE DEF parts
<1>7. PICK f \in [0..n -> Seq(Line)] :
        /\ f[0] = <<>> /\ \A i \in 1..n : f[i] = f[i - 1] \o parts[i]
        /\ FlattenSeq(parts) = f[n]
  <2>1. n \in Nat
    BY <1>2
  <2>2. parts \in [1..n -> Seq(Line)]
    BY <1>6
  <2> QED BY <2>1, <2>2, JoinedInOrder
<1>8. ReadText(2, NoHeaders, f[0]) = Read(0)
  <2>1. ReadText(2, NoHeaders, f[0]) = NoHeaders
    BY <1>7, NothingRead
  <2>2. Read(0) = [url |-> None, store |-> Empty]
    BY <1>4
  <2> QED BY <2>1, <2>2 DEF NoHeaders
<1>9. ASSUME NEW i \in 1..n, ReadText(2, NoHeaders, f[i - 1]) = Read(i - 1)
      PROVE  ReadText(2, NoHeaders, f[i]) = Read(i)
  <2> DEFINE u == urls[i]
             block == HeaderLines(u)
             s == Read(i - 1)
             text == f[i - 1]
  <2>1. /\ u \in DOMAIN writer /\ parts[i] = block /\ block \in Seq(Line)
        /\ text \in Seq(Line) /\ f[i] = text \o block /\ i # 0
    <3>1. i - 1 \in 0..n /\ i # 0
      BY <1>2
    <3> QED BY <1>2, <1>5, <1>6, <1>7, <3>1
  <2>2. s.store = Part(writer, urls, i - 1)
    OBVIOUS
  <2>3. /\ u \notin DOMAIN s.store
        /\ Part(writer, urls, i) = Assign(s.store, u, writer[u])
    <3>1. n \in Nat /\ \A k, j \in 1..n : urls[k] = urls[j] => k = j
      BY <1>2
    <3>2. /\ urls[i] \notin DOMAIN Part(writer, urls, i - 1)
          /\ Part(writer, urls, i) = Assign(Part(writer, urls, i - 1), urls[i], writer[urls[i]])
      BY <3>1, PartGrows
    <3> HIDE DEF s
    <3> QED BY <2>2, <3>2
  <2>4. Read(i) = [url |-> u, store |-> Assign(s.store, u, writer[u])]
    BY <2>1, <2>3
  <2> HIDE DEF text, block, s, u
  <2>5. PICK g : /\ Follows(g, Len(block), 2, ReadText(2, NoHeaders, text), block)
                 /\ ReadText(2, NoHeaders, text \o block) = g[Len(block)]
    <3>1. text \in Seq(Line) /\ block \in Seq(Line)
      BY <2>1
    <3> QED BY <3>1, ReadOn
  <2>6. Follows(g, Len(block), 2, s, block)
    BY <1>9, <2>5 DEF s, text
  <2>7. g[Len(block)] = [url |-> u, store |-> Assign(s.store, u, writer[u])]
    <3>1. Follows(g, Len(HeaderLines(u)), 2, s, HeaderLines(u))
      BY <2>6 DEF block
    <3> QED BY <2>1, <2>3, <3>1, HeadersOfUrlReturn DEF block
  <2> QED BY <2>1, <2>4, <2>5, <2>7
<1> DEFINE wrong == {i \in 0..n : ReadText(2, NoHeaders, f[i]) # Read(i)}
<1> HIDE DEF Read
<1>10. wrong = {}
  <2> SUFFICES ASSUME wrong # {} PROVE FALSE
    OBVIOUS
  <2>1. wrong \in SUBSET Nat
    BY <1>2
  <2>2. PICK k \in wrong : \A i \in wrong : k <= i
    BY <2>1, MinIsLeast
  <2>3. k \in 0..n /\ ReadText(2, NoHeaders, f[k]) # Read(k)
    OBVIOUS
  <2>4. k # 0
    BY <1>8, <2>3
  <2>5. k \in 1..n /\ k - 1 \in 0..n /\ k - 1 < k
    BY <1>2, <2>3, <2>4
  <2>6. ReadText(2, NoHeaders, f[k - 1]) = Read(k - 1)
    BY <2>2, <2>5
  <2> QED BY <1>9, <2>3, <2>5, <2>6
<1>11. n \in 0..n
  BY <1>2
<1>12. ReadText(2, NoHeaders, f[n]) = Read(n) /\ f[n] \in Seq(Line)
  BY <1>10, <1>11
<1>13. DeserializeHeaders(f[n]) = ReadText(2, NoHeaders, f[n]).store
  <2>1. Len(f[n]) \in Nat
    BY <1>12, LenProperties
  <2> QED BY <2>1, HeadersAreRead
<1>14. Read(n).store = writer
  BY <1>4 DEF Read
<1> QED BY <1>3, <1>7, <1>12, <1>13, <1>14

-----------------------------------------------------------------------------
(* Sessions.                                                               *)

\* What is stored is known, and an archive holds what the session ended with.
StoresInv ==
  /\ cookies \in KnownCookies
  /\ reader \in KnownHeaders
  /\ writer \in KnownHeaders
  /\ DOMAIN cache \subseteq Host
  /\ archive # None => archive = [headers |-> SerializeHeaders, cookies |-> SerializeCookies]

\* A text changes with the store it is written of only.
LEMMA UnchangedTexts ==
  /\ cookies' = cookies => SerializeCookies' = SerializeCookies
  /\ writer' = writer => SerializeHeaders' = SerializeHeaders
BY Zenon DEF SerializeCookies, SerializeHeaders, CookieLines, HeaderLines

\* No step stores anything unknown, and the next session begins with what is
\* read back.
LEMMA StoresInvHolds == Spec => []StoresInv
<1>1. Init => StoresInv
  <2> SUFFICES ASSUME Init PROVE StoresInv
    OBVIOUS
  <2>1. Empty \in KnownCookies /\ Empty \in KnownHeaders
    BY EmptyIsFinite DEF KnownCookies, KnownHeaders
  <2>2. DOMAIN Empty \subseteq Host
    BY DEF Empty
  <2> QED BY <2>1, <2>2 DEF Init, StoresInv
<1>2. StoresInv /\ [Next]_vars => StoresInv'
  <2> SUFFICES ASSUME StoresInv, [Next]_vars PROVE StoresInv'
    OBVIOUS
  <2>1. ASSUME NEW h \in Host, NEW c \in Cookie, Set(h, c)
        PROVE  StoresInv'
    <3>1. Lookup(cookies, h) \in FiniteMaps(CookieKeys, CookieValues)
      <4>1. CASE h \in DOMAIN cookies
        BY <4>1, FiniteMap DEF Lookup, StoresInv, KnownCookies
      <4>2. CASE h \notin DOMAIN cookies
        BY <4>2, EmptyIsFinite DEF Lookup
      <4> QED BY <4>1, <4>2
    <3>2. CookieKey(c) \in CookieKeys /\ CookieValue(c) \in CookieValues
      BY DEF CookieKeys, CookieValues
    <3> DEFINE map == Assign(Lookup(cookies, h), CookieKey(c), CookieValue(c))
    <3>3. map \in FiniteMaps(CookieKeys, CookieValues)
      BY <3>1, <3>2, AssignedIsFinite
    <3> HIDE DEF map
    <3>4. Assign(cookies, h, map) \in KnownCookies
      BY <3>3, AssignedIsFinite DEF StoresInv, KnownCookies
    <3>5. /\ archive' = None /\ cookies' = Assign(cookies, h, map)
          /\ reader' = reader /\ writer' = writer
          /\ cache' = [g \in DOMAIN cache \ {h} |-> cache[g]]
      BY <2>1 DEF Set, map
    <3> QED BY <3>4, <3>5 DEF StoresInv
  <2>2. ASSUME NEW h \in Host, GetCookiesList(h)
        PROVE  StoresInv'
    <3>1. DOMAIN Emplace(cache, h, BuildCookiesList(h)) \subseteq DOMAIN cache \cup {h}
      BY DEF Emplace, Assign
    <3> QED BY <2>2, <3>1 DEF GetCookiesList, StoresInv
  <2>3. ASSUME NEW u \in Url, NEW e \in HeaderEntry, Write(u, e)
        PROVE  StoresInv'
    <3>1. Assign(writer, u, e) \in KnownHeaders
      BY AssignedIsFinite DEF StoresInv, KnownHeaders
    <3> QED BY <2>3, <3>1 DEF Write, StoresInv
  <2>4. ASSUME NEW u \in Url, u \in DOMAIN reader, Write(u, reader[u])
        PROVE  StoresInv'
    <3>1. reader[u] \in HeaderEntry
      BY <2>4, FiniteMap DEF StoresInv, KnownHeaders
    <3> QED BY <2>3, <2>4, <3>1
  <2>5. CASE Finish
    <3>1. SerializeHeaders' = SerializeHeaders /\ SerializeCookies' = SerializeCookies
      BY <2>5, UnchangedTexts DEF Finish
    <3> QED BY <2>5, <3>1 DEF Finish, StoresInv
  <2>6. CASE Initialize
    <3>1. /\ archive.headers = SerializeHeaders /\ archive.cookies = SerializeCookies
      BY <2>6 DEF Initialize, StoresInv
    <3>2. reader' = writer /\ cookies' = cookies
      BY <2>6, <3>1, CookiesComeBack, HeadersComeBack DEF Initialize, StoresInv
    <3>3. Empty \in KnownHeaders /\ DOMAIN Empty \subseteq Host
      BY EmptyIsFinite DEF KnownHeaders, Empty
    <3> QED BY <2>6, <3>2, <3>3 DEF Initialize, StoresInv
  <2>7. CASE UNCHANGED vars
    <3>1. SerializeHeaders' = SerializeHeaders /\ SerializeCookies' = SerializeCookies
      BY <2>7, UnchangedTexts DEF vars
    <3> QED BY <2>7, <3>1 DEF vars, StoresInv
  <2> QED BY <2>1, <2>2, <2>3, <2>4, <2>5, <2>6, <2>7 DEF Next
<1> QED BY <1>1, <1>2, PTL DEF Spec

\* The stores hold nothing but hosts, pages, cookies and responses that were
\* seen, however often they are written to an archive and read back.
THEOREM StoresTyped == Spec => []TypeOK
<1>1. StoresInv => TypeOK
  <2> SUFFICES ASSUME StoresInv PROVE TypeOK
    OBVIOUS
  <2>1. DOMAIN cookies \subseteq Host
    BY FiniteMap DEF StoresInv, KnownCookies
  <2>2. ASSUME NEW h \in DOMAIN cookies, NEW key \in DOMAIN cookies[h]
        PROVE  \E c \in Cookie : key = CookieKey(c) /\ cookies[h][key] \in {CookieValue(d) : d \in Cookie}
    <3>1. cookies[h] \in FiniteMaps(CookieKeys, CookieValues)
      BY FiniteMap DEF StoresInv, KnownCookies
    <3>2. key \in CookieKeys /\ cookies[h][key] \in CookieValues
      BY <3>1, FiniteMap
    <3> QED BY <3>2 DEF CookieKeys, CookieValues
  <2>3. ASSUME NEW headers \in {reader, writer}, NEW u \in DOMAIN headers
        PROVE  u \in Url /\ headers[u] \in HeaderEntry
    <3>1. headers \in FiniteMaps(Url, HeaderEntry)
      BY DEF StoresInv, KnownHeaders
    <3> QED BY <3>1, FiniteMap
  <2> QED BY <2>1, <2>2, <2>3 DEF TypeOK, StoresInv
<1> QED BY <1>1, StoresInvHolds, PTL

\* The next session begins with the very cookies this one has ended with,
\* whatever hosts set and however many: the text that CookieStore::serialize
\* writes is read back by deserialize as the store it was made from.
THEOREM CookiesAlwaysReturn == Spec => CookiesReturn
<1>1. StoresInv /\ [Next]_vars => [archive # None /\ archive' = None => cookies' = cookies]_vars
  <2> SUFFICES ASSUME StoresInv, [Next]_vars, archive # None, archive' = None
               PROVE  cookies' = cookies
    OBVIOUS
  <2>1. Initialize
    BY DEF Next, Set, GetCookiesList, Write, Finish, vars
  <2>2. cookies' = DeserializeCookies(SerializeCookies)
    BY <2>1 DEF Initialize, StoresInv
  <2> QED BY <2>2, CookiesComeBack DEF StoresInv
<1> QED BY <1>1, StoresInvHolds, PTL DEF Spec, CookiesReturn

\* So do the headers of every page (HeaderStore::serialize and deserialize).
THEOREM HeadersAlwaysReturn == Spec => HeadersReturn
<1>1. StoresInv /\ [Next]_vars => [archive # None /\ archive' = None => reader' = writer]_vars
  <2> SUFFICES ASSUME StoresInv, [Next]_vars, archive # None, archive' = None
               PROVE  reader' = writer
    OBVIOUS
  <2>1. Initialize
    BY DEF Next, Set, GetCookiesList, Write, Finish, vars
  <2>2. reader' = DeserializeHeaders(SerializeHeaders)
    BY <2>1 DEF Initialize, StoresInv
  <2> QED BY <2>2, HeadersComeBack DEF StoresInv
<1> QED BY <1>1, StoresInvHolds, PTL DEF Spec, HeadersReturn
=============================================================================
