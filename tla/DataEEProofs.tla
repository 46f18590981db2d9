---------------------------- MODULE DataEEProofs ----------------------------
(***************************************************************************)
(* For any number of pages, of words in a page and of addresses: the       *)
(* dspic's emulated EEPROM programs erased words only, and, if there are   *)
(* more than two pages, it is a store of bytes whatever the moment power   *)
(* fails.                                                                  *)
(***************************************************************************)
EXTENDS DataEE, FiniteSetTheorems, WellFoundedInduction, TLAPS

Full(p) == Found(p, ErasedWord.addr) = {}

\* A word with the address of an erased one is erased.
WordsErased ==
  \A p \in Pages, i \in Slots :
    pages[p].words[i].addr = ErasedWord.addr => pages[p].words[i] = ErasedWord

OthersBlank(c) == \A p \in Pages : p \notin {c, After(c, 1)} => pages[p] = BlankPage

\* Before the first start
Fresh == deeAt \in {"off", "initStatus"} /\ \A p \in Pages : pages[p] = BlankPage

\* One page is current, and the one after it at most being packed into.  After a reset in
\* a pack it keeps the words that were programmed, but then the current page is full and
\* nothing is ever packed again.
OnePage(c) ==
  /\ pages[c].status.current /\ OthersBlank(c)
  /\ pages[After(c, 1)].status = BlankPage.status
  /\ \/ deeAt \in {"off", "ready"} /\ (Full(c) \/ pages[After(c, 1)] = BlankPage)
     \/ deeAt = "pack" /\ Full(c) /\ pages[After(c, 1)] = BlankPage
     \/ /\ deeAt \in {"packRow", "packStatus"} /\ Full(c)
        /\ packing.from = c /\ packing.to = After(c, 1)
  /\ deeAt = "packRow" =>
       \A i \in Slots : RowOf(i) >= packing.row => pages[After(c, 1)].words[i] = ErasedWord

\* Two pages are current until the packed one is erased.  If these are all there are and
\* both are expired, a start leaves them.
TwoPages(c) ==
  /\ pages[c].status.current /\ pages[After(c, 1)].status.current /\ OthersBlank(c)
  /\ \/ deeAt = "off"
     \/ deeAt = "packErase" /\ packing.from = c /\ packing.to = After(c, 1)
     \/ deeAt \in {"ready", "pack"} /\ \A p \in Pages : pages[p].status.expired

\* The inductive invariant of what is erased
EraseInv ==
  /\ DataEETypeOK /\ WordsErased
  /\ Fresh \/ \E c \in Pages : OnePage(c) \/ TwoPages(c)

\* A step programs only what is erased.
ProgramsErased ==
  \A p \in Pages : pages'[p] # BlankPage =>
    /\ pages'[p].status # pages[p].status => pages[p].status = BlankPage.status
    /\ \A i \in Slots : pages'[p].words[i] # pages[p].words[i] => pages[p].words[i] = ErasedWord

-----------------------------------------------------------------------------
(* Pages, words, the least and the greatest of a set *)

LEMMA EEConstants ==
  /\ NUM_DATA_EE_PAGES \in Nat /\ NUM_DATA_EE_PAGES >= 2
  /\ LastPage = NUM_DATA_EE_PAGES - 1 /\ Pages = 0 .. LastPage /\ Pages \subseteq Nat
  /\ DATA_EE_SIZE \in 1 .. 255 /\ INSTRUCTIONS_IN_PAGE \in Nat
  /\ DATA_EE_SIZE < INSTRUCTIONS_IN_PAGE - 1
  /\ INSTRUCTIONS_IN_ROW \in Nat /\ INSTRUCTIONS_IN_ROW > 0
<1>1. NUM_DATA_EE_PAGES \in Nat /\ NUM_DATA_EE_PAGES >= 2
  BY DataEEAssumption
<1>2. DATA_EE_SIZE \in Char /\ DATA_EE_SIZE # 0 /\ INSTRUCTIONS_IN_PAGE \in Nat
      /\ INSTRUCTIONS_IN_PAGE > DATA_EE_SIZE + 1
  BY DataEEAssumption
<1>3. INSTRUCTIONS_IN_ROW \in Nat /\ INSTRUCTIONS_IN_ROW > 0
  BY DataEEAssumption
<1>4. LastPage = NUM_DATA_EE_PAGES - 1 /\ Pages = 0 .. LastPage /\ Pages \subseteq Nat
  BY <1>1 DEF LastPage, Pages
<1>5. DATA_EE_SIZE \in 1 .. 255
  BY <1>2 DEF Char
<1>6. DATA_EE_SIZE < INSTRUCTIONS_IN_PAGE - 1
  BY <1>2, <1>5
<1> QED BY <1>1, <1>2, <1>3, <1>4, <1>5, <1>6

LEMMA DataTypes ==
  /\ \A a \in Address : a \in Char /\ a # 255
  /\ \A v \in DataValues : v \in Char
  /\ \A v \in Char : v \in UInt
  /\ 0 \in UInt /\ 255 \in Char /\ Unwritten \in UInt
  /\ \A n \in Nat : n % 65536 \in UInt
  /\ UInt \subseteq Nat
<1>1. \A n \in Int : (n \in Char <=> 0 <= n /\ n <= 255) /\ (n \in UInt <=> 0 <= n /\ n <= 65535)
  <2>1. \A S, m : S = 0 .. m /\ m \in Int => \A n \in Int : n \in S <=> 0 <= n /\ n <= m
    OBVIOUS
  <2>2. \A n \in Int : n \in Char <=> 0 <= n /\ n <= 255
    BY <2>1 DEF Char
  <2>3. \A n \in Int : n \in UInt <=> 0 <= n /\ n <= 65535
    <3>1. Unwritten \in Int
      BY DEF Unwritten
    <3>2. \A n \in Int : n \in UInt <=> 0 <= n /\ n <= Unwritten
      BY <2>1, <3>1 DEF UInt
    <3> QED BY <3>2 DEF Unwritten
  <2> QED BY <2>2, <2>3
<1>2. Char \subseteq Int /\ UInt \subseteq Nat
  <2>1. \A k, m : k \in 0 .. m => k \in Nat /\ k \in Int
    OBVIOUS
  <2> QED BY <2>1, Zenon DEF Char, UInt
<1>3. \A v \in Char : v \in UInt
  BY <1>1, <1>2
<1>4. \A a \in Address : a \in Char /\ a # 255
  <2>1. DATA_EE_SIZE \in Int /\ DATA_EE_SIZE <= 255
    BY EEConstants
  <2>2. \A a \in Address : a \in Int /\ 0 <= a /\ a < DATA_EE_SIZE
    BY <2>1 DEF Address
  <2> QED BY <1>1, <2>1, <2>2
<1>5. \A n \in Nat : n % 65536 \in UInt
  <2>1. \A n \in Nat : n % 65536 \in Int /\ 0 <= n % 65536 /\ n % 65536 <= 65535
    OBVIOUS
  <2> QED BY <1>1, <2>1
<1>6. 0 \in UInt /\ 255 \in Char /\ Unwritten \in UInt
  BY <1>1 DEF Unwritten
<1>7. \A v \in DataValues : v \in Char
  BY DataEEAssumption
<1> QED BY <1>2, <1>3, <1>4, <1>5, <1>6, <1>7

\* The page after another is another page, and the circle has at least two.
LEMMA AfterIs ==
  ASSUME NEW p \in Pages
  PROVE  /\ After(p, 1) = IF p = LastPage THEN 0 ELSE p + 1
         /\ After(p, 1) \in Pages /\ After(p, 1) # p
         /\ NUM_DATA_EE_PAGES = 2 \/ After(After(p, 1), 1) # p
<1>1. \A q \in Pages : After(q, 1) = IF q = LastPage THEN 0 ELSE q + 1
  BY EEConstants DEF After
<1> QED BY <1>1, EEConstants

LEMMA AfterType == ASSUME NEW p \in Pages, NEW n \in Nat PROVE After(p, n) \in Pages
BY EEConstants DEF After

\* A nonempty set of naturals has a least element, and if it is bounded a greatest.
LEMMA MinIs ==
  ASSUME NEW S, S \subseteq Nat, S # {}
  PROVE  Min(S) \in S /\ \A y \in S : Min(S) <= y
<1>1. PICK x \in S : \A y \in S : ~(<<y, x>> \in OpToRel(<, Nat))
  BY WFMin, NatLessThanWellFounded
<1>2. \A y \in S : ~(y < x)
  BY <1>1, Zenon DEF OpToRel
<1>3. \A y \in S : x <= y
  BY <1>2
<1> QED BY <1>3 DEF Min

LEMMA MaxIs ==
  ASSUME NEW S, NEW b \in Nat, S \subseteq 0 .. b, S # {}
  PROVE  Max(S) \in S /\ \A y \in S : y <= Max(S)
<1> DEFINE T == {b - y : y \in S}
<1>1. T \subseteq Nat /\ T # {}
  <2>1. \A y \in S : b - y \in Nat
    OBVIOUS
  <2> QED BY <2>1
<1>2. Min(T) \in T /\ \A z \in T : Min(T) <= z
  BY <1>1, MinIs
<1>3. PICK x \in S : Min(T) = b - x
  BY <1>2
<1>4. \A y \in S : b - x <= b - y
  BY <1>2, <1>3
<1>5. \A y \in S : x >= y
  BY <1>4
<1> QED BY <1>5 DEF Max

\* Where a page has a word of an address, the last of them is one of its slots.
LEMMA FoundIs ==
  ASSUME NEW p, NEW a, Found(p, a) # {}
  PROVE  /\ Min(Found(p, a)) \in Found(p, a) /\ Max(Found(p, a)) \in Found(p, a)
         /\ \A i \in Found(p, a) : Min(Found(p, a)) <= i /\ i <= Max(Found(p, a))
<1>1. INSTRUCTIONS_IN_PAGE - 1 \in Nat /\ Found(p, a) \subseteq 0 .. INSTRUCTIONS_IN_PAGE - 1
  BY EEConstants DEF Found, Slots
<1>2. Found(p, a) \subseteq Nat
  BY <1>1
<1> QED BY <1>1, <1>2, MinIs, MaxIs

LEMMA NextAvailIs ==
  ASSUME NEW p
  PROVE  /\ NextAvail(p) = 0 <=> Full(p)
         /\ ~Full(p) => /\ NextAvail(p) \in Slots /\ pages[p].words[NextAvail(p)].addr = 255
                        /\ \A i \in Slots : pages[p].words[i].addr = 255 => NextAvail(p) <= i
<1>1. CASE Full(p)
  BY <1>1 DEF NextAvail, Full
<1>2. CASE ~Full(p)
  <2>1. NextAvail(p) = Min(Found(p, 255)) /\ Found(p, 255) # {}
    BY <1>2 DEF NextAvail, Full, ErasedWord
  <2>2. NextAvail(p) \in Found(p, 255) /\ \A i \in Found(p, 255) : NextAvail(p) <= i
    BY <2>1, FoundIs
  <2> QED BY <1>2, <2>2 DEF Found, Slots
<1> QED BY <1>1, <1>2

LEMMA ProgrammedIs == ASSUME NEW w PROVE Programmed(ErasedWord, w) = w
BY DEF Programmed

LEMMA BlankType ==
  /\ BlankPage \in PageType /\ BlankPage.status \in Statuses /\ ErasedWord \in Words
  /\ ~BlankPage.status.current /\ ~BlankPage.status.expired
  /\ \A i \in Slots : BlankPage.words[i] = ErasedWord
  /\ ErasedWord.addr = 255
<1>1. ErasedWord \in Words /\ ErasedWord.addr = 255
  BY DataTypes DEF ErasedWord, Words
<1> DEFINE b == [current |-> FALSE, expired |-> FALSE, count |-> 65535]
<1>2. b \in Statuses /\ ~b.current /\ ~b.expired
  BY DataTypes DEF Statuses, Unwritten
<1>3. BlankPage = [status |-> b, words |-> [i \in Slots |-> ErasedWord]]
  BY <1>2, SMT DEF BlankPage
<1> QED BY <1>1, <1>2, <1>3, SMT DEF PageType

\* A word that is written has the address of no erased one.
LEMMA WordIs ==
  ASSUME NEW a \in Address, NEW v \in DataValues
  PROVE  [addr |-> a, data |-> v] \in Words /\ [addr |-> a, data |-> v].addr = a /\ a # 255
BY DataTypes DEF Words

-----------------------------------------------------------------------------
(* The current pages *)

LEMMA NoneCurrent == Fresh => CurrentPages = {}
BY BlankType DEF Fresh, CurrentPages

LEMMA OneCurrent ==
  ASSUME NEW c \in Pages, OnePage(c)
  PROVE  CurrentPages = {c} /\ CurrentPage = c /\ Cardinality(CurrentPages) = 1
<1>1. \A p \in Pages : p # c => ~pages[p].status.current
  BY BlankType DEF OnePage, OthersBlank
<1>2. CurrentPages = {c}
  BY <1>1 DEF OnePage, CurrentPages
<1>3. CurrentPage = c
  <2>1. {c} \subseteq Nat
    BY EEConstants
  <2>2. Min({c}) \in {c}
    BY <2>1, MinIs
  <2> QED BY <1>2, <2>2 DEF CurrentPage
<1> QED BY <1>2, <1>3, FS_Singleton

LEMMA TwoCurrent ==
  ASSUME NEW c \in Pages, TwoPages(c)
  PROVE  /\ CurrentPages = {c, After(c, 1)} /\ Cardinality(CurrentPages) = 2
         /\ CurrentPage \in {c, After(c, 1)}
         /\ CurrentPage <= c /\ CurrentPage <= After(c, 1)
<1> DEFINE d == After(c, 1)
<1>1. d \in Pages /\ d # c
  BY AfterIs
<1>2. \A p \in Pages : p \notin {c, d} => ~pages[p].status.current
  BY BlankType DEF TwoPages, OthersBlank
<1>3. CurrentPages = {c, d}
  BY <1>1, <1>2 DEF TwoPages, CurrentPages
<1>4. Cardinality(CurrentPages) = 2
  <2>1. IsFiniteSet({c}) /\ Cardinality({c}) = 1 /\ {c, d} = {c} \cup {d} /\ d \notin {c}
    BY <1>1, FS_Singleton
  <2> QED BY <1>3, <2>1, FS_AddElement
<1>5. CurrentPage \in {c, d} /\ \A p \in {c, d} : CurrentPage <= p
  <2>1. {c, d} \subseteq Nat /\ {c, d} # {}
    BY <1>1, EEConstants
  <2> QED BY <1>3, <2>1, MinIs DEF CurrentPage
<1> QED BY <1>3, <1>4, <1>5

-----------------------------------------------------------------------------
(* Only erased words are programmed *)

LEMMA EraseInit == DataEEStart => EraseInv
<1> SUFFICES ASSUME DataEEStart PROVE EraseInv
  OBVIOUS
<1>1. DataEETypeOK
  <2>1. pages \in [Pages -> PageType]
    BY BlankType DEF DataEEStart
  <2>2. packing \in [from : Pages, to : Pages, row : Nat]
    BY EEConstants DEF DataEEStart, NoPack
  <2> QED BY <2>1, <2>2 DEF DataEEStart, DataEETypeOK
<1>2. WordsErased /\ Fresh
  BY BlankType DEF DataEEStart, WordsErased, Fresh
<1> QED BY <1>1, <1>2 DEF EraseInv

\* What a step that programs nothing needs
LEMMA PagesKept ==
  ASSUME EraseInv, pages' = pages
  PROVE  /\ WordsErased' /\ ProgramsErased
         /\ \A p \in Pages : Full(p)' = Full(p)
         /\ \A c \in Pages : OthersBlank(c)' = OthersBlank(c)
BY DEF EraseInv, WordsErased, ProgramsErased, Full, Found, OthersBlank

\* The page kept is one of the two, and the one after it is the other.
LEMMA KeptIs ==
  ASSUME NEW c \in Pages, TwoPages(c)
  PROVE  /\ Kept \in {c, After(c, 1)}
         /\ After(Kept, 1) \in {c, After(c, 1)} \ {Kept}
         /\ NUM_DATA_EE_PAGES > 2 => Kept = c
<1>1. PICK d \in Pages : d = After(c, 1) /\ d # c /\ d = IF c = LastPage THEN 0 ELSE c + 1
  BY AfterIs
<1>2. CurrentPages = {c, d} /\ CurrentPage \in {c, d} /\ CurrentPage <= c /\ CurrentPage <= d
  BY <1>1, TwoCurrent
<1>3. c \in 0 .. LastPage /\ LastPage \in Nat /\ LastPage >= 1 /\ LastPage = NUM_DATA_EE_PAGES - 1
  BY EEConstants
<1>4. After(d, 1) = IF d = LastPage THEN 0 ELSE d + 1
  BY <1>1, AfterIs
<1>5. CASE {0, LastPage} \subseteq CurrentPages
  <2>1. 0 \in {c, d} /\ LastPage \in {c, d} /\ Kept = LastPage
    BY <1>2, <1>5 DEF Kept
  <2>2. CASE c = LastPage
    BY <1>1, <1>3, <2>1, <2>2
  <2>3. CASE c = 0 /\ d = LastPage
    <3>1. c # LastPage /\ c = 0 /\ d = LastPage
      BY <1>3, <2>3
    <3>2. d = 1
      BY <1>1, <3>1
    <3>3. LastPage = 1 /\ After(d, 1) = c
      BY <1>4, <3>1, <3>2
    <3>4. Kept = d /\ After(Kept, 1) = c
      BY <2>1, <3>1, <3>3
    <3>5. ~(NUM_DATA_EE_PAGES > 2)
      BY <3>3, EEConstants
    <3> QED BY <1>1, <3>4, <3>5
  <2> QED BY <1>3, <2>1, <2>2, <2>3
<1>6. CASE ~({0, LastPage} \subseteq CurrentPages)
  <2>1. Kept = CurrentPage /\ ~(0 \in {c, d} /\ LastPage \in {c, d})
    BY <1>2, <1>6 DEF Kept
  <2>2. c # LastPage
    BY <1>1, <2>1
  <2>3. CurrentPage = c
    BY <1>1, <1>2, <1>3, <2>2
  <2> QED BY <1>1, <2>1, <2>3
<1> QED BY <1>5, <1>6

LEMMA InitErases ==
  ASSUME EraseInv, DataEEInit
  PROVE  EraseInv' /\ ProgramsErased
<1>0. deeAt = "off" /\ packing' = packing /\ addrNotFound' = addrNotFound /\ asked' = asked
  BY DEF DataEEInit
<1>1. CASE \A p \in Pages : pages[p].status.expired
  <2>1. pages' = pages /\ deeAt' = "ready"
    BY <1>1 DEF DataEEInit
  <2>2. ~Fresh
    BY <1>1, EEConstants, BlankType DEF Fresh
  <2>3. \A c \in Pages : ~OnePage(c)
    BY <1>1, AfterIs, BlankType DEF OnePage
  <2>4. PICK c \in Pages : TwoPages(c)
    BY <2>2, <2>3 DEF EraseInv
  <2>5. TwoPages(c)'
    BY <1>1, <2>1, <2>4, PagesKept DEF TwoPages
  <2>6. DataEETypeOK'
    BY <1>0, <2>1 DEF EraseInv, DataEETypeOK
  <2> QED BY <2>1, <2>5, <2>6, PagesKept DEF EraseInv
<1>2. CASE ~(\A p \in Pages : pages[p].status.expired) /\ Fresh
  <2>1. pages' = [pages EXCEPT ![0] = BlankPage] /\ deeAt' = "initStatus"
    BY <1>2, NoneCurrent DEF DataEEInit
  <2>2. pages' = pages
    <3>1. pages \in [Pages -> PageType] /\ 0 \in Pages
      BY EEConstants DEF EraseInv, DataEETypeOK
    <3>2. pages[0] = BlankPage
      BY <1>2, <3>1 DEF Fresh
    <3> QED BY <2>1, <3>1, <3>2
  <2>3. Fresh'
    BY <1>2, <2>1, <2>2 DEF Fresh
  <2>4. DataEETypeOK'
    BY <1>0, <2>1, <2>2 DEF EraseInv, DataEETypeOK
  <2> QED BY <2>2, <2>3, <2>4, PagesKept DEF EraseInv
<1>3. ASSUME ~(\A p \in Pages : pages[p].status.expired), NEW c \in Pages, OnePage(c)
      PROVE  EraseInv' /\ ProgramsErased
  <2>1. CurrentPages # {} /\ Cardinality(CurrentPages) # 2
    BY <1>3, OneCurrent
  <2>2. pages' = pages /\ deeAt' = "ready"
    BY <1>3, <2>1 DEF DataEEInit
  <2>3. OnePage(c)'
    BY <1>0, <1>3, <2>2, PagesKept DEF OnePage
  <2>4. DataEETypeOK'
    BY <1>0, <2>2 DEF EraseInv, DataEETypeOK
  <2> QED BY <2>2, <2>3, <2>4, PagesKept DEF EraseInv
<1>4. ASSUME ~(\A p \in Pages : pages[p].status.expired), NEW c \in Pages, TwoPages(c)
      PROVE  EraseInv' /\ ProgramsErased
  <2>0. CurrentPages # {} /\ Cardinality(CurrentPages) = 2
    BY <1>4, TwoCurrent
  <2>1. PICK k \in Pages : /\ k = Kept
                           /\ k \in {c, After(c, 1)} /\ After(k, 1) \in {c, After(c, 1)} \ {k}
    BY <1>4, KeptIs, AfterIs
  <2>2. /\ pages' = [pages EXCEPT ![After(k, 1)] = BlankPage]
        /\ deeAt' = IF NextAvail(k) = 0 THEN "pack" ELSE "ready"
    BY <1>4, <2>0, <2>1 DEF DataEEInit
  <2>3. /\ pages'[After(k, 1)] = BlankPage /\ \A p \in Pages : p # After(k, 1) => pages'[p] = pages[p]
        /\ After(k, 1) \in Pages /\ After(k, 1) # k
    BY <2>2, AfterIs DEF EraseInv, DataEETypeOK
  <2>4. /\ \A p \in Pages : p # k => pages'[p] = BlankPage
        /\ pages'[k] = pages[k] /\ pages[k].status.current
    BY <1>4, <2>1, <2>3, AfterIs DEF TwoPages, OthersBlank
  <2>5. Full(k)' = Full(k)
    BY <2>4 DEF Full, Found
  <2>6. OnePage(k)'
    BY <2>2, <2>3, <2>4, <2>5, NextAvailIs DEF OnePage, OthersBlank
  <2>7. WordsErased' /\ ProgramsErased
    <3>1. \A i \in Slots : BlankPage.words[i] = ErasedWord
      BY BlankType
    <3>2. WordsErased'
      BY <2>1, <2>4, <3>1 DEF EraseInv, WordsErased
    <3>3. ProgramsErased
      BY <2>1, <2>4, <3>1 DEF ProgramsErased
    <3> QED BY <3>2, <3>3
  <2>8. DataEETypeOK'
    <3>1. pages' \in [Pages -> PageType]
      BY <2>2, BlankType DEF EraseInv, DataEETypeOK
    <3> QED BY <1>0, <2>2, <3>1 DEF EraseInv, DataEETypeOK
  <2> QED BY <2>6, <2>7, <2>8 DEF EraseInv
<1> QED BY <1>1, <1>2, <1>3, <1>4 DEF EraseInv

LEMMA InitStatusErases ==
  ASSUME EraseInv, InitStatus
  PROVE  EraseInv' /\ ProgramsErased
<1>1. /\ deeAt = "initStatus" /\ deeAt' = "ready" /\ packing' = packing
      /\ addrNotFound' = addrNotFound /\ asked' = asked
  BY DEF InitStatus
<1>2. PICK s \in Statuses : s.current /\ pages' = [pages EXCEPT ![0].status = s]
  <2> DEFINE s == [current |-> TRUE, expired |-> FALSE, count |-> 0]
  <2>1. s \in Statuses /\ s.current
    BY DataTypes DEF Statuses
  <2> QED BY <2>1 DEF InitStatus
<1>3. Fresh
  BY <1>1 DEF EraseInv, OnePage, TwoPages
<1>4. 0 \in Pages /\ pages \in [Pages -> PageType] /\ \A p \in Pages : pages[p] = BlankPage
  BY <1>3, EEConstants DEF EraseInv, DataEETypeOK, Fresh
<1>5. /\ pages'[0] = [BlankPage EXCEPT !.status = s]
      /\ \A p \in Pages : p # 0 => pages'[p] = BlankPage
  BY <1>2, <1>4
<1>6. /\ pages'[0].status = s /\ pages'[0].words = BlankPage.words
      /\ pages'[0] \in PageType /\ pages' \in [Pages -> PageType]
  BY <1>2, <1>4, <1>5, BlankType, SMT DEF PageType
<1>7. OnePage(0)'
  BY <1>1, <1>2, <1>4, <1>5, <1>6, AfterIs DEF OnePage, OthersBlank
<1>8. WordsErased'
  <2>1. \A p \in Pages : pages'[p].words = BlankPage.words
    BY <1>5, <1>6
  <2> QED BY <2>1, BlankType DEF WordsErased
<1>9. ProgramsErased
  BY <1>4, <1>5, <1>6 DEF ProgramsErased
<1>10. DataEETypeOK'
  BY <1>1, <1>6 DEF EraseInv, DataEETypeOK
<1> QED BY <1>4, <1>7, <1>8, <1>9, <1>10 DEF EraseInv

\* Steps that program nothing and change only what is about to be done
LEMMA PowerErases ==
  ASSUME EraseInv, PowerFails
  PROVE  EraseInv' /\ ProgramsErased
<1>1. deeAt' = "off" /\ packing' = NoPack /\ addrNotFound' = FALSE /\ asked' = asked /\ pages' = pages
  BY DEF PowerFails
<1>2. Fresh => Fresh'
  BY <1>1 DEF Fresh
<1>3. ASSUME NEW c \in Pages, OnePage(c) PROVE OnePage(c)'
  BY <1>1, <1>3, PagesKept DEF OnePage
<1>4. ASSUME NEW c \in Pages, TwoPages(c) PROVE TwoPages(c)'
  BY <1>1, <1>4, PagesKept DEF TwoPages
<1>5. DataEETypeOK'
  <2>1. NoPack \in [from : Pages, to : Pages, row : Nat]
    BY EEConstants DEF NoPack
  <2> QED BY <1>1, <2>1 DEF EraseInv, DataEETypeOK
<1> QED BY <1>1, <1>2, <1>3, <1>4, <1>5, PagesKept DEF EraseInv

LEMMA ReadErases ==
  ASSUME EraseInv, deeAt' = deeAt, pages' = pages, packing' = packing,
         addrNotFound' \in BOOLEAN, asked' \in {<<>>} \cup (Address \X DataValues)
  PROVE  EraseInv' /\ ProgramsErased
<1>1. Fresh => Fresh'
  BY DEF Fresh
<1>2. ASSUME NEW c \in Pages, OnePage(c) PROVE OnePage(c)'
  BY <1>2, PagesKept DEF OnePage
<1>3. ASSUME NEW c \in Pages, TwoPages(c) PROVE TwoPages(c)'
  BY <1>3, PagesKept DEF TwoPages
<1>4. DataEETypeOK'
  BY DEF EraseInv, DataEETypeOK
<1> QED BY <1>1, <1>2, <1>3, <1>4, PagesKept DEF EraseInv

\* While bytes are written some page is current, and it is the one that is written to.
LEMMA ReadyIs ==
  ASSUME EraseInv, deeAt \in {"ready", "pack"}
  PROVE  CurrentPage \in Pages /\ CurrentPages # {} /\ ~Fresh
<1>1. ~Fresh
  BY DEF Fresh
<1>2. PICK c \in Pages : OnePage(c) \/ TwoPages(c)
  BY <1>1 DEF EraseInv
<1> QED BY <1>1, <1>2, OneCurrent, TwoCurrent, AfterIs

LEMMA WriteErases ==
  ASSUME EraseInv, NEW a \in Address, NEW v \in DataValues, DataEEWrite(a, v)
  PROVE  EraseInv' /\ ProgramsErased
<1> DEFINE w == [addr |-> a, data |-> v]
<1>1. deeAt = "ready" /\ packing' = packing /\ addrNotFound' = addrNotFound /\ asked' = <<a, v>>
  BY DEF DataEEWrite
<1>2. asked' \in {<<>>} \cup (Address \X DataValues)
  BY <1>1
<1>3. PICK c \in Pages : c = CurrentPage
  BY <1>1, ReadyIs
<1>4. CASE (DataEERead(a) = v /\ ~addrNotFound) \/ NextAvail(c) = 0
  <2>1. UNCHANGED <<pages, deeAt>>
    BY <1>3, <1>4 DEF DataEEWrite
  <2> QED BY <1>1, <1>2, <2>1, ReadErases DEF EraseInv, DataEETypeOK
<1>5. CASE ~((DataEERead(a) = v /\ ~addrNotFound) \/ NextAvail(c) = 0)
  <2>1. PICK f \in Slots : /\ f = NextAvail(c) /\ pages[c].words[f] = ErasedWord /\ ~Full(c)
                           /\ \A i \in Slots : pages[c].words[i].addr = 255 => f <= i
    BY <1>5, NextAvailIs DEF EraseInv, WordsErased, ErasedWord
  <2>2. /\ pages' = [pages EXCEPT ![c].words[f] = Programmed(@, w)]
        /\ deeAt' = IF f = INSTRUCTIONS_IN_PAGE - 1 THEN "pack" ELSE "ready"
    BY <1>3, <1>5, <2>1 DEF DataEEWrite
  <2>3. pages \in [Pages -> PageType] /\ pages[c] \in PageType
        /\ \A p \in Pages : pages[p].words \in [Slots -> Words] /\ pages[p].status \in Statuses
    BY SMT DEF EraseInv, DataEETypeOK, PageType
  <2>4. w \in Words /\ w.addr = a /\ a # 255
    BY WordIs
  <2>5. /\ \A p \in Pages : p # c => pages'[p] = pages[p]
        /\ pages'[c] = [pages[c] EXCEPT !.words = [@ EXCEPT ![f] = w]]
    BY <2>1, <2>2, <2>3, ProgrammedIs
  <2>6. /\ pages'[c].status = pages[c].status /\ pages'[c].words[f] = w
        /\ \A i \in Slots : i # f => pages'[c].words[i] = pages[c].words[i]
    BY <2>3, <2>5, SMT DEF PageType
  <2>7. pages'[c] \in PageType /\ pages' \in [Pages -> PageType]
    <3>1. [pages[c].words EXCEPT ![f] = w] \in [Slots -> Words]
      BY <2>3, <2>4
    <3>2. pages'[c] \in PageType
      BY <2>3, <2>5, <3>1, SMT DEF PageType
    <3> QED BY <2>2, <2>3, <2>5, <3>2
  <2>8. DataEETypeOK'
    BY <1>1, <1>2, <2>2, <2>7 DEF EraseInv, DataEETypeOK
  <2>9. WordsErased'
    <3> SUFFICES ASSUME NEW p \in Pages, NEW i \in Slots, pages'[p].words[i].addr = ErasedWord.addr
                 PROVE  pages'[p].words[i] = ErasedWord
      BY DEF WordsErased
    <3>1. pages'[p].words[i] = pages[p].words[i]
      <4>1. CASE p = c /\ i = f
        BY <2>4, <2>6, <4>1, BlankType
      <4>2. CASE ~(p = c /\ i = f)
        BY <2>5, <2>6, <4>2
      <4> QED BY <4>1, <4>2
    <3> QED BY <3>1 DEF EraseInv, WordsErased
  <2>10. ProgramsErased
    <3> SUFFICES ASSUME NEW p \in Pages
                 PROVE  /\ pages'[p].status = pages[p].status
                        /\ \A i \in Slots : \/ pages'[p].words[i] = pages[p].words[i]
                                            \/ pages[p].words[i] = ErasedWord
      BY DEF ProgramsErased
    <3>1. CASE p # c
      BY <2>5, <3>1
    <3>2. CASE p = c
      BY <2>1, <2>6, <3>2
    <3> QED BY <3>1, <3>2
  <2>11. ASSUME NEW k \in Pages, OnePage(k) PROVE OnePage(k)'
    <3>1. k = c
      BY <1>3, <2>11, OneCurrent
    <3>2. pages'[After(c, 1)] = BlankPage
      BY <1>1, <2>1, <2>5, <2>11, <3>1, AfterIs DEF OnePage
    <3>3. f = INSTRUCTIONS_IN_PAGE - 1 => Full(c)'
      <4>1. ASSUME f = INSTRUCTIONS_IN_PAGE - 1, NEW i \in Slots, pages'[c].words[i].addr = 255
            PROVE  FALSE
        <5>1. i # f
          BY <2>4, <2>6, <4>1
        <5>2. f <= i
          BY <2>1, <2>6, <4>1, <5>1
        <5> QED BY <4>1, <5>1, <5>2, EEConstants DEF Slots
      <4> QED BY <4>1 DEF Full, Found, ErasedWord
    <3>4. OthersBlank(c)'
      BY <2>5, <2>11, <3>1 DEF OnePage, OthersBlank
    <3>5. deeAt' \in {"ready", "pack"} /\ (deeAt' = "pack" => Full(c)')
      BY <2>2, <3>3
    <3> QED BY <2>6, <2>11, <3>1, <3>2, <3>4, <3>5 DEF OnePage
  <2>12. ASSUME NEW k \in Pages, TwoPages(k) PROVE TwoPages(k)'
    <3>1. c \in {k, After(k, 1)} /\ \A p \in Pages : pages'[p].status = pages[p].status
      BY <1>3, <2>5, <2>6, <2>12, TwoCurrent
    <3>2. OthersBlank(k)'
      BY <2>5, <2>12, <3>1 DEF TwoPages, OthersBlank
    <3> QED BY <1>1, <2>2, <2>12, <3>1, <3>2, AfterIs DEF TwoPages
  <2> QED BY <1>1, <2>8, <2>9, <2>10, <2>11, <2>12, ReadyIs DEF EraseInv
<1> QED BY <1>4, <1>5

\* What a read answers, and what is packed, are a byte or what an erased word holds.
LEMMA ReadType == EraseInv => \A a : DataEERead(a) \in UInt
<1> SUFFICES ASSUME EraseInv, NEW a PROVE DataEERead(a) \in UInt
  OBVIOUS
<1>1. CASE CurrentPages = {} \/ Found(CurrentPage, a) = {}
  BY <1>1, DataTypes DEF DataEERead
<1>2. CASE ~(CurrentPages = {} \/ Found(CurrentPage, a) = {})
  <2>1. CurrentPage \in Pages
    <3>1. CurrentPages \subseteq Pages /\ CurrentPages \subseteq Nat
      BY EEConstants DEF CurrentPages
    <3> QED BY <1>2, <3>1, MinIs DEF CurrentPage
  <2>2. Max(Found(CurrentPage, a)) \in Slots
    BY <1>2, FoundIs DEF Found
  <2>3. pages[CurrentPage].words[Max(Found(CurrentPage, a))] \in Words
    BY <2>1, <2>2 DEF EraseInv, DataEETypeOK, PageType
  <2> QED BY <1>2, <2>3 DEF DataEERead, Words
<1> QED BY <1>1, <1>2

LEMMA PackedIs ==
  EraseInv => \A i : /\ PackedWord(i) \in Words
                     /\ PackedWord(i).addr = 255 => PackedWord(i) = ErasedWord
<1> SUFFICES ASSUME EraseInv, NEW i
             PROVE  /\ PackedWord(i) \in Words
                    /\ PackedWord(i).addr = 255 => PackedWord(i) = ErasedWord
  OBVIOUS
<1> DEFINE first == {a \in Written : Cardinality({b \in Written : b <= a}) = i}
<1>1. CASE first = {}
  BY <1>1, BlankType DEF PackedWord
<1>2. CASE first # {}
  <2>1. PICK a \in Address : PackedWord(i) = [addr |-> a, data |-> DataEERead(a)]
    BY <1>2 DEF PackedWord, Written
  <2>2. DataEERead(a) \in UInt /\ a \in Char /\ a # 255
    BY ReadType, DataTypes
  <2> QED BY <2>1, <2>2 DEF Words
<1> QED BY <1>1, <1>2

LEMMA PackErases ==
  ASSUME EraseInv, PackEE
  PROVE  EraseInv' /\ ProgramsErased
<1>1. deeAt = "pack" /\ pages' = pages /\ addrNotFound' = addrNotFound /\ asked' = asked
  BY DEF PackEE
<1>2. CurrentPage \in Pages
  BY <1>1, ReadyIs
<1>3. CASE Unexpired(CurrentPage) = {}
  <2>1. deeAt' = "ready" /\ packing' = packing
    BY <1>3 DEF PackEE
  <2>2. DataEETypeOK'
    BY <1>1, <2>1 DEF EraseInv, DataEETypeOK
  <2>3. ASSUME NEW c \in Pages, OnePage(c) PROVE OnePage(c)'
    BY <1>1, <2>1, <2>3, PagesKept DEF OnePage
  <2>4. ASSUME NEW c \in Pages, TwoPages(c) PROVE TwoPages(c)'
    BY <1>1, <2>1, <2>4, PagesKept DEF TwoPages
  <2> QED BY <1>1, <2>2, <2>3, <2>4, ReadyIs, PagesKept DEF EraseInv
<1>4. CASE Unexpired(CurrentPage) # {}
  <2>1. /\ deeAt' = "packRow"
        /\ packing' = [from |-> CurrentPage, row |-> 0,
                       to |-> After(CurrentPage, Min(Unexpired(CurrentPage)))]
    BY <1>4 DEF PackEE
  <2>2. PICK n \in 1 .. LastPage : ~pages[After(CurrentPage, n)].status.expired
    BY <1>4 DEF Unexpired
  <2>3. After(CurrentPage, n) \in Pages
    <3>1. n \in Nat
      BY <2>2, EEConstants
    <3> QED BY <1>2, <3>1, AfterType
  <2>4. PICK c \in Pages : OnePage(c)
    BY <1>1, <2>2, <2>3, ReadyIs DEF EraseInv, TwoPages
  <2>5. c = CurrentPage /\ After(c, 1) \in Pages
    BY <2>4, OneCurrent, AfterIs
  <2>6. pages[After(c, 1)] = BlankPage /\ Full(c)
    BY <1>1, <2>4 DEF OnePage
  <2>7. Min(Unexpired(c)) = 1
    <3>1. 1 \in Unexpired(c)
      BY <2>6, BlankType, EEConstants DEF Unexpired
    <3>2. Unexpired(c) \subseteq Nat /\ \A k \in Unexpired(c) : 1 <= k
      BY EEConstants DEF Unexpired
    <3> QED BY <3>1, <3>2, MinIs
  <2>8. packing' = [from |-> c, row |-> 0, to |-> After(c, 1)]
    BY <2>1, <2>5, <2>7
  <2>9. OnePage(c)'
    BY <1>1, <2>1, <2>4, <2>6, <2>8, BlankType, PagesKept DEF OnePage
  <2>10. DataEETypeOK'
    BY <1>1, <2>1, <2>5, <2>8 DEF EraseInv, DataEETypeOK
  <2> QED BY <1>1, <2>9, <2>10, PagesKept DEF EraseInv
<1> QED BY <1>3, <1>4

\* While a page is packed, one page is current and another takes its bytes.
LEMMA PackingIs ==
  ASSUME EraseInv, deeAt \in {"packRow", "packStatus", "packErase"}
  PROVE  /\ packing.from \in Pages /\ packing.to = After(packing.from, 1)
         /\ packing.to \in Pages /\ packing.to # packing.from
         /\ packing.row \in Nat
         /\ IF deeAt = "packErase" THEN TwoPages(packing.from) ELSE OnePage(packing.from)
<1>1. packing.from \in Pages /\ packing.to \in Pages /\ packing.row \in Nat
  BY DEF EraseInv, DataEETypeOK
<1>2. PICK c \in Pages : IF deeAt = "packErase" THEN TwoPages(c) ELSE OnePage(c)
  BY DEF EraseInv, Fresh, OnePage, TwoPages
<1>3. packing.from = c /\ packing.to = After(c, 1)
  BY <1>2 DEF OnePage, TwoPages
<1> QED BY <1>1, <1>2, <1>3, AfterIs

LEMMA PackRowErases ==
  ASSUME EraseInv, PackRow
  PROVE  EraseInv' /\ ProgramsErased
<1>1. deeAt = "packRow" /\ addrNotFound' = addrNotFound /\ asked' = asked
  BY DEF PackRow
<1>2. PICK c \in Pages, d \in Pages :
        c = packing.from /\ d = packing.to /\ d # c /\ d = After(c, 1) /\ OnePage(c)
  BY <1>1, PackingIs
<1>3. packing.row \in Nat /\ pages \in [Pages -> PageType]
  BY <1>1, PackingIs DEF EraseInv, DataEETypeOK
<1>4. /\ pages' = [pages EXCEPT ![d].words =
                     [i \in Slots |-> IF RowOf(i) = packing.row
                                        THEN Programmed(@[i], PackedWord(i)) ELSE @[i]]]
      /\ packing' = [packing EXCEPT !.row = @ + 1] /\ deeAt' \in {"packRow", "packStatus"}
  BY <1>2 DEF PackRow
<1>5. /\ \A p \in Pages : p # d => pages'[p] = pages[p]
      /\ pages'[d].status = pages[d].status
      /\ \A i \in Slots : pages'[d].words[i] =
           IF RowOf(i) = packing.row THEN Programmed(pages[d].words[i], PackedWord(i))
                                     ELSE pages[d].words[i]
  BY <1>3, <1>4 DEF PageType
<1>6. \A i \in Slots : RowOf(i) >= packing.row => pages[d].words[i] = ErasedWord
  BY <1>1, <1>2 DEF OnePage
<1>7. \A i \in Slots : RowOf(i) \in Nat
  BY EEConstants DEF RowOf, Slots
<1>8. \A i \in Slots : pages'[d].words[i] =
        IF RowOf(i) = packing.row THEN PackedWord(i) ELSE pages[d].words[i]
  <2>1. \A i \in Slots : RowOf(i) = packing.row =>
          Programmed(pages[d].words[i], PackedWord(i)) = PackedWord(i)
    BY <1>3, <1>6, <1>7, ProgrammedIs
  <2> QED BY <1>5, <2>1
<1>9. ProgramsErased
  BY <1>3, <1>5, <1>6, <1>7, <1>8 DEF ProgramsErased
<1>10. WordsErased'
  <2> SUFFICES ASSUME NEW p \in Pages, NEW i \in Slots, pages'[p].words[i].addr = ErasedWord.addr
               PROVE  pages'[p].words[i] = ErasedWord
    BY DEF WordsErased
  <2>1. CASE p = d /\ RowOf(i) = packing.row
    BY <1>8, <2>1, PackedIs, BlankType
  <2>2. CASE ~(p = d /\ RowOf(i) = packing.row)
    BY <1>5, <1>8, <2>2 DEF EraseInv, WordsErased
  <2> QED BY <2>1, <2>2
<1>11. DataEETypeOK'
  <2>1. pages[d].status \in Statuses /\ pages[d].words \in [Slots -> Words] /\ pages[d] \in PageType
    BY <1>3 DEF PageType
  <2>2. PICK w \in [Slots -> Words] : pages' = [pages EXCEPT ![d].words = w]
    <3> DEFINE w == [i \in Slots |-> IF RowOf(i) = packing.row
                                      THEN Programmed(pages[d].words[i], PackedWord(i))
                                      ELSE pages[d].words[i]]
    <3>1. w = [i \in Slots |-> IF RowOf(i) = packing.row THEN PackedWord(i) ELSE pages[d].words[i]]
      BY <1>5, <1>8
    <3>2. w \in [Slots -> Words]
      BY <2>1, <3>1, PackedIs
    <3> QED BY <1>3, <1>4, <3>2
  <2>3. pages' \in [Pages -> PageType]
    BY <1>3, <2>1, <2>2 DEF PageType
  <2>4. packing' \in [from : Pages, to : Pages, row : Nat]
    BY <1>4 DEF EraseInv, DataEETypeOK
  <2> QED BY <1>1, <1>4, <2>3, <2>4 DEF EraseInv, DataEETypeOK
<1>12. OnePage(c)'
  <2>1. OthersBlank(c)' /\ pages'[c] = pages[c]
    BY <1>2, <1>5 DEF OnePage, OthersBlank
  <2>2. Full(c)'
    BY <1>1, <1>2, <2>1 DEF OnePage, Full, Found
  <2>3. packing'.from = c /\ packing'.to = d /\ packing'.row = packing.row + 1
    BY <1>2, <1>4 DEF EraseInv, DataEETypeOK
  <2>4. \A i \in Slots : RowOf(i) >= packing'.row => pages'[d].words[i] = ErasedWord
    BY <1>3, <1>6, <1>7, <1>8, <2>3
  <2> QED BY <1>2, <1>4, <1>5, <2>1, <2>2, <2>3, <2>4 DEF OnePage
<1> QED BY <1>9, <1>10, <1>11, <1>12 DEF EraseInv

LEMMA PackStatusErases ==
  ASSUME EraseInv, PackStatus
  PROVE  EraseInv' /\ ProgramsErased
<1>1. deeAt = "packStatus" /\ packing' = packing /\ addrNotFound' = addrNotFound /\ asked' = asked
  BY DEF PackStatus
<1>2. PICK c \in Pages, d \in Pages :
        c = packing.from /\ d = packing.to /\ d # c /\ d = After(c, 1) /\ OnePage(c)
  BY <1>1, PackingIs
<1>3. CASE ~Verified(packing.to)
  <2>1. pages' = pages /\ deeAt' = "ready"
    BY <1>3 DEF PackStatus
  <2>2. OnePage(c)'
    BY <1>1, <1>2, <2>1, PagesKept DEF OnePage
  <2>3. DataEETypeOK'
    BY <1>1, <2>1 DEF EraseInv, DataEETypeOK
  <2> QED BY <2>1, <2>2, <2>3, PagesKept DEF EraseInv
<1>4. CASE Verified(packing.to)
  <2>1. pages \in [Pages -> PageType] /\ pages[c].status \in Statuses
        /\ pages[d].words \in [Slots -> Words]
    BY DEF EraseInv, DataEETypeOK, PageType
  <2>2. PICK s \in Statuses : s.current /\ pages' = [pages EXCEPT ![d].status = s]
    <3> DEFINE old == pages[packing.from].status
               count == (old.count + (IF packing.to = 0 THEN 1 ELSE 0)) % 65536
               s == [current |-> TRUE, count |-> count,
                     expired |-> old.expired \/ count >= ERASE_WRITE_CYCLE_MAX - 1]
    <3>1. pages' = [pages EXCEPT ![packing.to].status = s] /\ old = pages[c].status
      BY <1>2, <1>4 DEF PackStatus
    <3>2. count \in UInt
      <4>1. old.count \in UInt
        BY <2>1, <3>1 DEF Statuses
      <4>2. \A n \in Nat : n + 1 \in Nat /\ n + 0 \in Nat
        OBVIOUS
      <4>3. \A n \in Nat : n % 65536 \in UInt
        BY DataTypes
      <4>4. UInt \subseteq Nat
        BY DataTypes
      <4>5. PICK n \in Nat : n = old.count + (IF packing.to = 0 THEN 1 ELSE 0)
        BY <4>1, <4>2, <4>4
      <4>6. count = n % 65536
        BY <4>5
      <4>7. n % 65536 \in UInt
        BY <4>3
      <4> QED BY <4>6, <4>7
    <3>3. s \in Statuses /\ s.current
      BY <2>1, <3>1, <3>2 DEF Statuses
    <3> HIDE DEF s
    <3> QED BY <1>2, <3>1, <3>3
  <2>3. deeAt' = "packErase"
    BY <1>4 DEF PackStatus
  <2>4. /\ \A p \in Pages : p # d => pages'[p] = pages[p]
        /\ pages'[d].status = s /\ pages'[d].words = pages[d].words
        /\ pages' \in [Pages -> PageType]
    BY <2>1, <2>2 DEF PageType
  <2>5. TwoPages(c)'
    BY <1>1, <1>2, <2>2, <2>3, <2>4, AfterIs DEF OnePage, TwoPages, OthersBlank
  <2>6. WordsErased'
    BY <2>4 DEF EraseInv, WordsErased
  <2>7. ProgramsErased
    BY <1>2, <2>4 DEF OnePage, ProgramsErased
  <2>8. DataEETypeOK'
    BY <1>1, <2>3, <2>4 DEF EraseInv, DataEETypeOK
  <2> QED BY <2>5, <2>6, <2>7, <2>8 DEF EraseInv
<1> QED BY <1>3, <1>4

LEMMA PackEraseErases ==
  ASSUME EraseInv, PackErase
  PROVE  EraseInv' /\ ProgramsErased
<1>1. /\ deeAt = "packErase" /\ deeAt' = "ready" /\ packing' = NoPack
      /\ addrNotFound' = addrNotFound /\ asked' = asked
      /\ pages' = [pages EXCEPT ![packing.from] = BlankPage]
  BY DEF PackErase
<1>2. PICK c \in Pages, d \in Pages :
        c = packing.from /\ d = packing.to /\ d # c /\ d = After(c, 1) /\ TwoPages(c)
  BY <1>1, PackingIs
<1>3. pages \in [Pages -> PageType]
  BY DEF EraseInv, DataEETypeOK
<1>4. pages'[c] = BlankPage /\ \A p \in Pages : p # c => pages'[p] = pages[p]
  BY <1>1, <1>2, <1>3
<1>5. \A p \in Pages : p # d => pages'[p] = BlankPage
  BY <1>2, <1>4 DEF TwoPages, OthersBlank
<1>6. OnePage(d)'
  BY <1>1, <1>2, <1>4, <1>5, AfterIs DEF TwoPages, OnePage, OthersBlank
<1>7. WordsErased'
  BY <1>4, BlankType DEF EraseInv, WordsErased
<1>8. ProgramsErased
  BY <1>4 DEF ProgramsErased
<1>9. DataEETypeOK'
  <2>1. NoPack \in [from : Pages, to : Pages, row : Nat]
    BY EEConstants DEF NoPack
  <2>2. pages' \in [Pages -> PageType]
    BY <1>1, <1>3, BlankType
  <2> QED BY <1>1, <2>1, <2>2 DEF EraseInv, DataEETypeOK
<1> QED BY <1>6, <1>7, <1>8, <1>9 DEF EraseInv

LEMMA NextErases ==
  ASSUME EraseInv, [DataEENext]_deeVars
  PROVE  EraseInv' /\ ProgramsErased
<1>1. CASE DataEEInit
  BY <1>1, InitErases
<1>2. CASE InitStatus
  BY <1>2, InitStatusErases
<1>3. ASSUME NEW a \in Address, Read(a) PROVE EraseInv' /\ ProgramsErased
  <2>1. (addrNotFound \/ DataEERead(a) = Unwritten) \in BOOLEAN
    OBVIOUS
  <2> QED BY <1>3, <2>1, ReadErases DEF Read, EraseInv, DataEETypeOK
<1>4. ASSUME NEW a \in Address, NEW v \in DataValues, DataEEWrite(a, v)
      PROVE  EraseInv' /\ ProgramsErased
  BY <1>4, WriteErases
<1>5. CASE PackEE
  BY <1>5, PackErases
<1>6. CASE PackRow
  BY <1>6, PackRowErases
<1>7. CASE PackStatus
  BY <1>7, PackStatusErases
<1>8. CASE PackErase
  BY <1>8, PackEraseErases
<1>9. CASE PowerFails
  BY <1>9, PowerErases
<1>10. CASE UNCHANGED deeVars
  BY <1>10, ReadErases DEF deeVars, EraseInv, DataEETypeOK
<1> QED BY <1>1, <1>2, <1>3, <1>4, <1>5, <1>6, <1>7, <1>8, <1>9, <1>10 DEF DataEENext

\* The emulated EEPROM is always in a state of its types, for every number of pages,
\* slots and addresses, and whenever power fails.
THEOREM DataEETypes == DataEESpec => []DataEETypeOK
<1>1. EraseInv => DataEETypeOK
  BY DEF EraseInv
<1>2. EraseInv /\ [DataEENext]_deeVars => EraseInv'
  BY NextErases
<1> QED BY <1>1, <1>2, EraseInit, PTL DEF DataEESpec

\* A word of the flash is programmed only when it is erased, whenever power fails and
\* whatever expires (DEE_Emulation_16-bit.c:332).
THEOREM ErasedFirst == DataEESpec => ErasedBeforeProgrammed
<1>1. EraseInv /\ [DataEENext]_deeVars => EraseInv' /\ ProgramsErased
  BY NextErases
<1> QED BY <1>1, EraseInit, PTL DEF DataEESpec, ErasedBeforeProgrammed, ProgramsErased

-----------------------------------------------------------------------------
(* What a page answers *)

\* The newest byte of an address in one page
PageRead(p, a) ==
  IF Found(p, a) = {} THEN Unwritten ELSE pages[p].words[Max(Found(p, a))].data

\* The free words of a page are its last ones.
Prefix(p) ==
  \A i, j \in Slots : i < j /\ pages[p].words[i] = ErasedWord => pages[p].words[j] = ErasedWord

\* Two current pages answer the same.
SameBytes ==
  \A p, q \in CurrentPages : \A a \in Address : PageRead(p, a) = PageRead(q, a)

\* The page packed into has the packed words of the rows that were programmed.
RowsPacked ==
  deeAt \in {"packRow", "packStatus"} =>
    \A i \in Slots : pages[packing.to].words[i] =
      IF deeAt = "packStatus" \/ RowOf(i) < packing.row THEN PackedWord(i) ELSE ErasedWord

LEMMA ReadFresh ==
  Fresh => CurrentPages = {} /\ (\A a : DataEERead(a) = Unwritten) /\ Writable
<1> SUFFICES ASSUME Fresh PROVE CurrentPages = {} /\ (\A a : DataEERead(a) = Unwritten) /\ Writable
  OBVIOUS
<1>1. CurrentPages = {} /\ Cardinality(CurrentPages) # 1
  BY NoneCurrent, FS_EmptySet
<1> QED BY <1>1 DEF DataEERead, Writable

LEMMA ReadOne ==
  \A c \in Pages : OnePage(c) =>
    /\ CurrentPages = {c} /\ \A a : DataEERead(a) = PageRead(c, a)
    /\ Writable <=> ~Full(c) \/ deeAt \in {"pack", "packRow", "packStatus"}
<1> SUFFICES ASSUME NEW c \in Pages, OnePage(c)
             PROVE  /\ CurrentPages = {c} /\ \A a : DataEERead(a) = PageRead(c, a)
                    /\ Writable <=> ~Full(c) \/ deeAt \in {"pack", "packRow", "packStatus"}
  OBVIOUS
<1>1. CurrentPages = {c} /\ CurrentPage = c /\ Cardinality(CurrentPages) = 1
  BY OneCurrent
<1> QED BY <1>1, NextAvailIs DEF DataEERead, PageRead, Writable

LEMMA ReadTwo ==
  \A c \in Pages : TwoPages(c) =>
    /\ CurrentPages = {c, After(c, 1)} /\ Writable
    /\ SameBytes => \A a \in Address : /\ DataEERead(a) = PageRead(c, a)
                                       /\ DataEERead(a) = PageRead(After(c, 1), a)
<1> SUFFICES ASSUME NEW c \in Pages, TwoPages(c)
             PROVE  /\ CurrentPages = {c, After(c, 1)} /\ Writable
                    /\ SameBytes => \A a \in Address : /\ DataEERead(a) = PageRead(c, a)
                                                       /\ DataEERead(a) = PageRead(After(c, 1), a)
  OBVIOUS
<1>1. /\ CurrentPages = {c, After(c, 1)} /\ Cardinality(CurrentPages) # 1
      /\ CurrentPage \in {c, After(c, 1)}
  BY TwoCurrent
<1>2. \A a : DataEERead(a) = PageRead(CurrentPage, a)
  BY <1>1 DEF DataEERead, PageRead
<1> QED BY <1>1, <1>2 DEF SameBytes, Writable

\* A page that keeps its words keeps what it answers.
LEMMA SamePage ==
  ASSUME NEW p, pages'[p].words = pages[p].words
  PROVE  /\ \A a : PageRead(p, a)' = PageRead(p, a)
         /\ Prefix(p)' = Prefix(p) /\ Full(p)' = Full(p)
<1>1. \A a : Found(p, a)' = Found(p, a)
  BY DEF Found
<1> QED BY <1>1 DEF PageRead, Prefix, Full

-----------------------------------------------------------------------------
(* What is packed *)

\* The place of an address among those that are packed
Rank(a) == Cardinality({b \in Written : b <= a})

LEMMA Ranks ==
  LET n == Cardinality(Written)
  IN  /\ IsFiniteSet(Written) /\ n \in Nat /\ n <= DATA_EE_SIZE
      /\ \A a \in Written : Rank(a) \in 1 .. n
      /\ \A a, b \in Written : a < b => Rank(a) < Rank(b)
      /\ \A i \in 1 .. n : \E a \in Written : Rank(a) = i
<1> DEFINE n == Cardinality(Written)
           Upto(a) == {b \in Written : b <= a}
<1>1. Written \subseteq Address /\ Address \subseteq Nat
  BY EEConstants DEF Written, Address
<1>2. IsFiniteSet(Address) /\ Cardinality(Address) = DATA_EE_SIZE
  <2>1. DATA_EE_SIZE - 1 \in Int /\ ~(0 > DATA_EE_SIZE - 1)
    BY EEConstants
  <2> QED BY <2>1, FS_Interval, EEConstants DEF Address
<1>3. IsFiniteSet(Written) /\ n \in Nat /\ n <= DATA_EE_SIZE
  BY <1>1, <1>2, FS_Subset, FS_CardinalityType
<1>4. \A a : Upto(a) \subseteq Written /\ IsFiniteSet(Upto(a)) /\ Rank(a) \in Nat /\ Rank(a) <= n
  BY <1>3, FS_Subset, FS_CardinalityType DEF Rank
<1>5. \A a \in Written : Rank(a) \in 1 .. n
  <2> SUFFICES ASSUME NEW a \in Written PROVE Rank(a) \in 1 .. n
    OBVIOUS
  <2>1. a \in Upto(a)
    BY <1>1
  <2>2. Rank(a) # 0
    BY <1>4, <2>1, FS_EmptySet DEF Rank
  <2>3. Rank(a) \in Nat /\ Rank(a) <= n /\ n \in Nat
    BY <1>3, <1>4
  <2> QED BY <2>2, <2>3
<1>6. ASSUME NEW a \in Written, NEW b \in Written, a < b PROVE Rank(a) < Rank(b)
  <2>1. Upto(a) \subseteq Upto(b) /\ b \in Upto(b) /\ b \notin Upto(a)
    <3>1. a \in Nat /\ b \in Nat /\ a < b /\ \A x \in Written : x \in Nat
      BY <1>1, <1>6
    <3>2. b <= b /\ ~(b <= a) /\ \A x \in Written : x <= a => x <= b
      BY <3>1
    <3>3. Upto(a) \subseteq Upto(b)
      BY <3>2
    <3>4. b \in Upto(b) /\ b \notin Upto(a)
      BY <3>2
    <3> QED BY <3>3, <3>4
  <2>2. Rank(a) <= Rank(b) /\ Rank(a) # Rank(b)
    <3> HIDE DEF Upto
    <3>1. IsFiniteSet(Upto(b)) /\ Upto(a) \in SUBSET Upto(b)
      BY <1>4, <2>1
    <3>2. Cardinality(Upto(a)) <= Cardinality(Upto(b))
          /\ (Cardinality(Upto(b)) = Cardinality(Upto(a)) => Upto(b) = Upto(a))
      BY <3>1, FS_Subset
    <3>3. Rank(a) = Cardinality(Upto(a)) /\ Rank(b) = Cardinality(Upto(b))
      BY DEF Rank, Upto
    <3> QED BY <2>1, <3>2, <3>3
  <2>3. Rank(a) \in Nat /\ Rank(b) \in Nat
    BY <1>4
  <2> QED BY <2>2, <2>3
<1>7. \A i \in 1 .. n : \E a \in Written : Rank(a) = i
  <2> DEFINE f == [a \in Written |-> Rank(a)]
  <2>1. f \in [Written -> 1 .. n]
    BY <1>5
  <2>2. \A a, b \in Written : f[a] = f[b] => a = b
    <3> SUFFICES ASSUME NEW a \in Written, NEW b \in Written, Rank(a) = Rank(b) PROVE a = b
      OBVIOUS
    <3>1. a \in Nat /\ b \in Nat /\ Rank(a) \in Nat
      BY <1>1, <1>4
    <3> QED BY <1>6, <3>1
  <2>3. f \in Injection(Written, 1 .. n)
    BY <2>1, <2>2 DEF Injection, IsInjective
  <2>4. IsFiniteSet(1 .. n) /\ Cardinality(1 .. n) = n
    BY <1>3, FS_Interval
  <2>5. f \in Surjection(Written, 1 .. n)
    BY <2>3, <2>4, FS_Injection
  <2> QED BY <2>5 DEF Surjection
<1> QED BY <1>3, <1>5, <1>6, <1>7

\* The packed words are those of the written addresses, each once, from the first slot on.
LEMMA PackedWords ==
  LET n == Cardinality(Written)
  IN  /\ n \in Nat /\ n < INSTRUCTIONS_IN_PAGE - 1
      /\ \A a \in Written : /\ a \in Address /\ Rank(a) \in 1 .. n
                            /\ PackedWord(Rank(a)) = [addr |-> a, data |-> DataEERead(a)]
      /\ \A a, b \in Written : Rank(a) = Rank(b) => a = b
      /\ \A i \in 1 .. n : \E a \in Written : Rank(a) = i
      /\ \A i \in Slots : i > n => PackedWord(i) = ErasedWord
<1> DEFINE n == Cardinality(Written)
           first(i) == {a \in Written : Rank(a) = i}
<1>1. n \in Nat /\ n <= DATA_EE_SIZE /\ n < INSTRUCTIONS_IN_PAGE - 1
  BY Ranks, EEConstants
<1>2. \A a \in Written : a \in Address /\ a \in Nat /\ Rank(a) \in 1 .. n
  BY Ranks, EEConstants DEF Written, Address
<1>3. \A a, b \in Written : Rank(a) = Rank(b) => a = b
  <2> SUFFICES ASSUME NEW a \in Written, NEW b \in Written, Rank(a) = Rank(b) PROVE a = b
    OBVIOUS
  <2>1. a \in Nat /\ b \in Nat /\ Rank(a) \in Nat
    BY <1>1, <1>2
  <2>2. ~(a < b) /\ ~(b < a)
    BY <2>1, Ranks
  <2> QED BY <2>1, <2>2
<1>4. \A i : PackedWord(i) = IF first(i) = {} THEN ErasedWord
                             ELSE LET a == CHOOSE x \in first(i) : TRUE
                                  IN [addr |-> a, data |-> DataEERead(a)]
  BY DEF PackedWord, Rank
<1>5. ASSUME NEW a \in Written PROVE PackedWord(Rank(a)) = [addr |-> a, data |-> DataEERead(a)]
  <2>1. first(Rank(a)) = {a}
    BY <1>3
  <2>2. (CHOOSE x \in {a} : TRUE) = a
    OBVIOUS
  <2> QED BY <1>4, <2>1, <2>2
<1>6. ASSUME NEW i \in Slots, i > n PROVE PackedWord(i) = ErasedWord
  <2>1. first(i) = {}
    BY <1>1, <1>2, <1>6
  <2> QED BY <1>4, <2>1
<1>7. \A i \in 1 .. n : \E a \in Written : Rank(a) = i
  BY Ranks
<1> QED BY <1>1, <1>2, <1>3, <1>5, <1>6, <1>7

\* What reads answer determines what is packed.
LEMMA PackedSame ==
  ASSUME \A a \in Address : DataEERead(a)' = DataEERead(a)
  PROVE  /\ Written' = Written /\ \A i : PackedWord(i)' = PackedWord(i)
<1>1. Written' = Written
  BY DEF Written
<1>2. \A i : {a \in Written : Cardinality({b \in Written : b <= a}) = i}' =
             {a \in Written : Cardinality({b \in Written : b <= a}) = i}
  BY <1>1
<1> SUFFICES ASSUME NEW i PROVE PackedWord(i)' = PackedWord(i)
  BY <1>1
<1>3. PICK first : first = {a \in Written : Cardinality({b \in Written : b <= a}) = i}
  OBVIOUS
<1>4. CASE first = {}
  <2>1. PackedWord(i) = ErasedWord
    BY <1>3, <1>4 DEF PackedWord
  <2>2. PackedWord(i)' = ErasedWord
    BY <1>2, <1>3, <1>4 DEF PackedWord
  <2> QED BY <2>1, <2>2
<1>5. CASE first # {}
  <2>1. PICK a : a = (CHOOSE x \in first : TRUE)
    OBVIOUS
  <2>2. a \in Address
    <3>1. first \subseteq Address
      BY <1>3 DEF Written
    <3> QED BY <1>5, <2>1, <3>1
  <2>3. PackedWord(i) = [addr |-> a, data |-> DataEERead(a)]
    BY <1>3, <1>5, <2>1 DEF PackedWord
  <2>4. PackedWord(i)' = [addr |-> a, data |-> DataEERead(a)']
    BY <1>2, <1>3, <1>5, <2>1 DEF PackedWord
  <2> QED BY <2>2, <2>3, <2>4
<1> QED BY <1>4, <1>5

LEMMA RowMonotone == ASSUME NEW i \in Nat, NEW j \in Nat, i <= j PROVE RowOf(i) <= RowOf(j)
<1>1. PICK k \in Nat : k = INSTRUCTIONS_IN_ROW /\ k > 0
  BY EEConstants
<1>2. PICK p \in Nat, r \in 0 .. k - 1 : p = i \div k /\ i = k * p + r
  BY <1>1
<1>3. PICK q \in Nat, s \in 0 .. k - 1 : q = j \div k /\ j = k * q + s
  BY <1>1
<1>4. ASSUME p > q PROVE FALSE
  <2>1. PICK e \in Nat : p = (q + 1) + e
    <3>1. p - (q + 1) \in Nat /\ p = (q + 1) + (p - (q + 1))
      BY <1>4
    <3> QED BY <3>1
  <2>2. k * p = (k * q + k) + k * e /\ k * q \in Nat /\ k * e \in Nat
    BY <1>1, <2>1
  <2> QED BY <1>2, <1>3, <2>2
<1> QED BY <1>1, <1>2, <1>3, <1>4 DEF RowOf

LEMMA WordFields ==
  \A w, x, y : w = [addr |-> x, data |-> y] => w.addr = x /\ w.data = y
OBVIOUS

\* A page with the packed words answers what was packed, and passes the comparison.
LEMMA PackedPage ==
  ASSUME EraseInv, NEW d \in Pages, \A i \in Slots : pages[d].words[i] = PackedWord(i)
  PROVE  /\ \A a \in Address : PageRead(d, a) = DataEERead(a)
         /\ Verified(d) /\ Prefix(d) /\ ~Full(d)
<1> DEFINE n == Cardinality(Written)
<1>1. /\ n \in Nat /\ n < INSTRUCTIONS_IN_PAGE - 1 /\ INSTRUCTIONS_IN_PAGE \in Nat
      /\ 1 .. n \subseteq Slots /\ INSTRUCTIONS_IN_PAGE - 1 \in Slots
      /\ \A i \in Slots : i \in Nat /\ (i > n \/ i \in 1 .. n)
  BY PackedWords, EEConstants DEF Slots
<1>2. /\ \A a \in Written : a \in Address /\ a # 255 /\ Rank(a) \in Slots
                            /\ pages[d].words[Rank(a)] = [addr |-> a, data |-> DataEERead(a)]
      /\ \A i \in Slots : i > n => pages[d].words[i] = ErasedWord
      /\ \A i \in 1 .. n : \E a \in Written : Rank(a) = i
  BY <1>1, PackedWords, DataTypes
<1>3. ASSUME NEW i \in Slots
      PROVE  \/ i > n /\ pages[d].words[i] = ErasedWord
             \/ \E a \in Written : Rank(a) = i /\ pages[d].words[i] = [addr |-> a, data |-> DataEERead(a)]
  BY <1>1, <1>2
<1>4. ErasedWord.addr = 255
  BY BlankType
<1>5. \A i \in Slots :
        \/ i > n /\ pages[d].words[i].addr = 255
        \/ \E a \in Written : /\ Rank(a) = i /\ a # 255
                              /\ pages[d].words[i].addr = a /\ pages[d].words[i].data = DataEERead(a)
  <2> SUFFICES ASSUME NEW i \in Slots
               PROVE  \/ i > n /\ pages[d].words[i].addr = 255
                      \/ \E a \in Written :
                           /\ Rank(a) = i /\ a # 255
                           /\ pages[d].words[i].addr = a /\ pages[d].words[i].data = DataEERead(a)
    OBVIOUS
  <2>1. CASE i > n /\ pages[d].words[i] = ErasedWord
    BY <1>4, <2>1
  <2>2. ASSUME NEW a \in Written, Rank(a) = i,
               pages[d].words[i] = [addr |-> a, data |-> DataEERead(a)]
        PROVE  /\ a # 255 /\ pages[d].words[i].addr = a /\ pages[d].words[i].data = DataEERead(a)
    <3>1. a # 255
      BY <1>2
    <3>2. pages[d].words[i].addr = a /\ pages[d].words[i].data = DataEERead(a)
      <4>1. pages[d].words[i] = [addr |-> a, data |-> DataEERead(a)]
        BY <2>2
      <4> QED BY <4>1, WordFields
    <3> QED BY <3>1, <3>2
  <2>3. CASE \E a \in Written : /\ Rank(a) = i
                                /\ pages[d].words[i] = [addr |-> a, data |-> DataEERead(a)]
    <3>1. PICK a \in Written : /\ Rank(a) = i
                               /\ pages[d].words[i] = [addr |-> a, data |-> DataEERead(a)]
      BY <2>3
    <3>2. /\ Rank(a) = i /\ a # 255
          /\ pages[d].words[i].addr = a /\ pages[d].words[i].data = DataEERead(a)
      BY <2>2, <3>1
    <3> QED BY <3>2
  <2> QED BY <1>3, <2>1, <2>3
<1>6. ASSUME NEW a \in Address PROVE PageRead(d, a) = DataEERead(a)
  <2>1. a # 255
    BY DataTypes
  <2>2. CASE a \in Written
    <3>1. \A i \in Slots : pages[d].words[i].addr = a => i = Rank(a)
      BY <1>5, <2>1
    <3>2. Rank(a) \in Slots /\ pages[d].words[Rank(a)].addr = a
          /\ pages[d].words[Rank(a)].data = DataEERead(a)
      <4>1. Rank(a) \in Slots /\ pages[d].words[Rank(a)] = [addr |-> a, data |-> DataEERead(a)]
        BY <1>2, <2>2
      <4> QED BY <4>1, WordFields
    <3>3. Found(d, a) # {} /\ \A i \in Found(d, a) : i = Rank(a)
      BY <3>1, <3>2 DEF Found
    <3>4. Max(Found(d, a)) = Rank(a)
      BY <3>3, FoundIs
    <3> QED BY <3>2, <3>3, <3>4 DEF PageRead
  <2>3. CASE a \notin Written
    <3>1. \A i \in Slots : pages[d].words[i].addr # a
      BY <1>5, <2>1, <2>3
    <3>2. DataEERead(a) = Unwritten
      BY <2>3 DEF Written
    <3> QED BY <3>1, <3>2 DEF PageRead, Found
  <2> QED BY <2>2, <2>3
<1>7. Verified(d)
  <2> SUFFICES ASSUME NEW i \in Slots, \A j \in 1 .. i : pages[d].words[j].addr # ErasedWord.addr
               PROVE  DataEERead(pages[d].words[i].addr) = pages[d].words[i].data
    BY DEF Verified
  <2>1. i \in 1 .. i
    BY EEConstants DEF Slots
  <2>2. pages[d].words[i].addr # 255
    BY <1>4, <2>1
  <2> QED BY <1>5, <2>2
<1>8. Prefix(d)
  <2> SUFFICES ASSUME NEW i \in Slots, NEW j \in Slots, i < j, pages[d].words[i] = ErasedWord
               PROVE  pages[d].words[j] = ErasedWord
    BY DEF Prefix
  <2>1. i > n
    <3>1. pages[d].words[i].addr = 255
      BY <1>4
    <3> QED BY <1>5, <3>1
  <2>2. i \in Nat /\ j \in Nat /\ n \in Nat
    BY <1>1
  <2>3. j > n
    BY <2>1, <2>2
  <2> QED BY <1>2, <2>3
<1>9. ~Full(d)
  <2> DEFINE last == INSTRUCTIONS_IN_PAGE - 1
  <2>1. last \in Slots /\ last > n
    BY <1>1
  <2>2. pages[d].words[last] = ErasedWord
    BY <1>2, <2>1
  <2> QED BY <2>1, <2>2 DEF Full, Found
<1> QED BY <1>6, <1>7, <1>8, <1>9

-----------------------------------------------------------------------------
(* A store of bytes *)

\* What the current pages hold, and with EraseInv the inductive invariant of the store: they
\* answer the same, their free words are their last, the page packed into has what was
\* packed, and room once it is current.
Holds ==
  /\ SameBytes /\ RowsPacked
  /\ \A p \in CurrentPages : Prefix(p)
  /\ deeAt = "packErase" => ~Full(packing.to)

LEMMA HoldsFresh == Fresh => Holds
BY ReadFresh DEF Fresh, Holds, SameBytes, RowsPacked

LEMMA HoldsOne == \A c \in Pages : OnePage(c) /\ Prefix(c) /\ RowsPacked => Holds
BY ReadOne DEF OnePage, Holds, SameBytes

LEMMA HoldsTwo ==
  \A c, d \in Pages :
    /\ TwoPages(c) /\ d = After(c, 1) /\ Prefix(c) /\ Prefix(d)
    /\ \A a \in Address : PageRead(c, a) = PageRead(d, a)
    /\ deeAt = "packErase" => ~Full(packing.to)
    => Holds
<1> SUFFICES ASSUME NEW c \in Pages, NEW d \in Pages, TwoPages(c), d = After(c, 1), Prefix(c),
                    Prefix(d), \A a \in Address : PageRead(c, a) = PageRead(d, a),
                    deeAt = "packErase" => ~Full(packing.to)
             PROVE  Holds
  OBVIOUS
<1>1. CurrentPages = {c, d}
  BY ReadTwo
<1>2. SameBytes
  BY <1>1 DEF SameBytes
<1>3. RowsPacked
  BY DEF RowsPacked, TwoPages
<1> QED BY <1>1, <1>2, <1>3 DEF Holds

\* A third page is blank: it has not expired, and only a pack has two current pages.
LEMMA ThirdPage ==
  NUM_DATA_EE_PAGES > 2 /\ EraseInv =>
    /\ \E p \in Pages : ~pages[p].status.expired
    /\ \A c \in Pages : TwoPages(c) => deeAt \in {"off", "packErase"}
<1> SUFFICES ASSUME NUM_DATA_EE_PAGES > 2, EraseInv
             PROVE  /\ \E p \in Pages : ~pages[p].status.expired
                    /\ \A c \in Pages : TwoPages(c) => deeAt \in {"off", "packErase"}
  OBVIOUS
<1>1. 0 \in Pages
  BY EEConstants
<1>2. CASE Fresh
  BY <1>1, <1>2, BlankType DEF Fresh, TwoPages
<1>3. ASSUME NEW c \in Pages, OnePage(c) PROVE \E p \in Pages : ~pages[p].status.expired
  BY <1>3, AfterIs, BlankType DEF OnePage
<1>4. ASSUME NEW c \in Pages, TwoPages(c)
      PROVE  /\ \E p \in Pages : ~pages[p].status.expired
             /\ deeAt \in {"off", "packErase"}
  <2>1. PICK d \in Pages : d = After(c, 1)
    BY AfterIs
  <2>2. PICK e \in Pages : e = After(d, 1) /\ e # d /\ e # c
    BY <2>1, AfterIs
  <2>3. ~pages[e].status.expired
    BY <1>4, <2>1, <2>2, BlankType DEF TwoPages, OthersBlank
  <2> QED BY <1>4, <2>3 DEF TwoPages
<1> QED BY <1>2, <1>3, <1>4 DEF EraseInv

\* Steps after which every address answers what it did
LEMMA StoreSteps ==
  ASSUME \A a \in Address : DataEERead(a)' = DataEERead(a), asked' = asked
  PROVE  /\ (Writable' <=> Writable) /\ (deeAt' = "off" <=> deeAt = "off")
              => UNCHANGED Store!storeVars
         /\ deeAt = "off" /\ deeAt' # "off" /\ (Writable' <=> Writable) => Store!PowerOn
         /\ deeAt # "off" /\ deeAt' = "off" /\ (Writable' => Writable) => Store!PowerOff
<1>1. [a \in Address |-> DataEERead(a)]' = [a \in Address |-> DataEERead(a)]
  OBVIOUS
<1>2. Writable \in BOOLEAN /\ Writable' \in BOOLEAN
  BY DEF Writable
<1> QED BY <1>1, <1>2 DEF Store!storeVars, Store!PowerOn, Store!PowerOff

\* The same of the state after a step
LEMMA NextFresh == (Fresh => Holds /\ (\A a : DataEERead(a) = Unwritten) /\ Writable)'
BY HoldsFresh, ReadFresh, PTL

LEMMA NextOne ==
  (\A c \in Pages : OnePage(c) =>
    /\ CurrentPages = {c} /\ \A a : DataEERead(a) = PageRead(c, a)
    /\ Writable <=> ~Full(c) \/ deeAt \in {"pack", "packRow", "packStatus"})'
BY ReadOne, PTL

LEMMA NextThird ==
  (NUM_DATA_EE_PAGES > 2 /\ EraseInv =>
    /\ \E p \in Pages : ~pages[p].status.expired
    /\ \A c \in Pages : TwoPages(c) => deeAt \in {"off", "packErase"})'
BY ThirdPage, PTL

LEMMA NextHoldsOne == (\A c \in Pages : OnePage(c) /\ Prefix(c) /\ RowsPacked => Holds)'
BY HoldsOne, PTL

LEMMA NextTwo ==
  (\A c \in Pages : TwoPages(c) =>
    /\ CurrentPages = {c, After(c, 1)} /\ Writable
    /\ SameBytes => \A a \in Address : /\ DataEERead(a) = PageRead(c, a)
                                       /\ DataEERead(a) = PageRead(After(c, 1), a))'
BY ReadTwo, PTL

LEMMA NextHoldsTwo ==
  (\A c, d \in Pages :
    /\ TwoPages(c) /\ d = After(c, 1) /\ Prefix(c) /\ Prefix(d)
    /\ \A a \in Address : PageRead(c, a) = PageRead(d, a)
    /\ deeAt = "packErase" => ~Full(packing.to)
    => Holds)'
BY HoldsTwo, PTL

LEMMA InitHolds ==
  ASSUME NUM_DATA_EE_PAGES > 2, EraseInv, EraseInv', Holds, DataEEInit
  PROVE  Holds' /\ Store!PowerOn
<1>0. deeAt = "off" /\ packing' = packing /\ asked' = asked
  BY DEF DataEEInit
<1>1. ~(\A p \in Pages : pages[p].status.expired)
  BY ThirdPage
<1>2. CASE Fresh
  <2>1. pages' = [pages EXCEPT ![0] = BlankPage] /\ deeAt' = "initStatus"
    BY <1>1, <1>2, NoneCurrent DEF DataEEInit
  <2>2. Fresh'
    BY <1>2, <2>1, EEConstants DEF EraseInv, DataEETypeOK, Fresh
  <2> QED BY <1>0, <1>2, <2>1, <2>2, NextFresh, ReadFresh, StoreSteps
<1>3. ASSUME NEW c \in Pages, OnePage(c) PROVE Holds' /\ Store!PowerOn
  <2>1. CurrentPages # {} /\ Cardinality(CurrentPages) # 2
    BY <1>3, OneCurrent
  <2>2. pages' = pages /\ deeAt' = "ready"
    BY <1>1, <2>1 DEF DataEEInit
  <2>3. \A a : DataEERead(a)' = DataEERead(a)
    BY <2>2 DEF DataEERead, Found, CurrentPage, CurrentPages
  <2>4. Writable' <=> Writable
    BY <1>0, <2>2 DEF Writable, NextAvail, Found, CurrentPage, CurrentPages
  <2>5. OnePage(c)'
    BY <1>0, <1>3, <2>2, PagesKept DEF OnePage
  <2>6. Prefix(c)' /\ RowsPacked'
    BY <1>3, <2>2, ReadOne DEF Holds, Prefix, RowsPacked
  <2> QED BY <1>0, <2>2, <2>3, <2>4, <2>5, <2>6, NextHoldsOne, StoreSteps
<1>4. ASSUME NEW c \in Pages, TwoPages(c) PROVE Holds' /\ Store!PowerOn
  <2>1. CurrentPages # {} /\ Cardinality(CurrentPages) = 2
    BY <1>4, TwoCurrent
  <2>2. PICK d \in Pages : Kept = c /\ d = After(c, 1) /\ d # c
    BY <1>4, KeptIs, AfterIs
  <2>3. /\ pages' = [pages EXCEPT ![d] = BlankPage]
        /\ deeAt' = IF NextAvail(c) = 0 THEN "pack" ELSE "ready"
    BY <1>1, <2>1, <2>2 DEF DataEEInit
  <2>4. pages'[c] = pages[c] /\ pages'[d] = BlankPage /\ \A p \in Pages : p # c /\ p # d => pages'[p] = BlankPage
    BY <1>4, <2>2, <2>3 DEF EraseInv, DataEETypeOK, TwoPages, OthersBlank
  <2>5. /\ \A a : PageRead(c, a)' = PageRead(c, a)
        /\ Prefix(c)' = Prefix(c) /\ Full(c)' = Full(c)
    BY <2>4, SamePage
  <2>6. OnePage(c)'
    BY <1>4, <2>2, <2>3, <2>4, <2>5, NextAvailIs DEF OnePage, TwoPages, OthersBlank
  <2>9. Prefix(c)' /\ RowsPacked'
    BY <1>4, <2>3, <2>5, ReadTwo DEF Holds, RowsPacked
  <2>10. Writable' <=> Writable
    BY <1>4, <2>3, <2>5, <2>6, NextOne, ReadTwo, NextAvailIs
  <2>11. \A a \in Address : DataEERead(a)' = DataEERead(a)
    BY <1>4, <2>5, <2>6, NextOne, ReadTwo DEF Holds
  <2> QED BY <1>0, <2>3, <2>6, <2>9, <2>10, <2>11, NextHoldsOne, StoreSteps
<1> QED BY <1>2, <1>3, <1>4 DEF EraseInv

\* What holds of two pages of equal words
LEMMA PagesHold ==
  ASSUME pages' = pages
  PROVE  /\ \A a : DataEERead(a)' = DataEERead(a)
         /\ CurrentPages' = CurrentPages
         /\ \A p : Prefix(p)' = Prefix(p) /\ Full(p)' = Full(p)
         /\ SameBytes' = SameBytes
<1>1. CurrentPages' = CurrentPages /\ CurrentPage' = CurrentPage
  BY DEF CurrentPages, CurrentPage
<1>2. \A p, a : Found(p, a)' = Found(p, a)
  BY DEF Found
<1>3. \A p, a : PageRead(p, a)' = PageRead(p, a)
  BY <1>2 DEF PageRead
<1> QED BY <1>1, <1>2, <1>3 DEF DataEERead, Prefix, Full, SameBytes

\* Where one page must be current, it is.
LEMMA NextOnly ==
  ASSUME NUM_DATA_EE_PAGES > 2, EraseInv', deeAt' \notin {"off", "initStatus", "packErase"}
  PROVE  \E c \in Pages : OnePage(c)' /\ CurrentPages' = {c}
<1>1. PICK c \in Pages : OnePage(c)' \/ TwoPages(c)'
  BY DEF EraseInv, Fresh
<1> QED BY <1>1, NextOne, NextThird

LEMMA InitStatusHolds ==
  ASSUME NUM_DATA_EE_PAGES > 2, EraseInv, EraseInv', Holds, InitStatus
  PROVE  Holds' /\ UNCHANGED Store!storeVars
<1>1. deeAt = "initStatus" /\ deeAt' = "ready" /\ asked' = asked
  BY DEF InitStatus
<1>2. Fresh
  BY <1>1 DEF EraseInv, OnePage, TwoPages
<1>3. PICK c \in Pages : OnePage(c)' /\ CurrentPages' = {c}
  BY <1>1, NextOnly
<1>4. \A i \in Slots : pages'[c].words[i] = ErasedWord
  <2>1. 0 \in Pages /\ pages \in [Pages -> PageType]
    BY EEConstants DEF EraseInv, DataEETypeOK
  <2>2. \A p \in Pages : pages'[p].words = pages[p].words
    BY <2>1 DEF InitStatus, PageType
  <2> QED BY <1>2, <2>2, BlankType DEF Fresh
<1>5. \A a \in Address : PageRead(c, a)' = Unwritten
  BY <1>4, BlankType, DataTypes DEF PageRead, Found
<1>6. Prefix(c)' /\ RowsPacked'
  BY <1>1, <1>4 DEF Prefix, RowsPacked
<1>7. ~Full(c)'
  <2>1. 1 \in Slots
    BY EEConstants DEF Slots
  <2> QED BY <1>4, <2>1 DEF Full, Found
<1>8. Holds' /\ (Writable' <=> Writable)
  BY <1>2, <1>3, <1>6, <1>7, NextHoldsOne, NextOne, ReadFresh
<1>9. \A a \in Address : DataEERead(a)' = DataEERead(a)
  BY <1>2, <1>3, <1>5, NextOne, ReadFresh
<1> QED BY <1>1, <1>8, <1>9, StoreSteps

LEMMA PowerHolds ==
  ASSUME NUM_DATA_EE_PAGES > 2, EraseInv, EraseInv', Holds, PowerFails
  PROVE  Holds' /\ Store!PowerOff
<1>1. deeAt # "off" /\ deeAt' = "off" /\ asked' = asked /\ pages' = pages
  BY DEF PowerFails
<1>2. Holds'
  BY <1>1, PagesHold DEF Holds, RowsPacked
<1>3. Writable' => Writable
  BY <1>1, PagesHold DEF Writable, NextAvail, CurrentPage, Found
<1> QED BY <1>1, <1>2, <1>3, PagesHold, StoreSteps

\* Of the steps of a pack, the first programs nothing.
LEMMA PackHolds ==
  ASSUME NUM_DATA_EE_PAGES > 2, EraseInv, EraseInv', Holds, PackEE
  PROVE  Holds' /\ UNCHANGED Store!storeVars
<1>1. deeAt = "pack" /\ pages' = pages /\ asked' = asked
  BY DEF PackEE
<1>2. PICK c \in Pages : OnePage(c) /\ CurrentPages = {c} /\ CurrentPage = c /\ Prefix(c)
  BY <1>1, ThirdPage, ReadyIs, OneCurrent DEF EraseInv, Holds
<1>3. deeAt' = "packRow" /\ packing'.row = 0
  <2>1. 1 \in Unexpired(c)
    BY <1>2, AfterIs, BlankType, EEConstants DEF OnePage, Unexpired
  <2> QED BY <1>2, <2>1 DEF PackEE
<1>4. OnePage(c)'
  BY <1>1, <1>2, <1>3, NextOnly, PagesHold
<1>5. RowsPacked'
  <2>1. \A i \in Slots : RowOf(i) \in Nat
    BY EEConstants DEF RowOf, Slots
  <2>2. \A i \in Slots : RowOf(i) >= 0 /\ ~(RowOf(i) < 0)
    BY <2>1
  <2>3. packing'.to = After(c, 1) /\ \A i \in Slots : pages'[After(c, 1)].words[i] = ErasedWord
    BY <1>3, <1>4, <2>2 DEF OnePage
  <2> QED BY <1>3, <2>2, <2>3 DEF RowsPacked
<1>6. Holds'
  BY <1>1, <1>2, <1>4, <1>5, NextHoldsOne, PagesHold
<1>7. Writable' <=> Writable
  BY <1>1, <1>2, <1>3, <1>4, ReadOne, NextOne
<1> QED BY <1>1, <1>3, <1>6, <1>7, PagesHold, StoreSteps

LEMMA PackEraseHolds ==
  ASSUME NUM_DATA_EE_PAGES > 2, EraseInv, EraseInv', Holds, PackErase
  PROVE  Holds' /\ UNCHANGED Store!storeVars
<1>1. /\ deeAt = "packErase" /\ deeAt' = "ready" /\ asked' = asked
      /\ pages' = [pages EXCEPT ![packing.from] = BlankPage]
  BY DEF PackErase
<1>2. PICK c \in Pages, d \in Pages :
        c = packing.from /\ d = packing.to /\ d # c /\ d = After(c, 1) /\ TwoPages(c)
  BY <1>1, PackingIs
<1>3. pages'[d] = pages[d] /\ ~Full(d) /\ Prefix(d) /\ SameBytes
  BY <1>1, <1>2, ReadTwo DEF EraseInv, DataEETypeOK, Holds
<1>4. PICK e \in Pages : OnePage(e)' /\ CurrentPages' = {e}
  BY <1>1, NextOnly
<1>5. e = d
  BY <1>2, <1>3, <1>4 DEF TwoPages, CurrentPages
<1>6. (\A a : PageRead(d, a)' = PageRead(d, a)) /\ Prefix(d)' /\ ~Full(d)'
  BY <1>3, SamePage
<1>7. RowsPacked'
  BY <1>1 DEF RowsPacked
<1>8. Holds' /\ (Writable' <=> Writable)
  BY <1>2, <1>4, <1>5, <1>6, <1>7, NextHoldsOne, NextOne, ReadTwo
<1>9. \A a \in Address : DataEERead(a)' = DataEERead(a)
  BY <1>2, <1>3, <1>4, <1>5, <1>6, NextOne, ReadTwo
<1> QED BY <1>1, <1>8, <1>9, StoreSteps

LEMMA PackRowHolds ==
  ASSUME NUM_DATA_EE_PAGES > 2, EraseInv, EraseInv', Holds, PackRow
  PROVE  Holds' /\ UNCHANGED Store!storeVars
<1>1. deeAt = "packRow" /\ asked' = asked
  BY DEF PackRow
<1>2. PICK c \in Pages, d \in Pages :
        c = packing.from /\ d = packing.to /\ d # c /\ d = After(c, 1) /\ OnePage(c)
  BY <1>1, PackingIs
<1>3. PICK r \in Nat : r = packing.row
  BY <1>1, PackingIs
<1>4. /\ pages' = [pages EXCEPT ![d].words =
                     [i \in Slots |-> IF RowOf(i) = r THEN Programmed(@[i], PackedWord(i)) ELSE @[i]]]
      /\ packing' = [packing EXCEPT !.row = @ + 1]
      /\ deeAt' = IF r = RowOf(Cardinality(Written)) THEN "packStatus" ELSE "packRow"
  BY <1>2, <1>3 DEF PackRow
<1>5. packing'.to = d /\ packing'.row = r + 1
  BY <1>2, <1>3, <1>4 DEF EraseInv, DataEETypeOK
<1>6. /\ pages'[c] = pages[c]
      /\ \A i \in Slots : pages'[d].words[i] =
           IF RowOf(i) = r THEN Programmed(pages[d].words[i], PackedWord(i)) ELSE pages[d].words[i]
  BY <1>2, <1>4 DEF EraseInv, DataEETypeOK, PageType
<1>7. \A i \in Slots : pages[d].words[i] = IF RowOf(i) < r THEN PackedWord(i) ELSE ErasedWord
  BY <1>1, <1>2, <1>3 DEF Holds, RowsPacked
<1>8. \A i \in Slots : i \in Nat /\ RowOf(i) \in Nat
  BY EEConstants DEF RowOf, Slots
<1>9. \A i \in Slots : pages'[d].words[i] = IF RowOf(i) < r + 1 THEN PackedWord(i) ELSE ErasedWord
  <2> SUFFICES ASSUME NEW i \in Slots
               PROVE  pages'[d].words[i] = IF RowOf(i) < r + 1 THEN PackedWord(i) ELSE ErasedWord
    OBVIOUS
  <2>1. CASE RowOf(i) = r
    <3>1. pages[d].words[i] = ErasedWord
      BY <1>7, <1>8, <2>1
    <3>2. pages'[d].words[i] = PackedWord(i)
      BY <1>6, <2>1, <3>1, ProgrammedIs
    <3> QED BY <1>8, <2>1, <3>2
  <2>2. CASE RowOf(i) # r
    <3>1. pages'[d].words[i] = pages[d].words[i]
      BY <1>6, <2>2
    <3>2. RowOf(i) < r + 1 <=> RowOf(i) < r
      BY <1>8, <2>2
    <3> QED BY <1>7, <3>1, <3>2
  <2> QED BY <2>1, <2>2
<1>10. PICK e \in Pages : OnePage(e)' /\ CurrentPages' = {e}
  BY <1>4, NextOnly
<1>11. e = c
  BY <1>2, <1>6, <1>10 DEF OnePage, CurrentPages
<1>12. (\A a : PageRead(c, a)' = PageRead(c, a)) /\ Prefix(c)' /\ Full(c)'
  BY <1>1, <1>2, <1>6, SamePage, ReadOne DEF Holds, OnePage
<1>13. \A a \in Address : DataEERead(a)' = DataEERead(a)
  BY <1>2, <1>10, <1>11, <1>12, ReadOne, NextOne
<1>14. RowsPacked'
  <2>1. \A i \in Slots : PackedWord(i)' = PackedWord(i)
    BY <1>13, PackedSame
  <2>2. ASSUME deeAt' = "packStatus", NEW i \in Slots PROVE pages'[d].words[i] = PackedWord(i)
    <3>1. r = RowOf(Cardinality(Written)) /\ Cardinality(Written) \in Nat
      BY <1>4, <2>2, PackedWords
    <3>2. CASE i <= Cardinality(Written)
      <4>1. RowOf(i) <= r
        BY <1>8, <3>1, <3>2, RowMonotone
      <4> QED BY <1>8, <1>9, <4>1
    <3>3. CASE ~(i <= Cardinality(Written))
      <4>1. PackedWord(i) = ErasedWord
        BY <1>8, <3>1, <3>3, PackedWords
      <4> QED BY <1>9, <4>1
    <3> QED BY <3>2, <3>3
  <2> QED BY <1>5, <1>9, <2>1, <2>2 DEF RowsPacked
<1>15. Holds'
  BY <1>10, <1>11, <1>12, <1>14, NextHoldsOne
<1>16. Writable' <=> Writable
  BY <1>1, <1>2, <1>4, <1>10, ReadOne, NextOne
<1> QED BY <1>1, <1>4, <1>13, <1>15, <1>16, StoreSteps

\* What was packed passes the comparison.
LEMMA PackStatusHolds ==
  ASSUME NUM_DATA_EE_PAGES > 2, EraseInv, EraseInv', Holds, PackStatus
  PROVE  Holds' /\ UNCHANGED Store!storeVars
<1>1. deeAt = "packStatus" /\ packing' = packing /\ asked' = asked
  BY DEF PackStatus
<1>2. PICK c \in Pages, d \in Pages :
        c = packing.from /\ d = packing.to /\ d # c /\ d = After(c, 1) /\ OnePage(c)
  BY <1>1, PackingIs
<1>3. \A i \in Slots : pages[d].words[i] = PackedWord(i)
  BY <1>1, <1>2 DEF Holds, RowsPacked
<1>4. /\ \A a \in Address : PageRead(d, a) = PageRead(c, a)
      /\ Verified(d) /\ Prefix(d) /\ ~Full(d) /\ Prefix(c)
  BY <1>2, <1>3, PackedPage, ReadOne DEF Holds
<1>5. PICK s : s.current /\ deeAt' = "packErase" /\ pages' = [pages EXCEPT ![d].status = s]
  <2> DEFINE old == pages[packing.from].status
             count == (old.count + (IF packing.to = 0 THEN 1 ELSE 0)) % 65536
             s == [current |-> TRUE, count |-> count,
                   expired |-> old.expired \/ count >= ERASE_WRITE_CYCLE_MAX - 1]
  <2>1. s.current
    OBVIOUS
  <2>2. pages' = [pages EXCEPT ![d].status = s] /\ deeAt' = "packErase"
    BY <1>2, <1>4 DEF PackStatus
  <2> HIDE DEF s
  <2> QED BY <2>1, <2>2
<1>6. /\ \A p \in Pages : pages'[p].words = pages[p].words /\ (p # d => pages'[p] = pages[p])
      /\ pages'[d].status.current
  BY <1>5 DEF EraseInv, DataEETypeOK, PageType
<1>7. TwoPages(c)'
  BY <1>1, <1>2, <1>5, <1>6 DEF OnePage, TwoPages, OthersBlank
<1>8. \A p \in Pages : /\ \A a : PageRead(p, a)' = PageRead(p, a)
                       /\ Prefix(p)' = Prefix(p) /\ Full(p)' = Full(p)
  BY <1>6, SamePage
<1>9. Holds'
  BY <1>1, <1>2, <1>4, <1>7, <1>8, NextHoldsTwo
<1>10. Writable' /\ Writable
  BY <1>1, <1>2, <1>7, ReadOne, NextTwo
<1>11. \A a \in Address : DataEERead(a)' = DataEERead(a)
  BY <1>2, <1>7, <1>8, <1>9, ReadOne, NextTwo DEF Holds
<1> QED BY <1>1, <1>5, <1>9, <1>10, <1>11, StoreSteps

LEMMA WriteSteps ==
  ASSUME NEW a \in Address, NEW v \in DataValues, asked' = <<a, v>>,
         deeAt # "off", deeAt' # "off", Writable' <=> Writable,
         \A b \in Address : DataEERead(b)' = IF b = a /\ Writable THEN v ELSE DataEERead(b)
  PROVE  Store!WriteByte(a, v)
<1> DEFINE old == [b \in Address |-> DataEERead(b)]
<1>1. old' = IF Writable THEN [old EXCEPT ![a] = v] ELSE old
  OBVIOUS
<1>2. Writable \in BOOLEAN /\ Writable' \in BOOLEAN
  BY DEF Writable
<1>3. Writable' = Writable /\ (deeAt # "off")' = (deeAt # "off")
  BY <1>2
<1> QED BY <1>1, <1>3 DEF Store!WriteByte

LEMMA WriteHolds ==
  ASSUME NUM_DATA_EE_PAGES > 2, EraseInv, EraseInv', Holds,
         NEW a \in Address, NEW v \in DataValues, DataEEWrite(a, v)
  PROVE  Holds' /\ Store!WriteByte(a, v)
<1> DEFINE w == [addr |-> a, data |-> v]
<1>1. deeAt = "ready" /\ packing' = packing /\ asked' = <<a, v>>
  BY DEF DataEEWrite
<1>2. PICK c \in Pages : OnePage(c) /\ CurrentPages = {c} /\ CurrentPage = c /\ Prefix(c)
  BY <1>1, ThirdPage, ReadyIs, OneCurrent DEF EraseInv, Holds
<1>3. Writable <=> NextAvail(c) # 0
  BY <1>1, <1>2, ReadOne, NextAvailIs
<1>4. CASE (DataEERead(a) = v /\ ~addrNotFound) \/ NextAvail(c) = 0
  <2>1. pages' = pages /\ deeAt' = deeAt
    BY <1>2, <1>4 DEF DataEEWrite
  <2>2. Holds'
    BY <1>1, <2>1, PagesHold DEF Holds, RowsPacked
  <2>3. Writable' <=> Writable
    BY <1>1, <2>1, PagesHold DEF Writable, NextAvail, CurrentPage, Found
  <2>4. \A b \in Address : DataEERead(b)' = IF b = a /\ Writable THEN v ELSE DataEERead(b)
    <3>1. \A b : DataEERead(b)' = DataEERead(b)
      BY <2>1, PagesHold
    <3>2. DataEERead(a) = v \/ ~Writable
      BY <1>3, <1>4
    <3> QED BY <3>1, <3>2
  <2> QED BY <1>1, <2>1, <2>2, <2>3, <2>4, WriteSteps
<1>5. CASE ~((DataEERead(a) = v /\ ~addrNotFound) \/ NextAvail(c) = 0)
  <2>1. PICK f \in Slots : /\ f = NextAvail(c) /\ pages[c].words[f] = ErasedWord /\ ~Full(c)
                           /\ \A i \in Slots : pages[c].words[i].addr = 255 => f <= i
    BY <1>5, NextAvailIs DEF EraseInv, WordsErased, ErasedWord
  <2>2. /\ pages' = [pages EXCEPT ![c].words[f] = Programmed(@, w)]
        /\ deeAt' = IF f = INSTRUCTIONS_IN_PAGE - 1 THEN "pack" ELSE "ready"
    BY <1>2, <1>5, <2>1 DEF DataEEWrite
  <2>3. w.addr = a /\ w.data = v /\ a # 255 /\ ErasedWord.addr = 255
    BY WordIs, BlankType
  <2>4. /\ pages'[c].words[f] = w
        /\ \A i \in Slots : i # f => pages'[c].words[i] = pages[c].words[i]
    <3>1. pages \in [Pages -> PageType] /\ pages[c].words \in [Slots -> Words]
      BY SMT DEF EraseInv, DataEETypeOK, PageType
    <3>2. pages'[c].words = [pages[c].words EXCEPT ![f] = w]
      BY <2>1, <2>2, <3>1, ProgrammedIs DEF PageType
    <3> QED BY <3>1, <3>2
  <2>5. \A i \in Slots : i \in Nat
    BY EEConstants DEF Slots
  <2>6. \A i \in Slots : i > f => pages[c].words[i] = ErasedWord
    BY <1>2, <2>1, <2>5 DEF Prefix
  <2>7. PICK e \in Pages : OnePage(e)' /\ CurrentPages' = {e}
    BY <2>2, NextOnly
  <2>8. e = c
    <3>1. pages'[c].status = pages[c].status
      BY <2>2 DEF EraseInv, DataEETypeOK, PageType
    <3> QED BY <1>2, <2>7, <3>1 DEF CurrentPages
  <2>9. ASSUME NEW b \in Address, b # a PROVE PageRead(c, b)' = PageRead(c, b)
    <3>1. b # 255
      BY DataTypes
    <3>2. f \notin Found(c, b) /\ f \notin Found(c, b)'
      BY <2>1, <2>3, <2>4, <2>9, <3>1 DEF Found
    <3>3. Found(c, b)' = Found(c, b)
      BY <2>4, <3>2 DEF Found
    <3>4. Found(c, b) # {} => Max(Found(c, b)) \in Slots \ {f}
      <4>1. Found(c, b) \subseteq Slots
        BY DEF Found
      <4>2. Found(c, b) # {} => Max(Found(c, b)) \in Found(c, b)
        BY FoundIs
      <4> QED BY <3>2, <4>1, <4>2
    <3> QED BY <2>4, <3>3, <3>4 DEF PageRead
  <2>10. PageRead(c, a)' = v
    <3>1. PICK S : S = Found(c, a)'
      OBVIOUS
    <3>2. f \in S /\ S \subseteq Slots
      BY <2>3, <2>4, <3>1 DEF Found
    <3>3. \A i \in S : i <= f
      <4> SUFFICES ASSUME NEW i \in S, i > f PROVE FALSE
        BY <2>5, <3>2
      <4>1. i \in Slots /\ pages'[c].words[i].addr = a
        BY <3>1 DEF Found
      <4>2. i # f
        BY <2>5, <3>2
      <4>3. pages'[c].words[i] = ErasedWord
        BY <2>4, <2>6, <4>1, <4>2
      <4> QED BY <2>3, <4>1, <4>3
    <3>4. Max(S) = f
      <4>1. INSTRUCTIONS_IN_PAGE - 1 \in Nat /\ S \subseteq 0 .. INSTRUCTIONS_IN_PAGE - 1
        BY <3>2, EEConstants DEF Slots
      <4>2. Max(S) \in S /\ \A y \in S : y <= Max(S)
        BY <3>2, <4>1, MaxIs
      <4> QED BY <2>5, <3>2, <3>3, <4>2
    <3> QED BY <2>3, <2>4, <3>1, <3>2, <3>4 DEF PageRead
  <2>11. Prefix(c)'
    <3> SUFFICES ASSUME NEW i \in Slots, NEW j \in Slots, i < j, pages'[c].words[i] = ErasedWord
                 PROVE  pages'[c].words[j] = ErasedWord
      BY DEF Prefix
    <3>1. i # f
      BY <2>3, <2>4
    <3>2. pages[c].words[i] = ErasedWord
      BY <2>4, <3>1
    <3>3. f <= i /\ j # f
      BY <2>1, <2>3, <2>5, <3>2
    <3>4. pages[c].words[j] = ErasedWord
      BY <1>2, <3>2 DEF Prefix
    <3> QED BY <2>4, <3>3, <3>4
  <2>12. RowsPacked'
    BY <2>2 DEF RowsPacked
  <2>13. Writable' /\ Writable
    <3>1. CASE f = INSTRUCTIONS_IN_PAGE - 1
      BY <1>3, <1>5, <2>2, <2>7, <2>8, <3>1, NextOne
    <3>2. CASE f # INSTRUCTIONS_IN_PAGE - 1
      <4>1. INSTRUCTIONS_IN_PAGE - 1 \in Slots /\ INSTRUCTIONS_IN_PAGE - 1 > f
        BY <3>2, EEConstants DEF Slots
      <4>2. pages'[c].words[INSTRUCTIONS_IN_PAGE - 1] = ErasedWord
        BY <2>4, <2>6, <3>2, <4>1
      <4>3. ~Full(c)'
        BY <4>1, <4>2 DEF Full, Found
      <4> QED BY <1>3, <1>5, <2>7, <2>8, <4>3, NextOne
    <3> QED BY <3>1, <3>2
  <2>14. \A b \in Address : DataEERead(b)' = IF b = a /\ Writable THEN v ELSE DataEERead(b)
    BY <1>2, <2>7, <2>8, <2>9, <2>10, <2>13, ReadOne, NextOne
  <2>15. Holds'
    BY <2>7, <2>8, <2>11, <2>12, NextHoldsOne
  <2>16. deeAt' # "off"
    BY <2>2
  <2> QED BY <1>1, <2>13, <2>14, <2>15, <2>16, WriteSteps
<1> QED BY <1>4, <1>5

LEMMA NextHolds ==
  ASSUME NUM_DATA_EE_PAGES > 2, EraseInv, EraseInv', Holds, [DataEENext]_deeVars
  PROVE  Holds' /\ [Store!StoreNext]_(Store!storeVars)
<1>1. CASE DataEEInit
  BY <1>1, InitHolds DEF Store!StoreNext
<1>2. CASE InitStatus
  BY <1>2, InitStatusHolds
<1>3. ASSUME pages' = pages, deeAt' = deeAt, packing' = packing, asked' = asked
      PROVE  Holds' /\ UNCHANGED Store!storeVars
  <2>1. Holds'
    <3>1. RowsPacked'
      <4>1. \A i : PackedWord(i)' = PackedWord(i)
        BY <1>3, PagesHold, PackedSame
      <4> QED BY <1>3, <4>1 DEF Holds, RowsPacked
    <3> QED BY <1>3, <3>1, PagesHold DEF Holds
  <2>2. Writable' <=> Writable
    BY <1>3, PagesHold DEF Writable, NextAvail, CurrentPage, Found
  <2> QED BY <1>3, <2>1, <2>2, PagesHold, StoreSteps
<1>4. ASSUME NEW a \in Address, Read(a) PROVE Holds' /\ UNCHANGED Store!storeVars
  BY <1>3, <1>4 DEF Read
<1>5. ASSUME NEW a \in Address, NEW v \in DataValues, DataEEWrite(a, v)
      PROVE  Holds' /\ Store!StoreNext
  BY <1>5, WriteHolds DEF Store!StoreNext
<1>6. CASE PackEE
  BY <1>6, PackHolds
<1>7. CASE PackRow
  BY <1>7, PackRowHolds
<1>8. CASE PackStatus
  BY <1>8, PackStatusHolds
<1>9. CASE PackErase
  BY <1>9, PackEraseHolds
<1>10. CASE PowerFails
  BY <1>10, PowerHolds DEF Store!StoreNext
<1>11. CASE UNCHANGED deeVars
  BY <1>3, <1>11 DEF deeVars
<1> QED BY <1>1, <1>2, <1>4, <1>5, <1>6, <1>7, <1>8, <1>9, <1>10, <1>11 DEF DataEENext

LEMMA StartHolds == DataEEStart => Holds /\ Store!StoreInit
<1> SUFFICES ASSUME DataEEStart PROVE Holds /\ Store!StoreInit
  OBVIOUS
<1>1. Fresh
  BY DEF DataEEStart, Fresh
<1>2. Writable \in BOOLEAN
  BY DEF Writable
<1> QED BY <1>1, <1>2, ReadFresh, HoldsFresh DEF DataEEStart, Store!StoreInit

\* With more than two pages (the code has 16) the emulation keeps every byte whatever the
\* moment of a reset: the invariant is that a page packed into holds what the current one
\* answers before it becomes current (DEE_Emulation_16-bit.c:608-628).
THEOREM StoreRefinement == NUM_DATA_EE_PAGES > 2 => (DataEESpec => ImplementsStore)
<1> SUFFICES ASSUME NUM_DATA_EE_PAGES > 2 PROVE DataEESpec => ImplementsStore
  OBVIOUS
<1>1. EraseInv /\ [DataEENext]_deeVars => EraseInv'
  BY NextErases
<1>2. EraseInv /\ EraseInv' /\ Holds /\ [DataEENext]_deeVars
        => Holds' /\ [Store!StoreNext]_(Store!storeVars)
  BY NextHolds
<1> QED BY <1>1, <1>2, EraseInit, StartHolds, PTL DEF DataEESpec, ImplementsStore, Store!StoreSpec
=============================================================================
