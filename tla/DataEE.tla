------------------------------- MODULE DataEE -------------------------------
(***************************************************************************)
(* arch/dspic/DEE_Emulation_16-bit.c, under arch/dspic/eeprom.c: an        *)
(* EEPROM emulated in pages of the program flash.  A write programs the    *)
(* next free word of the one current page with an address and its byte;    *)
(* the read of an address searches that page backwards.  When the last     *)
(* word is taken the newest byte of every address is packed into the next  *)
(* page, row by row, that page is made current, and the full one erased.   *)
(*                                                                         *)
(* A step is one operation of the flash, and power can fail between any    *)
(* two of them (not inside one).  There is one bank, as in the header.     *)
(* Word 0 of a page is its status, so the words here start at 1.           *)
(***************************************************************************)
EXTENDS Integers, FiniteSets, FiniteSetsExt

CONSTANTS NUM_DATA_EE_PAGES,       \* 16 in the code
          DATA_EE_SIZE,            \* addresses, 255 in the code
          INSTRUCTIONS_IN_PAGE,    \* 512 in the code
          INSTRUCTIONS_IN_ROW,     \* 64 in the code
          ERASE_WRITE_CYCLE_MAX,   \* 100 in the code
          DataValues,              \* the bytes that are written
          MaxCount                 \* bound: no write once a page counts more erasures

\* What the data of an erased word reads, the greatest number of 16 bits
Unwritten == 65535

Char == 0 .. 255
UInt == 0 .. Unwritten

ASSUME DataEEAssumption ==
  /\ NUM_DATA_EE_PAGES \in Nat \ {0, 1}
  /\ DATA_EE_SIZE \in Char \ {0}
  /\ INSTRUCTIONS_IN_PAGE \in Nat /\ INSTRUCTIONS_IN_PAGE > DATA_EE_SIZE + 1
  /\ INSTRUCTIONS_IN_ROW \in Nat \ {0} /\ INSTRUCTIONS_IN_PAGE % INSTRUCTIONS_IN_ROW = 0
  /\ ERASE_WRITE_CYCLE_MAX \in UInt \ {0}
  /\ DataValues \subseteq Char

VARIABLES pages,           \* the flash: the status and the words of each page
          deeAt,           \* what the processor is about to do
          packing,         \* the pages of a pack and its next row
          addrNotFound,    \* the flag of dataEEFlags
          asked            \* the last write asked of EEPROM_write

deeVars == <<pages, deeAt, packing, addrNotFound, asked>>

Pages == 0 .. NUM_DATA_EE_PAGES - 1
Address == 0 .. DATA_EE_SIZE - 1
Slots == 1 .. INSTRUCTIONS_IN_PAGE - 1

ErasedWord == [addr |-> 255, data |-> Unwritten]
BlankPage == [status |-> [current |-> FALSE, expired |-> FALSE, count |-> 65535],
              words |-> [i \in Slots |-> ErasedWord]]

\* A bit of the flash is cleared when it is programmed and set only when its page is
\* erased; every bit is taken to be cleared by a second word on top of the first.
Programmed(old, new) ==
  CASE new = ErasedWord -> old
    [] old \in {ErasedWord, new} -> new
    [] OTHER -> [addr |-> 0, data |-> 0]

\* The functions look for the current page from page 0.
CurrentPages == {p \in Pages : pages[p].status.current}
CurrentPage == Min(CurrentPages)

Found(p, a) == {i \in Slots : pages[p].words[i].addr = a}

DataEERead(a) ==
  IF CurrentPages = {} \/ Found(CurrentPage, a) = {}
    THEN Unwritten
    ELSE pages[CurrentPage].words[Max(Found(CurrentPage, a))].data

\* The offset of the first free word, 0 in a page that is full
NextAvail(p) == LET free == Found(p, ErasedWord.addr) IN IF free = {} THEN 0 ELSE Min(free)

\* DataEEInit and PackEE are about pages in a circle.
After(p, n) == (p + n) % NUM_DATA_EE_PAGES
LastPage == NUM_DATA_EE_PAGES - 1

NoPack == [from |-> 0, to |-> 0, row |-> 0]

DataEEStart ==
  /\ pages = [p \in Pages |-> BlankPage]
  /\ deeAt = "off" /\ packing = NoPack /\ addrNotFound = FALSE /\ asked = <<>>

\* Of two current pages the first is kept, and the one after it erased.
Kept == IF {0, LastPage} \subseteq CurrentPages THEN LastPage ELSE CurrentPage

\* EEPROM_init at power on.  No page is current before the first start; two are after
\* a reset late in a pack, and the first of them is packed again if it is full.  With
\* one, or with the errors of the code, nothing is done.
DataEEInit ==
  /\ deeAt = "off"
  /\ IF \A p \in Pages : pages[p].status.expired THEN deeAt' = "ready" /\ pages' = pages
     ELSE IF CurrentPages = {}
       THEN pages' = [pages EXCEPT ![0] = BlankPage] /\ deeAt' = "initStatus"
     ELSE IF Cardinality(CurrentPages) = 2
       THEN /\ pages' = [pages EXCEPT ![After(Kept, 1)] = BlankPage]
            /\ deeAt' = IF NextAvail(Kept) = 0 THEN "pack" ELSE "ready"
     ELSE deeAt' = "ready" /\ pages' = pages
  /\ UNCHANGED <<packing, addrNotFound, asked>>

\* The status of the first page that is ever used: current, no erasure counted
InitStatus ==
  /\ deeAt = "initStatus"
  /\ pages' = [pages EXCEPT ![0].status = [current |-> TRUE, expired |-> FALSE, count |-> 0]]
  /\ deeAt' = "ready"
  /\ UNCHANGED <<packing, addrNotFound, asked>>

\* EEPROM_read of one byte: the flag of a byte never written stays up.
Read(a) ==
  /\ deeAt = "ready"
  /\ addrNotFound' = (addrNotFound \/ DataEERead(a) = Unwritten)
  /\ UNCHANGED <<pages, deeAt, packing, asked>>

\* EEPROM_write of one byte, which ignores what DataEEWrite returns: nothing is
\* programmed if the byte is the one that is there (and the flag is down), or if the
\* page has no free word.
DataEEWrite(a, v) ==
  /\ deeAt = "ready"
  /\ pages[CurrentPage].status.count <= MaxCount
  /\ asked' = <<a, v>>
  /\ LET free == NextAvail(CurrentPage)
     IN  IF (DataEERead(a) = v /\ ~addrNotFound) \/ free = 0
           THEN UNCHANGED <<pages, deeAt>>
           ELSE /\ pages' = [pages EXCEPT ![CurrentPage].words[free] =
                               Programmed(@, [addr |-> a, data |-> v])]
                /\ deeAt' = IF free = INSTRUCTIONS_IN_PAGE - 1 THEN "pack" ELSE "ready"
  /\ UNCHANGED <<packing, addrNotFound>>

\* Mutant of Unexpired: the search begins with the current page.
UnexpiredFromCurrent(from) ==
  {n \in 0 .. LastPage : ~pages[After(from, n)].status.expired}

\* How far from the current page the pages are that a pack can use
Unexpired(from) == {n \in 1 .. LastPage : ~pages[After(from, n)].status.expired}

\* PackEE: the next page that is not expired, if there is one
PackEE ==
  /\ deeAt = "pack"
  /\ IF Unexpired(CurrentPage) = {}
       THEN deeAt' = "ready" /\ packing' = packing
       ELSE /\ packing' = [from |-> CurrentPage, row |-> 0,
                           to |-> After(CurrentPage, Min(Unexpired(CurrentPage)))]
            /\ deeAt' = "packRow"
  /\ UNCHANGED <<pages, addrNotFound, asked>>

\* Mutant of Written: the last address is left out.
WrittenButLast == {a \in Address : a < DATA_EE_SIZE - 1 /\ DataEERead(a) # Unwritten}

\* What is packed: the addresses written, in their order, from word 1 on; a row holds
\* INSTRUCTIONS_IN_ROW words, the status the first of row 0.
Written == {a \in Address : DataEERead(a) # Unwritten}

PackedWord(i) ==
  LET first == {a \in Written : Cardinality({b \in Written : b <= a}) = i}
  IN  IF first = {} THEN ErasedWord
      ELSE LET a == CHOOSE x \in first : TRUE IN [addr |-> a, data |-> DataEERead(a)]

RowOf(i) == i \div INSTRUCTIONS_IN_ROW

PackRow ==
  /\ deeAt = "packRow"
  /\ pages' = [pages EXCEPT ![packing.to].words =
                 [i \in Slots |-> IF RowOf(i) = packing.row
                                    THEN Programmed(@[i], PackedWord(i)) ELSE @[i]]]
  /\ packing' = [packing EXCEPT !.row = @ + 1]
  /\ deeAt' = IF packing.row = RowOf(Cardinality(Written)) THEN "packStatus" ELSE "packRow"
  /\ UNCHANGED <<addrNotFound, asked>>

\* The words programmed are compared with what is read, up to the first free one.
Verified(p) ==
  \A i \in Slots : (\A j \in 1 .. i : pages[p].words[j].addr # ErasedWord.addr) =>
    DataEERead(pages[p].words[i].addr) = pages[p].words[i].data

\* The erasures of the full page, one more when the circle begins again, are those of
\* the packed one, which expires when it is as old as a page gets.
PackStatus ==
  /\ deeAt = "packStatus"
  /\ IF ~Verified(packing.to) THEN pages' = pages /\ deeAt' = "ready"
     ELSE LET old == pages[packing.from].status
              count == (old.count + (IF packing.to = 0 THEN 1 ELSE 0)) % 65536
          IN  /\ pages' = [pages EXCEPT ![packing.to].status =
                     [current |-> TRUE, count |-> count,
                      expired |-> old.expired \/ count >= ERASE_WRITE_CYCLE_MAX - 1]]
              /\ deeAt' = "packErase"
  /\ UNCHANGED <<packing, addrNotFound, asked>>

PackErase ==
  /\ deeAt = "packErase"
  /\ pages' = [pages EXCEPT ![packing.from] = BlankPage]
  /\ deeAt' = "ready" /\ packing' = NoPack
  /\ UNCHANGED <<addrNotFound, asked>>

\* Power fails, or the board is reset, between two operations of the flash.
PowerFails ==
  /\ deeAt # "off"
  /\ deeAt' = "off" /\ packing' = NoPack /\ addrNotFound' = FALSE
  /\ UNCHANGED <<pages, asked>>

DataEENext ==
  \/ DataEEInit \/ InitStatus
  \/ \E a \in Address : Read(a)
  \/ \E a \in Address, v \in DataValues : DataEEWrite(a, v)
  \/ PackEE \/ PackRow \/ PackStatus \/ PackErase
  \/ PowerFails

DataEESpec == DataEEStart /\ [][DataEENext]_deeVars
-----------------------------------------------------------------------------
Words == [addr : Char, data : UInt]
Statuses == [current : BOOLEAN, expired : BOOLEAN, count : UInt]
PageType == [status : Statuses, words : [Slots -> Words]]

DataEETypeOK ==
  /\ pages \in [Pages -> PageType]
  /\ deeAt \in {"off", "initStatus", "ready", "pack", "packRow", "packStatus", "packErase"}
  /\ packing \in [from : Pages, to : Pages, row : Nat]
  /\ addrNotFound \in BOOLEAN
  /\ asked \in {<<>>} \cup (Address \X DataValues)

\* A store refuses writes once its only current page is full with no pack to come: the
\* power failed after the last word was programmed and before the packed page was
\* current.
Writable ==
  \/ Cardinality(CurrentPages) # 1
  \/ NextAvail(CurrentPage) # 0
  \/ deeAt \in {"pack", "packRow", "packStatus"}

Store == INSTANCE ByteStore WITH
           Values <- DataValues,
           bytes <- [a \in Address |-> DataEERead(a)],
           writable <- Writable,
           on <- (deeAt # "off")

\* The emulation is a store of bytes whatever the moment power fails: no start, pack,
\* erasure or reset changes what a read answers, and a write changes the byte it names.
ImplementsStore == Store!StoreSpec

\* A word of the flash is programmed only when it is erased, and a page loses its words
\* all at once: a pack never lands on words that are there.
ErasedBeforeProgrammed ==
  [][\A p \in Pages : pages'[p] # BlankPage =>
       /\ pages'[p].status # pages[p].status => pages[p].status = BlankPage.status
       /\ \A i \in Slots : pages'[p].words[i] # pages[p].words[i] => pages[p].words[i] = ErasedWord
    ]_deeVars
=============================================================================
