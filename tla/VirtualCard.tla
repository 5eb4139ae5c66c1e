---------------------------- MODULE VirtualCard ----------------------------
(***************************************************************************)
(* FileImpl: a card kept in memory, answered for inside send, and its      *)
(* image in a file.  Commands run one at a time in the caller's thread; an *)
(* action is one command with its handler.  The process may die at any     *)
(* time and in the middle of CardStorage::save, which writes over the      *)
(* image it replaces: the file is then cut off.  The serial number, which  *)
(* a new card draws at random and an image replaces, is left out: no       *)
(* command that changes or reads a sector looks at it.                     *)
(***************************************************************************)
EXTENDS Integers

CONSTANTS Sectors,    \* number of sectors (16 in the code)
          Blocks,     \* number of blocks in one (3 in the code)
          Keys,       \* key indices; the key of a new card is 0
          Encs,       \* encryption modes; the blocks of a new card have NoEnc
          Contents,   \* contents of a block; those of a new card are Blank
          NoEnc, Blank

ASSUME VirtualCardAssumption ==
    /\ Sectors \in Nat \ {0} /\ Blocks \in Nat \ {0}
    /\ 0 \in Keys /\ NoEnc \in Encs /\ Blank \in Contents

Sector == 0..(Sectors - 1)
Block == 0..(Blocks - 1)
Mode == {"STATIC", "DYNAMIC"}

VARIABLES sectors,  \* SectorStorage of each sector
          running,  \* the process is there
          file,     \* the image: its sectors and their number
          shown,    \* sectors whose data is in the last answer
          granted,  \* history: sectors the last authentication gave access to
          mixed     \* history: a running card loaded an image that was cut off

vars == <<sectors, running, file, shown, granted, mixed>>

SectorStorage ==
    [data : [Block -> Contents], key : Keys, mode : Mode,
     enc : [Block -> Encs], status : {"NO_AUTH", "AUTHENTICATED"}]

NewSector ==
    [data |-> [b \in Block |-> Blank], key |-> 0, mode |-> "STATIC",
     enc |-> [b \in Block |-> NoEnc], status |-> "NO_AUTH"]

NewCard == [s \in Sector |-> NewSector]

NoFile == [sectors |-> NewCard, length |-> 0]

Authenticated(card) == {s \in Sector : card[s].status = "AUTHENTICATED"}

-----------------------------------------------------------------------------
(* The handlers.  One that refuses (ERROR_VALUE, ERROR_READ, ERROR_WRITE)  *)
(* changes nothing.                                                        *)

Refuse ==
    /\ shown' = {}
    /\ UNCHANGED <<sectors, running, file, granted, mixed>>

Change(s, sector) ==
    /\ sectors' = [sectors EXCEPT ![s] = sector]
    /\ shown' = {}
    /\ UNCHANGED <<running, file, granted, mixed>>

Show(s) ==
    /\ shown' = {s}
    /\ UNCHANGED <<sectors, running, file, granted, mixed>>

(* Variant: other sectors keep their status. *)
KeepCardAuth(card) == card

clear_card_auth(card) == [s \in Sector |-> [card[s] EXCEPT !.status = "NO_AUTH"]]

(* Variant: the two kinds of key are not told apart. *)
KeyOfAnyMode(sector, mode, key) == sector.key = key

KeyFits(sector, mode, key) == sector.mode = mode /\ sector.key = key

(* auth and auth_dyn: a wrong key is no error, the sector just is not      *)
(* authenticated; a wrong number leaves every status as it is.             *)
auth(mode, s, key) ==
    IF s \notin Sector THEN Refuse
    ELSE LET cleared == clear_card_auth(sectors)
         IN  /\ sectors' = IF KeyFits(sectors[s], mode, key)
                          THEN [cleared EXCEPT ![s].status = "AUTHENTICATED"] ELSE cleared
             /\ granted' = {x \in {s} : <<mode, key>> = <<sectors[s].mode, sectors[s].key>>}
             /\ shown' = {}
             /\ UNCHANGED <<running, file, mixed>>

block_read(s, b, enc) ==
    IF s \notin Sector \/ b \notin Block THEN Refuse
    ELSE IF sectors[s].status = "NO_AUTH" \/ enc # sectors[s].enc[b] THEN Refuse
    ELSE Show(s)

block_write(s, b, enc, content) ==
    IF s \notin Sector \/ b \notin Block THEN Refuse
    ELSE IF sectors[s].status = "NO_AUTH" THEN Refuse
    ELSE Change(s, [sectors[s] EXCEPT !.enc[b] = enc, !.data[b] = content])

(* The encryption of a sector is that of its first block. *)
sector_read(s, enc) ==
    IF s \notin Sector THEN Refuse
    ELSE IF sectors[s].status = "NO_AUTH" \/ enc # sectors[s].enc[0] THEN Refuse
    ELSE Show(s)

sector_write(s, enc, data) ==
    IF s \notin Sector THEN Refuse
    ELSE IF sectors[s].status = "NO_AUTH" THEN Refuse
    ELSE Change(s, [sectors[s] EXCEPT !.enc[0] = enc, !.data = data])

(* set_trailer and set_trailer_dyn: access stays as it was given. *)
set_trailer(mode, s, key) ==
    IF s \notin Sector THEN Refuse
    ELSE IF sectors[s].status = "NO_AUTH" THEN Refuse
    ELSE Change(s, [sectors[s] EXCEPT !.mode = mode, !.key = key])

-----------------------------------------------------------------------------
(* The image in the file. *)

Image(n) == [sectors |-> sectors, length |-> n]

save ==
    /\ file' = Image(Sectors)
    /\ shown' = {}
    /\ UNCHANGED <<sectors, running, granted, mixed>>

Exit ==
    /\ running' = FALSE
    /\ UNCHANGED <<sectors, shown, file, granted, mixed>>

(* The process dies when the first n sectors have been written. *)
DieInSave ==
    /\ \E n \in 0..(Sectors - 1) : file' = Image(n)
    /\ running' = FALSE
    /\ UNCHANGED <<sectors, shown, granted, mixed>>

(* src.read over the storage: what is in the file replaces it, as far as   *)
(* the file goes.                                                          *)
Overlaid(card) == [s \in Sector |-> IF s < file.length THEN file.sectors[s] ELSE card[s]]

(* CardStorage::load into the running card; a file that is not there has   *)
(* nothing in it.                                                          *)
load ==
    /\ sectors' = Overlaid(sectors)
    /\ shown' = {}
    /\ granted' = {s \in granted : s >= file.length} \cup
                  {s \in Authenticated(file.sectors) : s < file.length}
    /\ mixed' = (mixed \/ file.length \in 1..(Sectors - 1))
    /\ UNCHANGED <<running, file>>

(* FileImpl(path): load, or a new card around what could be loaded. *)
Start ==
    /\ sectors' = Overlaid(NewCard)
    /\ granted' = Authenticated(sectors')
    /\ shown' = {}
    /\ running' = TRUE
    /\ UNCHANGED <<file, mixed>>
-----------------------------------------------------------------------------
Init ==
    /\ sectors = NewCard
    /\ running = TRUE
    /\ file = NoFile
    /\ shown = {}
    /\ granted = {}
    /\ mixed = FALSE

(* Requests may name a sector or a block too many. *)
Authenticate ==
    \E mode \in Mode, s \in 0..Sectors, key \in Keys : auth(mode, s, key)

Read ==
    \E s \in 0..Sectors, enc \in Encs :
        sector_read(s, enc) \/ \E b \in 0..Blocks : block_read(s, b, enc)

Write ==
    \E s \in 0..Sectors, enc \in Encs :
        \/ \E data \in [Block -> Contents] : sector_write(s, enc, data)
        \/ \E b \in 0..Blocks, content \in Contents : block_write(s, b, enc, content)

SetTrailer ==
    \E mode \in Mode, s \in 0..Sectors, key \in Keys : set_trailer(mode, s, key)

Next ==
    \/ running /\ (Authenticate \/ Read \/ Write \/ SetTrailer \/ save \/ load \/ Exit \/ DieInSave)
    \/ ~running /\ Start

Spec == Init /\ [][Next]_vars

-----------------------------------------------------------------------------
(* Properties. *)

(* Every variable is in its range. *)
TypeOK ==
    /\ sectors \in [Sector -> SectorStorage]
    /\ running \in BOOLEAN
    /\ file \in [sectors : [Sector -> SectorStorage], length : 0..Sectors]
    /\ shown \subseteq Sector
    /\ granted \subseteq Sector
    /\ mixed \in BOOLEAN

(* A card gives access to one sector at a time, the one authenticated last *)
(* -- in this process or in the one that saved the image, since the status *)
(* is part of it.  A second one may be open only after an image that was   *)
(* cut off was loaded over a running card.                                 *)
OneSectorOpen == mixed \/ \A s, t \in Authenticated(sectors) : s = t

(* A sector is open only to one who gave its key, of the right kind, after *)
(* any other sector was asked for; or whose image says so.                 *)
OpenWasGranted == Authenticated(sectors) \subseteq granted

(* What is stored in a sector changes only while access to it is granted   *)
(* or by reading the image, whatever commands, saves, deaths and restarts  *)
(* there were in between; and no answer shows data of another sector.      *)
ClosedIsUntouched ==
    [][shown' \subseteq granted /\ \A s \in Sector :
        \/ sectors'[s] = [sectors[s] EXCEPT !.status = sectors'[s].status]
        \/ s \in granted /\ running
        \/ s < file.length /\ sectors'[s] = file.sectors[s]
        \/ ~running /\ s >= file.length /\ sectors'[s] = NewSector]_vars

=============================================================================
