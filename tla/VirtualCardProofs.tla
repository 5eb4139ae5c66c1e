-------------------------- MODULE VirtualCardProofs --------------------------
(***************************************************************************)
(* Proofs about VirtualCard, for cards of any size, any keys, encryption   *)
(* modes and contents.                                                     *)
(***************************************************************************)
EXTENDS VirtualCard, TLAPS

-----------------------------------------------------------------------------
(* The inductive invariant.  The status of the sectors is saved with them, *)
(* so that what holds of the card must hold of its image too; and the last *)
(* answer shows no more than what is open.                                 *)
ImageHasOneOpen == mixed \/ \A s, t \in Authenticated(file.sectors) : s = t

CardInv ==
    /\ TypeOK
    /\ OneSectorOpen
    /\ OpenWasGranted
    /\ ImageHasOneOpen
    /\ shown \subseteq granted

(* Sector numbers and lengths are naturals. *)
LEMMA SectorNumbers ==
    /\ Sectors \in Nat \ {0}
    /\ \A s \in Sector : s \in Nat /\ s < Sectors
  BY VirtualCardAssumption DEF Sector

(* The kinds of sector a card is made of. *)
LEMMA NewSectorType == NewSector \in SectorStorage /\ NewCard \in [Sector -> SectorStorage]
  BY VirtualCardAssumption DEF NewSector, NewCard, SectorStorage, Mode

(* A new card has no sector open. *)
LEMMA NewCardIsClosed == Authenticated(NewCard) = {}
  BY DEF Authenticated, NewCard, NewSector

LEMMA InitCard == Init => CardInv
<1> SUFFICES ASSUME Init PROVE CardInv
  OBVIOUS
<1>1. TypeOK
  <2>1. 0 \in 0..Sectors
    BY SectorNumbers
  <2>2. NoFile \in [sectors : [Sector -> SectorStorage], length : 0..Sectors]
    BY <2>1, NewSectorType DEF NoFile
  <2>3. QED
    BY <2>2, NewSectorType DEF Init, TypeOK
<1>2. Authenticated(sectors) = {} /\ Authenticated(file.sectors) = {}
  BY NewCardIsClosed DEF Init, NoFile
<1>3. QED
  BY <1>1, <1>2 DEF Init, CardInv, OneSectorOpen, OpenWasGranted, ImageHasOneOpen

-----------------------------------------------------------------------------
(* One lemma for each way a command can change the card. *)

(* What a command that refuses, reads, or leaves the process may not harm. *)
LEMMA SameCard ==
    ASSUME CardInv, UNCHANGED <<sectors, file, granted, mixed>>,
           shown' \subseteq granted, running' \in BOOLEAN
    PROVE  CardInv'
  BY DEF CardInv, TypeOK, OneSectorOpen, OpenWasGranted, ImageHasOneOpen, Authenticated

LEMMA RefuseInv == ASSUME CardInv, Refuse PROVE CardInv'
  BY SameCard DEF Refuse, CardInv, TypeOK

LEMMA ShowInv ==
    ASSUME CardInv, NEW s \in Sector, sectors[s].status # "NO_AUTH", Show(s)
    PROVE  CardInv'
<1>1. s \in Authenticated(sectors)
  BY DEF CardInv, TypeOK, SectorStorage, Authenticated
<1>2. shown' \subseteq granted
  BY <1>1 DEF Show, CardInv, OpenWasGranted
<1>3. QED
  BY <1>2, SameCard DEF Show, CardInv, TypeOK

(* A sector that is written keeps its status. *)
LEMMA ChangeInv ==
    ASSUME CardInv, NEW s \in Sector, NEW sector \in SectorStorage,
           sector.status = sectors[s].status, Change(s, sector)
    PROVE  CardInv'
<1>1. TypeOK'
  BY DEF CardInv, TypeOK, Change
<1>2. Authenticated(sectors)' = Authenticated(sectors)
  BY DEF CardInv, TypeOK, Change, Authenticated
<1>3. QED
  BY <1>1, <1>2 DEF CardInv, OneSectorOpen, OpenWasGranted, ImageHasOneOpen, Change, Authenticated

(* Authentication closes every sector before it opens one. *)
LEMMA AuthInv ==
    ASSUME CardInv, NEW mode \in Mode, NEW s, NEW key \in Keys, auth(mode, s, key)
    PROVE  CardInv'
<1>1. CASE s \notin Sector
  BY <1>1, RefuseInv DEF auth
<1>2. CASE s \in Sector
  <2> DEFINE cleared == clear_card_auth(sectors)
             fits    == KeyFits(sectors[s], mode, key)
  <2>1. /\ sectors' = IF fits THEN [cleared EXCEPT ![s].status = "AUTHENTICATED"] ELSE cleared
        /\ granted' = {x \in {s} : <<mode, key>> = <<sectors[s].mode, sectors[s].key>>}
        /\ shown' = {}
        /\ UNCHANGED <<running, file, mixed>>
    BY <1>2 DEF auth
  <2>2. cleared \in [Sector -> SectorStorage] /\ \A x \in Sector : cleared[x].status = "NO_AUTH"
    BY DEF clear_card_auth, CardInv, TypeOK, SectorStorage
  <2>3. sectors' \in [Sector -> SectorStorage]
    BY <1>2, <2>1, <2>2 DEF SectorStorage
  <2>4. Authenticated(sectors)' = IF fits THEN {s} ELSE {}
    BY <1>2, <2>1, <2>2 DEF Authenticated, SectorStorage
  <2>5. granted' = IF fits THEN {s} ELSE {}
    BY <2>1 DEF KeyFits
  <2>6. TypeOK'
    BY <1>2, <2>1, <2>3, <2>5 DEF CardInv, TypeOK
  <2>7. QED
    BY <2>1, <2>4, <2>5, <2>6
    DEF CardInv, OneSectorOpen, OpenWasGranted, ImageHasOneOpen, Authenticated
<1>3. QED
  BY <1>1, <1>2

-----------------------------------------------------------------------------
(* The groups of commands. *)

LEMMA ReadInv == ASSUME CardInv, Read PROVE CardInv'
<1>1. PICK s \in 0..Sectors, enc \in Encs :
          sector_read(s, enc) \/ \E b \in 0..Blocks : block_read(s, b, enc)
  BY DEF Read
<1>2. CASE sector_read(s, enc)
  BY <1>2, RefuseInv, ShowInv DEF sector_read
<1>3. CASE \E b \in 0..Blocks : block_read(s, b, enc)
  BY <1>3, RefuseInv, ShowInv DEF block_read
<1>4. QED
  BY <1>1, <1>2, <1>3

LEMMA SectorWriteInv ==
    ASSUME CardInv, NEW s, NEW enc \in Encs, NEW data \in [Block -> Contents],
           sector_write(s, enc, data)
    PROVE  CardInv'
<1>1. CASE Refuse
  BY <1>1, RefuseInv
<1>2. CASE s \in Sector /\ Change(s, [sectors[s] EXCEPT !.enc[0] = enc, !.data = data])
  <2> DEFINE sector == [sectors[s] EXCEPT !.enc[0] = enc, !.data = data]
  <2>1. sectors[s] \in SectorStorage
    BY <1>2 DEF CardInv, TypeOK
  <2>2. sector \in SectorStorage /\ sector.status = sectors[s].status
    BY <2>1 DEF SectorStorage
  <2>3. QED
    BY <1>2, <2>2, ChangeInv
<1>3. QED
  BY <1>1, <1>2 DEF sector_write

LEMMA BlockWriteInv ==
    ASSUME CardInv, NEW s, NEW b, NEW enc \in Encs, NEW content \in Contents,
           block_write(s, b, enc, content)
    PROVE  CardInv'
<1>1. CASE Refuse
  BY <1>1, RefuseInv
<1>2. CASE /\ s \in Sector /\ b \in Block
           /\ Change(s, [sectors[s] EXCEPT !.enc[b] = enc, !.data[b] = content])
  <2> DEFINE sector == [sectors[s] EXCEPT !.enc[b] = enc, !.data[b] = content]
  <2>1. sectors[s] \in SectorStorage
    BY <1>2 DEF CardInv, TypeOK
  <2>2. sector \in SectorStorage /\ sector.status = sectors[s].status
    BY <2>1 DEF SectorStorage
  <2>3. QED
    BY <1>2, <2>2, ChangeInv
<1>3. QED
  BY <1>1, <1>2 DEF block_write

LEMMA SetTrailerInv ==
    ASSUME CardInv, NEW mode \in Mode, NEW s, NEW key \in Keys, set_trailer(mode, s, key)
    PROVE  CardInv'
<1>1. CASE Refuse
  BY <1>1, RefuseInv
<1>2. CASE s \in Sector /\ Change(s, [sectors[s] EXCEPT !.mode = mode, !.key = key])
  <2> DEFINE sector == [sectors[s] EXCEPT !.mode = mode, !.key = key]
  <2>1. sectors[s] \in SectorStorage
    BY <1>2 DEF CardInv, TypeOK
  <2>2. sector \in SectorStorage /\ sector.status = sectors[s].status
    BY <2>1 DEF SectorStorage
  <2>3. QED
    BY <1>2, <2>2, ChangeInv
<1>3. QED
  BY <1>1, <1>2 DEF set_trailer

-----------------------------------------------------------------------------
(* The image. *)

LEMMA OverlaidType ==
    ASSUME TypeOK, NEW card \in [Sector -> SectorStorage]
    PROVE  Overlaid(card) \in [Sector -> SectorStorage]
  BY DEF TypeOK, Overlaid

LEMMA SaveInv == ASSUME CardInv, save PROVE CardInv'
<1>1. TypeOK'
  BY SectorNumbers DEF CardInv, TypeOK, save, Image
<1>2. file'.sectors = sectors
  BY DEF save, Image
<1>3. QED
  BY <1>1, <1>2 DEF CardInv, OneSectorOpen, OpenWasGranted, ImageHasOneOpen, save, Authenticated

LEMMA DieInSaveInv == ASSUME CardInv, DieInSave PROVE CardInv'
<1>1. PICK n \in 0..(Sectors - 1) : file' = Image(n)
  BY DEF DieInSave
<1>2. n \in 0..Sectors
  BY <1>1, SectorNumbers
<1>3. TypeOK'
  BY <1>1, <1>2 DEF CardInv, TypeOK, DieInSave, Image
<1>4. file'.sectors = sectors
  BY <1>1 DEF Image
<1>5. QED
  BY <1>3, <1>4 DEF CardInv, OneSectorOpen, OpenWasGranted, ImageHasOneOpen, DieInSave, Authenticated

(* A whole image and one with nothing in it leave one card's sectors; any  *)
(* other is recorded.                                                      *)
LEMMA LoadInv == ASSUME CardInv, load PROVE CardInv'
<1>1. sectors' \in [Sector -> SectorStorage]
  BY OverlaidType DEF CardInv, TypeOK, load
<1>2. TypeOK'
  BY <1>1 DEF CardInv, TypeOK, load, Authenticated
<1>3. OpenWasGranted'
  BY SectorNumbers DEF CardInv, TypeOK, OpenWasGranted, load, Overlaid, Authenticated
<1>4. mixed' \/ sectors' = sectors \/ sectors' = file.sectors
  <2>1. SUFFICES ASSUME file.length \notin 1..(Sectors - 1)
                 PROVE  sectors' = sectors \/ sectors' = file.sectors
    BY DEF load
  <2>2. file.length = 0 \/ file.length = Sectors
    BY <2>1, SectorNumbers DEF CardInv, TypeOK
  <2>3. CASE file.length = 0
    BY <2>3, SectorNumbers DEF CardInv, TypeOK, load, Overlaid
  <2>4. CASE file.length = Sectors
    BY <2>4, SectorNumbers DEF CardInv, TypeOK, load, Overlaid
  <2>5. QED
    BY <2>2, <2>3, <2>4
<1>5. OneSectorOpen'
  BY <1>4 DEF CardInv, OneSectorOpen, ImageHasOneOpen, load, Authenticated
<1>6. ImageHasOneOpen'
  BY DEF CardInv, ImageHasOneOpen, load, Authenticated
<1>7. QED
  BY <1>2, <1>3, <1>5, <1>6 DEF CardInv, load

(* What an image does not cover is new, and so it is closed. *)
LEMMA StartInv == ASSUME CardInv, Start PROVE CardInv'
<1>1. sectors' \in [Sector -> SectorStorage]
  BY OverlaidType, NewSectorType DEF CardInv, Start
<1>2. TypeOK'
  BY <1>1 DEF CardInv, TypeOK, Start, Authenticated
<1>3. Authenticated(sectors)' \subseteq Authenticated(file.sectors)
  BY DEF Start, Overlaid, Authenticated, NewCard, NewSector
<1>4. QED
  BY <1>2, <1>3
  DEF CardInv, OneSectorOpen, OpenWasGranted, ImageHasOneOpen, Start, Authenticated

-----------------------------------------------------------------------------
LEMMA NextCard == ASSUME CardInv, [Next]_vars PROVE CardInv'
<1>1. CASE Authenticate
  BY <1>1, AuthInv DEF Authenticate
<1>2. CASE Read
  BY <1>2, ReadInv
<1>3. CASE Write
  BY <1>3, SectorWriteInv, BlockWriteInv DEF Write
<1>4. CASE SetTrailer
  BY <1>4, SetTrailerInv DEF SetTrailer
<1>5. CASE save
  BY <1>5, SaveInv
<1>6. CASE load
  BY <1>6, LoadInv
<1>7. CASE Exit
  BY <1>7, SameCard DEF Exit, CardInv
<1>8. CASE DieInSave
  BY <1>8, DieInSaveInv
<1>9. CASE Start
  BY <1>9, StartInv
<1>10. CASE UNCHANGED vars
  BY <1>10, SameCard DEF vars, CardInv, TypeOK
<1>11. QED
  BY <1>1, <1>2, <1>3, <1>4, <1>5, <1>6, <1>7, <1>8, <1>9, <1>10 DEF Next

LEMMA CardInvariant == Spec => []CardInv
  BY InitCard, NextCard, PTL DEF Spec

(* Whatever the commands, the saves, the deaths and the restarts, a card   *)
(* gives access to one sector at a time -- FileImpl::clear_card_auth --    *)
(* unless an image that was cut off was loaded over it.                    *)
THEOREM OneOpen == Spec => []OneSectorOpen
<1>1. CardInv => OneSectorOpen
  BY DEF CardInv
<1>2. QED
  BY <1>1, CardInvariant, PTL

(* A sector is open only to one who gave its key in the last               *)
(* authentication, or whose image says so.                                 *)
THEOREM OpenGranted == Spec => []OpenWasGranted
<1>1. CardInv => OpenWasGranted
  BY DEF CardInv
<1>2. QED
  BY <1>1, CardInvariant, PTL

-----------------------------------------------------------------------------
(* What a step may do to a sector, as in ClosedIsUntouched. *)
Untouched(s) == sectors'[s] = [sectors[s] EXCEPT !.status = sectors'[s].status]

FromImage(s) ==
    \/ s < file.length /\ sectors'[s] = file.sectors[s]
    \/ ~running /\ s >= file.length /\ sectors'[s] = NewSector

(* A step that leaves the sectors alone touches none of them. *)
LEMMA UnchangedUntouched ==
    ASSUME CardInv, UNCHANGED sectors, NEW s \in Sector
    PROVE  Untouched(s)
  BY DEF CardInv, TypeOK, SectorStorage, Untouched

(* A command that writes needs an open sector, which has been granted. *)
LEMMA ChangeTouchesOne ==
    ASSUME CardInv, NEW x \in Sector, NEW sector, sectors[x].status # "NO_AUTH",
           Change(x, sector), NEW s \in Sector
    PROVE  Untouched(s) \/ s \in granted
<1>1. x \in granted
  BY DEF CardInv, TypeOK, SectorStorage, OpenWasGranted, Authenticated
<1>2. CASE s = x
  BY <1>1, <1>2
<1>3. CASE s # x
  BY <1>3 DEF Change, CardInv, TypeOK, SectorStorage, Untouched
<1>4. QED
  BY <1>2, <1>3

(* Authentication changes nothing but statuses. *)
LEMMA AuthUntouched ==
    ASSUME CardInv, NEW mode, NEW x, NEW key, auth(mode, x, key), NEW s \in Sector
    PROVE  Untouched(s)
<1>1. CASE x \notin Sector
  BY <1>1, UnchangedUntouched DEF auth, Refuse
<1>2. CASE x \in Sector
  <2>1. sectors[s] \in SectorStorage
    BY DEF CardInv, TypeOK
  <2>2. \/ sectors'[s] = [sectors[s] EXCEPT !.status = "NO_AUTH"]
        \/ sectors'[s] = [sectors[s] EXCEPT !.status = "AUTHENTICATED"]
    <3> DEFINE cleared == clear_card_auth(sectors)
               opened  == [cleared EXCEPT ![x].status = "AUTHENTICATED"]
    <3>1. cleared[s] = [sectors[s] EXCEPT !.status = "NO_AUTH"]
      BY DEF clear_card_auth
    <3>2. opened[s] = IF s = x THEN [cleared[s] EXCEPT !.status = "AUTHENTICATED"]
                               ELSE cleared[s]
      BY DEF clear_card_auth
    <3>3. [cleared[s] EXCEPT !.status = "AUTHENTICATED"] =
            [sectors[s] EXCEPT !.status = "AUTHENTICATED"]
      BY <2>1, <3>1 DEF SectorStorage
    <3>4. sectors' = opened \/ sectors' = cleared
      BY <1>2 DEF auth
    <3> HIDE DEF cleared, opened
    <3>5. QED
      BY <3>1, <3>2, <3>3, <3>4
  <2>3. QED
    BY <2>1, <2>2 DEF Untouched, SectorStorage
<1>3. QED
  BY <1>1, <1>2

(* Reading the image puts in a sector what it has of it, or leaves it, or  *)
(* when a process starts, makes it new.                                    *)
LEMMA LoadFromImage ==
    ASSUME CardInv, load, NEW s \in Sector
    PROVE  Untouched(s) \/ FromImage(s)
<1>1. sectors'[s] = IF s < file.length THEN file.sectors[s] ELSE sectors[s]
  BY DEF load, Overlaid
<1>2. sectors[s] \in SectorStorage
  BY DEF CardInv, TypeOK
<1>3. QED
  BY <1>1, <1>2 DEF Untouched, FromImage, SectorStorage

LEMMA StartFromImage ==
    ASSUME CardInv, ~running, Start, NEW s \in Sector
    PROVE  FromImage(s)
  BY SectorNumbers DEF Start, Overlaid, NewCard, FromImage, CardInv, TypeOK

(* What is stored in a sector changes only while access to it is granted   *)
(* or by reading the image, and no answer shows another sector's data: the *)
(* handlers of FileImpl that test sector->status, together.                *)
THEOREM ClosedUntouched == Spec => ClosedIsUntouched
<1>1. ASSUME CardInv, Next PROVE shown' \subseteq granted
  <2>1. CASE Authenticate
    BY <2>1 DEF Authenticate, auth, Refuse
  <2>2. CASE Read
    <3>1. ASSUME NEW s \in Sector, sectors[s].status # "NO_AUTH", Show(s)
          PROVE  shown' \subseteq granted
      BY <1>1, <3>1 DEF Show, CardInv, TypeOK, SectorStorage, OpenWasGranted, Authenticated
    <3>2. QED
      BY <2>2, <3>1 DEF Read, sector_read, block_read, Refuse
  <2>3. CASE Write
    BY <2>3 DEF Write, sector_write, block_write, Refuse, Change
  <2>4. CASE SetTrailer
    BY <2>4 DEF SetTrailer, set_trailer, Refuse, Change
  <2>5. CASE save \/ load \/ Start
    BY <2>5 DEF save, load, Start
  <2>6. CASE Exit \/ DieInSave
    BY <1>1, <2>6 DEF Exit, DieInSave, CardInv
  <2>7. QED
    BY <1>1, <2>1, <2>2, <2>3, <2>4, <2>5, <2>6 DEF Next
<1>2. ASSUME CardInv, Next, NEW s \in Sector
      PROVE  Untouched(s) \/ (s \in granted /\ running) \/ FromImage(s)
  <2>1. CASE Authenticate
    BY <1>2, <2>1, AuthUntouched DEF Authenticate
  <2>2. CASE UNCHANGED sectors
    BY <1>2, <2>2, UnchangedUntouched
  <2>3. CASE running /\ Write
    BY <1>2, <2>2, <2>3, ChangeTouchesOne DEF Write, sector_write, block_write, Refuse
  <2>4. CASE running /\ SetTrailer
    BY <1>2, <2>2, <2>4, ChangeTouchesOne DEF SetTrailer, set_trailer, Refuse
  <2>5. CASE load
    BY <1>2, <2>5, LoadFromImage
  <2>6. CASE ~running /\ Start
    BY <1>2, <2>6, StartFromImage
  <2>7. CASE Read \/ save \/ Exit \/ DieInSave
    BY <2>2, <2>7
    DEF Read, sector_read, block_read, Refuse, Show, save, Exit, DieInSave
  <2>8. QED
    BY <1>2, <2>1, <2>3, <2>4, <2>5, <2>6, <2>7 DEF Next
<1>3. ASSUME CardInv, [Next]_vars
      PROVE  [shown' \subseteq granted /\ \A s \in Sector :
                \/ sectors'[s] = [sectors[s] EXCEPT !.status = sectors'[s].status]
                \/ s \in granted /\ running
                \/ s < file.length /\ sectors'[s] = file.sectors[s]
                \/ ~running /\ s >= file.length /\ sectors'[s] = NewSector]_vars
  BY <1>1, <1>2, <1>3 DEF Untouched, FromImage
<1>4. QED
  BY <1>3, CardInvariant, PTL DEF Spec, ClosedIsUntouched

=============================================================================
