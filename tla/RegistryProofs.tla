---------------------------- MODULE RegistryProofs ----------------------------
(***************************************************************************)
(* Proofs about ServiceRegistry: for every number of services, at any point   *)
(* of a registration, a frame of a registered service reaches its callback,   *)
(* and only a frame that comes during a registration can go astray.          *)
(***************************************************************************)
EXTENDS ServiceRegistry, WellFoundedInduction, TLAPS

-----------------------------------------------------------------------------
(* The walk goes on to the first cell it cannot pass.                        *)

LessOnNat == {p \in Nat \X Nat : p[1] < p[2]}

LEMMA LeastElement ==
  ASSUME NEW T, T \subseteq Nat, T # {}
  PROVE  \E m \in T : \A j \in T : m <= j
<1>1. IsWellFoundedOn(LessOnNat, Nat)
  BY NatLessThanWellFounded DEF OpToRel, LessOnNat
<1>2. \E m \in T : \A j \in T : <<j, m>> \notin LessOnNat
  BY <1>1, WFMin
<1>3. \A m, j \in T : <<j, m>> \notin LessOnNat => m <= j
  BY DEF LessOnNat
<1>4. QED
  BY <1>2, <1>3

LEMMA WalkEnds ==
  ASSUME cells \in Seq(Cell), cells # <<>>, NEW s, Stops(s) # {}
  PROVE  \E j \in Stops(s) :
           /\ FindService(s) = EndsIn(cells[j], s)
           /\ \A k \in Stops(s) : j <= k
<1>1. Stops(s) \subseteq Nat
  BY DEF Stops
<1>2. PICK m \in Stops(s) : \A k \in Stops(s) : m <= k
  BY <1>1, LeastElement
<1> DEFINE j == CHOOSE k \in Stops(s) : \A i \in Stops(s) : k <= i
<1>3. j \in Stops(s) /\ \A k \in Stops(s) : j <= k
  BY <1>2
<1>4. FindService(s) = EndsIn(cells[j], s)
  BY DEF FindService
<1>5. QED
  BY <1>3, <1>4

-----------------------------------------------------------------------------
(* The inductive invariant.                                                 *)

\* A cell whose four fields are set.
Whole(c) == c.id \in Service /\ c.ctx = c.id /\ c.callback = c.id

\* The last cell, of which filled fields are set and the others as allocated.
LastRight(c, content) ==
  /\ c.id = IF filled >= 1 THEN adding ELSE content
  /\ c.ctx = IF filled >= 2 THEN adding ELSE content
  /\ c.callback = IF filled >= 3 THEN adding ELSE content
  /\ c.next = IF filled = 4 THEN Zero ELSE content

ListRight ==
  /\ filled < 4 => cells # <<>>
  /\ cells # <<>> => adding \in Service
  /\ \A k \in 1 .. Len(cells) - 1 : Whole(cells[k]) /\ cells[k].next = Linked
  /\ cells # <<>> =>
       LastRight(cells[Len(cells)], IF Len(cells) = 1 THEN Zero ELSE Garbage)

RegistryInv == RegistryTypeOK /\ ListRight

LEMMA RegistryStartRight ==
  /\ RegistryInit => RegistryInv
  /\ RegistryReset => RegistryInv'
<1>1. <<>> \in Seq(Cell) /\ Len(<<>>) = 0 /\ 1 .. 0 - 1 = {}
  OBVIOUS
<1>2. RegistryInit => RegistryInv
  BY <1>1 DEF RegistryInit, RegistryInv, RegistryTypeOK, ListRight
<1>3. RegistryReset => RegistryInv'
  BY <1>1 DEF RegistryReset, RegistryInv, RegistryTypeOK, ListRight
<1>4. QED
  BY <1>2, <1>3

LEMMA LinkCellRight ==
  ASSUME RegistryInv, NEW s \in Service, LinkCell(s)
  PROVE  RegistryInv'
<1> DEFINE n == Len(cells)
           content == IF cells = <<>> THEN Zero ELSE Garbage
           linked == [k \in DOMAIN cells |->
                       IF k = n THEN [cells[k] EXCEPT !.next = Linked] ELSE cells[k]]
<1>1. /\ filled = 4 /\ filled' = 0 /\ adding' = s
      /\ cells' = Append(linked, Blank(content))
  BY DEF LinkCell, WithNew
<1>2. cells \in Seq(Cell) /\ n \in Nat /\ DOMAIN cells = 1 .. n
  BY DEF RegistryInv, RegistryTypeOK
<1>3. Blank(content) \in Cell
  BY DEF Blank, Cell
<1>4. \A k \in 1 .. n : cells[k] \in Cell
  BY <1>2
<1>5. linked \in Seq(Cell) /\ Len(linked) = n
  <2>1. \A c \in Cell : [c EXCEPT !.next = Linked] \in Cell
    BY DEF Cell
  <2>2. \A k \in 1 .. n : linked[k] \in Cell
    BY <1>2, <1>4, <2>1
  <2>3. linked \in [1 .. n -> Cell]
    BY <1>2, <2>2
  <2>4. QED
    BY <1>2, <2>3
<1> HIDE DEF linked
<1>6. /\ cells' \in Seq(Cell) /\ Len(cells') = n + 1 /\ cells'[n + 1] = Blank(content)
      /\ \A k \in 1 .. n : cells'[k] = linked[k]
  BY <1>1, <1>3, <1>5
<1>7. RegistryTypeOK'
  BY <1>1, <1>6 DEF RegistryTypeOK
<1>8. cells' # <<>> /\ cells'[Len(cells')] = Blank(content)
  BY <1>2, <1>6
<1>9. content = IF Len(cells') = 1 THEN Zero ELSE Garbage
  BY <1>2, <1>6
<1>10. \A c : LastRight(Blank(c), c)'
  BY <1>1 DEF LastRight, Blank
<1>11. ASSUME NEW k \in 1 .. Len(cells') - 1
       PROVE  Whole(cells'[k]) /\ cells'[k].next = Linked
  <2>1. k \in 1 .. n
    BY <1>2, <1>6
  <2>2. cells'[k] = IF k = n THEN [cells[k] EXCEPT !.next = Linked] ELSE cells[k]
    BY <1>2, <1>6, <2>1 DEF linked
  <2>3. CASE k = n
    <3>1. Whole(cells[k]) /\ cells[k] \in Cell
      <4>1. cells # <<>>
        BY <1>2, <2>1
      <4>2. LastRight(cells[k], IF n = 1 THEN Zero ELSE Garbage) /\ adding \in Service
        BY <2>3, <4>1 DEF RegistryInv, ListRight
      <4>3. QED
        BY <1>1, <1>4, <2>1, <4>2 DEF LastRight, Whole
    <3>2. QED
      BY <2>2, <2>3, <3>1 DEF Whole, Cell
  <2>4. CASE k # n
    <3>1. \A m \in Nat : \A i \in 1 .. m : i # m => i \in 1 .. m - 1
      OBVIOUS
    <3>2. k \in 1 .. n - 1
      BY <1>2, <2>1, <2>4, <3>1
    <3>3. QED
      BY <2>2, <2>4, <3>2 DEF RegistryInv, ListRight
  <2>5. QED
    BY <2>3, <2>4
<1>12. ListRight'
  <2>1. LastRight(cells[Len(cells)], IF Len(cells) = 1 THEN Zero ELSE Garbage)'
    BY <1>8, <1>9, <1>10 DEF LastRight
  <2>2. (\A k \in 1 .. Len(cells) - 1 : Whole(cells[k]) /\ cells[k].next = Linked)'
    BY <1>11
  <2>3. QED
    BY <1>1, <1>8, <2>1, <2>2 DEF ListRight
<1>13. QED
  BY <1>7, <1>12 DEF RegistryInv

LEMMA SetFieldRight ==
  ASSUME RegistryInv, SetField
  PROVE  RegistryInv'
<1> USE RegistryAssumption
<1> DEFINE n == Len(cells)
           last == cells[n]
           content == IF n = 1 THEN Zero ELSE Garbage
<1>1. /\ filled \in 0 .. 3 /\ filled' = filled + 1 /\ adding' = adding
      /\ cells \in Seq(Cell) /\ cells # <<>> /\ adding \in Service
  BY DEF RegistryInv, RegistryTypeOK, ListRight, SetField, NextField
<1>2. n \in Nat /\ n >= 1 /\ last \in Cell
  BY <1>1
<1>3. PICK c : /\ cells' = [cells EXCEPT ![n] = c]
               /\ c = CASE filled = 0 -> [last EXCEPT !.id = adding]
                        [] filled = 1 -> [last EXCEPT !.ctx = adding]
                        [] filled = 2 -> [last EXCEPT !.callback = adding]
                        [] OTHER -> [last EXCEPT !.next = Zero]
  BY DEF SetField
<1>4. LastRight(last, content)
  BY <1>1 DEF RegistryInv, ListRight
<1>5. c \in Cell /\ LastRight(c, content)'
  <2>1. CASE filled = 0
    BY <1>1, <1>2, <1>3, <1>4, <2>1 DEF LastRight, Cell
  <2>2. CASE filled = 1
    BY <1>1, <1>2, <1>3, <1>4, <2>2 DEF LastRight, Cell
  <2>3. CASE filled = 2
    BY <1>1, <1>2, <1>3, <1>4, <2>3 DEF LastRight, Cell
  <2>4. CASE filled = 3
    BY <1>1, <1>2, <1>3, <1>4, <2>4 DEF LastRight, Cell
  <2>5. QED
    BY <1>1, <2>1, <2>2, <2>3, <2>4
<1>6. /\ cells' \in Seq(Cell) /\ Len(cells') = n /\ cells' # <<>> /\ cells'[n] = c
      /\ \A k \in 1 .. n - 1 : cells'[k] = cells[k]
  BY <1>1, <1>2, <1>3, <1>5
<1>7. RegistryTypeOK'
  BY <1>1, <1>6 DEF RegistryTypeOK
<1>8. ListRight'
  BY <1>1, <1>5, <1>6 DEF ListRight, RegistryInv, Whole
<1>9. QED
  BY <1>7, <1>8 DEF RegistryInv

LEMMA RegistryStepRight ==
  ASSUME RegistryInv, [RegistryNext]_registryVars
  PROVE  RegistryInv'
<1>1. CASE RegistryNext
  BY <1>1, RegistryStartRight, SetFieldRight, LinkCellRight DEF RegistryNext
<1>2. CASE UNCHANGED registryVars
  BY <1>2 DEF registryVars, RegistryInv, RegistryTypeOK, ListRight, LastRight
<1>3. QED
  BY <1>1, <1>2

-----------------------------------------------------------------------------
(* What a frame meets.                                                      *)

\* The walk for a service ends in its own cell or in the last.
LEMMA WalkEndsRight ==
  ASSUME RegistryInv, cells # <<>>, NEW s \in Service
  PROVE  \E j \in 1 .. Len(cells) :
           /\ FindService(s) = EndsIn(cells[j], s)
           /\ \A k \in 1 .. j - 1 : cells[k].id # s
           /\ j < Len(cells) => cells[j].id = s /\ Whole(cells[j])
<1> USE RegistryAssumption
<1>1. cells \in Seq(Cell) /\ Len(cells) \in Nat /\ Len(cells) >= 1
      /\ DOMAIN cells = 1 .. Len(cells)
  BY DEF RegistryInv, RegistryTypeOK
<1>2. Len(cells) \in Stops(s)
  <2>1. cells[Len(cells)].next # Linked
    BY DEF RegistryInv, ListRight, LastRight
  <2>2. QED
    BY <1>1, <2>1 DEF Stops
<1>3. PICK j \in Stops(s) : /\ FindService(s) = EndsIn(cells[j], s)
                            /\ \A k \in Stops(s) : j <= k
  BY <1>1, <1>2, WalkEnds
<1>4. j \in 1 .. Len(cells)
  BY <1>1 DEF Stops
<1>5. \A k \in 1 .. j - 1 : cells[k].id # s
  BY <1>1, <1>3, <1>4 DEF Stops
<1>6. j < Len(cells) => cells[j].id = s /\ Whole(cells[j])
  <2>1. j < Len(cells) => j \in 1 .. Len(cells) - 1
    BY <1>1, <1>4
  <2>2. j < Len(cells) => Whole(cells[j]) /\ cells[j].next = Linked
    BY <2>1 DEF RegistryInv, ListRight
  <2>3. QED
    BY <2>2 DEF Stops, Whole
<1>7. QED
  BY <1>3, <1>4, <1>5, <1>6

LEMMA RegistryInvServes == RegistryInv => RegisteredIsServed
<1> SUFFICES ASSUME RegistryInv, NEW s \in Registered
             PROVE  FindService(s) = <<s, s>>
  BY DEF RegisteredIsServed
<1> USE RegistryAssumption
<1>1. Len(cells) \in Nat /\ filled \in 0 .. 4
  BY DEF RegistryInv, RegistryTypeOK
<1>2. PICK k \in 1 .. Len(cells) :
        cells[k].id = s /\ (k = Len(cells) => filled = 4)
  BY <1>1 DEF Registered
<1>3. cells # <<>>
  BY <1>2
<1>4. Whole(cells[k]) /\ s \in Service
  <2>1. CASE k = Len(cells)
    BY <1>2, <1>3, <2>1 DEF RegistryInv, ListRight, LastRight, Whole
  <2>2. CASE k # Len(cells)
    <3>1. k \in 1 .. Len(cells) - 1
      BY <1>1, <2>2
    <3>2. QED
      BY <1>2, <3>1 DEF RegistryInv, ListRight, Whole
  <2>3. QED
    BY <2>1, <2>2
<1>5. PICK j \in 1 .. Len(cells) :
        /\ FindService(s) = EndsIn(cells[j], s)
        /\ \A i \in 1 .. j - 1 : cells[i].id # s
        /\ j < Len(cells) => cells[j].id = s /\ Whole(cells[j])
  BY <1>3, <1>4, WalkEndsRight
<1>6. cells[j].id = s /\ Whole(cells[j])
  <2>1. CASE j < Len(cells)
    BY <1>5, <2>1
  <2>2. CASE j = Len(cells)
    <3>1. k = j
      BY <1>1, <1>2, <1>5, <2>2
    <3>2. QED
      BY <1>2, <1>4, <3>1
  <2>3. QED
    BY <1>1, <2>1, <2>2
<1>7. QED
  BY <1>5, <1>6 DEF EndsIn, Whole

LEMMA RegistryInvAstray == RegistryInv => AstrayOnlyWhileAdding
<1> SUFFICES ASSUME RegistryInv, NEW s \in Service
             PROVE  \/ FindService(s) \in {<<s, s>>, <<Nobody, Zero>>}
                    \/ FindService(s) = <<Wild, Zero>> /\ filled < 4
  BY DEF AstrayOnlyWhileAdding
<1> USE RegistryAssumption
<1>1. CASE cells = <<>>
  BY <1>1 DEF FindService
<1>2. CASE cells # <<>>
  <2>1. Len(cells) \in Nat /\ filled \in 0 .. 4
    BY DEF RegistryInv, RegistryTypeOK
  <2>2. PICK j \in 1 .. Len(cells) :
          /\ FindService(s) = EndsIn(cells[j], s)
          /\ j < Len(cells) => cells[j].id = s /\ Whole(cells[j])
    BY <1>2, WalkEndsRight
  <2>3. CASE j < Len(cells)
    BY <2>2, <2>3 DEF EndsIn, Whole
  <2>4. CASE j = Len(cells)
    <3>1. LastRight(cells[j], IF j = 1 THEN Zero ELSE Garbage) /\ adding \in Service
      BY <1>2, <2>4 DEF RegistryInv, ListRight
    <3>2. CASE filled = 4
      BY <2>2, <3>1, <3>2 DEF EndsIn, LastRight
    <3>3. CASE filled < 4
      <4>1. cells[j].callback \in Service =>
              cells[j].callback = adding /\ cells[j].ctx = adding /\ cells[j].id = adding
        BY <2>1, <3>1 DEF LastRight
      <4>2. QED
        BY <2>2, <3>3, <4>1 DEF EndsIn
    <3>4. QED
      BY <2>1, <3>2, <3>3
  <2>5. QED
    BY <2>1, <2>3, <2>4
<1>3. QED
  BY <1>1, <1>2

-----------------------------------------------------------------------------

LEMMA RegistryInvariant == RegistrySpec => []RegistryInv
BY RegistryStartRight, RegistryStepRight, PTL DEF RegistrySpec

\* The list of services and its last cell keep their types.
THEOREM RegistryTypeCorrect == RegistrySpec => []RegistryTypeOK
BY RegistryInvariant, PTL DEF RegistryInv

\* A frame for a registered service reaches its callback with its context, whenever it
\* comes and however many services there are.
THEOREM RegisteredIsServedCorrect == RegistrySpec => []RegisteredIsServed
BY RegistryInvariant, RegistryInvServes, PTL

\* Outside a registration no frame goes astray, and during one none reaches a callback
\* but its own.
THEOREM AstrayOnlyWhileAddingCorrect == RegistrySpec => []AstrayOnlyWhileAdding
BY RegistryInvariant, RegistryInvAstray, PTL
=============================================================================
