--------------------------- MODULE ServiceRegistry ---------------------------
(***************************************************************************)
(* The list of services that wmesh_register_service (wmesh.c:260) appends to  *)
(* on the main task and find_service_handle (326) walks on the Wi-Fi task,    *)
(* which preempts the main task between any two of its assignments.          *)
(*                                                                          *)
(* A cell is linked first and filled field by field afterwards.  The first   *)
(* cell comes from calloc, the others from malloc.                           *)
(***************************************************************************)
EXTENDS Naturals, Sequences

CONSTANTS Service,  \* service identifiers
          Zero,     \* a field that calloc has cleared: identifier 0, NULL
          Garbage,  \* a field of a cell that malloc returned
          Linked    \* a pointer to the following cell

ASSUME RegistryAssumption ==
  /\ {Zero, Garbage, Linked} \cap Service = {}
  /\ Zero # Garbage /\ Zero # Linked /\ Garbage # Linked

VARIABLES
  cells,   \* the list; the address of a cell is its place
  adding,  \* config->id of the registration under way, or of the last one
  filled   \* how many fields of the last cell are set: the registration is over at 4

registryVars == <<cells, adding, filled>>

RegistryInit == cells = <<>> /\ adding = Zero /\ filled = 4

-----------------------------------------------------------------------------
(* The main task.                                                           *)

Blank(content) == [id |-> content, ctx |-> content, callback |-> content, next |-> content]

\* Mutant of WithNew: the link is left out.
WithNewUnlinked(cell) == Append(cells, cell)

\* The walk to the last cell, and the link from it.
WithNew(cell) ==
  Append([k \in DOMAIN cells |->
           IF k = Len(cells) THEN [cells[k] EXCEPT !.next = Linked] ELSE cells[k]],
         cell)

LinkCell(s) ==
  /\ filled = 4
  /\ cells' = WithNew(Blank(IF cells = <<>> THEN Zero ELSE Garbage))
  /\ adding' = s
  /\ filled' = 0

\* Mutant of NextField: the last assignment is left out.
NextFieldShort(n) == IF n = 2 THEN 4 ELSE n + 1

NextField(n) == n + 1

\* id, ctx, callback and next are set in this order (wmesh.c:285-288); the context and
\* the callback of a service are named like the service.
SetField ==
  /\ filled < 4
  /\ LET last == cells[Len(cells)]
     IN cells' = [cells EXCEPT ![Len(cells)] =
                   CASE filled = 0 -> [last EXCEPT !.id = adding]
                     [] filled = 1 -> [last EXCEPT !.ctx = adding]
                     [] filled = 2 -> [last EXCEPT !.callback = adding]
                     [] OTHER -> [last EXCEPT !.next = Zero]]
  /\ filled' = NextField(filled)
  /\ UNCHANGED adding

\* The board starts again.
RegistryReset == cells' = <<>> /\ adding' = Zero /\ filled' = 4

RegistryNext == SetField \/ RegistryReset \/ \E s \in Service : LinkCell(s)

RegistrySpec == RegistryInit /\ [][RegistryNext]_registryVars

-----------------------------------------------------------------------------
(* The Wi-Fi task: find_service_handle and the call in recv_cb.              *)

\* The outcomes of a frame: nobody is called, or the walk or the call goes through
\* memory that holds anything.  Otherwise a callback is called with a context.
Nobody == "nobody"
Wild == "wild"

\* Cells where a walk for id cannot go on to the next: the cell is the one, its
\* identifier may be anything, or its pointer leads nowhere.
Stops(id) == {k \in DOMAIN cells : cells[k].id \in {id, Garbage} \/ cells[k].next # Linked}

EndsIn(c, id) ==
  IF c.id = id /\ c.callback \in Service THEN <<c.callback, c.ctx>>
  ELSE IF c.id \notin {id, Garbage} /\ c.next = Zero THEN <<Nobody, Zero>>
  ELSE <<Wild, Zero>>

FindService(id) ==
  IF cells = <<>> THEN <<Nobody, Zero>>
  ELSE EndsIn(cells[CHOOSE k \in Stops(id) : \A j \in Stops(id) : k <= j], id)

-----------------------------------------------------------------------------
(* Properties.                                                              *)

Cell == [id : Service \cup {Zero, Garbage}, ctx : Service \cup {Zero, Garbage},
         callback : Service \cup {Zero, Garbage}, next : {Zero, Garbage, Linked}]

\* Types of the list and of its last cell.
RegistryTypeOK ==
  /\ cells \in Seq(Cell)
  /\ adding \in Service \cup {Zero}
  /\ filled \in 0 .. 4

\* The services whose registration is over.
Registered == {cells[k].id : k \in 1 .. (IF filled = 4 THEN Len(cells) ELSE Len(cells) - 1)}

\* A frame for a registered service reaches its callback with its context, also while
\* another service is being added (wmesh.c:383-392).
RegisteredIsServed == \A s \in Registered : FindService(s) = <<s, s>>

\* A frame goes astray only while a service is being added, and then reaches no
\* callback but its own: wmesh.c:278 links a cell that 285-288 have yet to fill.
AstrayOnlyWhileAdding ==
  \A s \in Service :
    \/ FindService(s) \in {<<s, s>>, <<Nobody, Zero>>}
    \/ FindService(s) = <<Wild, Zero>> /\ filled < 4
=============================================================================
