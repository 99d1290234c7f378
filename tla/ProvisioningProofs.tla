------------------------- MODULE ProvisioningProofs -------------------------
(***************************************************************************)
(* Proofs about Provisioning for every set of forms, every number of        *)
(* requests and pieces and every fault: the types, what is acknowledged,    *)
(* what the parser finds in a body, and what comes to be saved.             *)
(***************************************************************************)
EXTENDS Provisioning, SequenceTheorems, FiniteSetTheorems, TLAPS

\* An accepted form gives a configuration with a role.
LEMMA AcceptedHasRole ==
  ASSUME NEW p, Accepts(p)
  PROVE  Config(p).role \in Role /\ Config(p) # NoConfig
<1>1. Config(p).role \in Role
  BY DEF Accepts, Config, Role
<1>2. NoConfig.role \notin Role
  BY DEF NoConfig, Role
<1> QED
  BY <1>1, <1>2

\* The bounds, as the numbers that the intervals of TypeOK need.
LEMMA BoundsTyped ==
  MaxRequests \in Nat /\ MaxFaults \in Nat /\ MaxPieces \in Nat /\ 0 <= MaxPieces
  BY ProvisioningAssumption

\* A board that starts for the first time.
LEMMA InitTyped == Init => TypeOK
<1> SUFFICES ASSUME Init PROVE TypeOK
  OBVIOUS
<1>1. requests \in 0 .. MaxRequests /\ pieces \in 0 .. MaxPieces
  BY BoundsTyped DEF Init
<1>2. posted \in BOOLEAN /\ acked \in BOOLEAN
  BY DEF Init
<1> QED
  BY <1>1, <1>2 DEF Init, TypeOK

\* A restart, whatever caused it.
LEMMA ResetTyped ==
  ASSUME Reset
  PROVE  pieces' \in 0 .. MaxPieces /\ posted' \in BOOLEAN
<1>1. pieces' \in 0 .. MaxPieces
  BY BoundsTyped DEF Reset
<1>2. posted' \in BOOLEAN
  BY DEF Reset
<1> QED
  BY <1>1, <1>2

\* The main task and the power: the roles come from the configuration.
LEMMA MainTyped ==
  ASSUME TypeOK, Main \/ LosePower
  PROVE  TypeOK'
<1> USE BoundsTyped
<1>1. CASE Boot
  <2>1. main' \in {"waiting"} \cup Role
    BY <1>1 DEF Boot, TypeOK
  <2>2. faults' \subseteq Faults
    BY <1>1 DEF Boot, Fault, TypeOK
  <2> QED
    BY <1>1, <2>1, <2>2 DEF Boot, TypeOK, store, request, history
<1>2. CASE EndWait
  BY <1>2 DEF EndWait, TypeOK, store, request, history
<1>3. CASE StopAndRestart
  <2>1. Reset
    BY <1>3 DEF StopAndRestart
  <2> QED
    BY <1>3, <2>1, ResetTyped DEF StopAndRestart, Reset, TypeOK, history
<1>4. CASE LosePower
  <2>1. Reset
    BY <1>4 DEF LosePower
  <2>2. nvs' = NoConfig \/ nvs'.role \in Role
    BY <1>4 DEF LosePower, TypeOK
  <2>3. faults' \subseteq Faults
    BY <1>4 DEF LosePower, Fault, TypeOK
  <2> QED
    BY <2>1, <2>2, <2>3, ResetTyped DEF Reset, TypeOK, history
<1> QED
  BY <1>1, <1>2, <1>3, <1>4 DEF Main

\* The handler: only accepted forms are written.
LEMMA ServerTyped ==
  ASSUME TypeOK, Handler \/ ReceiveFails \/ \E f \in Form : Submit(f)
  PROVE  TypeOK'
<1> USE BoundsTyped
<1>1. ASSUME NEW f \in Form, Submit(f) PROVE TypeOK'
  BY <1>1 DEF Submit, TypeOK, store
<1>2. ASSUME NEW k \in 1 .. remaining, ReceivePiece(k) PROVE TypeOK'
  BY <1>2 DEF ReceivePiece, TypeOK, store, history
<1>3. CASE ReceiveFails
  BY <1>3 DEF ReceiveFails, Finish, Fault, TypeOK, store, history
<1>4. CASE Reject
  BY <1>4 DEF Reject, Finish, TypeOK, store, history
<1>5. CASE Save
  <2>1. Config(Fields).role \in Role
    BY <1>5, AcceptedHasRole DEF Save
  <2>2. CASE Fault("set") /\ Finish /\ UNCHANGED staged
    BY <1>5, <2>2 DEF Save, Finish, Fault, TypeOK, history
  <2>3. CASE staged' = Config(Fields) /\ server' = "commit"
             /\ UNCHANGED <<form, buffer, remaining, pieces, faults>>
    BY <1>5, <2>1, <2>3 DEF Save, TypeOK, history, Role
  <2> QED
    BY <1>5, <2>2, <2>3 DEF Save
<1>6. CASE Commit
  <2>1. nvs' = NoConfig \/ nvs'.role \in Role
    BY <1>6 DEF Commit, TypeOK
  <2>2. faults' \subseteq Faults
    BY <1>6 DEF Commit, Fault, TypeOK
  <2> QED
    BY <1>6, <2>1, <2>2 DEF Commit, TypeOK, history
<1>7. CASE Answer
  BY <1>7 DEF Answer, TypeOK, store
<1>8. CASE Signal
  BY <1>8 DEF Signal, Finish, TypeOK, store, history
<1> QED
  BY <1>1, <1>2, <1>3, <1>4, <1>5, <1>6, <1>7, <1>8 DEF Handler

\* Every board's variables stay in their types and none aborts at boot, for any
\* forms, keys, pieces and faults (project.c:37-43, webserver.c:207-234).
THEOREM TypeCorrect == Spec => []TypeOK
<1>1. TypeOK /\ [Next]_vars => TypeOK'
  <2> SUFFICES ASSUME TypeOK, [Next]_vars PROVE TypeOK'
    OBVIOUS
  <2>1. CASE Next
    BY <2>1, MainTyped, ServerTyped DEF Next
  <2>2. CASE UNCHANGED vars
    BY <2>2 DEF vars, store, request, history, TypeOK
  <2> QED
    BY <2>1, <2>2
<1> QED
  BY InitTyped, <1>1, PTL DEF Spec

-----------------------------------------------------------------------------
(* What was acknowledged is kept.                                           *)

\* The handler gets past the writing only with something written.
WrittenBeforeAnswer ==
  /\ server = "commit" => staged # NoConfig
  /\ server \in {"answer", "signal"} => nvs # NoConfig \/ "commit" \in faults

KeptInv == AcknowledgedIsKept /\ WrittenBeforeAnswer

\* No step forgets what was acknowledged.
LEMMA NextKept ==
  ASSUME KeptInv, [Next]_vars
  PROVE  KeptInv'
<1> USE DEF KeptInv, AcknowledgedIsKept, WrittenBeforeAnswer
<1>1. CASE Boot
  BY <1>1 DEF Boot, Fault, store, request, history
<1>2. CASE EndWait
  BY <1>2 DEF EndWait, store, request, history
<1>3. CASE StopAndRestart
  BY <1>3 DEF StopAndRestart, Reset, history
<1>4. CASE LosePower
  BY <1>4 DEF LosePower, Fault, Reset, history
<1>5. ASSUME NEW f \in Form, Submit(f) PROVE KeptInv'
  BY <1>5 DEF Submit, store
<1>6. ASSUME NEW k \in 1 .. remaining, ReceivePiece(k) PROVE KeptInv'
  BY <1>6 DEF ReceivePiece, store, history
<1>7. CASE ReceiveFails
  BY <1>7 DEF ReceiveFails, Fault, Finish, store, history
<1>8. CASE Reject
  BY <1>8 DEF Reject, Finish, store, history
<1>9. CASE Save
  <2>1. Config(Fields) # NoConfig
    BY <1>9, AcceptedHasRole DEF Save
  <2> QED
    BY <1>9, <2>1 DEF Save, Fault, Finish, history
<1>10. CASE Commit
  BY <1>10 DEF Commit, Fault, history
<1>11. CASE Answer
  BY <1>11 DEF Answer, store
<1>12. CASE Signal
  BY <1>12 DEF Signal, Finish, store, history
<1>13. CASE UNCHANGED vars
  BY <1>13 DEF vars, store, request, history
<1> QED
  BY <1>1, <1>2, <1>3, <1>4, <1>5, <1>6, <1>7, <1>8, <1>9, <1>10, <1>11, <1>12, <1>13
  DEF Next, Main, Handler

\* A board that told its user that the configuration is saved has one from then on,
\* whenever power is lost (webserver.c:248-254, persistence.c:42-59).
THEOREM AcknowledgedIsKeptCorrect == Spec => []AcknowledgedIsKept
<1>1. Init => KeptInv
  BY DEF Init, KeptInv, AcknowledgedIsKept, WrittenBeforeAnswer
<1>2. KeptInv /\ [Next]_vars => KeptInv'
  BY NextKept
<1>3. KeptInv => AcknowledgedIsKept
  BY DEF KeptInv
<1> QED
  BY <1>1, <1>2, <1>3, PTL DEF Spec

-----------------------------------------------------------------------------
(* What the parser finds in a body.                                         *)

Symbol == STRING \cup Tag \cup {"=", "nl", "nul"}

\* A text that the parser reads.
IsText(r) == r \in Seq(Symbol) /\ r # <<>> /\ r[Len(r)] = "nul"

\* The line of position i ends at e.
EndsAt(b, i, e) ==
  /\ e \in i .. Len(b) /\ b[e] \in {"nl", "nul"}
  /\ \A k \in i .. e - 1 : b[k] \notin {"nl", "nul"}

\* The parser finds the value v at position i, up to a line break at e.
Holds(b, i, e, v) ==
  /\ i \in 1 .. Len(b) /\ EndsAt(b, i, e)
  /\ e = i + 2 + Len(v)
  /\ \A k \in 1 .. Len(v) : b[i + 1 + k] = v[k]

\* The text r has one line with the name u, and the value v.
Found(r, u, v) == \E i, e \in Nat : NamedLines(r, u) = {i} /\ Holds(r, i, e, v)

\* The text r has one line for each field of f in S, with its value, and no other line
\* with the name of a field.
Reads(r, f, S) ==
  \A u \in Tag :
    IF u \in S /\ u \in DOMAIN f THEN Found(r, u, f[u]) ELSE NamedLines(r, u) = {}

\* The text r with a line in front.
WithLine(t, v, r) == (<<t, "=">> \o v \o <<"nl">>) \o r

\* The same, symbol by symbol: b is r with a line of d symbols in front.
InFront(b, t, v, r, d) ==
  /\ b \in Seq(Symbol) /\ d \in Nat /\ d = Len(v) + 3 /\ Len(b) = d + Len(r)
  /\ b[1] = t /\ b[2] = "=" /\ b[d] = "nl"
  /\ \A k \in 1 .. Len(v) : b[k + 2] = v[k]
  /\ \A k \in 1 .. Len(r) : b[d + k] = r[k]

\* The text b is the text r after one line of d symbols.
Follows(b, r, d) ==
  /\ d \in Nat \ {0} /\ Len(b) \in Nat /\ Len(r) \in Nat \ {0} /\ Len(b) = d + Len(r)
  /\ b[d] = "nl" /\ \A k \in 1 .. d - 1 : b[k] \notin {"nl", "nul"}
  /\ \A k \in 1 .. Len(r) : b[d + k] = r[k]

\* A value that a page can hold.
IsValue(v) ==
  v \in Seq(Symbol) /\ \A k \in 1 .. Len(v) : v[k] \notin {"nl", "nul"}

\* A form with such values.
IsForm(f) == DOMAIN f \subseteq Tag /\ \A t \in DOMAIN f : IsValue(f[t])

\* Two sequences in a row.
LEMMA Concatenation ==
  ASSUME NEW s \in Seq(Symbol), NEW r \in Seq(Symbol)
  PROVE  /\ s \o r \in Seq(Symbol) /\ Len(s \o r) = Len(s) + Len(r)
         /\ \A k \in 1 .. Len(s) : (s \o r)[k] = s[k]
         /\ \A k \in 1 .. Len(r) : (s \o r)[Len(s) + k] = r[k]
<1>1. /\ s \o r \in Seq(Symbol) /\ Len(s \o r) = Len(s) + Len(r)
      /\ \A i \in 1 .. Len(s) + Len(r) :
           (s \o r)[i] = IF i <= Len(s) THEN s[i] ELSE r[i - Len(s)]
  BY ConcatProperties
<1>2. Len(s) \in Nat /\ Len(r) \in Nat
  OBVIOUS
<1>3. ASSUME NEW k \in 1 .. Len(r) PROVE (s \o r)[Len(s) + k] = r[k]
  <2>1. Len(s) + k \in 1 .. Len(s) + Len(r) /\ ~(Len(s) + k <= Len(s))
        /\ (Len(s) + k) - Len(s) = k
    BY <1>2
  <2>2. QED
    BY <1>1, <2>1
<1>4. QED
  BY <1>1, <1>2, <1>3

\* The line end that the parser finds.
LEMMA EndIsLineEnd ==
  ASSUME NEW b, NEW i \in Nat, Len(b) \in Nat, NEW e, EndsAt(b, i, e)
  PROVE  LineEnd(b, i) = e
<1> DEFINE S == {k \in i .. Len(b) : b[k] \in {"nl", "nul"}}
<1>1. e \in S /\ \A y \in S : e <= y
  BY DEF EndsAt
<1>2. \A x \in S : (\A y \in S : x <= y) => x = e
  BY <1>1 DEF EndsAt
<1>3. (CHOOSE x \in S : \A y \in S : x <= y) = e
  BY <1>1, <1>2
<1>4. QED
  BY <1>3 DEF LineEnd, Min

\* A line in front of a text, symbol by symbol.
LEMMA LineIsInFront ==
  ASSUME NEW t \in Symbol, NEW v \in Seq(Symbol), NEW r \in Seq(Symbol)
  PROVE  InFront(WithLine(t, v, r), t, v, r, Len(v) + 3)
<1> DEFINE a == <<t, "=">>
           c == a \o v
           l == c \o <<"nl">>
           b == WithLine(t, v, r)
<1>1. a \in Seq(Symbol) /\ Len(a) = 2 /\ a[1] = t /\ a[2] = "="
  <2>1. "=" \in Symbol
    BY DEF Symbol
  <2>2. QED
    BY <2>1
<1>2. <<"nl">> \in Seq(Symbol) /\ Len(<<"nl">>) = 1 /\ <<"nl">>[1] = "nl"
  <2>1. "nl" \in Symbol
    BY DEF Symbol
  <2>2. QED
    BY <2>1
<1>3. Len(v) \in Nat /\ Len(r) \in Nat
  OBVIOUS
<1> HIDE DEF a
<1>4. /\ c \in Seq(Symbol) /\ Len(c) = 2 + Len(v) /\ c[1] = t /\ c[2] = "="
      /\ \A k \in 1 .. Len(v) : c[2 + k] = v[k]
  <2>1. /\ c \in Seq(Symbol) /\ Len(c) = Len(a) + Len(v)
        /\ \A k \in 1 .. Len(a) : c[k] = a[k]
        /\ \A k \in 1 .. Len(v) : c[Len(a) + k] = v[k]
    BY <1>1, Concatenation
  <2>2. 1 \in 1 .. Len(a) /\ 2 \in 1 .. Len(a)
    BY <1>1
  <2> HIDE DEF c
  <2>3. QED
    BY <1>1, <2>1, <2>2
<1> HIDE DEF c
<1>5. /\ l \in Seq(Symbol) /\ Len(l) = 3 + Len(v) /\ l[Len(v) + 3] = "nl"
      /\ \A k \in 1 .. 2 + Len(v) : l[k] = c[k]
  <2>1. /\ l \in Seq(Symbol) /\ Len(l) = Len(c) + 1 /\ l[Len(c) + 1] = "nl"
        /\ \A k \in 1 .. Len(c) : l[k] = c[k]
    BY <1>2, <1>4, Concatenation
  <2>2. QED
    BY <1>3, <1>4, <2>1
<1>6. b = l \o r
  BY DEF a, c, WithLine
<1> HIDE DEF l, b
<1>7. /\ b \in Seq(Symbol) /\ Len(b) = Len(l) + Len(r)
      /\ \A k \in 1 .. Len(l) : b[k] = l[k]
      /\ \A k \in 1 .. Len(r) : b[Len(l) + k] = r[k]
  <2>1. l \in Seq(Symbol)
    BY <1>5
  <2>2. QED
    BY <1>6, <2>1, Concatenation
<1>8. b[1] = t /\ b[2] = "=" /\ b[Len(v) + 3] = "nl"
  BY <1>3, <1>4, <1>5, <1>7
<1>9. ASSUME NEW k \in 1 .. Len(v) PROVE b[k + 2] = v[k]
  <2>1. 2 + k \in 1 .. 2 + Len(v) /\ 2 + k \in 1 .. Len(l) /\ 2 + k = k + 2
    BY <1>3, <1>5
  <2>2. QED
    BY <1>4, <1>5, <1>7, <2>1
<1>10. ASSUME NEW k \in 1 .. Len(r) PROVE b[Len(v) + 3 + k] = r[k]
  BY <1>3, <1>5, <1>7
<1>11. InFront(b, t, v, r, Len(v) + 3)
  BY <1>3, <1>5, <1>7, <1>8, <1>9, <1>10 DEF InFront
<1>12. QED
  BY <1>11 DEF b

\* What a line in front of a text adds to the starts of lines.
LEMMA StartsInFront ==
  ASSUME NEW b, NEW r, NEW d, Follows(b, r, d), NEW i \in Nat
  PROVE  i \in Starts(b) <=> i = 1 \/ \E j \in Starts(r) : i = d + j
<1> USE DEF Follows
<1>1. ASSUME i \in Starts(b), i # 1
      PROVE  \E j \in Starts(r) : i = d + j
  <2>1. i \in 1 .. Len(b) /\ b[i - 1] = "nl" /\ \A k \in 1 .. i - 1 : b[k] # "nul"
    BY <1>1 DEF Starts
  <2>2. ~(i - 1 <= d - 1)
    <3>1. i - 1 <= d - 1 => i - 1 \in 1 .. d - 1
      BY <1>1, <2>1
    <3>2. QED
      BY <2>1, <3>1
  <2>3. PICK j \in Nat : i = d + j /\ j >= 1
    <3>1. i - d \in Nat /\ i = d + (i - d) /\ i - d >= 1
      BY <2>1, <2>2
    <3>2. QED
      BY <3>1
  <2>4. j \in 1 .. Len(r)
    BY <2>1, <2>3
  <2>5. j = 1 \/ r[j - 1] = "nl"
    <3>1. j # 1 => j - 1 \in 1 .. Len(r) /\ d + (j - 1) = i - 1
      BY <2>3, <2>4
    <3>2. QED
      BY <2>1, <3>1
  <2>6. ASSUME NEW k \in 1 .. j - 1 PROVE r[k] # "nul"
    <3>1. k \in 1 .. Len(r) /\ d + k \in 1 .. i - 1
      BY <2>3, <2>4
    <3>2. QED
      BY <2>1, <3>1
  <2>7. j \in Starts(r)
    BY <2>4, <2>5, <2>6 DEF Starts
  <2>8. QED
    BY <2>3, <2>7
<1>2. ASSUME i = 1 PROVE i \in Starts(b)
  <2>1. i \in 1 .. Len(b) /\ \A k \in 1 .. i - 1 : b[k] # "nul"
    BY <1>2
  <2>2. QED
    BY <1>2, <2>1 DEF Starts
<1>3. ASSUME NEW j \in Starts(r), i = d + j PROVE i \in Starts(b)
  <2>1. /\ j \in 1 .. Len(r) /\ (j = 1 \/ r[j - 1] = "nl")
        /\ \A k \in 1 .. j - 1 : r[k] # "nul"
    BY <1>3 DEF Starts
  <2>2. i \in 1 .. Len(b)
    BY <1>3, <2>1
  <2>3. b[i - 1] = "nl"
    <3>1. j = 1 => i - 1 = d
      BY <1>3
    <3>2. j # 1 => j - 1 \in 1 .. Len(r) /\ d + (j - 1) = i - 1
      BY <1>3, <2>1
    <3>3. QED
      BY <2>1, <3>1, <3>2
  <2>4. ASSUME NEW k \in 1 .. i - 1 PROVE b[k] # "nul"
    <3>1. k \in 1 .. d - 1 \/ k = d \/ k - d \in 1 .. j - 1
      BY <1>3, <2>1
    <3>2. ASSUME k - d \in 1 .. j - 1 PROVE b[k] # "nul"
      <4>1. k - d \in 1 .. Len(r) /\ d + (k - d) = k
        BY <2>1, <3>2
      <4>2. b[d + (k - d)] = r[k - d]
        BY <4>1
      <4>3. QED
        BY <2>1, <3>2, <4>1, <4>2
    <3>3. QED
      BY <3>1, <3>2
  <2>5. QED
    BY <2>2, <2>3, <2>4 DEF Starts
<1>4. QED
  BY <1>1, <1>2, <1>3

\* What a line in front of a text adds to the lines found.
LEMMA LineInFront ==
  ASSUME NEW t \in Symbol, t \in Tag, NEW v \in Seq(Symbol), IsValue(v),
         NEW r \in Seq(Symbol), IsText(r), NEW b, NEW d, InFront(b, t, v, r, d)
  PROVE  /\ IsText(b)
         /\ Holds(b, 1, d, v)
         /\ \A u \in Tag : \A i \in Nat :
              i \in NamedLines(b, u) <=>
                \/ i = 1 /\ u = t
                \/ \E j \in NamedLines(r, u) : i = d + j
         /\ \A i, e \in Nat : \A w \in Seq(Symbol) :
              Holds(r, i, e, w) => Holds(b, d + i, d + e, w)
<1>1. t \in Symbol /\ t \notin {"nl", "nul", "="}
  BY DEF Symbol, Tag, Required, ForGateway
<1>2. v \in Seq(Symbol) /\ r \in Seq(Symbol) /\ Len(v) \in Nat
      /\ Len(r) \in Nat \ {0} /\ r[Len(r)] = "nul"
  BY EmptySeq DEF IsValue, IsText
<1>3. /\ b \in Seq(Symbol) /\ Len(b) = d + Len(r) /\ d \in Nat /\ d = Len(v) + 3 /\ d >= 3
      /\ b[1] = t /\ b[2] = "=" /\ b[d] = "nl"
  BY <1>2 DEF InFront
<1>4. \A k \in 1 .. Len(v) : b[k + 2] = v[k]
  BY DEF InFront
<1>5. \A k \in 1 .. Len(r) : b[d + k] = r[k]
  BY DEF InFront
<1>6. ASSUME NEW k \in 1 .. d - 1 PROVE b[k] \notin {"nl", "nul"}
  <2>1. k = 1 \/ k = 2 \/ k - 2 \in 1 .. Len(v)
    BY <1>2, <1>3
  <2>2. ASSUME k - 2 \in 1 .. Len(v) PROVE b[k] \notin {"nl", "nul"}
    <3>1. b[(k - 2) + 2] = v[k - 2] /\ (k - 2) + 2 = k
      BY <1>4, <2>2
    <3>2. QED
      BY <2>2, <3>1 DEF IsValue
  <2>3. QED
    BY <1>1, <1>3, <2>1, <2>2
<1>7. IsText(b)
  <2>1. Len(r) \in 1 .. Len(r) /\ Len(b) # 0
    BY <1>2, <1>3
  <2>2. b[Len(b)] = "nul" /\ b # <<>>
    BY <1>2, <1>3, <1>5, <2>1
  <2>3. QED
    BY <1>3, <2>2 DEF IsText
<1>8. Holds(b, 1, d, v)
  <2>1. ASSUME NEW k \in 1 .. Len(v) PROVE b[1 + 1 + k] = v[k]
    BY <1>2, <1>4
  <2>2. d = 1 + 2 + Len(v) /\ 1 \in 1 .. Len(b) /\ d \in 1 .. Len(b)
    BY <1>2, <1>3
  <2>3. QED
    BY <1>3, <1>6, <2>1, <2>2 DEF Holds, EndsAt
<1>9. ASSUME NEW i \in Nat
      PROVE  i \in Starts(b) <=> i = 1 \/ \E j \in Starts(r) : i = d + j
  <2>1. Follows(b, r, d)
    BY <1>2, <1>3, <1>5, <1>6 DEF Follows
  <2>2. QED
    BY <2>1, StartsInFront
<1>10. ASSUME NEW u \in Tag, NEW i \in Nat
       PROVE  i \in NamedLines(b, u) <=>
                (i = 1 /\ u = t) \/ \E j \in NamedLines(r, u) : i = d + j
  <2>1. CASE i = 1
    <3>1. \A j \in NamedLines(r, u) : i # d + j
      BY <1>2, <1>3, <2>1 DEF NamedLines, Starts
    <3>2. i \in Starts(b) \ {Len(b)}
      BY <1>2, <1>3, <1>9, <2>1
    <3>3. QED
      BY <1>3, <2>1, <3>1, <3>2 DEF NamedLines
  <2>2. ASSUME NEW j \in Starts(r), i = d + j
        PROVE  i \in NamedLines(b, u) <=> j \in NamedLines(r, u)
    <3>1. j \in 1 .. Len(r) /\ i \in Starts(b) /\ (i = Len(b) <=> j = Len(r))
      <4>1. j \in 1 .. Len(r)
        BY <2>2 DEF Starts
      <4>2. i \in Starts(b)
        BY <1>9, <2>2
      <4>3. QED
        BY <1>2, <1>3, <2>2, <4>1, <4>2
    <3>2. CASE j # Len(r)
      <4>1. b[i] = r[j]
        BY <1>5, <2>2, <3>1
      <4>2. b[i + 1] = r[j + 1]
        <5>1. j + 1 \in 1 .. Len(r) /\ d + (j + 1) = i + 1
          BY <1>2, <1>3, <2>2, <3>1, <3>2
        <5>2. QED
          BY <1>5, <5>1
      <4>3. QED
        BY <3>1, <3>2, <4>1, <4>2 DEF NamedLines
    <3>3. QED
      BY <3>1, <3>2 DEF NamedLines
  <2>3. NamedLines(r, u) \subseteq Starts(r) /\ NamedLines(b, u) \subseteq Starts(b)
        /\ Starts(r) \subseteq Nat
    BY <1>2 DEF NamedLines, Starts
  <2>4. ASSUME i # 1 PROVE (\E j \in Starts(r) : i = d + j) \/ i \notin Starts(b)
    BY <1>9, <2>4
  <2>5. \A j, k \in Nat : i = d + j /\ i = d + k => j = k
    BY <1>3
  <2>6. QED
    BY <2>1, <2>2, <2>3, <2>4, <2>5
<1>11. ASSUME NEW i \in Nat, NEW e \in Nat, NEW w \in Seq(Symbol), Holds(r, i, e, w)
       PROVE  Holds(b, d + i, d + e, w)
  <2>1. /\ i \in 1 .. Len(r) /\ e \in i .. Len(r) /\ r[e] \in {"nl", "nul"}
        /\ e = i + 2 + Len(w) /\ Len(w) \in Nat
    BY <1>11 DEF Holds, EndsAt
  <2>2. d + i \in 1 .. Len(b) /\ d + e \in d + i .. Len(b) /\ d + e = (d + i) + 2 + Len(w)
    BY <1>2, <1>3, <2>1
  <2>3. b[d + e] \in {"nl", "nul"}
    <3>1. e \in 1 .. Len(r)
      BY <1>2, <2>1
    <3>2. QED
      BY <1>5, <2>1, <3>1
  <2>4. ASSUME NEW k \in d + i .. (d + e) - 1 PROVE b[k] \notin {"nl", "nul"}
    <3>1. k - d \in i .. e - 1 /\ k - d \in 1 .. Len(r) /\ d + (k - d) = k
      BY <1>2, <1>3, <2>1
    <3>2. b[d + (k - d)] = r[k - d]
      BY <1>5, <3>1
    <3>3. QED
      BY <1>11, <3>1, <3>2 DEF Holds, EndsAt
  <2>5. ASSUME NEW k \in 1 .. Len(w) PROVE b[(d + i) + 1 + k] = w[k]
    <3>1. i + 1 + k \in 1 .. Len(r) /\ d + (i + 1 + k) = (d + i) + 1 + k
      BY <1>2, <1>3, <2>1
    <3>2. b[d + (i + 1 + k)] = r[i + 1 + k]
      BY <1>5, <3>1
    <3>3. QED
      BY <1>11, <3>1, <3>2 DEF Holds
  <2>6. QED
    BY <2>2, <2>3, <2>4, <2>5 DEF Holds, EndsAt
<1>12. QED
  BY <1>3, <1>7, <1>8, <1>10, <1>11

\* A field's line in front of a text that has none of that name.
LEMMA AddLine ==
  ASSUME NEW f, IsForm(f), NEW S, NEW t \in Tag, t \notin S,
         NEW r, IsText(r), Reads(r, f, S)
  PROVE  IsText(Line(f, t) \o r) /\ Reads(Line(f, t) \o r, f, S \cup {t})
<1>1. CASE t \notin DOMAIN f
  <2>1. Line(f, t) \o r = r
    <3>1. r \in Seq(Symbol) /\ Line(f, t) = <<>>
      BY <1>1 DEF IsText, Line
    <3>2. QED
      BY <3>1, ConcatEmptySeq
  <2>2. Reads(r, f, S \cup {t})
    BY <1>1 DEF Reads
  <2>3. QED
    BY <2>1, <2>2
<1>2. CASE t \in DOMAIN f
  <2> DEFINE v == f[t]
             b == WithLine(t, v, r)
             d == Len(v) + 3
  <2>1. t \in Symbol /\ v \in Seq(Symbol) /\ IsValue(v) /\ r \in Seq(Symbol)
    BY <1>2 DEF Symbol, IsForm, IsValue, IsText
  <2>2. Line(f, t) \o r = b
    BY <1>2 DEF Line, WithLine
  <2> HIDE DEF v, b, d
  <2>3. InFront(b, t, v, r, d)
    BY <2>1, LineIsInFront DEF b, d
  <2>4. /\ IsText(b)
        /\ Holds(b, 1, d, v)
        /\ \A u \in Tag : \A i \in Nat :
             i \in NamedLines(b, u) <=>
               \/ i = 1 /\ u = t
               \/ \E j \in NamedLines(r, u) : i = d + j
        /\ \A i, e \in Nat : \A w \in Seq(Symbol) :
             Holds(r, i, e, w) => Holds(b, d + i, d + e, w)
    BY <2>1, <2>3, LineInFront
  <2>5. d \in Nat
    BY <2>3 DEF InFront
  <2>6. \A u \in Tag : NamedLines(b, u) \subseteq Nat /\ NamedLines(r, u) \subseteq Nat
    BY DEF NamedLines, Starts
  <2>7. Found(b, t, f[t])
    <3>1. NamedLines(r, t) = {}
      BY DEF Reads
    <3>2. NamedLines(b, t) = {1}
      BY <2>4, <2>6, <3>1
    <3>3. QED
      BY <2>4, <2>5, <3>2 DEF Found, v
  <2>8. ASSUME NEW u \in Tag, u # t, Found(r, u, f[u]), IsValue(f[u])
        PROVE  Found(b, u, f[u])
    <3>1. PICK i \in Nat, e \in Nat : NamedLines(r, u) = {i} /\ Holds(r, i, e, f[u])
      BY <2>8 DEF Found
    <3>2. d + i \in Nat /\ d + e \in Nat
      BY <2>5
    <3>3. NamedLines(b, u) = {d + i}
      BY <2>4, <2>6, <2>8, <3>1, <3>2
    <3>4. Holds(b, d + i, d + e, f[u])
      BY <2>4, <2>8, <3>1 DEF IsValue
    <3>5. QED
      BY <3>2, <3>3, <3>4 DEF Found
  <2>9. ASSUME NEW u \in Tag, u # t, NamedLines(r, u) = {} PROVE NamedLines(b, u) = {}
    BY <2>4, <2>6, <2>9
  <2>10. ASSUME NEW u \in Tag
         PROVE  IF u \in S \cup {t} /\ u \in DOMAIN f THEN Found(b, u, f[u])
                ELSE NamedLines(b, u) = {}
    <3>1. CASE u = t
      BY <1>2, <2>7, <3>1
    <3>2. CASE u # t /\ u \in S /\ u \in DOMAIN f
      <4>1. Found(r, u, f[u]) /\ IsValue(f[u])
        BY <3>2 DEF Reads, IsForm
      <4>2. QED
        BY <2>8, <3>2, <4>1
    <3>3. CASE u # t /\ ~(u \in S /\ u \in DOMAIN f)
      <4>1. NamedLines(r, u) = {}
        BY <3>3 DEF Reads
      <4>2. QED
        BY <2>9, <3>3, <4>1
    <3>4. QED
      BY <3>1, <3>2, <3>3
  <2>11. Reads(b, f, S \cup {t})
    BY <2>10 DEF Reads
  <2>12. QED
    BY <2>2, <2>4, <2>11
<1>3. QED
  BY <1>1, <1>2

\* What a field's line is made of.
LEMMA LineTyped ==
  ASSUME NEW f, IsForm(f), NEW t \in Tag
  PROVE  Line(f, t) \in Seq(Symbol)
<1>1. CASE t \notin DOMAIN f
  BY <1>1, EmptySeq DEF Line
<1>2. CASE t \in DOMAIN f
  <2>1. t \in Symbol /\ "=" \in Symbol /\ "nl" \in Symbol
    BY DEF Symbol
  <2>2. <<t, "=">> \in Seq(Symbol) /\ <<"nl">> \in Seq(Symbol)
    BY <2>1
  <2>3. f[t] \in Seq(Symbol)
    BY <1>2 DEF IsForm, IsValue
  <2>4. <<t, "=">> \o f[t] \in Seq(Symbol)
    BY <2>2, <2>3, ConcatProperties
  <2>5. (<<t, "=">> \o f[t]) \o <<"nl">> \in Seq(Symbol)
    BY <2>2, <2>4, ConcatProperties
  <2>6. QED
    BY <1>2, <2>5 DEF Line
<1>3. QED
  BY <1>1, <1>2

\* A body is put together from its lines, the last one first.
LEMMA BodyIsLines ==
  ASSUME NEW f, IsForm(f), NEW r \in Seq(Symbol)
  PROVE  /\ Body(f) \in Seq(Symbol)
         /\ Body(f) \o r =
              Line(f, "meshKey") \o (Line(f, "nodeName") \o (Line(f, "nodeType") \o
                (Line(f, "wifiSsid") \o (Line(f, "wifiPassword") \o
                  (Line(f, "mqttKey") \o r)))))
<1>1. ASSUME NEW t \in Tag, NEW s \in Seq(Symbol)
      PROVE  /\ Line(f, t) \o s \in Seq(Symbol)
             /\ (Line(f, t) \o s) \o r = Line(f, t) \o (s \o r)
  BY LineTyped, ConcatProperties, ConcatAssociative
<1> DEFINE a == Line(f, "mqttKey")
           b == Line(f, "wifiPassword") \o a
           c == Line(f, "wifiSsid") \o b
           d == Line(f, "nodeType") \o c
           e == Line(f, "nodeName") \o d
<1>2. /\ "meshKey" \in Tag /\ "nodeName" \in Tag /\ "nodeType" \in Tag
      /\ "wifiSsid" \in Tag /\ "wifiPassword" \in Tag /\ "mqttKey" \in Tag
  BY DEF Tag, Required, ForGateway
<1>3. a \in Seq(Symbol)
  BY <1>2, LineTyped
<1>4. Body(f) = Line(f, "meshKey") \o e
  BY DEF Body
<1> HIDE DEF a
<1>5. b \in Seq(Symbol) /\ b \o r = Line(f, "wifiPassword") \o (a \o r)
  BY <1>1, <1>2, <1>3
<1> HIDE DEF b
<1>6. c \in Seq(Symbol) /\ c \o r = Line(f, "wifiSsid") \o (b \o r)
  BY <1>1, <1>2, <1>5
<1> HIDE DEF c
<1>7. d \in Seq(Symbol) /\ d \o r = Line(f, "nodeType") \o (c \o r)
  BY <1>1, <1>2, <1>6
<1> HIDE DEF d
<1>8. e \in Seq(Symbol) /\ e \o r = Line(f, "nodeName") \o (d \o r)
  BY <1>1, <1>2, <1>7
<1> HIDE DEF e
<1>9. Body(f) \in Seq(Symbol) /\ Body(f) \o r = Line(f, "meshKey") \o (e \o r)
  BY <1>1, <1>2, <1>4, <1>8
<1>10. QED
  BY <1>5, <1>6, <1>7, <1>8, <1>9 DEF a

\* The parser finds each field of a form in its body, and no other.
LEMMA BodyReads ==
  ASSUME NEW f, IsForm(f)
  PROVE  /\ Body(f) \in Seq(Symbol)
         /\ IsText(Append(Body(f), "nul")) /\ Reads(Append(Body(f), "nul"), f, Tag)
<1> DEFINE nil == <<"nul">>
           a == Line(f, "mqttKey") \o nil
           b == Line(f, "wifiPassword") \o a
           c == Line(f, "wifiSsid") \o b
           d == Line(f, "nodeType") \o c
           e == Line(f, "nodeName") \o d
           g == Line(f, "meshKey") \o e
<1>1. nil \in Seq(Symbol) /\ IsText(nil)
  <2>1. "nul" \in Symbol
    BY DEF Symbol
  <2>2. QED
    BY <2>1 DEF IsText
<1>2. Body(f) \in Seq(Symbol) /\ Append(Body(f), "nul") = g
  <2>1. Body(f) \in Seq(Symbol) /\ Body(f) \o nil = g
    BY <1>1, BodyIsLines
  <2>2. "nul" \in Symbol
    BY DEF Symbol
  <2>3. Append(Body(f), "nul") = Body(f) \o nil
    BY <2>1, <2>2, AppendIsConcat
  <2>4. QED
    BY <2>1, <2>3
<1>3. Reads(nil, f, {})
  BY DEF Reads, NamedLines, Starts
<1>4. /\ "meshKey" \in Tag /\ "nodeName" \in Tag /\ "nodeType" \in Tag
      /\ "wifiSsid" \in Tag /\ "wifiPassword" \in Tag /\ "mqttKey" \in Tag
  BY DEF Tag, Required, ForGateway
<1> HIDE DEF nil
<1>5. IsText(a) /\ Reads(a, f, {} \cup {"mqttKey"})
  BY <1>1, <1>3, <1>4, AddLine
<1> HIDE DEF a
<1>6. IsText(b) /\ Reads(b, f, ({} \cup {"mqttKey"}) \cup {"wifiPassword"})
  BY <1>4, <1>5, AddLine
<1> HIDE DEF b
<1>7. IsText(c) /\ Reads(c, f, {"mqttKey", "wifiPassword"} \cup {"wifiSsid"})
  <2>1. Reads(b, f, {"mqttKey", "wifiPassword"})
    BY <1>6 DEF Reads
  <2>2. QED
    BY <1>4, <1>6, <2>1, AddLine
<1> HIDE DEF c
<1>8. IsText(d) /\ Reads(d, f, {"mqttKey", "wifiPassword", "wifiSsid"} \cup {"nodeType"})
  <2>1. Reads(c, f, {"mqttKey", "wifiPassword", "wifiSsid"})
    BY <1>7 DEF Reads
  <2>2. QED
    BY <1>4, <1>7, <2>1, AddLine
<1> HIDE DEF d
<1>9. IsText(e) /\ Reads(e, f, ForGateway \cup {"nodeType"} \cup {"nodeName"})
  <2>1. Reads(d, f, ForGateway \cup {"nodeType"})
    BY <1>8 DEF Reads, ForGateway
  <2>2. "nodeName" \notin ForGateway \cup {"nodeType"}
    BY DEF ForGateway
  <2>3. QED
    BY <1>4, <1>8, <2>1, <2>2, AddLine
<1> HIDE DEF e
<1>10. IsText(g)
       /\ Reads(g, f, (ForGateway \cup {"nodeType"} \cup {"nodeName"}) \cup {"meshKey"})
  <2>1. "meshKey" \notin ForGateway \cup {"nodeType"} \cup {"nodeName"}
    BY DEF ForGateway
  <2>2. QED
    BY <1>4, <1>9, <2>1, AddLine
<1> HIDE DEF g
<1>11. Reads(g, f, Tag)
  <2>1. (ForGateway \cup {"nodeType"} \cup {"nodeName"}) \cup {"meshKey"} = Tag
    BY DEF Tag, Required
  <2>2. QED
    BY <1>10, <2>1
<1>12. QED
  BY <1>2, <1>10, <1>11

\* What the parser makes of a value that it finds.
LEMMA ContentOfHeld ==
  ASSUME NEW b, NEW i \in Nat, NEW e \in Nat, NEW v, IsValue(v), Holds(b, i, e, v)
  PROVE  Content(b, i + 2, e) = IF Len(v) = 1 THEN <<>> ELSE v
<1>1. v \in Seq(Symbol) /\ Len(v) \in Nat /\ e = i + 2 + Len(v)
      /\ \A k \in 1 .. Len(v) : b[i + 1 + k] = v[k]
  BY DEF IsValue, Holds
<1>2. e - (i + 2) = Len(v)
  BY <1>1
<1>3. CASE Len(v) = 0
  <2>1. v = <<>>
    BY <1>1, <1>3, EmptySeq
  <2>2. QED
    BY <1>2, <1>3, <2>1 DEF Content
<1>4. CASE Len(v) = 1
  BY <1>2, <1>4 DEF Content
<1>5. CASE Len(v) > 1
  <2> DEFINE w == SubSeq(b, i + 2, e - 1)
  <2>1. Content(b, i + 2, e) = w
    BY <1>2, <1>5 DEF Content
  <2>2. i + 2 \in Int /\ e - 1 \in Int /\ i + 2 <= e - 1
        /\ (e - 1) - (i + 2) + 1 = Len(v)
    BY <1>1, <1>5
  <2>3. ASSUME NEW j \in i + 2 .. e - 1
        PROVE  j - (i + 1) \in 1 .. Len(v) /\ b[j] = v[j - (i + 1)] /\ b[j] \in Symbol
    <3>1. j - (i + 1) \in 1 .. Len(v) /\ i + 1 + (j - (i + 1)) = j
      BY <1>1
    <3>2. b[i + 1 + (j - (i + 1))] = v[j - (i + 1)]
      BY <1>1, <3>1
    <3>3. v[j - (i + 1)] \in Symbol
      BY <1>1, <3>1
    <3>4. QED
      BY <3>1, <3>2, <3>3
  <2>4. /\ w \in Seq(Symbol) /\ Len(w) = (e - 1) - (i + 2) + 1
        /\ \A k \in 1 .. (e - 1) - (i + 2) + 1 : w[k] = b[(i + 2) + k - 1]
    BY <2>2, <2>3, SubSeqProperties
  <2> HIDE DEF w
  <2>5. ASSUME NEW k \in 1 .. Len(v) PROVE w[k] = v[k]
    <3>1. (i + 2) + k - 1 = i + 1 + k
      OBVIOUS
    <3>2. QED
      BY <1>1, <2>2, <2>4, <3>1
  <2>6. w = v
    BY <1>1, <2>2, <2>4, <2>5, SeqEqual
  <2>7. Len(v) # 1
    BY <1>5
  <2>8. QED
    BY <2>1, <2>6, <2>7
<1>6. Len(v) = 0 \/ Len(v) = 1 \/ Len(v) > 1
  <2>1. \A n \in Nat : n = 0 \/ n = 1 \/ n > 1
    OBVIOUS
  <2>2. Len(v) \in Nat
    BY <1>1
  <2>3. QED
    BY <2>1, <2>2
<1>7. QED
  BY <1>3, <1>4, <1>5, <1>6

\* The fields of a form as the parser finds them: a value of one character is taken for
\* empty (request.c:112).
Kept(f) == [t \in DOMAIN f |-> IF Len(f[t]) = 1 THEN <<>> ELSE f[t]]

\* The parser gives back what the page sent, but for values of one character, whatever
\* the values hold, "=" and names of fields among them (request.c:51-155).
THEOREM ParserReadsForm ==
  ASSUME NEW f, IsForm(f)
  PROVE  ReadPost(Append(Body(f), "nul")) = Kept(f)
<1> DEFINE b == Append(Body(f), "nul")
<1>1. IsText(b) /\ Reads(b, f, Tag) /\ b \in Seq(Symbol)
  BY BodyReads DEF IsText
<1> HIDE DEF b
<1>2. Len(b) \in Nat
  BY <1>1
<1>3. {u \in Tag : NamedLines(b, u) # {}} = DOMAIN f
  <2>1. ASSUME NEW u \in Tag PROVE NamedLines(b, u) # {} <=> u \in DOMAIN f
    <3>1. CASE u \in DOMAIN f
      <4>1. Found(b, u, f[u])
        BY <1>1, <3>1 DEF Reads
      <4>2. QED
        BY <3>1, <4>1 DEF Found
    <3>2. CASE u \notin DOMAIN f
      BY <1>1, <3>2 DEF Reads
    <3>3. QED
      BY <3>1, <3>2
  <2>2. QED
    BY <2>1 DEF IsForm
<1>4. ASSUME NEW t \in DOMAIN f
      PROVE  Content(b, Max(NamedLines(b, t)) + 2, LineEnd(b, Max(NamedLines(b, t))))
               = IF Len(f[t]) = 1 THEN <<>> ELSE f[t]
  <2>1. t \in Tag /\ IsValue(f[t])
    BY DEF IsForm
  <2>2. Found(b, t, f[t])
    BY <1>1, <2>1 DEF Reads
  <2>3. PICK i \in Nat, e \in Nat : NamedLines(b, t) = {i} /\ Holds(b, i, e, f[t])
    BY <2>2 DEF Found
  <2>4. Max(NamedLines(b, t)) = i
    BY <2>3 DEF Max
  <2>5. LineEnd(b, i) = e
    BY <1>2, <2>3, EndIsLineEnd DEF Holds
  <2>6. Content(b, i + 2, e) = IF Len(f[t]) = 1 THEN <<>> ELSE f[t]
    BY <2>1, <2>3, ContentOfHeld
  <2>7. QED
    BY <2>4, <2>5, <2>6
<1>5. ReadPost(b) = [t \in {u \in Tag : NamedLines(b, u) # {}} |->
                       Content(b, Max(NamedLines(b, t)) + 2,
                               LineEnd(b, Max(NamedLines(b, t))))]
  BY DEF ReadPost
<1>6. QED
  BY <1>3, <1>4, <1>5 DEF Kept, b

\* A body whose name of the first field is overwritten is not read as a form.
LEMMA NoKeyNotAccepted ==
  ASSUME NEW b \in Seq(Symbol), \A k \in 1 .. Len(b) : b[k] # "meshKey"
  PROVE  ~Accepts(ReadPost(Append(b, "nul")))
<1> DEFINE c == Append(b, "nul")
<1>1. "nul" \in Symbol /\ Len(b) \in Nat
  BY DEF Symbol
<1>2. c \in Seq(Symbol) /\ Len(c) = Len(b) + 1 /\ \A k \in 1 .. Len(b) : c[k] = b[k]
  BY <1>1, AppendProperties
<1> HIDE DEF c
<1>3. NamedLines(c, "meshKey") = {}
  BY <1>1, <1>2 DEF NamedLines, Starts
<1>4. "meshKey" \notin DOMAIN ReadPost(c)
  BY <1>3 DEF ReadPost
<1>5. QED
  BY <1>4 DEF Accepts, Required, c

\* A value of one character is no key and no role, so that what is lost of it does not
\* decide whether a form is accepted.
LEMMA KeptAccepts ==
  ASSUME NEW f
  PROVE  Accepts(Kept(f)) <=> Accepts(f)
<1>1. DOMAIN Kept(f) = DOMAIN f
  BY DEF Kept
<1>2. CASE Required \subseteq DOMAIN f
  <2>1. "meshKey" \in DOMAIN f /\ "nodeType" \in DOMAIN f
    BY <1>2 DEF Required
  <2>2. KeyParses(Kept(f)["meshKey"]) <=> KeyParses(f["meshKey"])
    <3>1. CASE Len(f["meshKey"]) # 1
      BY <2>1, <3>1 DEF Kept
    <3>2. CASE Len(f["meshKey"]) = 1
      <4>1. Kept(f)["meshKey"] = <<>>
        BY <2>1, <3>2 DEF Kept
      <4>2. ~KeyParses(<<>>)
        <5>1. Tokens(<<>>) = {}
          BY DEF Tokens
        <5>2. QED
          BY <5>1 DEF KeyParses
      <4>3. ~KeyParses(f["meshKey"])
        <5>1. \A k \in Tokens(f["meshKey"]) : ~(k < Len(f["meshKey"]))
          BY <3>2 DEF Tokens
        <5>2. QED
          BY <5>1 DEF KeyParses
      <4>4. QED
        BY <4>1, <4>2, <4>3
    <3>3. QED
      BY <3>1, <3>2
  <2>3. RoleOf(Kept(f)) = RoleOf(f)
    <3>1. CASE Len(f["nodeType"]) # 1
      <4>1. Kept(f)["nodeType"] = f["nodeType"]
        BY <2>1, <3>1 DEF Kept
      <4>2. QED
        BY <4>1 DEF RoleOf
    <3>2. CASE Len(f["nodeType"]) = 1
      <4>1. Kept(f)["nodeType"] = <<>>
        BY <2>1, <3>2 DEF Kept
      <4>2. f["nodeType"] # NodeWord /\ f["nodeType"] # GatewayWord
        BY <3>2 DEF NodeWord, GatewayWord
      <4>3. <<>> # NodeWord /\ <<>> # GatewayWord
        BY DEF NodeWord, GatewayWord
      <4>4. QED
        BY <4>1, <4>2, <4>3 DEF RoleOf
    <3>3. QED
      BY <3>1, <3>2
  <2>4. QED
    BY <1>1, <2>2, <2>3 DEF Accepts
<1>3. CASE ~(Required \subseteq DOMAIN f)
  BY <1>1, <1>3 DEF Accepts
<1>4. QED
  BY <1>2, <1>3

-----------------------------------------------------------------------------
(* What the accepted fields come to mean.                                   *)

\* The places that the tokens of a key of m bytes start at.
Places(m) == {3 * k - 2 : k \in 1 .. m}

LEMMA PlacesCounted ==
  ASSUME NEW m \in Nat
  PROVE  Cardinality(Places(m)) = m
<1> DEFINE place == [k \in 1 .. m |-> 3 * k - 2]
<1>1. place \in Bijection(1 .. m, Places(m))
  <2>1. place \in [1 .. m -> Places(m)]
    BY DEF Places
  <2>2. \A j, k \in 1 .. m : place[j] = place[k] => j = k
    OBVIOUS
  <2>3. \A p \in Places(m) : \E k \in 1 .. m : place[k] = p
    BY DEF Places
  <2>4. QED
    BY <2>1, <2>2, <2>3 DEF Bijection, Injection, Surjection, IsInjective
<1>2. IsFiniteSet(1 .. m) /\ Cardinality(1 .. m) = m
  <2>1. IF 1 > m THEN 0 = m ELSE m - 1 + 1 = m
    OBVIOUS
  <2>2. QED
    BY <2>1, FS_Interval
<1>3. QED
  BY <1>1, <1>2, FS_Bijection DEF ExistsBijection

\* The tokens of a hexadecimal key are its bytes.
LEMMA TokensOfHexKey ==
  ASSUME NEW s \in Seq(STRING), IsHexKey(s), NEW n \in Nat, Len(s) = 3 * n - 1
  PROVE  Tokens(s) = Places(n)
<1>1. Len(s) \in Nat
  OBVIOUS
<1>2. ~IsHex(":")
  BY DEF IsHex, LowerDigits, UpperDigits
<1>3. ASSUME NEW k \in 1 .. Len(s)
      PROVE  s[k] = ":" <=> k % 3 = 0
  BY <1>2 DEF IsHexKey
<1>4. ASSUME NEW k \in Tokens(s)
      PROVE  k \in Places(n)
  <2>1. k \in 1 .. Len(s) /\ k % 3 # 0 /\ (k = 1 \/ (k - 1) % 3 = 0)
    BY <1>1, <1>3 DEF Tokens
  <2>2. \E j \in 1 .. n : k = 3 * j - 2
    BY <1>1, <2>1
  <2>3. QED
    BY <2>2 DEF Places
<1>5. ASSUME NEW j \in 1 .. n
      PROVE  3 * j - 2 \in Tokens(s)
  <2>1. 3 * j - 2 \in 1 .. Len(s) /\ (3 * j - 2) % 3 # 0
    OBVIOUS
  <2>2. 3 * j - 2 = 1 \/ (3 * j - 3 \in 1 .. Len(s) /\ (3 * j - 3) % 3 = 0)
    OBVIOUS
  <2>3. (3 * j - 2) - 1 = 3 * j - 3
    OBVIOUS
  <2>4. QED
    BY <1>3, <2>1, <2>2, <2>3 DEF Tokens
<1>6. QED
  BY <1>4, <1>5 DEF Places

\* Token number i of a hexadecimal key is where byte number i is.
LEMMA NthPlace ==
  ASSUME NEW n \in Nat, NEW i \in 1 .. n
  PROVE  (CHOOSE k \in Places(n) : Cardinality({j \in Places(n) : j < k}) = i - 1) = 3 * i - 2
<1>1. ASSUME NEW l \in 1 .. n
      PROVE  Cardinality({j \in Places(n) : j < 3 * l - 2}) = l - 1
  <2>1. {j \in Places(n) : j < 3 * l - 2} = Places(l - 1)
    BY DEF Places
  <2>2. QED
    BY <2>1, PlacesCounted
<1>2. 3 * i - 2 \in Places(n)
  BY DEF Places
<1>3. \A k \in Places(n) : Cardinality({j \in Places(n) : j < k}) = i - 1 => k = 3 * i - 2
  <2>1. ASSUME NEW k \in Places(n), Cardinality({j \in Places(n) : j < k}) = i - 1
        PROVE  k = 3 * i - 2
    <3>1. PICK l \in 1 .. n : k = 3 * l - 2
      BY DEF Places
    <3>2. l - 1 = i - 1
      BY <1>1, <2>1, <3>1
    <3>3. QED
      BY <3>1, <3>2
  <2>2. QED
    BY <2>1
<1>4. QED
  BY <1>1, <1>2, <1>3

\* What strtoul makes of two digits.
LEMMA HexByte ==
  ASSUME NEW c, NEW d, IsHex(c), IsHex(d)
  PROVE  ByteOf(c, d) = 16 * HexValue(c) + HexValue(d)
<1>1. ~IsHex(" ") /\ ~IsHex("tab") /\ ~IsHex("+") /\ ~IsHex("-")
  <2>1. ~IsHex(" ")
    BY DEF IsHex, LowerDigits, UpperDigits
  <2>2. ~IsHex("tab")
    BY DEF IsHex, LowerDigits, UpperDigits
  <2>3. ~IsHex("+")
    BY DEF IsHex, LowerDigits, UpperDigits
  <2>4. ~IsHex("-")
    BY DEF IsHex, LowerDigits, UpperDigits
  <2>5. QED
    BY <2>1, <2>2, <2>3, <2>4
<1>2. c # " " /\ c # "tab" /\ c # "+" /\ c # "-"
  BY <1>1
<1>3. QED
  BY <1>2 DEF ByteOf

\* A hexadecimal key is parsed to the bytes it stands for (webserver.c:127-141).
LEMMA HexKeyParsed ==
  ASSUME NEW s \in Seq(STRING), IsHexKey(s)
  PROVE  KeyArray(s) = [i \in 1 .. KeyLength |-> KeyByte(s, i)]
<1>1. PICK n \in Nat : Len(s) = 3 * n - 1
  <2>1. Len(s) \in Nat /\ Len(s) % 3 = 2
    BY DEF IsHexKey
  <2>2. \A x \in Nat : x % 3 = 2 => (x + 1) \div 3 \in Nat /\ x = 3 * ((x + 1) \div 3) - 1
    OBVIOUS
  <2>3. QED
    BY <2>1, <2>2
<1>2. Tokens(s) = Places(n) /\ Cardinality(Places(n)) = n
  BY <1>1, TokensOfHexKey, PlacesCounted
<1>3. ASSUME NEW i \in 1 .. KeyLength
      PROVE  (IF i <= n THEN ByteOf(s[3 * i - 2], s[(3 * i - 2) + 1]) ELSE 0) = KeyByte(s, i)
  <2>1. i <= n <=> 3 * i <= Len(s) + 1
    BY <1>1
  <2>2. CASE i <= n
    <3>1. /\ 3 * i - 2 \in 1 .. Len(s) /\ (3 * i - 2) % 3 # 0
          /\ 3 * i - 1 \in 1 .. Len(s) /\ (3 * i - 1) % 3 # 0
          /\ (3 * i - 2) + 1 = 3 * i - 1
      BY <1>1, <2>2
    <3>2. IsHex(s[3 * i - 2]) /\ IsHex(s[3 * i - 1])
      BY <3>1 DEF IsHexKey
    <3>3. ByteOf(s[3 * i - 2], s[3 * i - 1])
            = 16 * HexValue(s[3 * i - 2]) + HexValue(s[3 * i - 1])
      BY <3>2, HexByte
    <3>4. QED
      BY <2>1, <2>2, <3>1, <3>3 DEF KeyByte
  <2>3. CASE ~(i <= n)
    BY <2>1, <2>3 DEF KeyByte
  <2>4. QED
    BY <2>2, <2>3
<1>4. ASSUME NEW i \in 1 .. KeyLength, i <= n
      PROVE  (CHOOSE k \in Places(n) : Cardinality({j \in Places(n) : j < k}) = i - 1) = 3 * i - 2
  <2>1. i \in 1 .. n
    BY <1>4
  <2>2. QED
    BY <2>1, NthPlace
<1>5. QED
  BY <1>2, <1>3, <1>4 DEF KeyArray

\* What is made of an accepted form is what its user meant.
LEMMA KeptIsMeant ==
  ASSUME NEW f \in Form, Accepts(f)
  PROVE  Meant(Config(Kept(f)), f)
<1>1. /\ Required \subseteq DOMAIN f
      /\ RoleOf(f) \in {"node", "gateway"}
      /\ RoleOf(f) = "gateway" => ForGateway \subseteq DOMAIN f
  BY DEF Accepts
<1>2. \A t \in DOMAIN f : f[t] \in Seq(STRING)
  BY FormAssumption
<1>3. \A t \in DOMAIN f : Len(f[t]) # 1 => Kept(f)[t] = f[t]
  BY DEF Kept
<1>4. RoleOf(Kept(f)) = RoleOf(f)
  <2>1. CASE Len(f["nodeType"]) # 1
    BY <1>1, <1>3, <2>1 DEF Required, RoleOf
  <2>2. CASE Len(f["nodeType"]) = 1
    BY <1>1, <2>2 DEF RoleOf, NodeWord, GatewayWord
  <2>3. QED
    BY <2>1, <2>2
<1>5. Config(Kept(f)).role = RoleOf(f)
  BY <1>4 DEF Config
<1>6. f["nodeType"] = IF RoleOf(f) = "node" THEN NodeWord ELSE GatewayWord
  BY <1>1 DEF RoleOf
<1>7. ASSUME IsHexKey(f["meshKey"])
      PROVE  Config(Kept(f)).mesh_key = [i \in 1 .. KeyLength |-> KeyByte(f["meshKey"], i)]
  <2>1. f["meshKey"] \in Seq(STRING) /\ Len(f["meshKey"]) # 1
    BY <1>1, <1>2, <1>7 DEF Required, IsHexKey
  <2>2. Kept(f)["meshKey"] = f["meshKey"]
    BY <1>1, <1>3, <2>1 DEF Required
  <2>3. QED
    BY <1>7, <2>1, <2>2, HexKeyParsed DEF Config
<1>8. Len(f["nodeName"]) # 1 => Config(Kept(f)).name = f["nodeName"]
  BY <1>1, <1>3 DEF Required, Config
<1>9. ASSUME RoleOf(f) = "gateway", NEW t \in ForGateway, Len(f[t]) # 1
      PROVE  Config(Kept(f)).gateway_config[t] = f[t]
  <2>1. Config(Kept(f)).gateway_config[t] = Kept(f)[t]
    BY <1>4, <1>9 DEF Config
  <2>2. QED
    BY <1>1, <1>3, <1>9, <2>1
<1>10. QED
  BY <1>5, <1>6, <1>7, <1>8, <1>9 DEF Meant

-----------------------------------------------------------------------------
(* What comes to be saved.                                                  *)

\* The forms that are submitted hold values that a page can hold.
LEMMA SubmittedForms ==
  ASSUME NEW f \in Form
  PROVE  IsForm(f)
<1>1. STRING \subseteq Symbol
  BY DEF Symbol
<1>2. ASSUME NEW t \in DOMAIN f PROVE IsValue(f[t])
  <2>1. f[t] \in Seq(STRING) /\ \A i \in DOMAIN f[t] : f[t][i] \notin {"nl", "nul"}
    BY FormAssumption
  <2>2. f[t] \in Seq(Symbol)
    BY <1>1, <2>1, SeqMonotonic
  <2>3. DOMAIN f[t] = 1 .. Len(f[t])
    BY <2>1
  <2>4. QED
    BY <2>1, <2>2, <2>3 DEF IsValue
<1>3. QED
  BY <1>2, FormAssumption DEF IsForm

\* The name of the first field, which every accepted body starts with, is part of no
\* value and of nothing that malloc'd memory holds, such as what an earlier body left
\* in network buffers.
NameOnlyInFront ==
  /\ "meshKey" \notin Garbage
  /\ \A f \in Form : \A t \in DOMAIN f : \A i \in DOMAIN f[t] : f[t][i] # "meshKey"

\* The name of the first field is not in a sequence, from its position m on.
KeyFree(s, m) ==
  s \in Seq(Symbol) /\ \A k \in 1 .. Len(s) : k >= m => s[k] # "meshKey"

\* Two such sequences in a row are one.
LEMMA KeyFreeConcat ==
  ASSUME NEW m \in Nat, NEW s, NEW r, KeyFree(s, m), KeyFree(r, 1)
  PROVE  KeyFree(s \o r, m)
<1>1. s \in Seq(Symbol) /\ r \in Seq(Symbol) /\ Len(s) \in Nat /\ Len(r) \in Nat
  BY DEF KeyFree
<1>2. /\ s \o r \in Seq(Symbol) /\ Len(s \o r) = Len(s) + Len(r)
      /\ \A k \in 1 .. Len(s) : (s \o r)[k] = s[k]
      /\ \A k \in 1 .. Len(r) : (s \o r)[Len(s) + k] = r[k]
  BY <1>1, Concatenation
<1>3. ASSUME NEW k \in 1 .. Len(s \o r), k >= m PROVE (s \o r)[k] # "meshKey"
  <2>1. CASE k \in 1 .. Len(s)
    BY <1>2, <1>3, <2>1 DEF KeyFree
  <2>2. CASE k - Len(s) \in 1 .. Len(r)
    <3>1. Len(s) + (k - Len(s)) = k /\ k - Len(s) >= 1
      BY <1>1, <2>2
    <3>2. (s \o r)[Len(s) + (k - Len(s))] = r[k - Len(s)]
      BY <1>2, <2>2
    <3>3. QED
      BY <2>2, <3>1, <3>2 DEF KeyFree
  <2>3. QED
    BY <1>1, <1>2, <2>1, <2>2
<1>4. QED
  BY <1>2, <1>3 DEF KeyFree

\* The name of the first field is nowhere else in a body than at its front.
LEMMA KeyInFront ==
  ASSUME NameOnlyInFront, NEW f \in Form
  PROVE  KeyFree(Body(f), 2)
<1>1. ASSUME NEW t \in Tag, NEW m \in 1 .. 2, t = "meshKey" => m = 2
      PROVE  KeyFree(Line(f, t), m)
  <2>1. CASE t \notin DOMAIN f
    <3>1. Line(f, t) = <<>>
      BY <2>1 DEF Line
    <3>2. QED
      BY <3>1, EmptySeq DEF KeyFree
  <2>2. CASE t \in DOMAIN f
    <3>1. KeyFree(<<t, "=">>, m)
      <4>1. t \in Symbol /\ "=" \in Symbol
        BY DEF Symbol
      <4>2. QED
        BY <1>1, <4>1 DEF KeyFree
    <3>2. KeyFree(f[t], 1)
      <4>1. f[t] \in Seq(Symbol)
        BY <2>2, SubmittedForms DEF IsForm, IsValue
      <4>2. \A i \in DOMAIN f[t] : f[t][i] # "meshKey"
        BY <2>2 DEF NameOnlyInFront
      <4>3. QED
        BY <4>1, <4>2 DEF KeyFree
    <3>3. KeyFree(<<"nl">>, 1)
      <4>1. "nl" \in Symbol
        BY DEF Symbol
      <4>2. QED
        BY <4>1 DEF KeyFree
    <3>4. KeyFree(<<t, "=">> \o f[t], m)
      BY <3>1, <3>2, KeyFreeConcat
    <3>5. KeyFree((<<t, "=">> \o f[t]) \o <<"nl">>, m)
      BY <3>3, <3>4, KeyFreeConcat
    <3>6. QED
      BY <2>2, <3>5 DEF Line
  <2>3. QED
    BY <2>1, <2>2
<1> DEFINE a == Line(f, "mqttKey")
           b == Line(f, "wifiPassword") \o a
           c == Line(f, "wifiSsid") \o b
           d == Line(f, "nodeType") \o c
           e == Line(f, "nodeName") \o d
<1>2. /\ "meshKey" \in Tag /\ "nodeName" \in Tag /\ "nodeType" \in Tag
      /\ "wifiSsid" \in Tag /\ "wifiPassword" \in Tag /\ "mqttKey" \in Tag
  BY DEF Tag, Required, ForGateway
<1>3. Body(f) = Line(f, "meshKey") \o e
  BY DEF Body
<1>4. KeyFree(a, 1)
  BY <1>1, <1>2
<1> HIDE DEF a
<1>5. KeyFree(b, 1)
  <2>1. KeyFree(Line(f, "wifiPassword"), 1)
    BY <1>1, <1>2
  <2>2. QED
    BY <1>4, <2>1, KeyFreeConcat
<1> HIDE DEF b
<1>6. KeyFree(c, 1)
  <2>1. KeyFree(Line(f, "wifiSsid"), 1)
    BY <1>1, <1>2
  <2>2. QED
    BY <1>5, <2>1, KeyFreeConcat
<1> HIDE DEF c
<1>7. KeyFree(d, 1)
  <2>1. KeyFree(Line(f, "nodeType"), 1)
    BY <1>1, <1>2
  <2>2. QED
    BY <1>6, <2>1, KeyFreeConcat
<1> HIDE DEF d
<1>8. KeyFree(e, 1)
  <2>1. KeyFree(Line(f, "nodeName"), 1)
    BY <1>1, <1>2
  <2>2. QED
    BY <1>7, <2>1, KeyFreeConcat
<1> HIDE DEF e
<1>9. KeyFree(Line(f, "meshKey"), 2)
  BY <1>1, <1>2
<1>10. QED
  BY <1>3, <1>8, <1>9, KeyFreeConcat

\* What the buffer holds: the first piece is where it belongs, and any later piece has
\* overwritten the name of the first field, which nothing else brings back.
BufferInv ==
  LET body == Body(form)
      got == Len(body) - remaining
  IN /\ buffer \in Seq(Symbol) /\ Len(buffer) = Len(body)
     /\ remaining \in 0 .. Len(body)
     /\ pieces = 0 => got = 0
     /\ pieces > 0 => got > 0
     /\ IF pieces <= 1
        THEN /\ \A i \in 1 .. got : buffer[i] = body[i]
             /\ NameOnlyInFront => \A i \in got + 1 .. Len(body) : buffer[i] # "meshKey"
        ELSE NameOnlyInFront => \A i \in 1 .. Len(body) : buffer[i] # "meshKey"

\* Only what was read of the request's own form is on its way to flash.
SavedInv ==
  /\ server # "idle" => form \in Form
  /\ server = "reading" => BufferInv
  /\ staged # NoConfig =>
       server = "commit" /\ Accepts(form) /\ staged = Config(Kept(form))

\* A body that was read: it is parsed to the form's fields, or it came in pieces and is
\* turned away.
LEMMA FieldsOfBody ==
  ASSUME SavedInv, server = "reading", remaining = 0, pieces <= 1 \/ NameOnlyInFront
  PROVE  IF pieces <= 1 THEN Fields = Kept(form) ELSE ~Accepts(Fields)
<1>1. form \in Form /\ BufferInv
  BY DEF SavedInv
<1>2. Body(form) \in Seq(Symbol) /\ Len(Body(form)) \in Nat
  <2>1. Body(form) \in Seq(Symbol)
    BY <1>1, SubmittedForms, BodyReads
  <2>2. QED
    BY <2>1
<1>3. buffer \in Seq(Symbol) /\ Len(buffer) = Len(Body(form))
  BY <1>1 DEF BufferInv
<1>4. CASE pieces <= 1
  <2>1. Len(Body(form)) - remaining = Len(Body(form))
    BY <1>2
  <2>2. \A i \in 1 .. Len(Body(form)) : buffer[i] = Body(form)[i]
    BY <1>1, <1>4, <2>1 DEF BufferInv
  <2>3. buffer = Body(form)
    BY <1>2, <1>3, <2>2, SeqEqual
  <2>4. QED
    BY <1>1, <1>4, <2>3, SubmittedForms, ParserReadsForm DEF Fields
<1>5. CASE ~(pieces <= 1)
  <2>1. \A i \in 1 .. Len(buffer) : buffer[i] # "meshKey"
    BY <1>1, <1>3, <1>5 DEF BufferInv
  <2>2. ~Accepts(ReadPost(Append(buffer, "nul")))
    BY <1>3, <2>1, NoKeyNotAccepted
  <2>3. QED
    BY <1>5, <2>2 DEF Fields
<1>6. QED
  BY <1>4, <1>5

\* A function from positions to symbols is a sequence of them.
LEMMA SymbolsInOrder ==
  ASSUME NEW n \in Nat, NEW b \in [1 .. n -> Symbol]
  PROVE  b \in Seq(Symbol) /\ Len(b) = n
  OBVIOUS

\* The memory that malloc returned, before anything is read.
LEMMA SubmitSaved ==
  ASSUME NEW f \in Form, Submit(f)
  PROVE  BufferInv'
<1>1. form' = f /\ pieces' = 0 /\ remaining' = Len(Body(f))
      /\ buffer' \in [1 .. Len(Body(f)) -> Garbage]
  BY DEF Submit
<1>2. Len(Body(f)) \in Nat
  <2>1. Body(f) \in Seq(Symbol)
    BY SubmittedForms, BodyReads
  <2>2. QED
    BY <2>1
<1>3. Body(form)' = Body(f)
  BY <1>1
<1>4. Garbage \subseteq Symbol
  BY FormAssumption DEF Symbol
<1>5. buffer' \in [1 .. Len(Body(f)) -> Symbol]
  BY <1>1, <1>4
<1>6. buffer' \in Seq(Symbol) /\ Len(buffer') = Len(Body(f))
  BY <1>2, <1>5, SymbolsInOrder
<1>7. NameOnlyInFront => \A i \in 1 .. Len(Body(f)) : buffer'[i] # "meshKey"
  BY <1>1 DEF NameOnlyInFront
<1>8. Len(Body(f)) - remaining' = 0 /\ remaining' \in 0 .. Len(Body(f))
  BY <1>1, <1>2
<1>9. QED
  BY <1>1, <1>3, <1>6, <1>7, <1>8 DEF BufferInv

\* One piece more.
LEMMA PieceSaved ==
  ASSUME TypeOK, SavedInv, server = "reading", NEW k \in 1 .. remaining, ReceivePiece(k)
  PROVE  BufferInv'
<1> DEFINE body == Body(form)
           n == Len(body)
           from == n - remaining
<1>1. form \in Form /\ BufferInv
  BY DEF SavedInv
<1>2. body \in Seq(Symbol) /\ n \in Nat
  <2>1. body \in Seq(Symbol)
    BY <1>1, SubmittedForms, BodyReads
  <2>2. QED
    BY <2>1
<1>3. /\ form' = form /\ remaining' = remaining - k /\ pieces' = pieces + 1
      /\ buffer' = [i \in 1 .. n |-> IF i <= k THEN body[from + i] ELSE buffer[i]]
  BY DEF ReceivePiece
<1>4. Body(form)' = body
  BY <1>3
<1>5. pieces \in Nat
  BY BoundsTyped DEF TypeOK
<1>6. /\ buffer \in Seq(Symbol) /\ Len(buffer) = n
      /\ remaining \in 0 .. n
      /\ pieces = 0 => from = 0
      /\ pieces > 0 => from > 0
      /\ IF pieces <= 1
         THEN /\ \A i \in 1 .. from : buffer[i] = body[i]
              /\ NameOnlyInFront => \A i \in from + 1 .. n : buffer[i] # "meshKey"
         ELSE NameOnlyInFront => \A i \in 1 .. n : buffer[i] # "meshKey"
  BY <1>1 DEF BufferInv
<1>7. NameOnlyInFront => \A i \in 2 .. n : body[i] # "meshKey"
  BY <1>1, <1>2, KeyInFront DEF KeyFree
<1> HIDE DEF body, n
<1>8. from \in Nat /\ k \in Nat /\ k >= 1 /\ from + k <= n
      /\ n - remaining' = from + k /\ remaining' \in 0 .. n
  BY <1>2, <1>3, <1>6
<1>9. ASSUME NEW i \in 1 .. n
      PROVE  buffer'[i] = IF i <= k THEN body[from + i] ELSE buffer[i]
  BY <1>3
<1> HIDE DEF from
<1>10. buffer' \in Seq(Symbol) /\ Len(buffer') = n
  <2>1. ASSUME NEW i \in 1 .. n
        PROVE  (IF i <= k THEN body[from + i] ELSE buffer[i]) \in Symbol
    <3>1. CASE i <= k
      <4>1. from + i \in 1 .. Len(body)
        BY <1>2, <1>8, <3>1 DEF n
      <4>2. body[from + i] \in Symbol
        BY <1>2, <4>1
      <4>3. QED
        BY <3>1, <4>2
    <3>2. CASE ~(i <= k)
      <4>1. buffer[i] \in Symbol
        BY <1>6
      <4>2. QED
        BY <3>2, <4>1
    <3>3. QED
      BY <3>1, <3>2
  <2>2. buffer' \in [1 .. n -> Symbol]
    BY <1>3, <2>1
  <2>3. QED
    BY <1>2, <2>2, SymbolsInOrder
<1>11. CASE pieces = 0
  <2>1. from = 0 /\ pieces' = 1
    BY <1>3, <1>6, <1>11
  <2>2. \A i \in 1 .. k : buffer'[i] = body[i]
    <3>1. ASSUME NEW i \in 1 .. k PROVE buffer'[i] = body[i]
      <4>1. i \in 1 .. n /\ i <= k /\ from + i = i
        BY <1>2, <1>8, <2>1
      <4>2. QED
        BY <1>9, <4>1
    <3>2. QED
      BY <3>1
  <2>3. NameOnlyInFront => \A i \in k + 1 .. n : buffer'[i] # "meshKey"
    <3>1. ASSUME NameOnlyInFront, NEW i \in k + 1 .. n PROVE buffer'[i] # "meshKey"
      <4>1. i \in 1 .. n /\ ~(i <= k) /\ i \in from + 1 .. n
        BY <1>2, <1>8, <2>1
      <4>2. buffer[i] # "meshKey"
        BY <1>6, <1>11, <3>1, <4>1
      <4>3. QED
        BY <1>9, <4>1, <4>2
    <3>2. QED
      BY <3>1
  <2>4. n - remaining' = k
    BY <1>8, <2>1
  <2>5. QED
    BY <1>4, <1>8, <1>10, <2>1, <2>2, <2>3, <2>4 DEF BufferInv, n
<1>12. CASE pieces # 0
  <2>1. from > 0 /\ pieces' > 1 /\ ~(pieces' <= 1) /\ pieces' # 0
    BY <1>3, <1>5, <1>6, <1>12
  <2>2. ASSUME NameOnlyInFront, NEW i \in 1 .. n PROVE buffer'[i] # "meshKey"
    <3>1. CASE i <= k
      <4>1. from + i \in 2 .. n
        BY <1>2, <1>8, <2>1, <3>1
      <4>2. QED
        BY <1>7, <1>9, <2>2, <3>1, <4>1
    <3>2. CASE ~(i <= k)
      <4>1. buffer[i] # "meshKey"
        <5>1. CASE pieces <= 1
          <6>1. i \in 2 .. n /\ (i \in 1 .. from \/ i \in from + 1 .. n)
            BY <1>2, <1>8, <3>2
          <6>2. QED
            BY <1>6, <1>7, <2>2, <5>1, <6>1
        <5>2. CASE ~(pieces <= 1)
          BY <1>6, <2>2, <5>2
        <5>3. QED
          BY <5>1, <5>2
      <4>2. QED
        BY <1>9, <3>2, <4>1
    <3>3. QED
      BY <3>1, <3>2
  <2>3. n - remaining' > 0
    BY <1>8, <2>1
  <2>4. QED
    BY <1>4, <1>8, <1>10, <2>1, <2>2, <2>3 DEF BufferInv, n
<1>13. QED
  BY <1>11, <1>12

\* No step brings anything else on its way to flash.
LEMMA NextSaved ==
  ASSUME MaxPieces = 1 \/ NameOnlyInFront, TypeOK, SavedInv, [Next]_vars
  PROVE  SavedInv'
<1> USE DEF SavedInv
<1>1. CASE Boot
  BY <1>1 DEF Boot, Fault, store, request, history, BufferInv
<1>2. CASE EndWait
  BY <1>2 DEF EndWait, store, request, history, BufferInv
<1>3. CASE StopAndRestart
  BY <1>3 DEF StopAndRestart, Reset
<1>4. CASE LosePower
  BY <1>4 DEF LosePower, Reset
<1>5. ASSUME NEW f \in Form, Submit(f) PROVE SavedInv'
  <2>1. BufferInv'
    BY <1>5, SubmitSaved
  <2>2. staged = NoConfig
    BY <1>5 DEF Submit
  <2>3. QED
    BY <1>5, <2>1, <2>2 DEF Submit, store
<1>6. ASSUME NEW k \in 1 .. remaining, ReceivePiece(k) PROVE SavedInv'
  <2>1. BufferInv'
    BY <1>6, PieceSaved DEF ReceivePiece
  <2>2. staged = NoConfig
    BY <1>6 DEF ReceivePiece
  <2>3. QED
    BY <1>6, <2>1, <2>2 DEF ReceivePiece, store, history
<1>7. CASE ReceiveFails
  BY <1>7 DEF ReceiveFails, Finish, store
<1>8. CASE Reject
  BY <1>8 DEF Reject, Finish, store
<1>9. CASE Save
  <2>1. Accepts(form) /\ Fields = Kept(form)
    <3>1. pieces <= 1 \/ NameOnlyInFront
      BY DEF TypeOK
    <3>2. QED
      BY <1>9, <3>1, FieldsOfBody, KeptAccepts DEF Save
  <2>2. staged = NoConfig
    BY <1>9 DEF Save
  <2>3. CASE Fault("set") /\ Finish /\ UNCHANGED staged
    BY <2>2, <2>3 DEF Finish
  <2>4. CASE staged' = Config(Fields) /\ server' = "commit" /\ UNCHANGED form
    <3>1. Config(Kept(form))' = Config(Kept(form)) /\ Accepts(form)' = Accepts(form)
      BY <2>4
    <3>2. form' \in Form
      BY <1>9, <2>4 DEF Save
    <3>3. QED
      BY <2>1, <2>4, <3>1, <3>2
  <2>5. QED
    BY <1>9, <2>3, <2>4 DEF Save
<1>10. CASE Commit
  BY <1>10 DEF Commit
<1>11. CASE Answer
  BY <1>11 DEF Answer, store
<1>12. CASE Signal
  BY <1>12 DEF Signal, Finish, store
<1>13. CASE UNCHANGED vars
  BY <1>13 DEF vars, store, request, history, BufferInv
<1>14. QED
  BY <1>1, <1>2, <1>3, <1>4, <1>5, <1>6, <1>7, <1>8, <1>9, <1>10, <1>11, <1>12, <1>13
  DEF Next, Main, Handler

\* What is on its way to flash stays right in every run.
LEMMA SavedInvariant ==
  ASSUME MaxPieces = 1 \/ NameOnlyInFront
  PROVE  Spec => [](TypeOK /\ SavedInv)
<1>1. Init => SavedInv
  BY DEF Init, SavedInv
<1>2. TypeOK /\ SavedInv /\ [Next]_vars => SavedInv'
  BY NextSaved
<1>3. QED
  BY <1>1, <1>2, TypeCorrect, PTL DEF Spec

\* A step that changes the flash writes the configuration of the form that is handled.
LEMMA WriteSaved ==
  ASSUME TypeOK, SavedInv, [Next]_vars, nvs' # nvs
  PROVE  form \in Form /\ Accepts(form) /\ nvs' = Config(Kept(form))
<1>1. CASE Boot
  BY <1>1 DEF Boot, store
<1>2. CASE EndWait
  BY <1>2 DEF EndWait, store
<1>3. CASE StopAndRestart
  BY <1>3 DEF StopAndRestart
<1>4. CASE LosePower
  BY <1>4 DEF LosePower, SavedInv
<1>5. ASSUME NEW f \in Form, Submit(f) PROVE FALSE
  BY <1>5 DEF Submit, store
<1>6. ASSUME NEW k \in 1 .. remaining, ReceivePiece(k) PROVE FALSE
  BY <1>6 DEF ReceivePiece, store
<1>7. CASE ReceiveFails
  BY <1>7 DEF ReceiveFails, store
<1>8. CASE Reject
  BY <1>8 DEF Reject, store
<1>9. CASE Save
  BY <1>9 DEF Save
<1>10. CASE Commit
  BY <1>10 DEF Commit, SavedInv
<1>11. CASE Answer
  BY <1>11 DEF Answer, store
<1>12. CASE Signal
  BY <1>12 DEF Signal, store
<1>13. CASE UNCHANGED vars
  BY <1>13 DEF vars, store
<1>14. QED
  BY <1>1, <1>2, <1>3, <1>4, <1>5, <1>6, <1>7, <1>8, <1>9, <1>10, <1>11, <1>12, <1>13
  DEF Next, Main, Handler

\* Whatever is submitted and whenever power is lost, what gets to flash is what the user
\* of that request meant, but for values of one character and keys that are not
\* hexadecimal, if bodies arrive whole; and in however many pieces they arrive, if the
\* name of the first field is only in front (request.c:7-155, webserver.c:127-247).
THEOREM SavedAsSubmittedCorrect ==
  ASSUME MaxPieces = 1 \/ NameOnlyInFront
  PROVE  Spec => SavedAsSubmitted
<1>1. ASSUME TypeOK, SavedInv, [Next]_vars, nvs' # nvs
      PROVE  Accepts(form) /\ Meant(nvs', form)
  <2>1. form \in Form /\ Accepts(form) /\ nvs' = Config(Kept(form))
    BY <1>1, WriteSaved
  <2>2. QED
    BY <2>1, KeptIsMeant
<1>2. TypeOK /\ SavedInv /\ [Next]_vars
        => [nvs' # nvs => Accepts(form) /\ Meant(nvs', form)]_vars
  BY <1>1
<1>3. QED
  BY <1>2, SavedInvariant, PTL DEF Spec, SavedAsSubmitted

\* A form that arrives in more than one piece is never saved: the piece that comes later
\* goes to the start of the buffer (request.c:24).
NeverSavedInPieces == [][server = "reading" /\ server' = "commit" => pieces <= 1]_vars

\* So it is for every form, wherever its body is divided, if the name of the first field
\* is only in front (request.c:7-29).
THEOREM NeverSavedInPiecesCorrect ==
  ASSUME NameOnlyInFront
  PROVE  Spec => NeverSavedInPieces
<1>1. ASSUME TypeOK, SavedInv, [Next]_vars, server = "reading", server' = "commit"
      PROVE  pieces <= 1
  <2>1. Save
    BY <1>1 DEF Next, Main, Handler, Boot, EndWait, StopAndRestart, Reset, LosePower,
      Submit, ReceivePiece, ReceiveFails, Finish, Reject, Commit, Answer, Signal, vars,
      request
  <2>2. QED
    BY <1>1, <2>1, FieldsOfBody DEF Save
<1>2. TypeOK /\ SavedInv /\ [Next]_vars
        => [server = "reading" /\ server' = "commit" => pieces <= 1]_vars
  BY <1>1
<1>3. QED
  BY <1>2, SavedInvariant, PTL DEF Spec, NeverSavedInPieces

\* A form that fulfils the requirements is never turned away if bodies arrive in one
\* piece and nothing fails: the pieces are the only reason that ValidFormIsSaved does
\* not hold (README.md:183-189).
THEOREM ValidFormIsSavedInOnePiece ==
  ASSUME MaxPieces = 1, Faults \cap {"receive", "set", "power"} = {}
  PROVE  Spec => ValidFormIsSaved
<1>1. ASSUME TypeOK, SavedInv, [Next]_vars, server = "reading", server' = "idle"
      PROVE  ~Accepts(form)
  <2>1. Reject
    BY <1>1 DEF Next, Main, Handler, Boot, EndWait, StopAndRestart, Reset, LosePower,
      Submit, ReceivePiece, ReceiveFails, Finish, Save, Commit, Answer, Signal, vars,
      request, Fault
  <2>2. pieces <= 1
    BY <1>1 DEF TypeOK
  <2>3. Fields = Kept(form)
    BY <1>1, <2>1, <2>2, FieldsOfBody DEF Reject
  <2>4. QED
    BY <2>1, <2>3, KeptAccepts DEF Reject
<1>2. TypeOK /\ SavedInv /\ [Next]_vars
        => [server = "reading" /\ server' = "idle" => ~Accepts(form)]_vars
  BY <1>1
<1>3. QED
  BY <1>2, SavedInvariant, PTL DEF Spec, ValidFormIsSaved

=============================================================================
