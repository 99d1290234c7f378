----------------------------- MODULE FormParser -----------------------------
(***************************************************************************)
(* The provisioning form and how the board reads it: webserver_read_post    *)
(* and the part of webserver_update_handler that turns the fields into a    *)
(* configuration.                                                           *)
(*                                                                          *)
(* A body is a sequence of symbols.  A symbol is a character that the code  *)
(* looks for ("=", ":", "nl" for a line break, "nul"), a field's name, or    *)
(* one character of a value; a role's word is two symbols long.  The array   *)
(* sizes of spv_config_t are never exceeded.                                *)
(***************************************************************************)
EXTENDS Naturals, Sequences, FiniteSetsExt

CONSTANT KeyLength     \* CONFIG_WMESH_NETKEY_LENGTH

ASSUME KeyLengthAssumption == KeyLength \in Nat \ {0}

Required == {"meshKey", "nodeName", "nodeType"}
ForGateway == {"wifiSsid", "wifiPassword", "mqttKey"}
Tag == Required \cup ForGateway

NodeWord == <<"no", "de">>
GatewayWord == <<"gate", "way">>

\* What the browser sends: "name=value" lines, in the order of the page
\* (fs/web/index.htm), for the fields of the form f, a function from their names to
\* their values.
Line(f, t) == IF t \in DOMAIN f THEN <<t, "=">> \o f[t] \o <<"nl">> ELSE <<>>

Body(f) ==
  Line(f, "meshKey") \o (Line(f, "nodeName") \o (Line(f, "nodeType") \o
    (Line(f, "wifiSsid") \o (Line(f, "wifiPassword") \o Line(f, "mqttKey")))))

-----------------------------------------------------------------------------
(* webserver_read_post; the buffer b ends with "nul".                       *)

\* The end of the line of position i (strcspn).
LineEnd(b, i) == Min({k \in i .. Len(b) : b[k] \in {"nl", "nul"}})

\* Where a line starts that is read; the symbol "nl" stands for any line breaks.
Starts(b) ==
  {i \in 1 .. Len(b) :
     /\ i = 1 \/ b[i - 1] = "nl"
     /\ \A k \in 1 .. i - 1 : b[k] # "nul"}

\* The lines with what the code looks for: the name, then the first "=" of the line.
NamedLines(b, t) == {i \in Starts(b) \ {Len(b)} : b[i] = t /\ b[i + 1] = "="}

\* Mutant of Content: a value ends at its first "=".
ContentToEquals(b, from, to) ==
  SubSeq(b, from, Min({k \in from .. to : b[k] \in {"=", "nl", "nul"}}) - 1)

\* The value between two positions; one of a single character is taken for empty.
Content(b, from, to) == IF to - from <= 1 THEN <<>> ELSE SubSeq(b, from, to - 1)

\* The fields found, by name: other lines are skipped, and the last line with a name
\* counts.
ReadPost(b) ==
  [t \in {u \in Tag : NamedLines(b, u) # {}} |->
     LET i == Max(NamedLines(b, t)) IN Content(b, i + 2, LineEnd(b, i))]

-----------------------------------------------------------------------------
(* webserver_update_handler.                                                *)

\* Where the tokens between colons start (strtok_r).
Tokens(s) == {k \in 1 .. Len(s) : s[k] # ":" /\ (k = 1 \/ s[k - 1] = ":")}

\* parse_key: one to KeyLength tokens of two characters.
KeyParses(s) ==
  /\ Tokens(s) # {} /\ Cardinality(Tokens(s)) <= KeyLength
  /\ \A k \in Tokens(s) :
       k < Len(s) /\ s[k + 1] # ":" /\ (k + 1 < Len(s) => s[k + 2] = ":")

\* What strtoul takes for a digit of base 16, and for what.
LowerDigits == <<"0", "1", "2", "3", "4", "5", "6", "7",
                 "8", "9", "a", "b", "c", "d", "e", "f">>
UpperDigits == <<"0", "1", "2", "3", "4", "5", "6", "7",
                 "8", "9", "A", "B", "C", "D", "E", "F">>
IsHex(c) == \E d \in 1 .. 16 : c \in {LowerDigits[d], UpperDigits[d]}
HexValue(c) == (CHOOSE d \in 1 .. 16 : c \in {LowerDigits[d], UpperDigits[d]}) - 1

\* The low byte of strtoul of the characters c and d: it skips a blank or a sign, stops
\* at what is no digit, and reports nothing.
ByteOf(c, d) ==
  CASE IsHex(c) /\ IsHex(d) -> 16 * HexValue(c) + HexValue(d)
    [] IsHex(c) /\ ~IsHex(d) -> HexValue(c)
    [] c \in {" ", "tab", "+"} /\ IsHex(d) -> HexValue(d)
    [] c = "-" /\ IsHex(d) -> (256 - HexValue(d)) % 256
    [] OTHER -> 0

\* The array that a key is parsed to, its tokens in the order of the text; what none
\* fills stays zero.
KeyArray(s) ==
  LET starts == Tokens(s)
      Nth(i) == CHOOSE k \in starts : Cardinality({j \in starts : j < k}) = i - 1
  IN [i \in 1 .. KeyLength |->
        IF i <= Cardinality(starts) THEN ByteOf(s[Nth(i)], s[Nth(i) + 1]) ELSE 0]

RoleOf(p) ==
  CASE p["nodeType"] = NodeWord -> "node"
    [] p["nodeType"] = GatewayWord -> "gateway"
    [] OTHER -> "none"

\* Mutant of Accepts: an unknown role is let through.
AcceptsAnyRole(p) ==
  /\ Required \subseteq DOMAIN p
  /\ KeyParses(p["meshKey"])
  /\ RoleOf(p) = "gateway" => ForGateway \subseteq DOMAIN p

Accepts(p) ==
  /\ Required \subseteq DOMAIN p
  /\ KeyParses(p["meshKey"])
  /\ RoleOf(p) \in {"node", "gateway"}
  /\ RoleOf(p) = "gateway" => ForGateway \subseteq DOMAIN p

\* The configuration made of accepted fields.
Config(p) ==
  [role |-> RoleOf(p),
   mesh_key |-> KeyArray(p["meshKey"]),
   name |-> p["nodeName"],
   gateway_config |-> IF RoleOf(p) = "gateway" THEN [t \in ForGateway |-> p[t]] ELSE <<>>]
=============================================================================
